--------------------------- MODULE ChatConnectors ---------------------------
(***************************************************************************)
(* The connectors that follow the messages of a chat with a cursor: Slack, *)
(* Telegram, Discord and, as far as it gets, Teams.  One channel of the chat is modelled; the  *)
(* cursors of channels are independent.                                    *)
(***************************************************************************)
EXTENDS Forwarding

(* Only Slack keeps the replies of a thread apart. *)
IsReply(m) == kind = "slack" /\ ReplyTo[m] # 0
Top(S) == {m \in S : ~IsReply(m)}

-----------------------------------------------------------------------------
(* Slack *)

(***************************************************************************)
(* slack_api_get fails with a transport error, with an HTTP error, or when *)
(* the second request after a 429 fails.  It is called with `?' inside the *)
(* block of retry_async, so that its error leaves poll_channel at once.    *)
(***************************************************************************)
SlackApiGet == Limited("slack") \/ Fails("slack")

(* An answer that is no JSON is the only failure retry_async sees. *)
SlackGarbled ==
  /\ Answered("slack")
  /\ Again \/ (attempt = MaxAttempts /\ GiveUp)

(* Mutant: the cursor moves to the first message of the page. *)
SlackHistoryFirst ==
  /\ Answered("slack")
  /\ LET new  == Top(After(cursor))
         page == Newest(new)
     IN  /\ Continue(Ascending(page))
         /\ cursor' = IF page = {} THEN cursor ELSE Min(page)
         /\ lost' = lost \cup (new \ page)
  /\ ToldAtEnd
  /\ UNCHANGED <<setup, service, seen, forgotten, channel, sent>>

(***************************************************************************)
(* conversations.history: the newest messages since the cursor; the cursor *)
(* moves before any of them is forwarded.                                  *)
(***************************************************************************)
SlackHistory ==
  /\ Answered("slack")
  /\ LET new  == Top(After(cursor))
         page == Newest(new)
     IN  /\ Continue(Ascending(page))
         /\ cursor' = IF page = {} THEN cursor ELSE Max(page)
         /\ lost' = lost \cup (new \ page)
  /\ ToldAtEnd
  /\ UNCHANGED <<setup, service, seen, forgotten, channel, sent>>

(* conversations.replies: the thread as it is now, or an error. *)
Thread(m) ==
  {<<>>, Ascending(Oldest({r \in Visible : ReplyTo[r] = m}))}

(* Mutant: a bot message ends the page. *)
SlackForwardBreaks ==
  /\ Handling("slack")
  /\ LET m == Head(batch)
     IN  \/ /\ m \in ignored
            /\ NotSent /\ UNCHANGED lost
            /\ Continue(<<>>)
         \/ /\ m \notin ignored
            /\ TrySend(m)
            /\ Continue(Tail(batch))
  /\ ToldAtEnd
  /\ UNCHANGED <<setup, service, memory, open>>

(***************************************************************************)
(* A message of the page: bot messages are skipped with their thread; a    *)
(* closed channel ends the poll with an error, and the rest of the page is *)
(* lost.  A reply is tried, whatever comes of it.                          *)
(***************************************************************************)
SlackForward ==
  /\ Handling("slack")
  /\ LET m == Head(batch)
     IN  \/ /\ m \in ignored
            /\ NotSent /\ UNCHANGED lost
            /\ Continue(Tail(batch))
         \/ /\ m \notin ignored /\ (IsReply(m) \/ open)
            /\ TrySend(m)
            /\ \E t \in IF IsReply(m) THEN {<<>>} ELSE Thread(m) :
                 Continue(t \o Tail(batch))
         \/ /\ m \notin ignored /\ ~IsReply(m) /\ ~open
            /\ NotSent /\ lost' = lost \cup ToSet(batch)
            /\ Continue(<<>>)
  /\ ToldAtEnd
  /\ UNCHANGED <<setup, service, memory, open>>

Slack == Tick("slack") \/ SlackApiGet \/ SlackGarbled \/ SlackHistory \/ SlackForward

-----------------------------------------------------------------------------
(* Telegram *)

TelegramFails == Limited("telegram") \/ Fails("telegram")

(***************************************************************************)
(* The answer to the second getUpdates, after a 429: the offset moves past *)
(* the updates, and poll_updates returns without having forwarded them.    *)
(***************************************************************************)
TelegramAfterLimit ==
  /\ kind = "telegram" /\ pc = "limited"
  /\ LET page == Oldest(After(cursor))
     IN  /\ cursor' = IF page = {} THEN cursor ELSE Max(page)
         /\ lost' = lost \cup page
  /\ Continue(<<>>)
  /\ ToldAtEnd
  /\ UNCHANGED <<setup, service, seen, forgotten, channel, sent>>

(* getUpdates returns the oldest updates from the offset on. *)
TelegramUpdates ==
  /\ kind = "telegram" /\ pc = "request"
  /\ Continue(Ascending(Oldest(After(cursor))))
  /\ ToldAtEnd
  /\ UNCHANGED <<setup, service, memory, channel, sent, lost>>

(***************************************************************************)
(* An update: max_offset moves past it; edits that are not wanted, other   *)
(* chats and unknown updates are skipped; a closed channel ends the poll,  *)
(* with the offset reached.  (max_offset becomes the offset at the end of  *)
(* the poll; no failure can come in between.)                              *)
(***************************************************************************)
TelegramForward ==
  /\ Handling("telegram")
  /\ LET m == Head(batch)
     IN  /\ cursor' = m
         /\ \/ m \in ignored /\ NotSent /\ UNCHANGED lost
            \/ m \notin ignored /\ SendWaiting(m)
         /\ Continue(IF m \in ignored \/ open THEN Tail(batch) ELSE <<>>)
  /\ ToldAtEnd
  /\ UNCHANGED <<setup, service, seen, forgotten, open>>

Telegram ==
  Tick("telegram") \/ TelegramFails \/ TelegramAfterLimit \/ TelegramUpdates
    \/ TelegramForward

-----------------------------------------------------------------------------
(* Discord and Teams: the result of send is only logged, and last_seen     *)
(* moves to the last message of the page, if that one is dated, when all   *)
(* are through.  System, bot and empty messages are skipped.               *)
SendThenMove(k, dated) ==
  /\ Handling(k)
  /\ LET m == Head(batch)
     IN  /\ \/ m \in ignored /\ NotSent /\ UNCHANGED lost
            \/ m \notin ignored /\ SendWaiting(m)
         /\ cursor' = IF Tail(batch) = <<>> /\ m \in dated THEN m ELSE cursor
         /\ Continue(Tail(batch))
  /\ ToldAtEnd
  /\ UNCHANGED <<setup, service, seen, forgotten, open>>

(* Mutant: the page is handled as it came, newest first. *)
MessagePageAsIs(page, new) ==
  /\ Answered("discord")
  /\ Continue(Descending(page))
  /\ lost' = lost \cup {m \in new \ page : \E n \in page : m < n}
  /\ UNCHANGED <<setup, service, memory, channel, sent, owed>>

(***************************************************************************)
(* An answer of at most a page of the messages after the cursor, in the    *)
(* order of their age.  An empty one is not recorded.  Messages before the *)
(* page are never asked for again.                                         *)
(***************************************************************************)
MessagePage(page, new) ==
  /\ Answered("discord")
  /\ Continue(Ascending(page))
  /\ lost' = lost \cup {m \in new \ page : \E n \in page : m < n}
  /\ UNCHANGED <<setup, service, memory, channel, sent, owed>>

(* The service may return the newest or the oldest messages after the id.  *)
DiscordMessages ==
  LET new == After(cursor)
  IN  \E page \in {Newest(new), Oldest(new)} : MessagePage(page, new)

DiscordForward == SendThenMove("discord", Item)

Discord == Tick("discord") \/ Fails("discord") \/ DiscordMessages \/ DiscordForward

(***************************************************************************)
(* The messages whose time of creation ChatMessage has.  Graph's name for  *)
(* it is createdDateTime, by which fetch_messages filters; the field is    *)
(* created_date_time, and no serde attribute renames it: it is None.       *)
(***************************************************************************)
Dated == {}

(***************************************************************************)
(* The newest messages, newest first.  They are sorted by their time;      *)
(* where there is none the sort, which is stable, leaves them as they came.*)
(* An empty answer is not recorded.                                        *)
(***************************************************************************)
TeamsMessages ==
  /\ Answered("teams")
  /\ LET new  == After(cursor)
         page == Newest(new)
     IN  /\ Continue(Descending(page \ Dated) \o Ascending(page \cap Dated))
         /\ lost' = lost \cup {m \in new \ page : sent[m] = 0}
  /\ UNCHANGED <<setup, service, memory, channel, sent, owed>>

(* fetch_channels failed: the team is left out, and nothing is recorded.   *)
TeamsNoChannels == EndsUntold("teams")

TeamsForward == SendThenMove("teams", Dated)

Teams ==
  Tick("teams") \/ Fails("teams") \/ TeamsNoChannels \/ TeamsMessages \/ TeamsForward
=============================================================================
