--------------------------- MODULE FeedConnectors ---------------------------
(***************************************************************************)
(* The connectors that fetch a list again and again and keep a set of what *)
(* they have seen of it: RSS, WeCom, DingTalk, Email, GitHub and Feishu;   *)
(* and Notion, which keeps nothing.                                        *)
(***************************************************************************)
EXTENDS Forwarding

(* A page of S in an order and of a choice that is up to the service. *)
AnyPage(S) == {p \in SUBSET S : Cardinality(p) = Min({PageLimit, Cardinality(S)})}

(***************************************************************************)
(* An item that is already in the seen set is skipped; any other is put    *)
(* there first and then sent, in one of two ways.                          *)
(***************************************************************************)
SkipSeen ==
  /\ Head(batch) \in seen
  /\ NotSent /\ UNCHANGED lost
  /\ Continue(Tail(batch))
  /\ Remember(seen)

MarkThenTry ==
  /\ Head(batch) \notin seen
  /\ TrySend(Head(batch))
  /\ Continue(Tail(batch))
  /\ Remember(seen \cup {Head(batch)})

-----------------------------------------------------------------------------
(* RSS *)

(* The feed lists its newest entry first. *)
RssFeed ==
  /\ Answered("rss")
  /\ Continue(Descending(Visible))
  /\ ToldAtEnd
  /\ UNCHANGED <<setup, service, memory, channel, sent, lost>>

(* A closed channel ends the poll after the entry was marked.  The seen    *)
(* set is never cut.                                                       *)
RssForward ==
  /\ Handling("rss")
  /\ LET m == Head(batch)
     IN  \/ /\ m \in seen
            /\ NotSent /\ UNCHANGED <<lost, seen>>
            /\ Continue(Tail(batch))
         \/ /\ m \notin seen
            /\ seen' = seen \cup {m}
            /\ SendWaiting(m)
            /\ Continue(IF open THEN Tail(batch) ELSE <<>>)
  /\ ToldAtEnd
  /\ UNCHANGED <<setup, service, cursor, forgotten, open>>

Rss == Tick("rss") \/ Fails("rss") \/ RssFeed \/ RssForward

-----------------------------------------------------------------------------
(* WeCom *)

(* The messages of the last hour, or none without permission (45028).      *)
WecomMessages ==
  /\ Answered("wecom")
  /\ \E page \in AnyPage(Visible) \cup {{}} : Continue(Ascending(page))
  /\ Told
  /\ UNCHANGED <<setup, service, memory, channel, sent, lost>>

WecomForward ==
  /\ Handling("wecom")
  /\ SkipSeen \/ MarkThenTry
  /\ UNCHANGED <<setup, service, open, owed>>

Wecom == Tick("wecom") \/ Fails("wecom") \/ WecomMessages \/ WecomForward

-----------------------------------------------------------------------------
(* DingTalk: approvals, attendance records and work reports *)

DingtalkPost == Limited("dingtalk") \/ Fails("dingtalk")

(* The first page of a list; an error code of the last two lists counts as *)
(* an empty one.                                                           *)
FirstPage(c) == AnyPage({m \in Visible : Class(m) = c})

Approvals   == FirstPage(1)
Attendance  == FirstPage(2) \cup {{}}
WorkReports == FirstPage(3) \cup {{}}

DingtalkList ==
  /\ Answered("dingtalk")
  /\ \E page \in <<Approvals, Attendance, WorkReports>>[stage] : Continue(Ascending(page))
  /\ ToldAtEnd
  /\ UNCHANGED <<setup, service, memory, channel, sent, lost>>

DingtalkForward ==
  /\ Handling("dingtalk")
  /\ SkipSeen \/ MarkThenTry
  /\ ToldAtEnd
  /\ UNCHANGED <<setup, service, open>>

Dingtalk == Tick("dingtalk") \/ DingtalkPost \/ DingtalkList \/ DingtalkForward

-----------------------------------------------------------------------------
(* Email *)

(* A mail's sequence number: its place in the folder. *)
Number(m) == m - Cardinality({r \in removed : r < m})

(* Another client deletes a mail: the later ones move up. *)
Expunge ==
  /\ kind = "email"
  /\ \E m \in (1 .. posted) \ removed : removed' = removed \cup {m}
  /\ UNCHANGED <<setup, posted, gone, fetch, batch, memory, channel, sent, lost, owed>>

(***************************************************************************)
(* poll_account_sync: of the unread mails up to a page are fetched one by  *)
(* one, and reading the body marks each as read on the server; an error    *)
(* ends the session, and what it has read is dropped.  poll_account skips  *)
(* the mails whose number it has seen.                                     *)
(***************************************************************************)
EmailSession ==
  /\ Answered("email")
  /\ \E page \in AnyPage(Visible) :
       \/ /\ gone' = gone \cup page
          /\ Continue(Ascending({m \in page : Number(m) \notin seen}))
       \/ \E read \in SUBSET page :
            /\ read # page
            /\ gone' = gone \cup read
            /\ Continue(<<>>)
  /\ ToldAtEnd
  /\ UNCHANGED <<setup, posted, removed, memory, channel, sent, lost>>

EmailForward ==
  /\ Handling("email")
  /\ LET m == Head(batch)
     IN  /\ seen' = seen \cup {Number(m)}
         /\ SendWaiting(m)
         /\ Continue(IF open THEN Tail(batch) ELSE <<>>)
  /\ ToldAtEnd
  /\ UNCHANGED <<setup, service, cursor, forgotten, open>>

Email == Tick("email") \/ Fails("email") \/ EmailSession \/ EmailForward

-----------------------------------------------------------------------------
(* GitHub: issues, releases, commits and review comments *)

GithubGet == Limited("github") \/ Fails("github")

GithubPage ==
  /\ Answered("github")
  /\ Continue(Descending(Newest({m \in Visible : Class(m) = stage})))
  /\ ToldAtEnd
  /\ UNCHANGED <<setup, service, memory, channel, sent, lost>>

(* Mutant: an item that finds the channel full is marked all the same. *)
GithubForwardTries ==
  /\ Handling("github")
  /\ LET m == Head(batch)
     IN  /\ Continue(Tail(batch))
         /\ \/ m \in seen \cup ignored /\ NotSent /\ UNCHANGED lost /\ Remember(seen)
            \/ m \notin seen \cup ignored /\ TrySend(m) /\ Remember(seen \cup {m})
  /\ ToldAtEnd
  /\ UNCHANGED <<setup, service, open>>

(* The item is put in its seen set after it was sent.  What the            *)
(* configuration leaves out is not; a closed channel ends this fetch.      *)
GithubForward ==
  /\ Handling("github")
  /\ LET m == Head(batch)
     IN  \/ /\ m \in seen \cup ignored
            /\ NotSent
            /\ Continue(Tail(batch))
            /\ Remember(seen)
         \/ /\ m \notin seen \cup ignored
            /\ Sent(m)
            /\ Continue(Tail(batch))
            /\ Remember(seen \cup {m})
         \/ /\ m \notin seen \cup ignored
            /\ ~open /\ NotSent
            /\ Continue(<<>>)
            /\ Remember(seen)
  /\ ToldAtEnd
  /\ UNCHANGED <<setup, service, open, lost>>

Github == Tick("github") \/ GithubGet \/ GithubPage \/ GithubForward

-----------------------------------------------------------------------------
(* Feishu *)

(* No folder is configured, or an empty name. *)
FeishuNoFolder == ~folder /\ EndsUntold("feishu")

FeishuApiGet == folder /\ (Limited("feishu") \/ Fails("feishu"))

(* Mutant: the breaker hears of a listing that failed only. *)
FeishuListUntold ==
  /\ Answered("feishu") /\ folder
  /\ Continue(Ascending(Visible))
  /\ UNCHANGED <<setup, service, memory, channel, sent, lost, owed>>

(* All pages of the folder's listing. *)
FeishuList ==
  /\ Answered("feishu") /\ folder
  /\ Continue(Ascending(Visible))
  /\ Told
  /\ UNCHANGED <<setup, service, memory, channel, sent, lost>>

(* The document's content is fetched, or not; it is put in the seen set    *)
(* only once it was sent.                                                  *)
FeishuForward ==
  /\ Handling("feishu")
  /\ LET m == Head(batch)
     IN  /\ Continue(Tail(batch))
         /\ \/ m \notin seen /\ Sent(m) /\ Remember(seen \cup {m})
            \/ NotSent /\ Remember(seen)
  /\ UNCHANGED <<setup, service, open, lost, owed>>

Feishu ==
  Tick("feishu") \/ FeishuNoFolder \/ FeishuApiGet \/ FeishuList \/ FeishuForward

-----------------------------------------------------------------------------
(* Notion *)

(* A page of the query is asked for until it is not refused with 429. *)
NotionLimited ==
  /\ Answered("notion")
  /\ pc' = "limited"
  /\ UNCHANGED <<setup, service, stage, attempt, batch, memory, channel, sent, lost, owed>>

(* All pages of the database. *)
NotionQuery ==
  /\ Answered("notion")
  /\ Continue(Ascending(Visible))
  /\ Told
  /\ UNCHANGED <<setup, service, memory, channel, sent, lost>>

(* The page's blocks are fetched, or the page is left to the next poll.    *)
NotionForward ==
  /\ Handling("notion")
  /\ Continue(Tail(batch))
  /\ \/ TrySend(Head(batch))
     \/ NotSent /\ UNCHANGED lost
  /\ UNCHANGED <<setup, service, memory, open, owed>>

Notion == Tick("notion") \/ Fails("notion") \/ NotionLimited \/ NotionQuery \/ NotionForward
=============================================================================
