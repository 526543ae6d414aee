----------------------------- MODULE Connectors -----------------------------
(***************************************************************************)
(* Every polling connector, and what may be expected of all or some of     *)
(* them.                                                                   *)
(***************************************************************************)
EXTENDS ChatConnectors, FeedConnectors

(* Those whose cursor moves; the cursor of Teams does not. *)
ChatKinds == {"slack", "telegram", "discord"}
SeenKinds == {"rss", "wecom", "dingtalk", "feishu", "github"}

ASSUME ConnectorAssumption ==
  Kinds \subseteq ChatKinds \cup SeenKinds \cup {"email", "notion", "teams"}

Connector ==
  \/ Slack \/ Telegram \/ Discord \/ Teams
  \/ Rss \/ Wecom \/ Dingtalk \/ Email \/ Github \/ Feishu \/ Notion

Next ==
  \/ Post \/ Expire \/ Expunge
  \/ OthersSend \/ PipelineTakes \/ PipelineEnds
  \/ Connector

Spec == ForwardInit /\ [][Next]_vars

(***************************************************************************)
(* The poll timer ticks, of the requests that GitHub is sent again and     *)
(* again one succeeds, and a send that waits while there is room again and *)
(* again gets through.                                                     *)
(***************************************************************************)
FairSpec ==
  /\ Spec
  /\ WF_vars(\E k \in Kinds : Tick(k))
  /\ \A s \in 1 .. Fetches("github") : SF_vars(GithubPage /\ stage = s)
  /\ SF_vars(GithubForward)
  /\ WF_vars(PipelineTakes)
-----------------------------------------------------------------------------
TypeOK ==
  /\ kind \in Kinds /\ ignored \in Ignorable /\ folder \in BOOLEAN
  /\ posted \in 0 .. MaxItem
  /\ gone \subseteq 1 .. posted /\ removed \subseteq 1 .. posted
  /\ pc \in {"idle", "request", "limited", "forward"}
  /\ stage \in 0 .. Fetches(kind) /\ attempt \in 0 .. MaxAttempts
  /\ stage = 0 <=> pc = "idle"
  /\ batch \in Seq(1 .. posted) /\ (batch # <<>> <=> pc = "forward")
  /\ cursor \in 0 .. posted
  /\ seen \subseteq 1 .. posted /\ forgotten \subseteq 1 .. posted
  /\ room \in 0 .. RawRoom /\ open \in BOOLEAN
  /\ sent \in [Item -> 0 .. 2] /\ lost \subseteq 1 .. posted
  /\ owed \in BOOLEAN

(***************************************************************************)
(* No connector forwards an item twice, unless its seen set was cut and    *)
(* had forgotten it: neither a message that comes while a page is being    *)
(* forwarded, nor a second page, nor a request repeated after a 429 makes  *)
(* a duplicate.  (Notion sends every page at every poll, and Teams,        *)
(* whose cursor never moves, its newest messages.)                         *)
(***************************************************************************)
NoDuplicates ==
  \A m \in Item : sent[m] > 1 => m \in forgotten \/ kind \in {"notion", "teams"}

(***************************************************************************)
(* What a connector will not look at again was forwarded, is about to be,  *)
(* is filtered, or was given up in one of the known ways: a full or closed *)
(* channel, a page smaller than the news, Telegram's answer after a 429.   *)
(* (Email falls short of this: a mail read in a session that fails is not  *)
(* unread any more.  A Slack reply is looked at with its thread only.      *)
(* Teams and Notion have nothing behind them.)                             *)
(***************************************************************************)
Settled(m) == sent[m] > 0 \/ m \in ToSet(batch) \cup ignored \cup lost

Past(m) ==
  \/ kind \in ChatKinds /\ m <= cursor /\ ~IsReply(m)
  \/ kind \in SeenKinds /\ m \in seen

NothingElseLost == \A m \in 1 .. posted : Past(m) => Settled(m)

(***************************************************************************)
(* What Slack, Telegram and Discord bring arrives in its order: no message *)
(* follows a later one (replies come with their thread).                   *)
(***************************************************************************)
OrderKept ==
  [][\A m \in Item :
       kind \in ChatKinds /\ sent'[m] > sent[m] /\ ~IsReply(m)
         => \A n \in Item : sent[n] > 0 /\ ~IsReply(n) => n < m]_vars

(***************************************************************************)
(* A poll that the breaker let through does not end without telling it,    *)
(* whichever of its steps failed or found nothing; a Half-Open circuit     *)
(* would not hear of its probe.  The polls that do end so have forwarded   *)
(* nothing: Discord and Teams without news or without channels, and Feishu *)
(* without a folder.                                                       *)
(***************************************************************************)
MayEndUntold == kind \in {"discord", "teams"} \/ (kind = "feishu" /\ ~folder)

PollsReport ==
  [][pc # "idle" /\ pc' = "idle" /\ owed' => MayEndUntold /\ pc # "forward"]_vars

(***************************************************************************)
(* Why all this holds.  In a chat the batch is in order and beyond what    *)
(* was sent, which the cursor has passed (Discord's when the page is       *)
(* through), and up to the end of a page nothing is left out unnoticed.  A *)
(* reply comes once, with its thread, whose first message comes once.  A   *)
(* mail that was sent, or is about to be, is read.  A sent item was put in *)
(* the seen set, and nothing is there that is only in the batch.  WeCom,   *)
(* Feishu and Notion tell the breaker before they forward anything.        *)
(***************************************************************************)
Tops == {m \in Item : ~IsReply(m)}

Ascends(s, T) ==
  \A i, j \in DOMAIN s : i < j /\ s[i] \in T /\ s[j] \in T => s[i] < s[j]

SentOnce == \A m \in Item : sent[m] <= 1

ChatInOrder ==
  /\ gone = {} /\ removed = {}
  /\ Ascends(batch, Tops)
  /\ \A n \in Tops : sent[n] > 0 =>
       /\ \A b \in ToSet(batch) \cap Tops : n < b
       /\ n <= cursor \/ (kind = "discord" /\ batch # <<>>)
  /\ \A b \in ToSet(batch) \cap Tops :
       IF kind = "slack" THEN b <= cursor ELSE cursor < b

PageCovered ==
  kind # "slack" => \A b \in ToSet(batch) : \A n \in 1 .. b : Settled(n)

ThreadsOnce ==
  kind = "slack" =>
    /\ IsInjective(batch)
    /\ \A r \in Item \ Tops :
         /\ r \in ToSet(batch) => sent[r] = 0
         /\ sent[r] > 0 \/ r \in ToSet(batch) =>
              ReplyTo[r] \in Tops \ ToSet(batch) /\ ReplyTo[r] <= cursor

CursorSettled == \A m \in Tops : m <= cursor => Settled(m)

ChatInv == SentOnce /\ ChatInOrder /\ PageCovered /\ ThreadsOnce /\ CursorSettled

MailsRead ==
  /\ SentOnce
  /\ IsInjective(batch)
  /\ \A b \in ToSet(batch) : sent[b] = 0 /\ b \in gone
  /\ \A m \in Item : sent[m] > 0 => m \in gone

SentIsSeen ==
  /\ \A m \in Item : sent[m] > 0 => m \in seen \cup forgotten
  /\ \A m \in Item : sent[m] > 1 => m \in forgotten
  /\ \A m \in seen : sent[m] > 0 \/ m \in ignored \cup lost

ToldBefore ==
  kind \in {"wecom", "feishu", "notion"} /\ pc = "forward" => ~owed

ConnectorInv ==
  /\ TypeOK /\ ToldBefore
  /\ kind \in ChatKinds => ChatInv
  /\ kind = "email" => MailsRead
  /\ kind \in SeenKinds => SentIsSeen

(***************************************************************************)
(* What stays in the first page of its list GitHub forwards in the end,    *)
(* however often a request fails, as long as the pipeline runs.            *)
(***************************************************************************)
EventuallyForwarded ==
  \A m \in Item :
    (kind = "github" /\ m <= posted /\ m \notin ignored)
      ~> (sent[m] > 0 \/ ~open \/ m \notin Newest({n \in Visible : Class(n) = Class(m)}))
=============================================================================
