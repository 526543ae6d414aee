----------------------------- MODULE Forwarding -----------------------------
(***************************************************************************)
(* What the polling connectors of src/src/connector/ have in common: a     *)
(* service that gets new items, a request for them, a batch of items that  *)
(* is forwarded one by one into the channel of raw events, and what the    *)
(* connector keeps to know which items it has had: a cursor or a set of    *)
(* seen items.  One connector runs, its kind is chosen at the start: the   *)
(* connectors share nothing but the channel, where other producers and the *)
(* pipeline take and free places at any time.                              *)
(*                                                                         *)
(* Items are numbered in the order in which the service got them; ids and  *)
(* timestamps of items are taken to be distinct and to grow.  A poll the   *)
(* circuit breaker refuses changes nothing here (PollLoop has the breaker).*)
(***************************************************************************)
EXTENDS Integers, Sequences, SequencesExt, FiniteSetsExt

CONSTANTS
  Kinds,        \* the connectors to choose from
  MaxItem,      \* bound: items the service gets
  Ignorable,    \* sets of items a filter may skip: bots, edits, ...
  ReplyTo,      \* [Item -> {0} \cup Item]: the thread a message is in
  ClassOf,      \* [Item -> Nat]: which fetch of a poll returns an item
  PageLimit,    \* items a request returns at most
  SeenLimit,    \* a seen set larger than this is cut
  SeenKept,     \*   down to this
  MaxAttempts,  \* of retry_async
  RawRoom       \* capacity of the raw channel

Item == 1 .. MaxItem

ASSUME ForwardingAssumption ==
  /\ MaxItem \in Nat
  /\ Ignorable \subseteq SUBSET Item
  /\ ReplyTo \in [Item -> 0 .. MaxItem]
  /\ ClassOf \in [Item -> Nat]
  /\ {PageLimit, MaxAttempts, RawRoom} \subseteq Nat \ {0}
  /\ {SeenLimit, SeenKept} \subseteq Nat /\ SeenKept <= SeenLimit

VARIABLES
  kind,       \* the connector
  ignored,    \* the items its filters skip
  folder,     \* Feishu: a folder is configured
  posted,     \* number of items the service has got
  gone,       \* items it returns no more: too old, or read
  removed,    \* items a user deleted
  pc,         \* "idle", "request", "limited" (told to wait), "forward"
  stage,      \* which fetch of the poll
  attempt,    \* how often the request was made
  batch,      \* fetched items still to be handled
  cursor,     \* the last item fetched, for connectors with a cursor
  seen,       \* items fetched before, for connectors with a seen set
  room, open, \* free places of the raw channel, and whether it is open
  sent,       \* history: how often an item was forwarded (2: or more)
  lost,       \* history: items given up for a full or closed channel, left
              \*   out by the limit of a page, or answered after a 429 (Telegram)
  forgotten,  \* history: items cut from the seen set
  owed        \* a poll was let through and the breaker not told its end

service == <<posted, gone, removed>>
fetch   == <<pc, stage, attempt>>
memory  == <<cursor, seen, forgotten>>
channel == <<room, open>>
setup   == <<kind, ignored, folder>>
vars    == <<setup, service, fetch, batch, memory, channel, sent, lost, owed>>

ForwardInit ==
  /\ kind \in Kinds /\ ignored \in Ignorable
  /\ folder \in IF kind = "feishu" THEN BOOLEAN ELSE {TRUE}
  /\ posted = 0 /\ gone = {} /\ removed = {}
  /\ pc = "idle" /\ stage = 0 /\ attempt = 0
  /\ batch = <<>> /\ cursor = 0 /\ seen = {} /\ forgotten = {}
  /\ room = RawRoom /\ open = TRUE
  /\ sent = [m \in Item |-> 0] /\ lost = {}
  /\ owed = FALSE

-----------------------------------------------------------------------------
(* The service. *)

Visible  == (1 .. posted) \ (gone \cup removed)
After(c) == {m \in Visible : m > c}

(* The pages an answer can consist of, in ascending order. *)
Newest(S) == {m \in S : Cardinality({n \in S : n > m}) < PageLimit}
Oldest(S) == {m \in S : Cardinality({n \in S : n < m}) < PageLimit}

(* (Not SetToSortSeq, whose sorting permutation no lemma can be had of.)   *)
Ascending(S) ==
  CHOOSE s \in [1 .. Cardinality(S) -> S] : \A i, j \in DOMAIN s : i < j => s[i] < s[j]
Descending(S) ==
  CHOOSE s \in [1 .. Cardinality(S) -> S] : \A i, j \in DOMAIN s : i < j => s[i] > s[j]

Post ==
  /\ posted < MaxItem
  /\ posted' = posted + 1
  /\ UNCHANGED <<setup, gone, removed, fetch, batch, memory, channel, sent, lost, owed>>

(* The oldest entry leaves the feed.  (The hours or days that WeCom and    *)
(* DingTalk are asked for are taken to last longer than the run.)          *)
Expire ==
  /\ kind = "rss"
  /\ Visible # {}
  /\ gone' = gone \cup {Min(Visible)}
  /\ UNCHANGED <<setup, posted, removed, fetch, batch, memory, channel, sent, lost, owed>>

-----------------------------------------------------------------------------
(* The raw channel. *)

OthersSend ==
  /\ room > 0
  /\ room' = room - 1
  /\ UNCHANGED <<setup, service, fetch, batch, memory, open, sent, lost, owed>>

PipelineTakes ==
  /\ open /\ room < RawRoom
  /\ room' = room + 1
  /\ UNCHANGED <<setup, service, fetch, batch, memory, open, sent, lost, owed>>

(* run_pipeline returned: its receiver is dropped. *)
PipelineEnds ==
  /\ open
  /\ open' = FALSE
  /\ UNCHANGED <<setup, service, fetch, batch, memory, room, sent, lost, owed>>

Sent(m) ==
  /\ open /\ room > 0
  /\ room' = room - 1
  /\ sent' = [sent EXCEPT ![m] = IF @ < 2 THEN @ + 1 ELSE @]

NotSent == UNCHANGED <<room, sent>>

(* try_send(m), the event given up when it fails; send(m).await likewise,  *)
(* except that it waits while the channel is full.                         *)
TrySend(m) ==
  \/ Sent(m) /\ UNCHANGED lost
  \/ (~open \/ room = 0) /\ NotSent /\ lost' = lost \cup {m}

SendWaiting(m) ==
  \/ Sent(m) /\ UNCHANGED lost
  \/ ~open /\ NotSent /\ lost' = lost \cup {m}

-----------------------------------------------------------------------------
(* The course of a poll. *)

Fetches(k) == CASE k = "github" -> 4 [] k = "dingtalk" -> 3 [] OTHER -> 1

Class(m) == IF Fetches(kind) = 1 THEN 1 ELSE ClassOf[m]

(* The poll tick, once the breaker lets the poll through. *)
Tick(k) ==
  /\ kind = k /\ pc = "idle"
  /\ pc' = "request" /\ stage' = 1 /\ attempt' = 1
  /\ owed' = TRUE
  /\ UNCHANGED <<setup, service, batch, memory, channel, sent, lost>>

(* Mutant: one fetch too many. *)
NextFetchOver ==
  IF stage <= Fetches(kind)
    THEN pc' = "request" /\ stage' = stage + 1 /\ attempt' = 1
    ELSE pc' = "idle" /\ stage' = 0 /\ attempt' = 0

(* On to the next fetch of the poll, or to its end. *)
NextFetch ==
  IF stage < Fetches(kind)
    THEN pc' = "request" /\ stage' = stage + 1 /\ attempt' = 1
    ELSE pc' = "idle" /\ stage' = 0 /\ attempt' = 0

(* What is left of the batch is b. *)
Continue(b) ==
  /\ batch' = b
  /\ IF b = <<>> THEN NextFetch
                 ELSE pc' = "forward" /\ UNCHANGED <<stage, attempt>>

Answered(k)  == kind = k /\ pc \in {"request", "limited"}
Handling(k)  == kind = k /\ pc = "forward"

(* The breaker is told: now, at the end of the poll, or not in this step.  *)
Told      == owed' = FALSE
ToldAtEnd == owed' = (owed /\ pc' # "idle")

(* A request failed for good: nothing of it was forwarded. *)
GiveUp ==
  /\ Continue(<<>>)
  /\ ToldAtEnd
  /\ UNCHANGED <<setup, service, memory, channel, sent, lost>>

Fails(k) == Answered(k) /\ GiveUp

(* The poll ends before anything was fetched, and the breaker is not told. *)
EndsUntold(k) ==
  /\ kind = k /\ pc = "request"
  /\ Continue(<<>>)
  /\ UNCHANGED <<setup, service, memory, channel, sent, lost, owed>>

(* 429, or 403 of GitHub: wait as told, then ask once more. *)
Limited(k) ==
  /\ kind = k /\ pc = "request"
  /\ pc' = "limited"
  /\ UNCHANGED <<setup, service, stage, attempt, batch, memory, channel, sent, lost, owed>>

(* retry_async runs its body again. *)
Again ==
  /\ attempt < MaxAttempts
  /\ pc' = "request" /\ attempt' = attempt + 1
  /\ UNCHANGED <<setup, service, stage, batch, memory, channel, sent, lost, owed>>

(* The cuts of a seen set: which items are dropped is up to its hash order. *)
Cuts(S) ==
  {T \in SUBSET S :
     \A c \in {Class(m) : m \in S} :
       LET Of(U) == {m \in U : Class(m) = c}
       IN  IF Cardinality(Of(S)) > SeenLimit THEN Cardinality(Of(T)) = SeenKept
                                             ELSE Of(T) = Of(S)}

(* The seen set becomes S, cut when the fetch is through. *)
Remember(S) ==
  /\ seen' \in IF pc' = "forward" THEN {S} ELSE Cuts(S)
  /\ forgotten' = forgotten \cup (S \ seen')
  /\ UNCHANGED cursor
=============================================================================
