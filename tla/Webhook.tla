------------------------------ MODULE Webhook ------------------------------
(***************************************************************************)
(* The handler of the webhook connector, run by one task for each request, *)
(* and the limit of requests per client address.  (The router is the       *)
(* library's.)                                                             *)
(***************************************************************************)
EXTENDS Integers, Sequences, FiniteSets

CONSTANTS
  Requests,   \* the requests that may come
  Addresses,  \* client addresses
  Limit,      \* RATE_LIMIT_PER_MINUTE
  Window,     \* RATE_LIMIT_WINDOW_SECS
  Room,       \* capacity of the collector channel
  LastSecond  \* bound: seconds

ASSUME WebhookAssumption == {Limit, Window, Room, LastSecond} \subseteq Nat

VARIABLES
  second,     \* the time
  counters,   \* count and start of the window by address; none is [n: 0, since: -1]
  at,         \* where each request is: "none", "send" or its answer
  queue,      \* the channel
  closed,     \* the pipeline is gone
  passed      \* history: when, and from where, requests passed the limit

webhookVars == <<second, counters, at, queue, closed, passed>>

NoCount == [n |-> 0, since |-> -1]
Seconds == 0 .. LastSecond

WebhookInit ==
  /\ second = 0
  /\ counters = [a \in Addresses |-> NoCount]
  /\ at = [r \in Requests |-> "none"]
  /\ queue = <<>> /\ closed = FALSE
  /\ passed = {}

-----------------------------------------------------------------------------
(* Mutant: counters of earlier seconds are forgotten. *)
CleanedAll == [a \in Addresses |-> IF counters[a].since >= second THEN counters[a] ELSE NoCount]

(* cleanup: counters older than two windows are forgotten. *)
Cleaned ==
  [a \in Addresses |-> IF counters[a].since >= second - 2 * Window THEN counters[a] ELSE NoCount]

(* check_and_record: a window that is over starts anew with this request.  *)
CheckAndRecord(old) ==
  IF old = NoCount THEN [n |-> 1, since |-> second]
  ELSE IF old.since < second - Window THEN [n |-> 1, since |-> second]
  ELSE [old EXCEPT !.n = @ + 1]

(***************************************************************************)
(* The handler up to the send: the limit, then the origin, the signature.  *)
(* A new counter may be over the limit only if the limit is 0.             *)
(***************************************************************************)
Arrives(r, a) ==
  /\ at[r] = "none"
  /\ LET mine == CheckAndRecord(Cleaned[a])
         ok   == mine.n <= Limit
     IN  /\ counters' = [Cleaned EXCEPT ![a] = mine]
         /\ passed' = passed \cup IF ok THEN {[by |-> r, from |-> a, when |-> second]} ELSE {}
         /\ \E answer \in (IF ok THEN {"send", "403", "401"} ELSE {"429"}) :
              at' = [at EXCEPT ![r] = answer]
  /\ UNCHANGED <<second, queue, closed>>

(* The send waits for room; a channel that is closed ends it. *)
Sends(r) ==
  /\ at[r] = "send"
  /\ \/ /\ ~closed /\ Len(queue) < Room
        /\ queue' = Append(queue, r) /\ at' = [at EXCEPT ![r] = "200"]
     \/ /\ closed
        /\ at' = [at EXCEPT ![r] = "503"] /\ UNCHANGED queue
  /\ UNCHANGED <<second, counters, closed, passed>>

(* The client hangs up while the handler waits; the event goes with it. *)
HangsUp(r) ==
  /\ at[r] = "send" /\ at' = [at EXCEPT ![r] = "gone"]
  /\ UNCHANGED <<second, counters, queue, closed, passed>>

QueueTaken ==
  /\ queue # <<>>
  /\ queue' = Tail(queue)
  /\ UNCHANGED <<second, counters, at, closed, passed>>

QueueCloses ==
  /\ ~closed /\ closed' = TRUE
  /\ UNCHANGED <<second, counters, at, queue, passed>>

SecondPasses ==
  /\ second < LastSecond /\ second' = second + 1
  /\ UNCHANGED <<counters, at, queue, closed, passed>>

WebhookNext ==
  \/ \E r \in Requests : Sends(r) \/ HangsUp(r) \/ \E a \in Addresses : Arrives(r, a)
  \/ QueueTaken \/ QueueCloses \/ SecondPasses

WebhookSpec == WebhookInit /\ [][WebhookNext]_webhookVars

-----------------------------------------------------------------------------
WebhookTypeOK ==
  /\ second \in Seconds
  /\ \A a \in Addresses : counters[a] = NoCount
                           \/ (counters[a].n \in Nat \ {0} /\ counters[a].since \in 0 .. second)
  /\ at \in [Requests -> {"none", "send", "200", "503", "429", "403", "401", "gone"}]
  /\ queue \in Seq(Requests) /\ Len(queue) <= Room

(***************************************************************************)
(* The windows are fixed, not sliding; still no address passes more than   *)
(* twice the limit within any window's length, for cleanup forgets no      *)
(* counter that still matters.                                             *)
(***************************************************************************)
PassedIn(a, from, to) == {p \in passed : p.from = a /\ p.when \in from .. to}

TwiceTheLimit ==
  \A a \in Addresses : \A s \in Seconds : Cardinality(PassedIn(a, s, s + Window)) <= 2 * Limit

(***************************************************************************)
(* Why: a counter counts what passed in its window, at most the limit, and *)
(* in the length of a window before that no more than the limit passed     *)
(* either; and none is forgotten that anything passed by within a window.  *)
(***************************************************************************)
CounterCounts(a, c) ==
  IF c = NoCount
    THEN \A p \in passed : p.from = a => p.when < second - Window
    ELSE /\ \A p \in passed : p.from = a => p.when <= c.since + Window
         /\ Cardinality(PassedIn(a, c.since, second)) <= c.n
         /\ Cardinality(PassedIn(a, c.since, second)) <= Limit
         /\ \A s \in Seconds :
              s >= c.since - Window => Cardinality(PassedIn(a, s, c.since - 1)) <= Limit

WebhookInv ==
  /\ WebhookTypeOK
  /\ counters \in [Addresses -> [n : Nat, since : Int]]
  /\ IsFiniteSet(passed) /\ passed \subseteq [by : Requests, from : Addresses, when : 0 .. second]
  /\ \A a \in Addresses : CounterCounts(a, counters[a])
  /\ TwiceTheLimit
=============================================================================
