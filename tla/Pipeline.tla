------------------------------ MODULE Pipeline ------------------------------
(***************************************************************************)
(* The processor pipeline (src/src/processor/mod.rs) between the channel   *)
(* of raw events, filled by every collector and connector, and the channel *)
(* of processed events, emptied by the sync engine (the sink here), with   *)
(* its deduplicator (processor/dedup.rs).                                  *)
(*                                                                         *)
(* Of an event the pipeline's verdict reads its source and its payload, a  *)
(* sequence of blocks.  Classification, enrichment and sense tagging only  *)
(* add tags, normalisation of tags, type and timestamp changes neither.    *)
(***************************************************************************)
EXTENDS Integers, Sequences

CONSTANTS
  Event,
  Source,
  NoSource,      \* the empty source
  Unknown,       \* the source that replaces it
  Block,
  SourceOf,      \* [Event -> Source \cup {NoSource}]
  PayloadOf,     \* [Event -> Seq(Block)]
  MaxEventSize,  \* processor.max_event_size, in blocks
  SampleSize,    \* what the dedup key reads of a payload (4 KB), in blocks
  Window,        \* processor.dedup_window_secs, in clock steps
  RawCap, OutCap,
  SinkMayEnd     \* the sync engine task may end

ASSUME PipelineAssumption ==
  /\ Unknown \in Source /\ NoSource \notin Source
  /\ SourceOf \in [Event -> Source \cup {NoSource}]
  /\ PayloadOf \in [Event -> Seq(Block)]
  /\ {MaxEventSize, SampleSize, Window} \subseteq Nat
  /\ {RawCap, OutCap} \subseteq Nat \ {0}
  /\ SinkMayEnd \in BOOLEAN

VARIABLES
  raw,        \* channel of raw events
  running,    \* the pipeline task; FALSE once its loop was left
  hand,       \* the event the pipeline waits to send: none or one
  seen,       \* Deduplicator::seen, with the time since each entry
  out,        \* channel of processed events
  sink,       \* the receiving end of out: "open" or "gone"
  lastPassed  \* history, per content: time since it passed the dedup check

vars == <<raw, running, hand, seen, out, sink, lastPassed>>

-----------------------------------------------------------------------------
(* The steps before the dedup check. *)

Prefix(p, n) == IF Len(p) > n THEN SubSeq(p, 1, n) ELSE p

(* normalize_event: an empty source becomes "unknown". *)
SourceName(e) == IF SourceOf[e] = NoSource THEN Unknown ELSE SourceOf[e]

(***************************************************************************)
(* The size check: over twice the limit an event is dropped, over the      *)
(* limit its payload is cut.                                               *)
(***************************************************************************)
Oversized(e) == Len(PayloadOf[e]) > 2 * MaxEventSize

Content(e) == <<SourceName(e), Prefix(PayloadOf[e], MaxEventSize)>>

(***************************************************************************)
(* dedup_key: the source and the first 4 KB of the payload (the 64-bit     *)
(* hash of them is taken to be without collisions).                        *)
(***************************************************************************)
Key(c) == <<c[1], Prefix(c[2], SampleSize)>>

Contents == {Content(e) : e \in Event}
Keys     == {Key(c) : c \in Contents}

(* Ages are counted up to the first that is out of the window. *)
Old == Window + 1
Older(age) == IF age > Window THEN age ELSE age + 1

-----------------------------------------------------------------------------
Init ==
  /\ raw = <<>> /\ running = TRUE /\ hand = <<>>
  /\ seen = <<>>
  /\ out = <<>> /\ sink = "open"
  /\ lastPassed = [c \in Contents |-> Old]

(***************************************************************************)
(* A producer's event enters the raw channel.  On a full channel send      *)
(* waits and try_send gives the event up: neither changes anything here.   *)
(***************************************************************************)
Produce(e) ==
  /\ running
  /\ Len(raw) < RawCap
  /\ raw' = Append(raw, e)
  /\ UNCHANGED <<running, hand, seen, out, sink, lastPassed>>

(* Mutant: an entry of exactly the window's age is evicted. *)
EvictedEarly(s) ==
  {SubSeq(s, k + 1, Len(s)) : k \in
     {n \in 0 .. Len(s) : /\ \A i \in 1 .. n : s[i].age >= Window
                          /\ n < Len(s) => s[n + 1].age < Window}}

(***************************************************************************)
(* is_duplicate first evicts expired entries, from the front and up to the *)
(* first that is not expired.                                              *)
(***************************************************************************)
Evicted(s) ==
  {SubSeq(s, k + 1, Len(s)) : k \in
     {n \in 0 .. Len(s) : /\ \A i \in 1 .. n : s[i].age > Window
                          /\ n < Len(s) => s[n + 1].age <= Window}}

Recorded(s, k) == \E i \in DOMAIN s : s[i].key = k

(***************************************************************************)
(* One turn of run_pipeline up to the output send: an oversized event and  *)
(* a duplicate are dropped, any other is recorded and goes to the send.    *)
(***************************************************************************)
Process ==
  /\ running /\ hand = <<>>
  /\ raw # <<>>
  /\ raw' = Tail(raw)
  /\ LET e == Head(raw)
         k == Key(Content(e))
     IN  \/ /\ Oversized(e)
            /\ UNCHANGED <<hand, seen, lastPassed>>
         \/ /\ ~Oversized(e)
            /\ \E s \in Evicted(seen) :
                 \/ /\ Recorded(s, k)
                    /\ seen' = s
                    /\ UNCHANGED <<hand, lastPassed>>
                 \/ /\ ~Recorded(s, k)
                    /\ seen' = Append(s, [key |-> k, age |-> 0])
                    /\ hand' = <<e>>
                    /\ lastPassed' = [lastPassed EXCEPT ![Content(e)] = 0]
  /\ UNCHANGED <<running, out, sink>>

(* Mutant: an event that finds the channel full is dropped. *)
ForwardTry ==
  /\ hand # <<>>
  /\ hand' = <<>>
  /\ \/ /\ sink = "open"
        /\ out' = IF Len(out) < OutCap THEN out \o hand ELSE out
        /\ UNCHANGED <<raw, running>>
     \/ /\ sink = "gone"
        /\ running' = FALSE
        /\ raw' = <<>>
        /\ UNCHANGED out
  /\ UNCHANGED <<seen, sink, lastPassed>>

(* Mutant: the last place of the channel is never used. *)
ForwardShort ==
  /\ hand # <<>>
  /\ hand' = <<>>
  /\ \/ /\ sink = "open" /\ Len(out) + 1 < OutCap
        /\ out' = out \o hand
        /\ UNCHANGED <<raw, running>>
     \/ /\ sink = "gone"
        /\ running' = FALSE
        /\ raw' = <<>>
        /\ UNCHANGED out
  /\ UNCHANGED <<seen, sink, lastPassed>>

(* Mutant: the channel takes one event more than its capacity. *)
ForwardOver ==
  /\ hand # <<>>
  /\ hand' = <<>>
  /\ \/ /\ sink = "open" /\ Len(out) <= OutCap
        /\ out' = out \o hand
        /\ UNCHANGED <<raw, running>>
     \/ /\ sink = "gone"
        /\ running' = FALSE
        /\ raw' = <<>>
        /\ UNCHANGED out
  /\ UNCHANGED <<seen, sink, lastPassed>>

(***************************************************************************)
(* output.send(event).await: waits while the channel is full; when nobody  *)
(* receives any more the loop is left, and what waits in raw is lost.      *)
(***************************************************************************)
Forward ==
  /\ hand # <<>>
  /\ hand' = <<>>
  /\ \/ /\ sink = "open" /\ Len(out) < OutCap
        /\ out' = out \o hand
        /\ UNCHANGED <<raw, running>>
     \/ /\ sink = "gone"
        /\ running' = FALSE
        /\ raw' = <<>>
        /\ UNCHANGED out
  /\ UNCHANGED <<seen, sink, lastPassed>>

(* The sync engine receives an event, at its own pace. *)
Take ==
  /\ sink = "open" /\ out # <<>>
  /\ out' = Tail(out)
  /\ UNCHANGED <<raw, running, hand, seen, sink, lastPassed>>

(* The sync engine task ends (tokio's interval panics on a period of 0).   *)
SinkEnds ==
  /\ SinkMayEnd /\ sink = "open"
  /\ sink' = "gone" /\ out' = <<>>
  /\ UNCHANGED <<raw, running, hand, seen, lastPassed>>

Pass ==
  /\ seen' = [i \in DOMAIN seen |-> [seen[i] EXCEPT !.age = Older(@)]]
  /\ lastPassed' = [c \in Contents |-> Older(lastPassed[c])]
  /\ UNCHANGED <<raw, running, hand, out, sink>>

Next ==
  \/ \E e \in Event : Produce(e)
  \/ Process \/ Forward \/ Take \/ SinkEnds \/ Pass

Spec == Init /\ [][Next]_vars

(* Both tasks run whenever they can. *)
FairSpec == Spec /\ WF_vars(Process) /\ WF_vars(Forward) /\ WF_vars(Take)
-----------------------------------------------------------------------------
TypeOK ==
  /\ raw \in Seq(Event) /\ Len(raw) <= RawCap
  /\ running \in BOOLEAN
  /\ hand \in Seq(Event) /\ Len(hand) <= 1
  /\ seen \in Seq([key : Keys, age : 0 .. Old])
  /\ out \in Seq(Event) /\ Len(out) <= OutCap
  /\ sink \in {"open", "gone"}
  /\ lastPassed \in [Contents -> 0 .. Old]

(***************************************************************************)
(* Something with key k passed within the window.                          *)
(***************************************************************************)
PassedWithin(k) == \E c \in Contents : Key(c) = k /\ lastPassed[c] <= Window

(***************************************************************************)
(* The deque knows exactly the keys that passed within the window, though  *)
(* it is emptied from the front only and only when an event arrives, and   *)
(* though a duplicate does not renew its entry.                            *)
(***************************************************************************)
WindowExact ==
  \A k \in Keys :
    PassedWithin(k) <=>
      \E i \in DOMAIN seen : seen[i].key = k /\ seen[i].age <= Window

(***************************************************************************)
(* Why the deque is exact: its entries are in the order of their age, each *)
(* that is within the window stands for what passed at that time, and the  *)
(* other way round; of a key one thing passes per window.                  *)
(***************************************************************************)
OldestFirst == \A i, j \in DOMAIN seen : i < j => seen[i].age >= seen[j].age

EntriesPassed ==
  \A i \in DOMAIN seen :
    seen[i].age <= Window =>
      \E c \in Contents : Key(c) = seen[i].key /\ lastPassed[c] = seen[i].age

PassedAreKept ==
  \A c \in Contents :
    lastPassed[c] <= Window =>
      \E i \in DOMAIN seen : seen[i] = [key |-> Key(c), age |-> lastPassed[c]]

OnePerKey ==
  \A c, d \in Contents :
    Key(c) = Key(d) /\ lastPassed[c] <= Window /\ lastPassed[d] <= Window => c = d

PipelineInv ==
  /\ TypeOK
  /\ OldestFirst /\ EntriesPassed /\ PassedAreKept /\ OnePerKey
  /\ sink = "gone" => out = <<>>

(***************************************************************************)
(* The pipeline implements UniqueFeed: order is kept, of the events of one *)
(* key one passes per window, only a twin that passed within the window or *)
(* its size drops an event, and a full channel delays but loses nothing.   *)
(***************************************************************************)
SinceIn(passed, k) ==
  CHOOSE a \in 0 .. Old :
    /\ \E c \in Contents : Key(c) = k /\ passed[c] = a
    /\ \A c \in Contents : Key(c) = k => a <= passed[c]

SinceKey == [k \in Keys |-> SinceIn(lastPassed, k)]

Feed == INSTANCE UniqueFeed
  WITH Item <- Event, Class <- Keys,
       ClassOf <- [e \in Event |-> Key(Content(e))],
       Refused <- {e \in Event : Oversized(e)}, Period <- Window,
       inq <- raw, outq <- out \o hand, since <- SinceKey,
       open <- sink = "open"

FeedSpec == Feed!Spec

(***************************************************************************)
(* Back-pressure ends: a full raw channel gets room again, or the pipeline *)
(* stops and its producers are told, as long as the sink takes its events. *)
(***************************************************************************)
BackpressureEnds ==
  Len(raw) = RawCap ~> (Len(raw) < RawCap \/ sink = "gone")
=============================================================================
