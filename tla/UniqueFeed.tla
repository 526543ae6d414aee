----------------------------- MODULE UniqueFeed -----------------------------
(***************************************************************************)
(* What the processor pipeline promises between the raw and the processed  *)
(* channel: a FIFO that refuses some items, lets one item of each class    *)
(* through per period, and otherwise loses nothing while its consumer is   *)
(* there.                                                                  *)
(***************************************************************************)
EXTENDS Integers, Sequences

CONSTANTS
  Item, Class,
  ClassOf,    \* [Item -> Class]
  Refused,    \* items that never pass
  Period

VARIABLES
  inq, outq,  \* items accepted, items passed on
  since,      \* per class: time since an item of it passed, up to Period + 1
  open        \* the consumer is there

vars == <<inq, outq, since, open>>

Init ==
  /\ inq = <<>> /\ outq = <<>>
  /\ since = [c \in Class |-> Period + 1]
  /\ open = TRUE

Accept(x) ==
  /\ inq' = Append(inq, x)
  /\ UNCHANGED <<outq, since, open>>

Fresh(x) == x \notin Refused /\ since[ClassOf[x]] > Period

Pass ==
  /\ inq # <<>> /\ Fresh(Head(inq))
  /\ inq' = Tail(inq)
  /\ outq' = Append(outq, Head(inq))
  /\ since' = [since EXCEPT ![ClassOf[Head(inq)]] = 0]
  /\ UNCHANGED open

Drop ==
  /\ inq # <<>> /\ ~Fresh(Head(inq))
  /\ inq' = Tail(inq)
  /\ UNCHANGED <<outq, since, open>>

Deliver ==
  /\ open /\ outq # <<>>
  /\ outq' = Tail(outq)
  /\ UNCHANGED <<inq, since, open>>

Time ==
  /\ since' = [c \in Class |-> IF since[c] > Period THEN since[c] ELSE since[c] + 1]
  /\ UNCHANGED <<inq, outq, open>>

(* The consumer goes, and with it what it was about to receive; items      *)
(* still on their way may follow.                                          *)
Close ==
  /\ open' = FALSE
  /\ \E k \in 0 .. Len(outq) : outq' = SubSeq(outq, k + 1, Len(outq))
  /\ inq' \in {inq, <<>>}
  /\ UNCHANGED since

Next ==
  \/ \E x \in Item : Accept(x)
  \/ Pass \/ Drop \/ Deliver \/ Time \/ Close

Spec == Init /\ [][Next]_vars
=============================================================================
