------------------------------ MODULE Delivery ------------------------------
(***************************************************************************)
(* What the sync engine promises for the events it takes over, whatever    *)
(* its batches, chunks, fallbacks and timers are: an event it took waits   *)
(* until it was offered to Soul at least once; it is given up untried only *)
(* for other content of the same id that waits too, and only if the        *)
(* configured strategy allows it; the end of the daemon loses what waits.  *)
(* It promises an attempt, not that Soul accepts (see the README).         *)
(***************************************************************************)
EXTENDS Events

CONSTANT MayGiveUp   \* the conflict strategy may drop a version

VARIABLES
  waiting,    \* events taken over and still owed an attempt
  attempted   \* events offered to Soul at least once

vars == <<waiting, attempted>>

Init == waiting = {} /\ attempted = {}

Take(e) ==
  /\ waiting' = waiting \cup {e}
  /\ UNCHANGED attempted

(* Events S are offered; events D, all offered by now, stop waiting. *)
Offer(S, D) ==
  /\ S \subseteq waiting
  /\ attempted' = attempted \cup S
  /\ D \subseteq attempted'
  /\ waiting' = waiting \ D

GiveUp(e) ==
  /\ MayGiveUp
  /\ \E f \in waiting \ {e} : IdOf[f] = IdOf[e] /\ ~SameContent(e, f)
  /\ waiting' = waiting \ {e}
  /\ UNCHANGED attempted

(* The daemon ends; a last offer S may have been on its way. *)
Lose(S) ==
  /\ S \subseteq waiting
  /\ attempted' = attempted \cup S
  /\ waiting' = {}

Next ==
  \/ \E e \in Event : Take(e) \/ GiveUp(e)
  \/ \E S \in SUBSET waiting : Lose(S) \/ \E D \in SUBSET waiting : Offer(S, D)

Spec == Init /\ [][Next]_vars
=============================================================================
