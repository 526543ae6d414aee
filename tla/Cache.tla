-------------------------------- MODULE Cache --------------------------------
(***************************************************************************)
(* The local event cache (src/src/sync/cache.rs): a sled tree from event   *)
(* ids to entries.  sled itself is external; every operation below is one  *)
(* method of Cache, as a function of the tree.                             *)
(***************************************************************************)
EXTENDS Events, FiniteSets, Functions

Entry == [ev : Event, uploaded : BOOLEAN, created : Nat]

(***************************************************************************)
(* A tree maps finitely many ids to entries filed under their own id.      *)
(***************************************************************************)
IsTree(c) ==
  /\ IsFiniteSet(DOMAIN c) /\ DOMAIN c \subseteq Id
  /\ \A i \in DOMAIN c : c[i] \in Entry /\ IdOf[c[i].ev] = i

(* Mutant: the stored hash is not compared. *)
AlreadyUploadedById(c, e) ==
  IdOf[e] \in DOMAIN c /\ c[IdOf[e]].uploaded

(***************************************************************************)
(* The entry of e's id already holds this content and Soul had its turn.   *)
(***************************************************************************)
AlreadyUploaded(c, e) ==
  /\ IdOf[e] \in DOMAIN c
  /\ SameContent(c[IdOf[e]].ev, e)
  /\ c[IdOf[e]].uploaded

(***************************************************************************)
(* put: skip what was uploaded with the same content; otherwise write a    *)
(* new pending entry, over whatever the id held.                           *)
(***************************************************************************)
Put(c, e, now) ==
  IF AlreadyUploaded(c, e)
    THEN c
    ELSE [i \in DOMAIN c \cup {IdOf[e]} |->
            IF i = IdOf[e]
              THEN [ev |-> e, uploaded |-> FALSE, created |-> now]
              ELSE c[i]]

(***************************************************************************)
(* mark_uploaded: flags whatever entry the id holds, if it holds one.      *)
(***************************************************************************)
MarkUploaded(c, i) ==
  IF i \in DOMAIN c THEN [c EXCEPT ![i].uploaded = TRUE] ELSE c

(* Mutant: pending entries are evicted as well. *)
EvictableAny(c, cutoff) == {i \in DOMAIN c : c[i].created < cutoff}

(***************************************************************************)
(* evict_before: the uploaded entries created before the cutoff go, one by *)
(* one.                                                                    *)
(***************************************************************************)
Evictable(c, cutoff) ==
  {i \in DOMAIN c : c[i].uploaded /\ c[i].created < cutoff}

Evict(c, gone) == Restrict(c, DOMAIN c \ gone)

(* Mutant: the subtraction of the pending count is the wrong way round. *)
StatsSwapped(c) ==
  LET up == Cardinality({i \in DOMAIN c : c[i].uploaded})
  IN  [total    |-> Cardinality(DOMAIN c),
       uploaded |-> up,
       pending  |-> up - Cardinality(DOMAIN c)]

(***************************************************************************)
(* stats: what the status page shows of the cache (entries that cannot be  *)
(* read, which the code skips, are left out of the model).                 *)
(***************************************************************************)
Stats(c) ==
  LET up == {i \in DOMAIN c : c[i].uploaded}
  IN  [total    |-> Cardinality(DOMAIN c),
       uploaded |-> Cardinality(up),
       pending  |-> Cardinality(DOMAIN c \ up)]

NoStats == [total |-> 0, uploaded |-> 0, pending |-> 0]
=============================================================================
