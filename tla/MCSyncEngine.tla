---------------------------- MODULE MCSyncEngine ----------------------------
(***************************************************************************)
(* Instances of SyncEngine for TLC.  Ids i1 and i2; a1 and a2 are two      *)
(* versions of i1, a2 the newer; b is an event of i2 with the payload of   *)
(* a1.  a1 and a2 disagree on tag t1 and each has a tag of its own.         *)
(***************************************************************************)
EXTENDS SyncEngine, TLC

CONSTANTS a1, a2, b, i1, i2, h1, h2, t1, t2, t3, x, y

mcEvent  == {a1, a2, b}
mcId     == {i1, i2}
mcHash   == {h1, h2}
mcTagKey == {t1, t2, t3}
mcTagVal == {x, y}

mcIdOf   == (a1 :> i1) @@ (a2 :> i1) @@ (b :> i2)
mcHashOf == (a1 :> h1) @@ (a2 :> h2) @@ (b :> h1)
mcTimeOf == (a1 :> 1) @@ (a2 :> 2) @@ (b :> 1)
mcTagsOf == (a1 :> ((t1 :> x) @@ (t2 :> x))) @@ (a2 :> ((t1 :> y) @@ (t3 :> y)))
              @@ (b :> << >>)
=============================================================================
