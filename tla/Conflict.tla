------------------------------ MODULE Conflict ------------------------------
(***************************************************************************)
(* Conflict resolution (src/src/sync/conflict.rs) and the way the sync     *)
(* engine applies it to one event of a batch                               *)
(* (detect_and_resolve_local_conflicts, src/src/sync/mod.rs).  The engine  *)
(* plays the cached version of an id as the "server" version.              *)
(***************************************************************************)
EXTENDS Cache, Sequences

CONSTANT Strategy   \* sync.conflict_strategy

Strategies == {"server_wins", "local_wins", "newest_wins", "merge", "keep_both"}

ASSUME StrategyAssumption == Strategy \in Strategies

(***************************************************************************)
(* ConflictResolver::resolve.  newest_wins names a winner; merge unites    *)
(* the tags, the server's value winning a collision.                       *)
(***************************************************************************)
NewestWinner(local, server) ==
  IF TimeOf[local] >= TimeOf[server] THEN "local" ELSE "server"

(* Mutant: the cached version's tags replace the event's. *)
MergedTagsReplaced(local, server) == TagsOf[server]

MergedTags(local, server) ==
  LET l == TagsOf[local]
      s == TagsOf[server]
  IN  [t \in DOMAIN l \cup DOMAIN s |-> IF t \in DOMAIN s THEN s[t] ELSE l[t]]

Resolve(local, server) ==
  CASE Strategy = "server_wins" -> [kind |-> "UsedServer"]
    [] Strategy = "local_wins"  -> [kind |-> "UsedLocal"]
    [] Strategy = "newest_wins" -> [kind   |-> "UsedNewest",
                                    winner |-> NewestWinner(local, server)]
    [] Strategy = "merge"       -> [kind |-> "Merged",
                                    tags |-> MergedTags(local, server)]
    [] Strategy = "keep_both"   -> [kind |-> "KeptBoth", id |-> Fresh]

(* Mutant: any cached id counts as a conflict. *)
InConflictById(c, e) == IdOf[e] \in DOMAIN c

(***************************************************************************)
(* A conflict: the id is cached with other content.                        *)
(***************************************************************************)
InConflict(c, e) ==
  /\ IdOf[e] \in DOMAIN c
  /\ ~SameContent(c[IdOf[e]].ev, e)

(***************************************************************************)
(* What the batch keeps of e, a sequence of at most one copy: UsedNewest   *)
(* keeps the local version whoever the winner is.                          *)
(***************************************************************************)
ApplyResolution(e, r) ==
  CASE r.kind \in {"UsedLocal", "UsedNewest"} -> <<AsIs(e)>>
    [] r.kind = "UsedServer" -> <<>>
    [] r.kind = "Merged"     -> <<[AsIs(e) EXCEPT !.tags = r.tags]>>
    [] r.kind = "KeptBoth"   -> <<[AsIs(e) EXCEPT !.id = r.id]>>

Kept(c, e) ==
  IF InConflict(c, e)
    THEN ApplyResolution(e, Resolve(e, c[IdOf[e]].ev))
    ELSE <<AsIs(e)>>
=============================================================================
