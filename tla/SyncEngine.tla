----------------------------- MODULE SyncEngine -----------------------------
(***************************************************************************)
(* The sync engine (src/src/sync/mod.rs) with the upload path under it     *)
(* (src/src/sync/upload.rs, src/src/grpc/client.rs), the processed-event   *)
(* channel that feeds it, and the runs of the daemon around it.            *)
(*                                                                         *)
(* The engine is one task: it takes an event or a timer tick, and when a   *)
(* batch is due it resolves conflicts, posts the batch to Soul and flags   *)
(* the batch as uploaded.  Each await of that task is a place where the    *)
(* other actors (producer, network, operator) may step in.                 *)
(***************************************************************************)
EXTENDS Conflict

CONSTANTS
  None,             \* no event in hand
  BatchSize,        \* sync.batch_size, 0 allowed
  ChunkSize,        \* MAX_CHUNK_SIZE, events of one batch request
  EnableStreaming,  \* sync.enable_streaming
  DiskMayFail,      \* whether sled operations may return errors
  SoulRejects,      \* whether a reachable Soul may refuse events
  ChanCap,          \* capacity of the processed-event channel
  MaxSends,         \* bound: events the producer sends
  MaxRuns,          \* bound: starts of the daemon
  MaxOutages        \* bound: times Soul becomes unreachable

ASSUME EngineAssumption ==
  /\ None \notin Event
  /\ BatchSize \in Nat
  /\ ChunkSize \in Nat \ {0}
  /\ ChanCap \in Nat \ {0}
  /\ {EnableStreaming, DiskMayFail, SoulRejects} \subseteq BOOLEAN
  /\ {MaxSends, MaxRuns, MaxOutages} \subseteq Nat

VARIABLES
  pc,         \* where the engine task stands; "down" when no daemon runs
  chan,       \* processed-event channel
  cur,        \* event received and being streamed
  pending,    \* received since the last batch
  batch,      \* taken for upload, conflicts not yet looked at
  output,     \* the batch after conflict resolution
  cursor,     \* how many of output are posted (or, marking, flagged)
  limit,      \* end of the chunk being posted one by one
  ticking,    \* the batch was started by the timer
  cache,      \* sled tree
  cacheStats, \* snapshot shown by the status server
  net,        \* whether Soul can be reached
  sends, run, outages,  \* counters for the bounds; run also dates entries
  received,   \* history: events received in this run
  posted,     \* history: events some publish request carried
  discarded,  \* history: events conflict resolution dropped in this run
  stored      \* events Soul holds

engine == <<pc, cur, pending, batch, output, cursor, limit, ticking>>
world  == <<net, sends, run, outages>>
vars   == <<engine, world, chan, cache, cacheStats,
            received, posted, discarded, stored>>

Cutoffs == 0 .. MaxRuns + 1

PCs == {"down", "select", "stream", "detect", "post", "single", "mark"}

(***************************************************************************)
(* The two ways a sled call can end: done, or, if the disk may fail, an    *)
(* error that the engine logs and forgets.                                 *)
(***************************************************************************)
Attempt(done) == {done} \cup (IF DiskMayFail THEN {cache} ELSE {})

-----------------------------------------------------------------------------
Idle ==
  /\ pc = "down"
  /\ chan = <<>> /\ cur = None
  /\ pending = <<>> /\ batch = <<>> /\ output = <<>>
  /\ cursor = 0 /\ limit = 0 /\ ticking = FALSE
  /\ cacheStats = NoStats
  /\ received = {} /\ discarded = {}

Init ==
  /\ Idle
  /\ cache = << >>
  /\ net = "up"
  /\ sends = 0 /\ run = 0 /\ outages = 0
  /\ posted = {} /\ stored = {}

-----------------------------------------------------------------------------
(* The world around the engine. *)

(***************************************************************************)
(* The processor sends a processed event and waits while the channel is    *)
(* full.                                                                   *)
(***************************************************************************)
Send(e) ==
  /\ pc # "down"
  /\ Len(chan) < ChanCap
  /\ sends < MaxSends
  /\ chan' = Append(chan, e)
  /\ sends' = sends + 1
  /\ UNCHANGED <<engine, net, run, outages, cache, cacheStats,
                 received, posted, discarded, stored>>

Outage ==
  /\ net = "up"
  /\ outages < MaxOutages
  /\ net' = "down"
  /\ outages' = outages + 1
  /\ UNCHANGED <<engine, sends, run, chan, cache, cacheStats,
                 received, posted, discarded, stored>>

Reconnect ==
  /\ net = "down"
  /\ net' = "up"
  /\ UNCHANGED <<engine, sends, run, outages, chan, cache,
                 cacheStats, received, posted, discarded, stored>>

(***************************************************************************)
(* main: the daemon starts over the cache the earlier runs left.           *)
(***************************************************************************)
Start ==
  /\ pc = "down"
  /\ run < MaxRuns
  /\ pc' = "select"
  /\ run' = run + 1
  /\ UNCHANGED <<cur, pending, batch, output, cursor, limit, ticking, net,
                 sends, outages, chan, cache, cacheStats,
                 received, posted, discarded, stored>>

(***************************************************************************)
(* The publish request and the stream request that can be on the wire at   *)
(* the engine's place.                                                     *)
(***************************************************************************)
ChunkEnd == IF cursor + ChunkSize <= Len(output) THEN cursor + ChunkSize
                                                 ELSE Len(output)

InFlight ==
  IF pc = "post" THEN {output[k].ev : k \in cursor + 1 .. ChunkEnd}
  ELSE IF pc = "single" THEN {output[cursor + 1].ev}
  ELSE {}

Streaming == IF pc = "stream" THEN {cur} ELSE {}

(***************************************************************************)
(* The daemon ends, by a signal (every task is aborted at its await, main) *)
(* or by a crash anywhere.  What is only in memory is gone; a request on   *)
(* the wire may or may not have left, and may or may not have been served. *)
(***************************************************************************)
Stop ==
  /\ pc # "down"
  /\ pc' = "down" /\ chan' = <<>> /\ cur' = None
  /\ pending' = <<>> /\ batch' = <<>> /\ output' = <<>>
  /\ cursor' = 0 /\ limit' = 0 /\ ticking' = FALSE
  /\ cacheStats' = NoStats
  /\ received' = {} /\ discarded' = {}
  /\ \E left \in {{}, InFlight} :
       /\ posted' = posted \cup left
       /\ \E served \in SUBSET (left \cup Streaming) :
            stored' = stored \cup served
  /\ UNCHANGED <<cache, world>>

(***************************************************************************)
(* CLI, on the cache of a daemon that is not running (sled locks the       *)
(* tree): --import puts the events of a file, one at a time; --prune       *)
(* evicts, at any cutoff from never to the future, and stops at the first  *)
(* error with what is gone by then.                                        *)
(***************************************************************************)
Import(e) ==
  /\ pc = "down"
  /\ cache' \in Attempt(Put(cache, e, run))
  /\ UNCHANGED <<engine, world, chan, cacheStats,
                 received, posted, discarded, stored>>

Prune(cutoff) ==
  /\ pc = "down"
  /\ \E gone \in IF DiskMayFail THEN SUBSET Evictable(cache, cutoff)
                                ELSE {Evictable(cache, cutoff)} :
       cache' = Evict(cache, gone)
  /\ UNCHANGED <<engine, world, chan, cacheStats,
                 received, posted, discarded, stored>>

-----------------------------------------------------------------------------
(* run_sync_engine *)

(* Mutant: the full batch is taken before the event is pushed. *)
CacheAndPushLate(e) ==
  /\ cache' \in Attempt(Put(cache, e, run))
  /\ IF Len(pending) + 1 >= BatchSize
       THEN pc' = "detect" /\ batch' = pending /\ pending' = <<>>
       ELSE pc' = "select" /\ pending' = Append(pending, e) /\ UNCHANGED batch

(* Mutant: the newest event goes to the front. *)
CacheAndPushFront(e) ==
  /\ cache' \in Attempt(Put(cache, e, run))
  /\ IF Len(pending) + 1 >= BatchSize
       THEN pc' = "detect" /\ batch' = <<e>> \o pending /\ pending' = <<>>
       ELSE pc' = "select" /\ pending' = <<e>> \o pending /\ UNCHANGED batch

(* Mutant: an event the cache could not take is not pushed either. *)
CacheAndPushStrict(e) ==
  /\ cache' \in Attempt(Put(cache, e, run))
  /\ IF cache' = cache /\ ~AlreadyUploaded(cache, e)
       THEN pc' = "select" /\ UNCHANGED <<pending, batch>>
       ELSE IF Len(pending) + 1 >= BatchSize
       THEN pc' = "detect" /\ batch' = Append(pending, e) /\ pending' = <<>>
       ELSE pc' = "select" /\ pending' = Append(pending, e) /\ UNCHANGED batch

(***************************************************************************)
(* cache.put, pending.push, and a full batch goes to upload_batch          *)
(* (mem::take).                                                            *)
(***************************************************************************)
CacheAndPush(e) ==
  /\ cache' \in Attempt(Put(cache, e, run))
  /\ IF Len(pending) + 1 >= BatchSize
       THEN /\ pc' = "detect"
            /\ batch' = Append(pending, e)
            /\ pending' = <<>>
       ELSE /\ pc' = "select"
            /\ pending' = Append(pending, e)
            /\ UNCHANGED batch

(***************************************************************************)
(* Some(event) = rx.recv().  With streaming the event is first sent on its *)
(* own, before it is cached.                                               *)
(***************************************************************************)
Recv ==
  /\ pc = "select"
  /\ chan # <<>>
  /\ chan' = Tail(chan)
  /\ received' = received \cup {Head(chan)}
  /\ IF EnableStreaming
       THEN /\ pc' = "stream"
            /\ cur' = Head(chan)
            /\ UNCHANGED <<cache, pending, batch>>
       ELSE /\ CacheAndPush(Head(chan))
            /\ UNCHANGED cur
  /\ UNCHANGED <<output, cursor, limit, ticking, world, cacheStats,
                 posted, discarded, stored>>

(***************************************************************************)
(* client.stream_event returns, whatever came of it (the engine ignores    *)
(* the result); only then is the event cached.                             *)
(***************************************************************************)
Streamed ==
  /\ pc = "stream"
  /\ stored' \in {stored, stored \cup {cur}}
  /\ CacheAndPush(cur)
  /\ cur' = None
  /\ UNCHANGED <<output, cursor, limit, ticking, world, chan, cacheStats,
                 received, posted, discarded>>

(* Mutant: the snapshot is refreshed only where a batch was taken. *)
TickWithBatch ==
  /\ pc = "select"
  /\ pending # <<>>
  /\ pc' = "detect" /\ batch' = pending /\ pending' = <<>> /\ ticking' = TRUE
  /\ UNCHANGED <<cur, output, cursor, limit, world, chan, cache, cacheStats,
                 received, posted, discarded, stored>>

(***************************************************************************)
(* upload_interval.tick(): a non-empty pending goes to upload_batch; the   *)
(* status snapshot is refreshed after the batch, or at once without one.   *)
(***************************************************************************)
Tick ==
  /\ pc = "select"
  /\ IF pending # <<>>
       THEN /\ pc' = "detect"
            /\ batch' = pending
            /\ pending' = <<>>
            /\ ticking' = TRUE
            /\ UNCHANGED cacheStats
       ELSE /\ cacheStats' = Stats(cache)
            /\ UNCHANGED <<pc, batch, pending, ticking>>
  /\ UNCHANGED <<cur, output, cursor, limit, world, chan, cache,
                 received, posted, discarded, stored>>

-----------------------------------------------------------------------------
(* upload_batch *)

(***************************************************************************)
(* Back to the select loop with cache c, by way of the snapshot refresh if *)
(* the timer started the batch.                                            *)
(***************************************************************************)
FinishBatch(c) ==
  /\ pc' = "select"
  /\ output' = <<>> /\ cursor' = 0 /\ ticking' = FALSE
  /\ cacheStats' = IF ticking THEN Stats(c) ELSE cacheStats

(***************************************************************************)
(* detect_and_resolve_local_conflicts, one event of the batch.  A failed   *)
(* lookup keeps the event as it is.  After the last one the upload begins; *)
(* an empty output uploads nothing and ends the batch.                     *)
(***************************************************************************)
Detect ==
  /\ pc = "detect"
  /\ \E kept \in {Kept(cache, Head(batch))}
                   \cup (IF DiskMayFail THEN {<<AsIs(Head(batch))>>} ELSE {}) :
       LET out == output \o kept
       IN  /\ discarded' = IF kept = <<>> THEN discarded \cup {Head(batch)}
                                          ELSE discarded
           /\ batch' = Tail(batch)
           /\ \/ /\ Tail(batch) # <<>>
                 /\ output' = out
                 /\ UNCHANGED <<pc, cursor, ticking, cacheStats>>
              \/ /\ Tail(batch) = <<>> /\ out # <<>>
                 /\ output' = out
                 /\ pc' = "post"
                 /\ UNCHANGED <<cursor, ticking, cacheStats>>
              \/ /\ Tail(batch) = <<>> /\ out = <<>>
                 /\ FinishBatch(cache)
  /\ UNCHANGED <<cur, pending, limit, world, chan, cache,
                 received, posted, stored>>

(* Mutant: the last event of the batch is left out. *)
NextChunkShort(posTo) ==
  IF posTo + 1 >= Len(output) THEN pc' = "mark" /\ cursor' = 0
                              ELSE pc' = "post" /\ cursor' = posTo

(***************************************************************************)
(* Both upload_events functions return Ok whatever happened, so the retry  *)
(* loop of upload_batch runs once and goes on to flag the batch: rejected  *)
(* events are only counted.                                                *)
(***************************************************************************)
NextChunk(posTo) ==
  IF posTo = Len(output) THEN pc' = "mark" /\ cursor' = 0
                         ELSE pc' = "post" /\ cursor' = posTo

(***************************************************************************)
(* What Soul may store of the events a request carries, and whether the    *)
(* client sees success: all and yes, unless Soul may refuse events or is   *)
(* out of reach (when an answer is lost, what it stored stays stored).     *)
(***************************************************************************)
Outcomes(events) ==
  IF net = "up" /\ ~SoulRejects
    THEN [served : {events}, success : {TRUE}]
    ELSE [served : SUBSET events,
          success : IF net = "up" THEN BOOLEAN ELSE {FALSE}]

(***************************************************************************)
(* POST /publish/batch for one chunk.  Success ends the chunk; an error    *)
(* status or a network error falls back to one request per event.  (The    *)
(* payload travels as text, lossily where it is not UTF-8; the cache keeps *)
(* the bytes, so that no comparison above sees the difference.)            *)
(***************************************************************************)
PostChunk ==
  /\ pc = "post"
  /\ LET events == {output[k].ev : k \in cursor + 1 .. ChunkEnd}
     IN  \E o \in Outcomes(events) :
           /\ posted' = posted \cup events
           /\ stored' = stored \cup o.served
           /\ IF o.success
                THEN NextChunk(ChunkEnd) /\ UNCHANGED limit
                ELSE /\ pc' = "single"
                     /\ limit' = ChunkEnd
                     /\ UNCHANGED cursor
  /\ UNCHANGED <<cur, pending, batch, output, ticking, world, chan, cache,
                 cacheStats, received, discarded>>

(***************************************************************************)
(* POST /publish for one event of the chunk; a failure is counted as a     *)
(* rejection and the loop goes on.                                         *)
(***************************************************************************)
PostSingle ==
  /\ pc = "single"
  /\ LET e == output[cursor + 1].ev
     IN  \E o \in Outcomes({e}) :
           /\ posted' = posted \cup {e}
           /\ stored' = stored \cup o.served
  /\ IF cursor + 1 < limit
       THEN cursor' = cursor + 1 /\ UNCHANGED <<pc, limit>>
       ELSE NextChunk(cursor + 1) /\ limit' = 0
  /\ UNCHANGED <<cur, pending, batch, output, ticking, world, chan, cache,
                 cacheStats, received, discarded>>

(***************************************************************************)
(* cache.mark_uploaded for one event of the batch.                         *)
(***************************************************************************)
Mark ==
  /\ pc = "mark"
  /\ cache' \in Attempt(MarkUploaded(cache, output[cursor + 1].id))
  /\ IF cursor + 1 < Len(output)
       THEN /\ cursor' = cursor + 1
            /\ UNCHANGED <<pc, output, ticking, cacheStats>>
       ELSE FinishBatch(cache')
  /\ UNCHANGED <<cur, pending, batch, limit, world, chan,
                 received, posted, discarded, stored>>

-----------------------------------------------------------------------------
Upload == Detect \/ PostChunk \/ PostSingle \/ Mark

Environment ==
  \/ \E e \in Event : Send(e) \/ Import(e)
  \/ \E cutoff \in Cutoffs : Prune(cutoff)
  \/ Outage \/ Reconnect \/ Start \/ Stop

Next == Recv \/ Streamed \/ Tick \/ Upload \/ Environment

Spec == Init /\ [][Next]_vars

(***************************************************************************)
(* select! picks among its ready branches at random, so neither branch is  *)
(* passed over for ever; the timer ticks every upload_interval; every      *)
(* request ends, because the HTTP client has a timeout.  Nothing obliges   *)
(* producers, operators or outages to act; that a daemon is started and    *)
(* that Soul comes back is assumed where a property speaks of it.          *)
(***************************************************************************)
EngineFairness ==
  /\ WF_vars(Recv) /\ WF_vars(Streamed) /\ WF_vars(Tick) /\ WF_vars(Upload)

Fairness == EngineFairness /\ WF_vars(Start) /\ WF_vars(Reconnect)

FairSpec == Spec /\ Fairness

(* Where nothing is imported, every entry is one a run of the daemon put.  *)
NoImportSpec == Init /\ [][Next /\ ~\E e \in Event : Import(e)]_vars /\ Fairness
-----------------------------------------------------------------------------
(* Properties *)

TypeOK ==
  /\ pc \in PCs
  /\ {chan, pending, batch} \subseteq Seq(Event)
  /\ cur \in Event \cup {None}
  /\ output \in Seq(Copy)
  /\ cursor \in Nat /\ limit \in Nat /\ ticking \in BOOLEAN
  /\ IsTree(cache)
  /\ cacheStats \in [total : Nat, uploaded : Nat, pending : Nat]
  /\ net \in {"up", "down"}
  /\ sends \in Nat /\ run \in Nat /\ outages \in Nat
  /\ {received, posted, discarded, stored} \subseteq SUBSET Event

(***************************************************************************)
(* The events the engine still has to post.                                *)
(***************************************************************************)
Unposted == IF pc = "mark" THEN {}
                           ELSE {output[k].ev : k \in cursor + 1 .. Len(output)}

Held == ({cur} \ {None}) \cup Range(pending) \cup Range(batch) \cup Unposted

(***************************************************************************)
(* No event gets lost inside the engine: whatever it received in this run  *)
(* is still held, was carried by a request, or was dropped by server_wins. *)
(***************************************************************************)
NoEventSkipped == received \subseteq Held \cup posted \cup discarded

(***************************************************************************)
(* An entry is flagged as uploaded only after a request carried its id     *)
(* with its present content, however versions of the id, batches and       *)
(* restarts interleave.                                                    *)
(***************************************************************************)
UploadedWasPosted ==
  \A i \in DOMAIN cache : cache[i].uploaded =>
    \E e \in posted : IdOf[e] = i /\ SameContent(e, cache[i].ev)

(***************************************************************************)
(* Of several versions of an id in one batch, the one posted last is the   *)
(* one the cache holds: Soul does not end with an older version.           *)
(***************************************************************************)
LatestPostedLast ==
  pc \in {"post", "single", "mark"} =>
    \A k \in DOMAIN output :
      LET i == output[k].id
      IN  (i \in DOMAIN cache /\ \A m \in DOMAIN output :
                                   output[m].id = i => m <= k)
            => SameContent(output[k].ev, cache[i].ev)

(***************************************************************************)
(* Whatever is merged keeps every tag of the event and of the cached       *)
(* version it was in conflict with.                                        *)
(***************************************************************************)
MergeKeepsTags ==
  Strategy = "merge" /\ pc \in {"post", "single", "mark"} =>
    \A k \in DOMAIN output :
      LET e == output[k].ev
      IN  /\ DOMAIN TagsOf[e] \subseteq DOMAIN output[k].tags
          /\ InConflict(cache, e) =>
               \A t \in DOMAIN TagsOf[cache[IdOf[e]].ev] :
                 /\ t \in DOMAIN output[k].tags
                 /\ output[k].tags[t] = TagsOf[cache[IdOf[e]].ev][t]

(***************************************************************************)
(* The engine never holds more than one batch: it starts an upload with    *)
(* the event that fills it and receives nothing until the upload is over.  *)
(***************************************************************************)
BatchBound ==
  Len(pending) + Len(batch) + Len(output)
    <= IF BatchSize = 0 THEN 1 ELSE BatchSize

(***************************************************************************)
(* The cache forgets nothing that Soul has not had a turn at: a pending    *)
(* entry stays until its id gets other content, and the uploaded flag of a *)
(* content is never taken back while the content stays.                    *)
(***************************************************************************)
CacheNeverForgets ==
  [][\A i \in DOMAIN cache :
       \/ i \notin DOMAIN cache' /\ cache[i].uploaded
       \/ /\ i \in DOMAIN cache'
          /\ \/ ~SameContent(cache'[i].ev, cache[i].ev)
             \/ cache[i].uploaded => cache'[i].uploaded]_cache

(***************************************************************************)
(* Every event that reaches the channel is posted or given up by           *)
(* server_wins, unless the daemon ends first: full batches go at once and  *)
(* the timer takes the rest.                                               *)
(***************************************************************************)
EventuallyPosted ==
  \A e \in Event :
    e \in Range(chan) ~> (e \in posted \cup discarded \/ pc = "down")

(***************************************************************************)
(* While the daemon stays up, the status page ends up showing the cache as *)
(* it is.                                                                  *)
(***************************************************************************)
StatsConverge ==
  <>[](pc # "down") => <>[](cacheStats = Stats(cache))

(***************************************************************************)
(* From the moment an event is in the batch until the last flag is set,    *)
(* its id has a cache entry, so that a crash leaves a version of it, and   *)
(* the version in the cache is itself in the batch and goes up under that  *)
(* id, so that mark_uploaded flags what was sent: conflict detection       *)
(* compares against that version and so never drops or renames it.  (A put *)
(* that fails breaks this.)                                                *)
(***************************************************************************)
InBatch == Range(pending) \cup Range(batch)

Covered(i) ==
  /\ i \in DOMAIN cache
  /\ \/ \E f \in InBatch : IdOf[f] = i /\ SameContent(f, cache[i].ev)
     \/ \E k \in DOMAIN output :
          output[k].id = i /\ SameContent(output[k].ev, cache[i].ev)

CacheCovers ==
  /\ \A e \in InBatch : Covered(IdOf[e])
  /\ \A k \in DOMAIN output : Covered(IdOf[output[k].ev])

(***************************************************************************)
(* How the places of the engine task and its buffers go together.          *)
(***************************************************************************)
Shape ==
  /\ cur = None <=> pc # "stream"
  /\ pc = "down" => pending = <<>> /\ chan = <<>>
  /\ pc \in {"down", "select", "stream"} =>
       batch = <<>> /\ output = <<>> /\ cursor = 0
  /\ pc = "detect" => batch # <<>> /\ pending = <<>> /\ cursor = 0
  /\ pc \in {"post", "single", "mark"} =>
       batch = <<>> /\ pending = <<>> /\ cursor < Len(output)
  /\ pc = "single" => cursor < limit /\ limit <= Len(output)

CopiesOfEvents ==
  \A k \in DOMAIN output : output[k].id \in {IdOf[output[k].ev], Fresh}

CursorPosted ==
  \A k \in DOMAIN output :
    pc = "mark" \/ k <= cursor => output[k].ev \in posted

IInv ==
  /\ TypeOK /\ Shape /\ CopiesOfEvents /\ CursorPosted
  /\ CacheCovers /\ UploadedWasPosted

(***************************************************************************)
(* Why the version posted last is the cached one: along what is uploaded   *)
(* and what still waits for it, the last version of an id is the cached.   *)
(***************************************************************************)
LastIsCached(s) ==
  \A k \in DOMAIN s :
    (\A m \in DOMAIN s : m > k => IdOf[s[m]] # IdOf[s[k]])
      => SameContent(s[k], cache[IdOf[s[k]]].ev)

OutputLast ==
  \A k \in DOMAIN output :
    LET i == output[k].id
    IN  /\ i \in DOMAIN cache
        /\ \A m \in DOMAIN output : m > k => output[m].id # i
        /\ \A e \in Range(batch) : IdOf[e] # i
        => SameContent(output[k].ev, cache[i].ev)

NewestLast == LastIsCached(pending) /\ LastIsCached(batch) /\ OutputLast

(***************************************************************************)
(* A resolved copy has the tags resolution gave it, and the cached version *)
(* it was resolved against is still the cached one.                        *)
(***************************************************************************)
TagsMerged ==
  Strategy = "merge" =>
    \A k \in DOMAIN output :
      LET e == output[k].ev
      IN  output[k].tags = IF InConflict(cache, e)
                             THEN MergedTags(e, cache[IdOf[e]].ev)
                             ELSE TagsOf[e]

OrderInv == IInv /\ NewestLast /\ TagsMerged

(***************************************************************************)
(* The engine implements the delivery contract of module Delivery: the     *)
(* events it holds are the ones waiting, a publish request is an attempt.  *)
(***************************************************************************)
Contract == INSTANCE Delivery
  WITH waiting <- Held, attempted <- posted,
       MayGiveUp <- Strategy = "server_wins"

ContractSpec == Contract!Spec

-----------------------------------------------------------------------------
(* What the repository's documents say of the engine, and its code does    *)
(* not do.                                                                 *)

(***************************************************************************)
(* README: the cache "buffers events when the network is down; automatic   *)
(* retry on reconnection".  Every received event reaches Soul once Soul is *)
(* reachable for good, unless the daemon ends first.                       *)
(***************************************************************************)
RetriedOnReconnection ==
  \A e \in Event :
    e \in received ~> (e \in stored \cup discarded \/ pc = "down")

(***************************************************************************)
(* cache.rs: get_pending lists the events not uploaded yet "for retry on   *)
(* restart".  An entry that an earlier run of the daemon left pending is   *)
(* eventually flagged or replaced by a run that goes on, where no imports  *)
(* put entries in.                                                         *)
(***************************************************************************)
LeftPending(i) ==
  i \in DOMAIN cache /\ ~cache[i].uploaded /\ cache[i].created \in 1 .. run - 1

RetriedOnRestart ==
  \A i \in Id : LeftPending(i) /\ pc # "down" ~> (~LeftPending(i) \/ pc = "down")

(***************************************************************************)
(* conflict.rs: NewestWins, "Newest timestamp wins".  Nothing older than   *)
(* the cached version it conflicts with is uploaded.                       *)
(***************************************************************************)
NewestWins ==
  Strategy = "newest_wins" /\ pc \in {"post", "single"} =>
    \A k \in DOMAIN output :
      LET e == output[k].ev
      IN  InConflict(cache, e) => TimeOf[e] >= TimeOf[cache[IdOf[e]].ev]
=============================================================================
