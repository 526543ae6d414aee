-------------------------- MODULE SyncEngineProofs --------------------------
(***************************************************************************)
(* Theorems of SyncEngine for every set of events, every strategy, every   *)
(* batch and chunk size, every channel capacity and every bound.           *)
(***************************************************************************)
EXTENDS SyncEngine, FiniteSetTheorems, SequenceTheorems, TLAPS

-----------------------------------------------------------------------------
(* The cache operations. *)

(* put keeps a tree a tree; the event's id then holds its content. *)
LEMMA PutLemma ==
  ASSUME NEW c, IsTree(c), NEW e \in Event, NEW now \in Nat
  PROVE  /\ IsTree(Put(c, e, now))
         /\ DOMAIN Put(c, e, now) = DOMAIN c \cup {IdOf[e]}
         /\ SameContent(e, Put(c, e, now)[IdOf[e]].ev)
         /\ \A i \in DOMAIN c : i # IdOf[e] => Put(c, e, now)[i] = c[i]
         /\ \A i \in DOMAIN Put(c, e, now) :
              Put(c, e, now)[i].uploaded
                => i \in DOMAIN c /\ Put(c, e, now)[i] = c[i]
<1>1. IdOf[e] \in Id
  BY EventAssumption
<1>2. CASE AlreadyUploaded(c, e)
  BY <1>1, <1>2 DEF Put, AlreadyUploaded, IsTree, SameContent
<1>3. CASE ~AlreadyUploaded(c, e)
  <2>1. IsFiniteSet(DOMAIN c \cup {IdOf[e]})
    BY FS_AddElement DEF IsTree
  <2>2. QED
    BY <1>1, <1>3, <2>1 DEF Put, IsTree, Entry, SameContent
<1>4. QED
  BY <1>2, <1>3

(* mark_uploaded changes nothing but the flag of the given id. *)
LEMMA MarkLemma ==
  ASSUME NEW c, IsTree(c), NEW i
  PROVE  /\ IsTree(MarkUploaded(c, i))
         /\ DOMAIN MarkUploaded(c, i) = DOMAIN c
         /\ \A j \in DOMAIN c : /\ MarkUploaded(c, i)[j].ev = c[j].ev
                                /\ j # i => MarkUploaded(c, i)[j] = c[j]
BY DEF MarkUploaded, IsTree, Entry

(* evict_before leaves a smaller tree. *)
LEMMA EvictLemma ==
  ASSUME NEW c, IsTree(c), NEW gone
  PROVE  /\ IsTree(Evict(c, gone))
         /\ DOMAIN Evict(c, gone) \subseteq DOMAIN c
         /\ \A i \in DOMAIN Evict(c, gone) : Evict(c, gone)[i] = c[i]
<1>1. IsFiniteSet(DOMAIN c \ gone)
  BY FS_Difference DEF IsTree
<1>2. QED
  BY <1>1 DEF Evict, Restrict, IsTree

(* The statistics of a tree are counts. *)
LEMMA StatsLemma ==
  ASSUME NEW c, IsTree(c)
  PROVE  Stats(c) \in [total : Nat, uploaded : Nat, pending : Nat]
<1> DEFINE up == {i \in DOMAIN c : c[i].uploaded}
<1>1. IsFiniteSet(DOMAIN c) /\ IsFiniteSet(up) /\ IsFiniteSet(DOMAIN c \ up)
  BY FS_Subset, FS_Difference DEF IsTree
<1>2. QED
  BY <1>1, FS_CardinalityType DEF Stats

(* The merged tags are tags. *)
LEMMA MergeLemma ==
  ASSUME NEW e \in Event, NEW f \in Event
  PROVE  MergedTags(e, f) \in TagMap
<1>1. PICK K \in SUBSET TagKey : TagsOf[e] \in [K -> TagVal]
  BY EventAssumption DEF TagMap
<1>2. PICK L \in SUBSET TagKey : TagsOf[f] \in [L -> TagVal]
  BY EventAssumption DEF TagMap
<1>3. MergedTags(e, f) \in [K \cup L -> TagVal] /\ K \cup L \in SUBSET TagKey
  BY <1>1, <1>2 DEF MergedTags
<1>4. QED
  BY <1>3 DEF TagMap

(* Conflict resolution keeps at most one copy of the event; what does not  *)
(* conflict with the cache keeps its id; only server_wins drops.           *)
LEMMA KeptLemma ==
  ASSUME NEW c, IsTree(c), NEW e \in Event
  PROVE  \/ Kept(c, e) = <<>> /\ InConflict(c, e) /\ Strategy = "server_wins"
         \/ \E o \in Copy : /\ Kept(c, e) = <<o>>
                            /\ o.ev = e
                            /\ o.id \in {IdOf[e], Fresh}
                            /\ ~InConflict(c, e) => o.id = IdOf[e]
<1> DEFINE s == c[IdOf[e]].ev
<1>1. AsIs(e) \in Copy /\ AsIs(e).ev = e /\ AsIs(e).id = IdOf[e]
  BY EventAssumption DEF AsIs, Copy
<1>2. CASE ~InConflict(c, e)
  BY <1>1, <1>2 DEF Kept
<1>3. CASE InConflict(c, e)
  <2>1. s \in Event
    BY <1>3 DEF InConflict, IsTree, Entry
  <2>2. Kept(c, e) = ApplyResolution(e, Resolve(e, s))
    BY <1>3 DEF Kept
  <2>3. CASE Strategy = "server_wins"
    BY <1>3, <2>2, <2>3 DEF ApplyResolution, Resolve
  <2>4. CASE Strategy \in {"local_wins", "newest_wins"}
    <3>1. Kept(c, e) = <<AsIs(e)>>
      BY <2>2, <2>4 DEF ApplyResolution, Resolve
    <3>2. QED
      BY <1>1, <3>1
  <2>5. CASE Strategy = "merge"
    <3>1. MergedTags(e, s) \in TagMap
      BY <2>1, MergeLemma
    <3>2. Kept(c, e) = <<[AsIs(e) EXCEPT !.tags = MergedTags(e, s)]>>
      BY <2>2, <2>5 DEF ApplyResolution, Resolve
    <3>3. [AsIs(e) EXCEPT !.tags = MergedTags(e, s)] \in Copy
      BY <1>1, <3>1 DEF Copy
    <3>4. QED
      BY <1>1, <3>2, <3>3 DEF AsIs
  <2>6. CASE Strategy = "keep_both"
    <3>1. Kept(c, e) = <<[AsIs(e) EXCEPT !.id = Fresh]>>
      BY <2>2, <2>6 DEF ApplyResolution, Resolve
    <3>2. [AsIs(e) EXCEPT !.id = Fresh] \in Copy
      BY <1>1 DEF Copy
    <3>3. QED
      BY <1>1, <1>3, <3>1, <3>2 DEF AsIs
  <2>7. QED
    BY <2>3, <2>4, <2>5, <2>6, StrategyAssumption DEF Strategies
<1>4. QED
  BY <1>2, <1>3

-----------------------------------------------------------------------------
(* Sequences as buffers. *)

LEMMA AppendRange ==
  ASSUME NEW S, NEW s \in Seq(S), NEW e \in S
  PROVE  /\ Append(s, e) \in Seq(S) /\ Append(s, e) # <<>>
         /\ Range(Append(s, e)) = Range(s) \cup {e}
         /\ Len(Append(s, e)) = Len(s) + 1
<1>1. /\ Append(s, e) \in Seq(S) /\ Append(s, e) # <<>>
      /\ Len(Append(s, e)) = Len(s) + 1
      /\ \A i \in 1 .. Len(s) : Append(s, e)[i] = s[i]
      /\ Append(s, e)[Len(s) + 1] = e
  BY AppendProperties
<1>2. /\ Range(Append(s, e)) = {Append(s, e)[i] : i \in 1 .. Len(s) + 1}
      /\ Range(s) = {s[i] : i \in 1 .. Len(s)}
  BY <1>1, RangeEquality
<1>3. Len(s) \in Nat
  BY LenProperties
<1>4. QED
  BY <1>1, <1>2, <1>3

LEMMA TailRange ==
  ASSUME NEW S, NEW s \in Seq(S), s # <<>>
  PROVE  /\ Head(s) \in S /\ Tail(s) \in Seq(S)
         /\ Range(s) = {Head(s)} \cup Range(Tail(s))
         /\ Len(Tail(s)) = Len(s) - 1
<1>1. /\ Head(s) = s[1] /\ Head(s) \in S
      /\ Tail(s) \in Seq(S) /\ Len(Tail(s)) = Len(s) - 1
      /\ Len(s) \in Nat \ {0}
      /\ \A i \in 1 .. Len(Tail(s)) : Tail(s)[i] = s[i + 1]
  BY HeadTailProperties, EmptySeq
<1>2. /\ Range(Tail(s)) = {Tail(s)[i] : i \in 1 .. Len(s) - 1}
      /\ Range(s) = {s[i] : i \in 1 .. Len(s)}
  BY <1>1, RangeEquality
<1>3. ASSUME NEW x \in Range(s)
      PROVE  x \in {Head(s)} \cup Range(Tail(s))
  <2>1. PICK i \in 1 .. Len(s) : x = s[i]
    BY <1>2
  <2>2. CASE i = 1
    BY <1>1, <2>1, <2>2
  <2>3. CASE i # 1
    <3>1. i - 1 \in 1 .. Len(s) - 1 /\ Tail(s)[i - 1] = s[i]
      BY <1>1, <2>3
    <3>2. QED
      BY <1>2, <2>1, <3>1
  <2>4. QED
    BY <2>2, <2>3
<1>4. {Head(s)} \cup Range(Tail(s)) \subseteq Range(s)
  BY <1>1, <1>2
<1>5. QED
  BY <1>1, <1>3, <1>4

LEMMA EmptyRange == Range(<<>>) = {}
BY DEF Range

-----------------------------------------------------------------------------
(* Types, and where the engine stands with what in its buffers. *)

Basic == TypeOK /\ Shape

(* The two ways of receiving an event share their end: the event is cached *)
(* (or the error ignored) and joins the batch, which goes up if full.      *)
LEMMA PushLemma ==
  ASSUME Basic, NEW e \in Event, CacheAndPush(e), pc \in {"select", "stream"}
  PROVE  /\ IsTree(cache')
         /\ cache' \in {cache, Put(cache, e, run)}
         /\ ~DiskMayFail => cache' = Put(cache, e, run)
         /\ pending' \in Seq(Event) /\ batch' \in Seq(Event)
         /\ \/ pc' = "detect" /\ batch' # <<>> /\ pending' = <<>>
            \/ pc' = "select" /\ batch' = <<>>
         /\ Range(pending') \cup Range(batch') = Range(pending) \cup {e}
<1>1. /\ IsTree(cache) /\ run \in Nat /\ pending \in Seq(Event)
      /\ batch = <<>>
  BY DEF Basic, TypeOK, Shape
<1>2. /\ Append(pending, e) \in Seq(Event) /\ Append(pending, e) # <<>>
      /\ Range(Append(pending, e)) = Range(pending) \cup {e}
  BY <1>1, AppendRange
<1>3. /\ cache' \in {cache, Put(cache, e, run)}
      /\ ~DiskMayFail => cache' = Put(cache, e, run)
  BY DEF CacheAndPush, Attempt
<1>4. IsTree(cache')
  BY <1>1, <1>3, PutLemma
<1>5. <<>> \in Seq(Event)
  BY EmptySeq
<1>6. CASE Len(pending) + 1 >= BatchSize
  <2>1. pc' = "detect" /\ batch' = Append(pending, e) /\ pending' = <<>>
    BY <1>6 DEF CacheAndPush
  <2>2. Range(pending') \cup Range(batch') = Range(pending) \cup {e}
    BY <1>2, <2>1, EmptyRange
  <2>3. QED
    BY <1>2, <1>3, <1>4, <1>5, <2>1, <2>2
<1>7. CASE ~(Len(pending) + 1 >= BatchSize)
  <2>1. pc' = "select" /\ pending' = Append(pending, e) /\ batch' = <<>>
    BY <1>1, <1>7 DEF CacheAndPush
  <2>2. Range(pending') \cup Range(batch') = Range(pending) \cup {e}
    BY <1>2, <2>1, EmptyRange
  <2>3. QED
    BY <1>2, <1>3, <1>4, <1>5, <2>1, <2>2
<1>8. QED
  BY <1>6, <1>7


(* The chunk about to be posted is a non-empty stretch of the output. *)
LEMMA ChunkLemma ==
  ASSUME Basic, pc = "post"
  PROVE  /\ ChunkEnd \in Nat /\ cursor < ChunkEnd /\ ChunkEnd <= Len(output)
         /\ {output[k].ev : k \in cursor + 1 .. ChunkEnd} \subseteq Event
<1>1. /\ output \in Seq(Copy) /\ cursor \in Nat /\ cursor < Len(output)
      /\ ChunkSize \in Nat \ {0} /\ Len(output) \in Nat
  BY EngineAssumption, LenProperties DEF Basic, TypeOK, Shape
<1>2. ChunkEnd \in Nat /\ cursor < ChunkEnd /\ ChunkEnd <= Len(output)
  BY <1>1 DEF ChunkEnd
<1>3. \A k \in cursor + 1 .. ChunkEnd : output[k] \in Copy
  BY <1>1, <1>2, ElementOfSeq
<1>4. QED
  BY <1>2, <1>3 DEF Copy

(* The end of a chunk leads to the next one or to the flagging. *)
LEMMA NextChunkLemma ==
  ASSUME Basic, NEW posTo \in Nat, 0 < posTo, posTo <= Len(output),
         NextChunk(posTo)
  PROVE  /\ pc' \in {"post", "mark"}
         /\ cursor' \in Nat /\ cursor' < Len(output)
         /\ pc' = "post" => cursor' = posTo
         /\ pc' = "mark" => posTo = Len(output)
<1>1. Len(output) \in Nat
  BY LenProperties DEF Basic, TypeOK
<1>2. QED
  BY <1>1 DEF NextChunk

(* A request in flight carries events of the output. *)
LEMMA InFlightLemma ==
  ASSUME Basic
  PROVE  /\ InFlight \subseteq Event /\ InFlight \subseteq Unposted
         /\ Streaming \subseteq Event
<1>1. CASE pc = "post"
  <2>1. InFlight = {output[k].ev : k \in cursor + 1 .. ChunkEnd}
    BY <1>1 DEF InFlight
  <2>2. /\ cursor \in Nat /\ Len(output) \in Nat
        /\ ChunkEnd \in Nat /\ ChunkEnd <= Len(output)
        /\ {output[k].ev : k \in cursor + 1 .. ChunkEnd} \subseteq Event
    BY <1>1, ChunkLemma, LenProperties DEF Basic, TypeOK
  <2>3. Streaming = {} /\ pc # "mark"
    BY <1>1 DEF Streaming
  <2>4. QED
    BY <2>1, <2>2, <2>3 DEF Unposted
<1>2. CASE pc = "single"
  <2>1. /\ output \in Seq(Copy) /\ cursor \in Nat /\ Len(output) \in Nat
        /\ cursor + 1 \in cursor + 1 .. Len(output)
    BY <1>2, LenProperties DEF Basic, TypeOK, Shape
  <2>2. output[cursor + 1] \in Copy
    BY <2>1, ElementOfSeq
  <2>3. InFlight = {output[cursor + 1].ev} /\ Streaming = {}
    BY <1>2 DEF InFlight, Streaming
  <2>4. QED
    BY <1>2, <2>1, <2>2, <2>3 DEF Unposted, Copy
<1>3. CASE pc \notin {"post", "single"}
  <2>1. InFlight = {}
    BY <1>3 DEF InFlight
  <2>2. pc = "stream" => cur \in Event
    BY DEF Basic, TypeOK, Shape
  <2>3. QED
    BY <2>1, <2>2 DEF Streaming
<1>4. QED
  BY <1>1, <1>2, <1>3

(* A copy of an event appended to the output, or nothing. *)
LEMMA OutputLemma ==
  ASSUME NEW S, NEW s \in Seq(S), NEW kept,
         kept = <<>> \/ \E o \in S : kept = <<o>>
  PROVE  /\ kept \in Seq(S) /\ s \o kept \in Seq(S)
         /\ Len(s \o kept) = Len(s) + Len(kept)
         /\ \A k \in 1 .. Len(s) : (s \o kept)[k] = s[k]
         /\ kept = <<>> => s \o kept = s
         /\ \A o \in S : kept = <<o>> => /\ Len(s \o kept) = Len(s) + 1
                                       /\ (s \o kept)[Len(s) + 1] = o
<1>1. CASE kept = <<>>
  <2>1. kept \in Seq(S) /\ Len(kept) = 0
    BY <1>1, EmptySeq
  <2>2. s \o kept = s /\ \A o \in S : kept # <<o>>
    BY <1>1, <2>1, ConcatEmptySeq
  <2>3. QED
    BY <1>1, <2>1, <2>2, LenProperties
<1>2. ASSUME NEW o \in S, kept = <<o>>
      PROVE  /\ kept \in Seq(S) /\ s \o kept \in Seq(S)
             /\ Len(s \o kept) = Len(s) + 1 /\ Len(kept) = 1
             /\ \A k \in 1 .. Len(s) : (s \o kept)[k] = s[k]
             /\ (s \o kept)[Len(s) + 1] = o
             /\ kept # <<>>
  <2>1. kept \in Seq(S) /\ Len(kept) = 1 /\ kept[1] = o /\ kept # <<>>
    BY <1>2
  <2>2. Len(s) \in Nat
    BY LenProperties
  <2>3. /\ s \o kept \in Seq(S) /\ Len(s \o kept) = Len(s) + 1
        /\ \A i \in 1 .. Len(s) + 1 :
             (s \o kept)[i] = IF i <= Len(s) THEN s[i] ELSE kept[i - Len(s)]
    BY <2>1, ConcatProperties
  <2>4. QED
    BY <2>1, <2>2, <2>3
<1>3. QED
  BY <1>1, <1>2

(* One event of the batch through conflict resolution: a copy of it joins  *)
(* the output, or server_wins drops it; then the engine goes on with the   *)
(* batch, starts posting, or has nothing to post.                          *)
LEMMA DetectLemma ==
  ASSUME Basic, Detect
  PROVE  /\ pc = "detect" /\ cursor = 0 /\ batch # <<>>
         /\ Head(batch) \in Event
         /\ batch' = Tail(batch) /\ batch' \in Seq(Event)
         /\ Range(batch) = {Head(batch)} \cup Range(batch')
         /\ UNCHANGED <<cur, pending, limit, world, chan, cache,
                        received, posted, stored>>
         /\ \E kept :
              /\ \/ /\ kept = <<>> /\ discarded' = discarded \cup {Head(batch)}
                    /\ InConflict(cache, Head(batch))
                    /\ Strategy = "server_wins"
                 \/ /\ discarded' = discarded
                    /\ \E o \in Copy :
                         /\ kept = <<o>> /\ o.ev = Head(batch)
                         /\ o.id \in {IdOf[Head(batch)], Fresh}
                         /\ ~InConflict(cache, Head(batch))
                              => o.id = IdOf[Head(batch)]
              /\ \/ /\ batch' # <<>>
                    /\ output' = output \o kept
                    /\ UNCHANGED <<pc, cursor, ticking, cacheStats>>
                 \/ /\ batch' = <<>> /\ output \o kept # <<>>
                    /\ output' = output \o kept
                    /\ pc' = "post"
                    /\ UNCHANGED <<cursor, ticking, cacheStats>>
                 \/ /\ batch' = <<>> /\ output \o kept = <<>>
                    /\ FinishBatch(cache)
<1>1. /\ pc = "detect" /\ batch' = Tail(batch)
      /\ UNCHANGED <<cur, pending, limit, world, chan, cache,
                     received, posted, stored>>
  BY DEF Detect
<1>2. batch \in Seq(Event) /\ batch # <<>> /\ cursor = 0 /\ IsTree(cache)
  BY <1>1 DEF Basic, TypeOK, Shape
<1>3. /\ Head(batch) \in Event /\ Tail(batch) \in Seq(Event)
      /\ Range(batch) = {Head(batch)} \cup Range(Tail(batch))
  BY <1>2, TailRange
<1>4. PICK kept \in {Kept(cache, Head(batch))}
                      \cup (IF DiskMayFail THEN {<<AsIs(Head(batch))>>} ELSE {}) :
        /\ discarded' = IF kept = <<>> THEN discarded \cup {Head(batch)}
                                       ELSE discarded
        /\ \/ /\ Tail(batch) # <<>>
              /\ output' = output \o kept
              /\ UNCHANGED <<pc, cursor, ticking, cacheStats>>
           \/ /\ Tail(batch) = <<>> /\ output \o kept # <<>>
              /\ output' = output \o kept
              /\ pc' = "post"
              /\ UNCHANGED <<cursor, ticking, cacheStats>>
           \/ /\ Tail(batch) = <<>> /\ output \o kept = <<>>
              /\ FinishBatch(cache)
  BY DEF Detect
<1>5. /\ AsIs(Head(batch)) \in Copy /\ AsIs(Head(batch)).ev = Head(batch)
      /\ AsIs(Head(batch)).id = IdOf[Head(batch)]
  BY <1>3, EventAssumption DEF AsIs, Copy
<1>6. \/ kept = <<>> /\ InConflict(cache, Head(batch)) /\ Strategy = "server_wins"
      \/ \E o \in Copy : /\ kept = <<o>>
                         /\ o.ev = Head(batch)
                         /\ o.id \in {IdOf[Head(batch)], Fresh}
                         /\ ~InConflict(cache, Head(batch))
                              => o.id = IdOf[Head(batch)]
  <2>1. CASE kept = Kept(cache, Head(batch))
    BY <1>2, <1>3, <2>1, KeptLemma
  <2>2. CASE kept = <<AsIs(Head(batch))>>
    BY <1>5, <2>2
  <2>3. QED
    BY <1>4, <2>1, <2>2
<1>7. \A o \in Copy : kept = <<o>> => kept # <<>>
  OBVIOUS
<1>8. \/ /\ kept = <<>> /\ discarded' = discarded \cup {Head(batch)}
         /\ InConflict(cache, Head(batch)) /\ Strategy = "server_wins"
      \/ /\ discarded' = discarded
         /\ \E o \in Copy :
              /\ kept = <<o>> /\ o.ev = Head(batch)
              /\ o.id \in {IdOf[Head(batch)], Fresh}
              /\ ~InConflict(cache, Head(batch)) => o.id = IdOf[Head(batch)]
  BY <1>4, <1>6, <1>7
<1>9. QED
  BY <1>1, <1>2, <1>3, <1>4, <1>8

LEMMA BasicInit == Init => Basic
<1> SUFFICES ASSUME Init PROVE Basic
  OBVIOUS
<1>1. <<>> \in Seq(Event) /\ <<>> \in Seq(Copy)
  BY EmptySeq
<1>2. IsTree(cache)
  <2>1. DOMAIN cache = {}
    BY DEF Init
  <2>2. QED
    BY <2>1, FS_EmptySet DEF IsTree
<1>3. QED
  BY <1>1, <1>2, EngineAssumption
  DEF Basic, TypeOK, Shape, Init, Idle, PCs, NoStats

LEMMA BasicStep == Basic /\ [Next]_vars => Basic'
<1> SUFFICES ASSUME Basic, [Next]_vars PROVE Basic'
  OBVIOUS
<1> USE DEF Basic
<1>1. /\ <<>> \in Seq(Event) /\ <<>> \in Seq(Copy)
      /\ IsTree(cache) /\ output \in Seq(Copy) /\ Len(output) \in Nat
  BY EmptySeq, LenProperties DEF TypeOK
<1>2. ASSUME NEW e \in Event, Send(e) PROVE Basic'
  <2>1. chan' \in Seq(Event)
    BY <1>2, AppendRange DEF Send, TypeOK
  <2>2. QED
    BY <1>2, <2>1 DEF Send, TypeOK, Shape, engine
<1>3. ASSUME NEW e \in Event, Import(e) PROVE Basic'
  <2>1. IsTree(cache')
    <3>1. run \in Nat /\ cache' \in {cache, Put(cache, e, run)}
      BY <1>3 DEF Import, Attempt, TypeOK
    <3>2. QED
      BY <1>1, <3>1, PutLemma
  <2>2. QED
    BY <1>3, <2>1 DEF Import, TypeOK, Shape, engine, world
<1>4. ASSUME NEW cutoff \in Cutoffs, Prune(cutoff) PROVE Basic'
  <2>1. IsTree(cache')
    <3>1. PICK gone : cache' = Evict(cache, gone)
      BY <1>4 DEF Prune
    <3>2. QED
      BY <1>1, <3>1, EvictLemma
  <2>2. QED
    BY <1>4, <2>1 DEF Prune, TypeOK, Shape, engine, world
<1>5. CASE Outage
  BY <1>5 DEF Outage, TypeOK, Shape, engine
<1>6. CASE Reconnect
  BY <1>6 DEF Reconnect, TypeOK, Shape, engine
<1>8. CASE Start
  BY <1>8 DEF Start, TypeOK, Shape, PCs
<1>9. CASE Stop
  <2>1. PICK left \in {{}, InFlight} :
          /\ posted' = posted \cup left
          /\ \E served \in SUBSET (left \cup Streaming) :
               stored' = stored \cup served
    BY <1>9 DEF Stop
  <2>2. posted' \subseteq Event /\ stored' \subseteq Event
    BY <2>1, InFlightLemma DEF TypeOK
  <2>3. QED
    BY <1>1, <1>9, <2>2, EngineAssumption
    DEF Stop, TypeOK, Shape, PCs, NoStats, world
<1>10. CASE Recv
  <2>1. /\ Head(chan) \in Event /\ chan' \in Seq(Event)
        /\ received' \subseteq Event
    BY <1>10, TailRange DEF Recv, TypeOK
  <2>2. CASE EnableStreaming
    BY <1>10, <2>1, <2>2, EngineAssumption
    DEF Recv, TypeOK, Shape, PCs, world
  <2>3. CASE ~EnableStreaming
    <3>1. CacheAndPush(Head(chan)) /\ cur' = cur /\ pc = "select"
      BY <1>10, <2>3 DEF Recv
    <3>2. /\ IsTree(cache') /\ pending' \in Seq(Event) /\ batch' \in Seq(Event)
          /\ \/ pc' = "detect" /\ batch' # <<>> /\ pending' = <<>>
             \/ pc' = "select" /\ batch' = <<>>
      BY <2>1, <3>1, PushLemma
    <3>3. QED
      BY <1>10, <2>1, <3>1, <3>2 DEF Recv, TypeOK, Shape, PCs, world
  <2>4. QED
    BY <2>2, <2>3
<1>11. CASE Streamed
  <2>1. cur \in Event /\ CacheAndPush(cur) /\ pc = "stream"
    BY <1>11 DEF Streamed, TypeOK, Shape
  <2>2. /\ IsTree(cache') /\ pending' \in Seq(Event) /\ batch' \in Seq(Event)
        /\ \/ pc' = "detect" /\ batch' # <<>> /\ pending' = <<>>
           \/ pc' = "select" /\ batch' = <<>>
    BY <2>1, PushLemma
  <2>3. stored' \subseteq Event
    BY <1>11, <2>1 DEF Streamed, TypeOK
  <2>4. QED
    BY <1>11, <2>1, <2>2, <2>3 DEF Streamed, TypeOK, Shape, PCs, world
<1>12. CASE Tick
  BY <1>1, <1>12, StatsLemma DEF Tick, TypeOK, Shape, PCs, world
<1>13. CASE Detect
  <2>1. /\ pc = "detect" /\ cursor = 0 /\ Head(batch) \in Event
        /\ batch' \in Seq(Event)
        /\ UNCHANGED <<cur, pending, limit, world, chan, cache,
                       received, posted, stored>>
    BY <1>13, DetectLemma
  <2>2. PICK kept :
          /\ \/ kept = <<>> /\ discarded' = discarded \cup {Head(batch)}
             \/ discarded' = discarded /\ \E o \in Copy : kept = <<o>>
          /\ \/ /\ batch' # <<>>
                /\ output' = output \o kept
                /\ UNCHANGED <<pc, cursor, ticking, cacheStats>>
             \/ /\ batch' = <<>> /\ output \o kept # <<>>
                /\ output' = output \o kept
                /\ pc' = "post"
                /\ UNCHANGED <<cursor, ticking, cacheStats>>
             \/ /\ batch' = <<>> /\ output \o kept = <<>>
                /\ FinishBatch(cache)
    BY <1>13, DetectLemma
  <2>3. output \o kept \in Seq(Copy) /\ discarded' \subseteq Event
    BY <1>1, <2>1, <2>2, OutputLemma DEF TypeOK
  <2>4. CASE batch' # <<>>
    BY <2>1, <2>2, <2>3, <2>4 DEF TypeOK, Shape, PCs, world
  <2>5. CASE batch' = <<>> /\ output \o kept # <<>>
    <3>1. /\ output' = output \o kept /\ pc' = "post"
          /\ UNCHANGED <<cursor, ticking, cacheStats>>
      BY <2>2, <2>5
    <3>2. Len(output') \in Nat /\ Len(output') # 0
      BY <2>3, <2>5, <3>1, LenProperties, EmptySeq
    <3>3. 0 < Len(output')
      BY <3>2
    <3>4. QED
      BY <2>1, <2>3, <2>5, <3>1, <3>3 DEF TypeOK, Shape, PCs, world
  <2>6. CASE batch' = <<>> /\ output \o kept = <<>>
    <3>1. FinishBatch(cache)
      BY <2>2, <2>6
    <3>2. cacheStats' \in [total : Nat, uploaded : Nat, pending : Nat]
      BY <1>1, <3>1, StatsLemma DEF FinishBatch, TypeOK
    <3>3. QED
      BY <1>1, <2>1, <2>3, <2>6, <3>1, <3>2
      DEF FinishBatch, TypeOK, Shape, PCs, world
  <2>7. QED
    BY <2>4, <2>5, <2>6
<1>14. CASE PostChunk
  <2> DEFINE events == {output[k].ev : k \in cursor + 1 .. ChunkEnd}
  <2>1. PICK o \in Outcomes(events) :
          /\ posted' = posted \cup events
          /\ stored' = stored \cup o.served
          /\ IF o.success
               THEN NextChunk(ChunkEnd) /\ UNCHANGED limit
               ELSE pc' = "single" /\ limit' = ChunkEnd /\ UNCHANGED cursor
    BY <1>14 DEF PostChunk
  <2>2. /\ events \subseteq Event /\ ChunkEnd \in Nat /\ cursor < ChunkEnd
        /\ ChunkEnd <= Len(output) /\ cursor \in Nat /\ pc = "post"
    BY <1>14, ChunkLemma DEF PostChunk, TypeOK
  <2>3. o.served \subseteq Event
    BY <2>2 DEF Outcomes
  <2>4. posted' \subseteq Event /\ stored' \subseteq Event
    BY <2>1, <2>2, <2>3 DEF TypeOK
  <2>5. CASE o.success
    <3>1. /\ pc' \in {"post", "mark"} /\ cursor' \in Nat
          /\ cursor' < Len(output)
      BY <2>1, <2>2, <2>5, NextChunkLemma
    <3>2. QED
      BY <1>1, <1>14, <2>1, <2>2, <2>4, <2>5, <3>1
      DEF PostChunk, TypeOK, Shape, PCs, world
  <2>6. CASE ~o.success
    BY <1>1, <1>14, <2>1, <2>2, <2>4, <2>6
    DEF PostChunk, TypeOK, Shape, PCs, world
  <2>7. QED
    BY <2>5, <2>6
<1>15. CASE PostSingle
  <2> DEFINE e == output[cursor + 1].ev
  <2>1. /\ pc = "single" /\ cursor \in Nat /\ limit \in Nat
        /\ cursor < limit /\ limit <= Len(output)
    BY <1>15 DEF PostSingle, TypeOK, Shape
  <2>2. e \in Event
    <3>1. output[cursor + 1] \in Copy
      BY <1>1, <2>1, ElementOfSeq
    <3>2. QED
      BY <3>1 DEF Copy
  <2>3. PICK o \in Outcomes({e}) :
          posted' = posted \cup {e} /\ stored' = stored \cup o.served
    BY <1>15 DEF PostSingle
  <2>4. posted' \subseteq Event /\ stored' \subseteq Event
    BY <2>2, <2>3 DEF Outcomes, TypeOK
  <2>5. CASE cursor + 1 < limit
    BY <1>1, <1>15, <2>1, <2>4, <2>5
    DEF PostSingle, TypeOK, Shape, PCs, world
  <2>6. CASE ~(cursor + 1 < limit)
    <3>1. NextChunk(cursor + 1) /\ limit' = 0
      BY <1>15, <2>6 DEF PostSingle
    <3>2. /\ pc' \in {"post", "mark"} /\ cursor' \in Nat
          /\ cursor' < Len(output)
      BY <1>1, <2>1, <2>6, <3>1, NextChunkLemma
    <3>3. QED
      BY <1>1, <1>15, <2>1, <2>4, <3>1, <3>2
      DEF PostSingle, TypeOK, Shape, PCs, world
  <2>7. QED
    BY <2>5, <2>6
<1>16. CASE Mark
  <2>1. /\ pc = "mark" /\ cursor \in Nat /\ IsTree(cache')
    BY <1>1, <1>16, MarkLemma DEF Mark, Attempt, TypeOK
  <2>2. CASE cursor + 1 < Len(output)
    BY <1>1, <1>16, <2>1, <2>2 DEF Mark, TypeOK, Shape, PCs, world
  <2>3. CASE ~(cursor + 1 < Len(output))
    <3>1. FinishBatch(cache')
      BY <1>16, <2>3 DEF Mark
    <3>2. cacheStats' \in [total : Nat, uploaded : Nat, pending : Nat]
      BY <2>1, <3>1, StatsLemma DEF FinishBatch, TypeOK
    <3>3. QED
      BY <1>1, <1>16, <2>1, <3>1, <3>2
      DEF Mark, FinishBatch, TypeOK, Shape, PCs, world
  <2>4. QED
    BY <2>2, <2>3
<1>17. CASE UNCHANGED vars
  BY <1>17 DEF vars, engine, world, TypeOK, Shape
<1>18. QED
  BY <1>2, <1>3, <1>4, <1>5, <1>6, <1>8, <1>9, <1>10, <1>11, <1>12,
     <1>13, <1>14, <1>15, <1>16, <1>17
  DEF Next, Upload, Environment

(* The engine's variables keep their types, whatever fails. *)
THEOREM TypeCorrect == Spec => []TypeOK
<1>1. Basic => TypeOK
  BY DEF Basic
<1>2. QED
  BY <1>1, BasicInit, BasicStep, PTL DEF Spec
-----------------------------------------------------------------------------
(* What the engine holds, and what was posted. *)

(* Posting: the events of the request are the ones tried, and the engine   *)
(* lets go only of events that were tried.                                 *)
LEMMA PostLemma ==
  ASSUME Basic, CursorPosted, PostChunk \/ PostSingle
  PROVE  /\ \E S \in SUBSET Held : posted' = posted \cup S
         /\ Held' \subseteq Held /\ Held \subseteq Held' \cup posted'
         /\ CursorPosted'
         /\ UNCHANGED <<cur, pending, batch, output, cache, received, discarded>>
<1>1. /\ output \in Seq(Copy) /\ Len(output) \in Nat /\ cursor \in Nat
      /\ DOMAIN output = 1 .. Len(output) /\ limit \in Nat
      /\ UNCHANGED <<cur, pending, batch, output, cache, received, discarded>>
  BY LenProperties DEF Basic, TypeOK, PostChunk, PostSingle
<1>2. CASE PostChunk
  <2> DEFINE events == {output[k].ev : k \in cursor + 1 .. ChunkEnd}
  <2>1. PICK o \in Outcomes(events) :
          /\ posted' = posted \cup events
          /\ IF o.success
               THEN NextChunk(ChunkEnd) /\ UNCHANGED limit
               ELSE pc' = "single" /\ limit' = ChunkEnd /\ UNCHANGED cursor
    BY <1>2 DEF PostChunk
  <2>2. /\ ChunkEnd \in Nat /\ cursor < ChunkEnd /\ ChunkEnd <= Len(output)
        /\ pc = "post"
    BY <1>2, ChunkLemma DEF PostChunk
  <2>3. events \subseteq Unposted
    BY <1>1, <2>2 DEF Unposted
  <2>4. CASE o.success
    <3>1. /\ pc' \in {"post", "mark"}
          /\ pc' = "post" => cursor' = ChunkEnd
          /\ pc' = "mark" => ChunkEnd = Len(output)
      <4>1. NextChunk(ChunkEnd) /\ 0 < ChunkEnd
        BY <1>1, <2>1, <2>2, <2>4
      <4>2. QED
        BY <2>2, <4>1, NextChunkLemma
    <3>2. CASE pc' = "mark"
      <4>1. Unposted' = {} /\ Unposted = events
        BY <1>1, <2>2, <3>1, <3>2 DEF Unposted
      <4>2. CursorPosted'
        BY <1>1, <2>1, <2>2, <3>1, <3>2 DEF CursorPosted
      <4>3. QED
        BY <1>1, <2>1, <2>3, <4>1, <4>2 DEF Held
    <3>3. CASE pc' = "post"
      <4>1. Unposted' \subseteq Unposted /\ Unposted \subseteq Unposted' \cup events
        BY <1>1, <2>2, <3>1, <3>3 DEF Unposted
      <4>2. CursorPosted'
        BY <1>1, <2>1, <2>2, <3>1, <3>3 DEF CursorPosted
      <4>3. QED
        BY <1>1, <2>1, <2>3, <4>1, <4>2 DEF Held
    <3>4. QED
      BY <3>1, <3>2, <3>3
  <2>5. CASE ~o.success
    <3>1. Unposted' = Unposted /\ CursorPosted'
      BY <1>1, <2>1, <2>2, <2>5 DEF Unposted, CursorPosted
    <3>2. QED
      BY <1>1, <2>1, <2>3, <3>1 DEF Held
  <2>6. QED
    BY <2>4, <2>5
<1>3. CASE PostSingle
  <2> DEFINE e == output[cursor + 1].ev
  <2>1. /\ pc = "single" /\ cursor < limit /\ limit <= Len(output)
        /\ posted' = posted \cup {e}
    BY <1>3 DEF PostSingle, Basic, Shape
  <2>2. e \in Unposted
    BY <1>1, <2>1 DEF Unposted
  <2>3. /\ pc' \in {"post", "mark", "single"}
        /\ pc' \in {"post", "single"} => cursor' = cursor + 1
        /\ pc' = "mark" => cursor + 1 = Len(output)
    <3>1. CASE cursor + 1 < limit
      BY <1>3, <2>1, <3>1 DEF PostSingle
    <3>2. CASE ~(cursor + 1 < limit)
      <4>1. NextChunk(cursor + 1)
        BY <1>3, <3>2 DEF PostSingle
      <4>2. cursor + 1 \in Nat /\ 0 < cursor + 1 /\ cursor + 1 <= Len(output)
        BY <1>1, <2>1
      <4>3. QED
        BY <4>1, <4>2, NextChunkLemma
    <3>3. QED
      BY <3>1, <3>2
  <2>4. CASE pc' = "mark"
    <3>1. Unposted' = {} /\ Unposted = {e}
      BY <1>1, <2>1, <2>3, <2>4 DEF Unposted
    <3>2. CursorPosted'
      BY <1>1, <2>1, <2>3, <2>4 DEF CursorPosted
    <3>3. QED
      BY <1>1, <2>1, <3>1, <3>2 DEF Held
  <2>5. CASE pc' \in {"post", "single"}
    <3>1. Unposted' \subseteq Unposted /\ Unposted \subseteq Unposted' \cup {e}
      BY <1>1, <2>1, <2>3, <2>5 DEF Unposted
    <3>2. CursorPosted'
      <4>1. \A k \in DOMAIN output :
              k <= cursor + 1 => k <= cursor \/ output[k].ev = e
        BY <1>1
      <4>2. QED
        BY <1>1, <2>1, <2>3, <2>5, <4>1 DEF CursorPosted
    <3>3. QED
      BY <1>1, <2>1, <2>2, <3>1, <3>2 DEF Held
  <2>6. QED
    BY <2>3, <2>4, <2>5
<1>4. QED
  BY <1>2, <1>3

(* Before the upload the output holds nothing.                             *)
LEMMA EarlyLemma ==
  ASSUME Basic, pc \in {"down", "select", "stream"}
  PROVE  Unposted = {} /\ Range(batch) = {} /\ Len(output) = 0
<1>1. batch = <<>> /\ output = <<>> /\ cursor = 0 /\ Len(output) = 0
  BY EmptySeq DEF Basic, Shape
<1>2. QED
  BY <1>1, EmptyRange DEF Unposted

(* Receiving takes one event over; streaming and caching it keeps it held. *)
LEMMA ReceiveLemma ==
  ASSUME Basic, Recv \/ Streamed
  PROVE  /\ UNCHANGED <<output, cursor, posted, discarded>>
         /\ CursorPosted'
         /\ \/ \E e \in Event : Held' = Held \cup {e} /\ received' = received \cup {e}
            \/ Held' = Held /\ received' = received
<1>1. /\ UNCHANGED <<output, cursor, posted, discarded>>
      /\ pc \in {"select", "stream"}
  BY DEF Recv, Streamed
<1>2. output = <<>> /\ cursor = 0 /\ pc' \in {"select", "stream", "detect"}
  BY <1>1 DEF Basic, Shape, Recv, Streamed, CacheAndPush
<1>3. Unposted = {} /\ Unposted' = {} /\ Range(batch) = {}
  BY <1>1, <1>2, EarlyLemma, EmptySeq DEF Unposted
<1>4. CursorPosted'
  BY <1>1, <1>2 DEF CursorPosted
<1>5. CASE Recv
  <2>1. /\ Head(chan) \in Event /\ received' = received \cup {Head(chan)}
        /\ cur = None /\ pc = "select"
    BY <1>5, TailRange DEF Recv, Basic, TypeOK, Shape
  <2>2. CASE EnableStreaming
    <3>1. cur' = Head(chan) /\ UNCHANGED <<pending, batch>>
      BY <1>5, <2>2 DEF Recv
    <3>2. Held' = Held \cup {Head(chan)}
      BY <1>3, <2>1, <3>1, EngineAssumption DEF Held
    <3>3. QED
      BY <1>1, <1>4, <2>1, <3>2
  <2>3. CASE ~EnableStreaming
    <3>1. CacheAndPush(Head(chan)) /\ cur' = cur
      BY <1>5, <2>3 DEF Recv
    <3>2. Range(pending') \cup Range(batch') = Range(pending) \cup {Head(chan)}
      BY <2>1, <3>1, PushLemma
    <3>3. Held' = Held \cup {Head(chan)}
      BY <1>3, <2>1, <3>1, <3>2 DEF Held
    <3>4. QED
      BY <1>1, <1>4, <2>1, <3>3
  <2>4. QED
    BY <2>2, <2>3
<1>6. CASE Streamed
  <2>1. /\ cur \in Event /\ cur # None /\ cur' = None /\ pc = "stream"
        /\ CacheAndPush(cur) /\ received' = received
    BY <1>6 DEF Streamed, Basic, TypeOK, Shape
  <2>2. Range(pending') \cup Range(batch') = Range(pending) \cup {cur}
    BY <2>1, PushLemma
  <2>3. Held' = Held
    BY <1>3, <2>1, <2>2 DEF Held
  <2>4. QED
    BY <1>1, <1>4, <2>1, <2>3
<1>7. QED
  BY <1>5, <1>6

(* Conflict resolution lets go of the event it drops at most.              *)
LEMMA ResolveLemma ==
  ASSUME Basic, Detect
  PROVE  /\ CursorPosted'
         /\ UNCHANGED <<posted, received>>
         /\ \/ Held' = Held /\ discarded' = discarded
            \/ /\ Held' \in {Held, Held \ {Head(batch)}}
               /\ discarded' = discarded \cup {Head(batch)}
               /\ InConflict(cache, Head(batch)) /\ Strategy = "server_wins"
<1>1. /\ pc = "detect" /\ cursor = 0 /\ Head(batch) \in Event
      /\ Range(batch) = {Head(batch)} \cup Range(batch')
      /\ UNCHANGED <<cur, pending, posted, received>>
  BY DetectLemma
<1>2. PICK kept :
        /\ \/ /\ kept = <<>> /\ discarded' = discarded \cup {Head(batch)}
              /\ InConflict(cache, Head(batch)) /\ Strategy = "server_wins"
           \/ /\ discarded' = discarded
              /\ \E o \in Copy : kept = <<o>> /\ o.ev = Head(batch)
        /\ \/ /\ output' = output \o kept
              /\ UNCHANGED cursor /\ pc' \in {"detect", "post"}
           \/ /\ output \o kept = <<>> /\ output' = <<>>
              /\ cursor' = 0 /\ pc' = "select"
  BY <1>1, DetectLemma DEF FinishBatch
<1>3. /\ output \in Seq(Copy) /\ Len(output) \in Nat
      /\ cursor' = 0 /\ pc' # "mark"
  BY <1>1, <1>2, LenProperties DEF Basic, TypeOK
<1>4. CursorPosted'
  <2>1. output' \in Seq(Copy)
    <3>1. kept = <<>> \/ \E o \in Copy : kept = <<o>>
      BY <1>2
    <3>2. <<>> \in Seq(Copy) /\ output \o kept \in Seq(Copy)
      BY <1>3, <3>1, OutputLemma, EmptySeq
    <3>3. QED
      BY <1>2, <3>2
  <2>2. DOMAIN output' = 1 .. Len(output')
    BY <2>1, LenProperties
  <2>3. QED
    BY <1>3, <2>2 DEF CursorPosted
<1>5. output' = output \o kept
  BY <1>2
<1>6. /\ Unposted  = {output[k].ev  : k \in 1 .. Len(output)}
      /\ Unposted' = {output'[k].ev : k \in 1 .. Len(output')}
  BY <1>1, <1>3 DEF Unposted
<1>7. CASE kept = <<>>
  <2>1. output' = output
    BY <1>3, <1>5, <1>7, ConcatEmptySeq
  <2>2. Unposted' = Unposted
    BY <1>6, <2>1
  <2>3. Held' \in {Held, Held \ {Head(batch)}}
    BY <1>1, <2>2 DEF Held
  <2>4. \A o \in Copy : kept # <<o>>
    BY <1>7
  <2>5. QED
    BY <1>1, <1>2, <1>4, <2>3, <2>4
<1>8. ASSUME NEW o \in Copy, kept = <<o>>, o.ev = Head(batch)
      PROVE  Unposted' = Unposted \cup {Head(batch)}
  <2>1. /\ Len(output') = Len(output) + 1
        /\ \A k \in 1 .. Len(output) : output'[k] = output[k]
        /\ output'[Len(output) + 1] = o
    BY <1>3, <1>5, <1>8, OutputLemma
  <2>2. QED
    BY <1>3, <1>6, <1>8, <2>1
<1>9. CASE discarded' = discarded /\ Unposted' = Unposted \cup {Head(batch)}
  BY <1>1, <1>4, <1>9 DEF Held
<1>10. QED
  BY <1>2, <1>7, <1>8, <1>9

(* One step in terms of the contract: what the engine holds is taken over, *)
(* offered, given up by server_wins or lost with the daemon.               *)
LEMMA HeldStep ==
  ASSUME Basic, CursorPosted, [Next]_vars
  PROVE  /\ CursorPosted'
         /\ \/ UNCHANGED <<Held, posted, received, discarded>>
            \/ /\ \E e \in Event : /\ Contract!Take(e)
                                   /\ received' = received \cup {e}
               /\ UNCHANGED discarded
            \/ /\ Detect /\ Strategy = "server_wins"
               /\ InConflict(cache, Head(batch))
               /\ Held' \in {Held, Held \ {Head(batch)}}
               /\ discarded' = discarded \cup {Head(batch)}
               /\ UNCHANGED <<posted, received>>
            \/ /\ \E S, D \in SUBSET Held : Contract!Offer(S, D)
               /\ UNCHANGED <<received, discarded>>
            \/ /\ \E S \in SUBSET Held : Contract!Lose(S)
               /\ received' = {} /\ discarded' = {}
<1>1. ASSUME UNCHANGED <<pc, cur, pending, batch, output, cursor,
                         posted, received, discarded>>
      PROVE  CursorPosted' /\ UNCHANGED <<Held, posted, received, discarded>>
  BY <1>1 DEF CursorPosted, Held, Unposted
<1>2. CASE \/ \E e \in Event : Send(e) \/ Import(e)
           \/ \E cutoff \in Cutoffs : Prune(cutoff)
           \/ Outage \/ Reconnect \/ UNCHANGED vars
  <2>1. UNCHANGED <<pc, cur, pending, batch, output, cursor,
                    posted, received, discarded>>
    BY <1>2 DEF Send, Import, Prune, Outage, Reconnect,
                vars, engine
  <2>2. QED
    BY <1>1, <2>1
<1>3. CASE Start
  <2>1. /\ UNCHANGED <<cur, pending, batch, output, cursor,
                       posted, received, discarded>>
        /\ pc # "mark" /\ pc' # "mark"
    BY <1>3 DEF Start
  <2>2. QED
    BY <2>1 DEF CursorPosted, Held, Unposted
<1>4. CASE Stop
  <2>1. PICK left \in {{}, InFlight} : posted' = posted \cup left
    BY <1>4 DEF Stop
  <2>2. left \in SUBSET Held
    BY InFlightLemma DEF Held
  <2>3. /\ cur' = None /\ pending' = <<>> /\ batch' = <<>> /\ output' = <<>>
        /\ cursor' = 0 /\ pc' = "down" /\ received' = {} /\ discarded' = {}
    BY <1>4 DEF Stop
  <2>4. Held' = {} /\ CursorPosted'
    BY <2>3, EmptyRange, EmptySeq DEF Held, Unposted, CursorPosted
  <2>5. Contract!Lose(left)
    BY <2>1, <2>2, <2>4 DEF Contract!Lose
  <2>6. QED
    BY <2>2, <2>3, <2>4, <2>5
<1>5. CASE Recv \/ Streamed
  BY <1>5, ReceiveLemma DEF Contract!Take
<1>6. CASE Tick
  <2>1. /\ UNCHANGED <<cur, output, cursor, posted, received, discarded>>
        /\ pc # "mark" /\ pc' # "mark" /\ pc = "select"
        /\ \/ pending' = <<>> /\ batch' = pending
           \/ UNCHANGED <<pending, batch>>
    BY <1>6 DEF Tick
  <2>2. Range(pending') \cup Range(batch') = Range(pending) \cup Range(batch)
    BY <2>1, EarlyLemma, EmptyRange
  <2>3. QED
    BY <2>1, <2>2 DEF CursorPosted, Held, Unposted
<1>7. CASE Detect
  BY <1>7, ResolveLemma
<1>8. CASE PostChunk \/ PostSingle
  <2>1. PICK S \in SUBSET Held : posted' = posted \cup S
    BY <1>8, PostLemma
  <2>2. /\ Held' \subseteq Held /\ Held \subseteq Held' \cup posted'
        /\ CursorPosted' /\ UNCHANGED <<received, discarded>>
    BY <1>8, PostLemma
  <2>3. Contract!Offer(S, Held \ Held')
    BY <2>1, <2>2 DEF Contract!Offer
  <2>4. QED
    BY <2>2, <2>3
<1>9. CASE Mark
  <2>1. UNCHANGED <<cur, pending, batch, posted, received, discarded>>
    BY <1>9 DEF Mark
  <2>2. /\ pc = "mark"
        /\ \/ pc' = pc /\ output' = output
           \/ pc' = "select" /\ output' = <<>> /\ cursor' = 0
    BY <1>9 DEF Mark, FinishBatch
  <2>3. Unposted' = {} /\ CursorPosted'
    BY <2>1, <2>2, EmptySeq DEF Unposted, CursorPosted
  <2>4. Unposted = {}
    BY <2>2 DEF Unposted
  <2>5. QED
    BY <2>1, <2>3, <2>4 DEF Held
<1>10. QED
  BY <1>2, <1>3, <1>4, <1>5, <1>6, <1>7, <1>8, <1>9
  DEF Next, Upload, Environment

LEMMA CursorInit == Init => CursorPosted
BY EmptySeq DEF Init, Idle, CursorPosted

(* No received event is lost inside the engine, whatever fails: it is      *)
(* held, was carried by a request, or was dropped by server_wins.          *)
THEOREM NothingSkipped == Spec => []NoEventSkipped
<1> DEFINE Inv == Basic /\ CursorPosted /\ NoEventSkipped
<1>1. Init => Inv
  BY BasicInit, CursorInit DEF Init, Idle, NoEventSkipped
<1>2. Inv /\ [Next]_vars => Inv'
  <2> SUFFICES ASSUME Inv, [Next]_vars PROVE Inv'
    OBVIOUS
  <2>1. Basic' /\ CursorPosted'
    BY BasicStep, HeldStep
  <2>2. NoEventSkipped'
    BY HeldStep
    DEF NoEventSkipped, Contract!Take, Contract!Offer, Contract!Lose
  <2>3. QED
    BY <2>1, <2>2
<1>3. QED
  BY <1>1, <1>2, PTL DEF Spec
-----------------------------------------------------------------------------
(* The cache and the batch, on a disk that does not fail. *)

(* An event that joins the batch through put is covered, and so is what    *)
(* was covered before under another id.                                    *)
LEMMA PutCovers ==
  ASSUME Basic, ~DiskMayFail, CacheCovers, UploadedWasPosted,
         NEW e \in Event, CacheAndPush(e), pc \in {"select", "stream"},
         UNCHANGED <<output, posted>>
  PROVE  CacheCovers' /\ UploadedWasPosted'
<1>1. /\ cache' = Put(cache, e, run) /\ IsTree(cache')
      /\ Range(pending') \cup Range(batch') = Range(pending) \cup {e}
  BY PushLemma
<1>2. /\ IsTree(cache) /\ run \in Nat /\ Range(batch) = {}
      /\ output' = <<>> /\ DOMAIN output' = {}
  BY EarlyLemma, EmptySeq DEF Basic, TypeOK, Shape
<1>3. /\ DOMAIN cache' = DOMAIN cache \cup {IdOf[e]}
      /\ SameContent(e, cache'[IdOf[e]].ev)
      /\ \A i \in DOMAIN cache : i # IdOf[e] => cache'[i] = cache[i]
      /\ \A i \in DOMAIN cache' :
           cache'[i].uploaded => i \in DOMAIN cache /\ cache'[i] = cache[i]
  <2> DEFINE c == Put(cache, e, run)
  <2>1. IsTree(cache) /\ run \in Nat
    BY <1>2
  <2>2. DOMAIN c = DOMAIN cache \cup {IdOf[e]}
    BY <2>1, PutLemma
  <2>3. SameContent(e, c[IdOf[e]].ev)
    BY <2>1, PutLemma
  <2>4. \A i \in DOMAIN cache : i # IdOf[e] => c[i] = cache[i]
    BY <2>1, PutLemma
  <2>5. \A i \in DOMAIN c :
          c[i].uploaded => i \in DOMAIN cache /\ c[i] = cache[i]
    BY <2>1, PutLemma
  <2> HIDE DEF c
  <2>6. cache' = c
    BY <1>1 DEF c
  <2>7. QED
    BY <2>2, <2>3, <2>4, <2>5, <2>6
<1>4. ASSUME NEW f \in InBatch' PROVE Covered(IdOf[f])'
  <2>1. CASE IdOf[f] = IdOf[e]
    <3>1. e \in InBatch'
      BY <1>1 DEF InBatch
    <3>2. QED
      BY <1>3, <2>1, <3>1 DEF Covered
  <2>2. CASE IdOf[f] # IdOf[e]
    <3>1. f \in InBatch /\ InBatch \subseteq InBatch'
      BY <1>1, <1>2, <1>4, <2>2 DEF InBatch
    <3>2. PICK g \in InBatch : /\ IdOf[g] = IdOf[f]
                               /\ SameContent(g, cache[IdOf[f]].ev)
                               /\ IdOf[f] \in DOMAIN cache
      BY <1>2, <3>1 DEF CacheCovers, Covered
    <3>3. QED
      BY <1>3, <2>2, <3>1, <3>2 DEF Covered
  <2>3. QED
    BY <2>1, <2>2
<1>5. CacheCovers'
  BY <1>2, <1>4 DEF CacheCovers
<1>6. UploadedWasPosted'
  <2>1. ASSUME NEW i \in DOMAIN cache', cache'[i].uploaded
        PROVE  i \in DOMAIN cache /\ cache'[i] = cache[i]
    BY <1>3, <2>1
  <2>2. QED
    BY <2>1 DEF UploadedWasPosted
<1>7. QED
  BY <1>5, <1>6

(* What one step of conflict resolution does to the output.                *)
LEMMA DetectOutput ==
  ASSUME Basic, Detect
  PROVE  \/ batch' = <<>> /\ output' = <<>>
         \/ output' = output /\ InConflict(cache, Head(batch))
         \/ \E o \in Copy :
              /\ o.ev = Head(batch) /\ o.id \in {IdOf[Head(batch)], Fresh}
              /\ ~InConflict(cache, Head(batch)) => o.id = IdOf[Head(batch)]
              /\ DOMAIN output' = 1 .. Len(output) + 1
              /\ output'[Len(output) + 1] = o
              /\ \A k \in 1 .. Len(output) : output'[k] = output[k]
<1>1. PICK kept :
        /\ \/ kept = <<>> /\ InConflict(cache, Head(batch))
           \/ \E o \in Copy :
                /\ kept = <<o>> /\ o.ev = Head(batch)
                /\ o.id \in {IdOf[Head(batch)], Fresh}
                /\ ~InConflict(cache, Head(batch)) => o.id = IdOf[Head(batch)]
        /\ \/ output' = output \o kept
           \/ batch' = <<>> /\ output' = <<>>
  BY DetectLemma DEF FinishBatch
<1>2. output \in Seq(Copy)
  BY DEF Basic, TypeOK
<1>3. CASE output' = output \o kept /\ kept = <<>>
  BY <1>1, <1>2, <1>3, ConcatEmptySeq
<1>4. ASSUME NEW o \in Copy, kept = <<o>>, output' = output \o kept
      PROVE  /\ DOMAIN output' = 1 .. Len(output) + 1
             /\ output'[Len(output) + 1] = o
             /\ \A k \in 1 .. Len(output) : output'[k] = output[k]
  <2>1. /\ output' \in Seq(Copy) /\ Len(output') = Len(output) + 1
        /\ output'[Len(output) + 1] = o
        /\ \A k \in 1 .. Len(output) : output'[k] = output[k]
    BY <1>2, <1>4, OutputLemma
  <2>2. DOMAIN output' = 1 .. Len(output')
    BY <2>1, LenProperties
  <2>3. QED
    BY <2>1, <2>2
<1>5. QED
  BY <1>1, <1>3, <1>4

(* Conflict resolution neither drops nor renames the cached version of an  *)
(* id: that version is not in conflict.                                    *)
LEMMA DetectCovers ==
  ASSUME Basic, CacheCovers, CopiesOfEvents, Detect
  PROVE  CacheCovers' /\ CopiesOfEvents'
<1> DEFINE e == Head(batch)
<1>1. /\ e \in Event /\ cache' = cache /\ pending' = pending
      /\ pending = <<>> /\ Range(batch) = {e} \cup Range(batch')
  BY DetectLemma DEF Basic, Shape
<1>2. /\ DOMAIN output = 1 .. Len(output) /\ Len(output) \in Nat
      /\ InBatch = {e} \cup InBatch'
  BY <1>1, LenProperties DEF Basic, TypeOK, InBatch
<1>3. ASSUME \A i : Covered(i) => Covered(i)',
             \A k \in DOMAIN output' :
               \/ k \in DOMAIN output /\ output'[k] = output[k]
               \/ output'[k].ev = e /\ output'[k].id \in {IdOf[e], Fresh}
      PROVE  CacheCovers' /\ CopiesOfEvents'
  <2>1. CopiesOfEvents'
    BY <1>3 DEF CopiesOfEvents
  <2>2. \A f \in InBatch : Covered(IdOf[f])'
    BY <1>3 DEF CacheCovers
  <2>3. ASSUME NEW k \in DOMAIN output' PROVE Covered(IdOf[output[k].ev])'
    <3>1. CASE k \in DOMAIN output /\ output'[k] = output[k]
      BY <1>3, <3>1 DEF CacheCovers, Covered
    <3>2. CASE output'[k].ev = e
      BY <1>2, <2>2, <3>2 DEF Covered
    <3>3. QED
      BY <1>3, <3>1, <3>2
  <2>4. QED
    BY <1>2, <2>1, <2>2, <2>3 DEF CacheCovers
<1>4. CASE batch' = <<>> /\ output' = <<>>
  <2>1. InBatch' = {} /\ DOMAIN output' = {}
    BY <1>1, <1>4, EmptyRange, EmptySeq DEF InBatch
  <2>2. QED
    BY <2>1 DEF CacheCovers, CopiesOfEvents
<1>5. CASE output' = output /\ InConflict(cache, e)
  <2>1. ASSUME NEW i, Covered(i) PROVE Covered(i)'
    <3>1. ~(IdOf[e] = i /\ SameContent(e, cache[i].ev))
      BY <1>5 DEF InConflict, SameContent
    <3>2. QED
      BY <1>1, <1>2, <1>5, <2>1, <3>1 DEF Covered
  <2>2. QED
    BY <1>3, <1>5, <2>1
<1>6. ASSUME NEW o \in Copy, o.ev = e, o.id \in {IdOf[e], Fresh},
             ~InConflict(cache, e) => o.id = IdOf[e],
             DOMAIN output' = 1 .. Len(output) + 1,
             output'[Len(output) + 1] = o,
             \A k \in 1 .. Len(output) : output'[k] = output[k]
      PROVE  CacheCovers' /\ CopiesOfEvents'
  <2>1. /\ \A k \in DOMAIN output : k \in DOMAIN output' /\ output'[k] = output[k]
        /\ Len(output) + 1 \in DOMAIN output'
        /\ \A k \in DOMAIN output' : k \in DOMAIN output \/ k = Len(output) + 1
    BY <1>2, <1>6
  <2>2. ASSUME NEW i, Covered(i) PROVE Covered(i)'
    <3>1. CASE \E f \in InBatch' : IdOf[f] = i /\ SameContent(f, cache[i].ev)
      BY <1>1, <2>2, <3>1 DEF Covered
    <3>2. CASE \E k \in DOMAIN output :
                 output[k].id = i /\ SameContent(output[k].ev, cache[i].ev)
      BY <1>1, <2>1, <2>2, <3>2 DEF Covered
    <3>3. CASE IdOf[e] = i /\ SameContent(e, cache[i].ev)
      <4>1. o.id = i
        BY <1>6, <3>3 DEF InConflict, SameContent
      <4>2. QED
        BY <1>1, <1>6, <2>1, <2>2, <3>3, <4>1 DEF Covered
    <3>4. QED
      BY <1>2, <2>2, <3>1, <3>2, <3>3 DEF Covered
  <2>3. QED
    BY <1>3, <1>6, <2>1, <2>2
<1>7. QED
  BY <1>4, <1>5, <1>6, DetectOutput

(* Flagging hits only what was posted: the copy that carries a cached id   *)
(* upwards has the cached content.                                         *)
LEMMA MarkCovers ==
  ASSUME IInv, Mark
  PROVE  CacheCovers' /\ UploadedWasPosted' /\ CopiesOfEvents'
<1> DEFINE o == output[cursor + 1]
<1>1. /\ pc = "mark" /\ cache' \in {cache, MarkUploaded(cache, o.id)}
      /\ UNCHANGED <<pending, batch, posted>>
      /\ output' = output \/ output' = <<>>
  BY DEF Mark, Attempt, FinishBatch
<1>2. /\ IsTree(cache) /\ output \in Seq(Copy) /\ Len(output) \in Nat
      /\ cursor \in Nat /\ cursor < Len(output)
      /\ DOMAIN output = 1 .. Len(output)
      /\ pending = <<>> /\ batch = <<>>
  BY <1>1, LenProperties DEF IInv, TypeOK, Shape
<1>3. InBatch = {} /\ InBatch' = {}
  BY <1>1, <1>2, EmptyRange DEF InBatch
<1>4. /\ DOMAIN cache' = DOMAIN cache
      /\ \A j \in DOMAIN cache : /\ cache'[j].ev = cache[j].ev
                                 /\ j # o.id => cache'[j] = cache[j]
  BY <1>1, <1>2, MarkLemma
<1>5. CacheCovers' /\ CopiesOfEvents'
  <2>1. CASE output' = output
    BY <1>3, <1>4, <2>1 DEF IInv, CacheCovers, CopiesOfEvents, Covered
  <2>2. CASE output' = <<>>
    <3>1. DOMAIN output' = {}
      BY <2>2, EmptySeq
    <3>2. QED
      BY <1>3, <3>1 DEF CacheCovers, CopiesOfEvents
  <2>3. QED
    BY <1>1, <2>1, <2>2
<1>6. ASSUME NEW i \in DOMAIN cache', cache'[i].uploaded
      PROVE  \E f \in posted' : IdOf[f] = i /\ SameContent(f, cache'[i].ev)
  <2>1. CASE i # o.id
    BY <1>1, <1>4, <1>6, <2>1 DEF IInv, UploadedWasPosted
  <2>2. CASE i = o.id
    <3>1. i \in Id /\ i \in DOMAIN cache /\ cursor + 1 \in DOMAIN output
      BY <1>2, <1>4 DEF IsTree
    <3>2. i = IdOf[o.ev]
      BY <2>2, <3>1, EventAssumption DEF IInv, CopiesOfEvents
    <3>3. PICK k \in DOMAIN output :
            output[k].id = i /\ SameContent(output[k].ev, cache[i].ev)
      BY <1>3, <3>1, <3>2 DEF IInv, CacheCovers, Covered
    <3>4. IdOf[output[k].ev] = i
      BY <3>1, <3>3, EventAssumption DEF IInv, CopiesOfEvents
    <3>5. output[k].ev \in posted
      BY <1>1 DEF IInv, CursorPosted
    <3>6. QED
      BY <1>1, <1>4, <3>1, <3>3, <3>4, <3>5
  <2>3. QED
    BY <2>1, <2>2
<1>7. QED
  BY <1>5, <1>6 DEF UploadedWasPosted

LEMMA IInvInit == Init => IInv
<1> SUFFICES ASSUME Init PROVE IInv
  OBVIOUS
<1>1. /\ output = <<>> /\ pending = <<>> /\ batch = <<>> /\ DOMAIN cache = {}
      /\ DOMAIN output = {}
  BY EmptySeq DEF Init, Idle
<1>2. QED
  BY <1>1, BasicInit, CursorInit, EmptyRange
  DEF IInv, Basic, CopiesOfEvents, CacheCovers, InBatch, UploadedWasPosted

LEMMA IInvStep ==
  ASSUME ~DiskMayFail, IInv, [Next]_vars
  PROVE  IInv'
<1>1. Basic /\ CursorPosted /\ IsTree(cache)
  BY DEF IInv, Basic, TypeOK
<1>2. Basic' /\ CursorPosted'
  BY <1>1, BasicStep, HeldStep
<1>3. ASSUME CacheCovers' /\ UploadedWasPosted' /\ CopiesOfEvents'
      PROVE  IInv'
  BY <1>2, <1>3 DEF IInv, Basic
<1>4. ASSUME UNCHANGED <<pending, batch, output, cache>>, posted \subseteq posted'
      PROVE  IInv'
  <2>1. CacheCovers' /\ UploadedWasPosted' /\ CopiesOfEvents'
    BY <1>4 DEF IInv, CacheCovers, Covered, InBatch, UploadedWasPosted,
                CopiesOfEvents
  <2>2. QED
    BY <1>3, <2>1
<1>5. ASSUME pending' = <<>>, batch' = <<>>, output' = <<>>,
             posted \subseteq posted',
             DOMAIN cache' \subseteq DOMAIN cache,
             \A i \in DOMAIN cache' : cache'[i] = cache[i]
      PROVE  IInv'
  <2>1. InBatch' = {} /\ DOMAIN output' = {}
    BY <1>5, EmptyRange, EmptySeq DEF InBatch
  <2>2. CacheCovers' /\ UploadedWasPosted' /\ CopiesOfEvents'
    BY <1>5, <2>1 DEF IInv, CacheCovers, UploadedWasPosted, CopiesOfEvents
  <2>3. QED
    BY <1>3, <2>2
<1>6. CASE \/ \E e \in Event : Send(e)
           \/ Outage \/ Reconnect \/ Start \/ UNCHANGED vars
  BY <1>4, <1>6
  DEF Send, Outage, Reconnect, Start, vars, engine
<1>7. CASE Stop
  BY <1>5, <1>7 DEF Stop
<1>8. ASSUME NEW e \in Event, Import(e) PROVE IInv'
  <2>1. /\ pending' = <<>> /\ batch' = <<>> /\ output' = <<>>
        /\ cache' = Put(cache, e, run) /\ run \in Nat /\ posted' = posted
    BY <1>1, <1>8 DEF Import, Attempt, Basic, TypeOK, Shape, engine
  <2>2. \A i \in DOMAIN cache' :
          cache'[i].uploaded => i \in DOMAIN cache /\ cache'[i] = cache[i]
    BY <1>1, <2>1, PutLemma
  <2>3. UploadedWasPosted'
    BY <2>1, <2>2 DEF IInv, UploadedWasPosted
  <2>4. InBatch' = {} /\ DOMAIN output' = {}
    BY <2>1, EmptyRange, EmptySeq DEF InBatch
  <2>5. QED
    BY <1>3, <2>3, <2>4 DEF CacheCovers, CopiesOfEvents
<1>9. ASSUME NEW cutoff \in Cutoffs, Prune(cutoff) PROVE IInv'
  <2>1. /\ pending' = <<>> /\ batch' = <<>> /\ output' = <<>>
        /\ posted' = posted
    BY <1>1, <1>9 DEF Prune, Basic, Shape, engine
  <2>2. PICK gone : cache' = Evict(cache, gone)
    BY <1>9 DEF Prune
  <2>3. QED
    BY <1>1, <1>5, <2>1, <2>2, EvictLemma
<1>10. CASE Recv \/ Streamed
  <2>1. UNCHANGED <<output, posted>> /\ CopiesOfEvents'
    BY <1>10 DEF Recv, Streamed, IInv, CopiesOfEvents
  <2>2. CASE Recv /\ EnableStreaming
    BY <1>4, <2>1, <2>2 DEF Recv
  <2>3. CASE Recv /\ ~EnableStreaming
    <3>1. Head(chan) \in Event /\ CacheAndPush(Head(chan)) /\ pc = "select"
      BY <1>1, <2>3, TailRange DEF Recv, Basic, TypeOK
    <3>2. QED
      BY <1>1, <1>3, <2>1, <3>1, PutCovers DEF IInv
  <2>4. CASE Streamed
    <3>1. cur \in Event /\ CacheAndPush(cur) /\ pc = "stream"
      BY <1>1, <2>4 DEF Streamed, Basic, TypeOK, Shape
    <3>2. QED
      BY <1>1, <1>3, <2>1, <3>1, PutCovers DEF IInv
  <2>5. QED
    BY <1>10, <2>2, <2>3, <2>4
<1>11. CASE Tick
  <2>1. /\ UNCHANGED <<output, cache, posted>> /\ pc = "select"
        /\ \/ pending' = <<>> /\ batch' = pending
           \/ UNCHANGED <<pending, batch>>
    BY <1>11 DEF Tick
  <2>2. InBatch' = InBatch
    BY <1>1, <2>1, EarlyLemma, EmptyRange DEF InBatch
  <2>3. CacheCovers' /\ UploadedWasPosted' /\ CopiesOfEvents'
    BY <2>1, <2>2
    DEF IInv, CacheCovers, Covered, UploadedWasPosted, CopiesOfEvents
  <2>4. QED
    BY <1>3, <2>3
<1>12. CASE Detect
  <2>1. UNCHANGED <<cache, posted>>
    BY <1>1, <1>12, DetectLemma
  <2>2. QED
    BY <1>1, <1>3, <1>12, <2>1, DetectCovers DEF IInv, UploadedWasPosted
<1>13. CASE PostChunk \/ PostSingle
  BY <1>1, <1>4, <1>13, PostLemma
<1>14. CASE Mark
  BY <1>3, <1>14, MarkCovers
<1>15. QED
  BY <1>6, <1>7, <1>8, <1>9, <1>10, <1>11, <1>12, <1>13, <1>14
  DEF Next, Upload, Environment

(* On a disk that does not fail, an entry is flagged as uploaded only      *)
(* after a request carried its id with its present content.                *)
THEOREM FlagsAreTrue ==
  ASSUME ~DiskMayFail PROVE Spec => []UploadedWasPosted
<1>1. IInv => UploadedWasPosted
  BY DEF IInv
<1>2. IInv /\ [Next]_vars => IInv'
  BY IInvStep
<1>3. QED
  BY <1>1, <1>2, IInvInit, PTL DEF Spec

(* On a disk that does not fail, whatever is in the batch is covered by    *)
(* the cache until the batch is flagged.                                   *)
THEOREM BatchIsCached ==
  ASSUME ~DiskMayFail PROVE Spec => []CacheCovers
<1>1. IInv => CacheCovers
  BY DEF IInv
<1>2. IInv /\ [Next]_vars => IInv'
  BY IInvStep
<1>3. QED
  BY <1>1, <1>2, IInvInit, PTL DEF Spec

(* server_wins gives an event up only for the version it conflicts with,   *)
(* and the engine holds that version.                                      *)
LEMMA GiveUpLemma ==
  ASSUME IInv, Detect, InConflict(cache, Head(batch))
  PROVE  \E f \in Held \ {Head(batch)} :
           IdOf[f] = IdOf[Head(batch)] /\ ~SameContent(Head(batch), f)
<1> DEFINE e == Head(batch)
<1>1. /\ e \in InBatch /\ pc = "detect" /\ cursor = 0 /\ pending = <<>>
  BY DetectLemma DEF IInv, Basic, InBatch, Shape
<1>2. /\ IdOf[e] \in DOMAIN cache /\ ~SameContent(cache[IdOf[e]].ev, e)
      /\ IdOf[e] \in Id
  BY DEF InConflict, IInv, TypeOK, IsTree
<1>3. ASSUME NEW f \in Held, IdOf[f] = IdOf[e],
             SameContent(f, cache[IdOf[e]].ev)
      PROVE  f \in Held \ {e} /\ ~SameContent(e, f)
  BY <1>2, <1>3 DEF SameContent
<1>4. CASE \E f \in InBatch :
             IdOf[f] = IdOf[e] /\ SameContent(f, cache[IdOf[e]].ev)
  BY <1>3, <1>4 DEF InBatch, Held
<1>5. CASE \E k \in DOMAIN output :
             /\ output[k].id = IdOf[e]
             /\ SameContent(output[k].ev, cache[IdOf[e]].ev)
  <2>1. PICK k \in DOMAIN output :
          /\ output[k].id = IdOf[e]
          /\ SameContent(output[k].ev, cache[IdOf[e]].ev)
    BY <1>5
  <2>2. IdOf[output[k].ev] = IdOf[e]
    BY <1>2, <2>1, EventAssumption DEF IInv, CopiesOfEvents
  <2>3. output[k].ev \in Held
    <3>1. output \in Seq(Copy)
      BY DEF IInv, TypeOK
    <3>2. DOMAIN output = 1 .. Len(output) /\ Len(output) \in Nat
      BY <3>1, LenProperties
    <3>3. output[k].ev \in Unposted
      BY <1>1, <3>2 DEF Unposted
    <3>4. QED
      BY <3>3 DEF Held
  <2>4. QED
    BY <1>3, <2>1, <2>2, <2>3
<1>6. QED
  BY <1>1, <1>4, <1>5 DEF IInv, CacheCovers, Covered

(* On a disk that does not fail, the engine implements the delivery        *)
(* contract: what it holds waits, a request is an attempt, and server_wins *)
(* gives a version up only while the engine holds another one.             *)
THEOREM Implements == ASSUME ~DiskMayFail PROVE Spec => ContractSpec
<1>1. Init => Contract!Init
  <2> SUFFICES ASSUME Init PROVE Contract!Init
    OBVIOUS
  <2>1. Held = {} /\ posted = {}
    BY EmptyRange, EmptySeq DEF Init, Idle, Held, Unposted
  <2>2. QED
    BY <2>1 DEF Contract!Init
<1>2. IInv /\ [Next]_vars => [Contract!Next]_Contract!vars
  <2> SUFFICES ASSUME IInv, [Next]_vars PROVE [Contract!Next]_Contract!vars
    OBVIOUS
  <2>1. Basic /\ CursorPosted
    BY DEF IInv, Basic
  <2>2. CASE UNCHANGED <<Held, posted>>
    BY <2>2 DEF Contract!vars
  <2>3. CASE \E e \in Event : Contract!Take(e)
    BY <2>3 DEF Contract!Next
  <2>4. CASE /\ Detect /\ Strategy = "server_wins"
             /\ InConflict(cache, Head(batch))
             /\ Held' \in {Held, Held \ {Head(batch)}}
             /\ UNCHANGED posted
    <3>1. CASE Held' = Held
      BY <2>2, <2>4, <3>1
    <3>2. CASE Held' = Held \ {Head(batch)}
      <4>1. Head(batch) \in Event
        BY <2>1, <2>4, DetectLemma
      <4>2. Contract!GiveUp(Head(batch))
        BY <2>4, <3>2, GiveUpLemma
        DEF Contract!GiveUp, Contract!SameContent, SameContent
      <4>3. QED
        BY <4>1, <4>2 DEF Contract!Next
    <3>3. QED
      BY <2>4, <3>1, <3>2
  <2>5. CASE \E S, D \in SUBSET Held : Contract!Offer(S, D)
    BY <2>5 DEF Contract!Next
  <2>6. CASE \E S \in SUBSET Held : Contract!Lose(S)
    BY <2>6 DEF Contract!Next
  <2>7. QED
    BY <2>1, <2>2, <2>3, <2>4, <2>5, <2>6, HeldStep
<1>3. IInv /\ [Next]_vars => IInv'
  BY IInvStep
<1>4. QED
  BY <1>1, <1>2, <1>3, IInvInit, PTL DEF Spec, ContractSpec, Contract!Spec

-----------------------------------------------------------------------------
(* The cache forgets nothing that Soul has not had a turn at: a pending    *)
(* entry stays until its id gets other content, and a flag stays while the *)
(* content does.                                                           *)
THEOREM NothingForgotten == Spec => CacheNeverForgets
<1> DEFINE Remembers ==
      \A i \in DOMAIN cache :
        \/ i \notin DOMAIN cache' /\ cache[i].uploaded
        \/ /\ i \in DOMAIN cache'
           /\ \/ ~SameContent(cache'[i].ev, cache[i].ev)
              \/ cache[i].uploaded => cache'[i].uploaded
<1>1. Basic /\ [Next]_vars => [Remembers]_cache
  <2> SUFFICES ASSUME Basic, [Next]_vars PROVE Remembers \/ UNCHANGED cache
    OBVIOUS
  <2>1. IsTree(cache) /\ run \in Nat
    BY DEF Basic, TypeOK
  <2>2. ASSUME NEW e \in Event, cache' \in {cache, Put(cache, e, run)}
        PROVE  Remembers \/ UNCHANGED cache
    BY <2>2 DEF Put, AlreadyUploaded, SameContent
  <2>3. CASE Recv
    <3>1. Head(chan) \in Event /\ pc = "select"
      BY <2>3, TailRange DEF Recv, Basic, TypeOK
    <3>2. cache' \in {cache, Put(cache, Head(chan), run)}
      BY <2>3, <3>1 DEF Recv, CacheAndPush, Attempt
    <3>3. QED
      BY <2>2, <3>1, <3>2
  <2>4. CASE Streamed
    <3>1. cur \in Event
      BY <2>4 DEF Streamed, Basic, TypeOK, Shape
    <3>2. cache' \in {cache, Put(cache, cur, run)}
      BY <2>4 DEF Streamed, CacheAndPush, Attempt
    <3>3. QED
      BY <2>2, <3>1, <3>2
  <2>5. ASSUME NEW e \in Event, Import(e) PROVE Remembers \/ UNCHANGED cache
    BY <2>2, <2>5 DEF Import, Attempt
  <2>6. ASSUME NEW cutoff \in Cutoffs, Prune(cutoff) PROVE Remembers
    <3>1. PICK gone \in SUBSET Evictable(cache, cutoff) :
            cache' = Evict(cache, gone)
      BY <2>6 DEF Prune
    <3>2. QED
      BY <3>1 DEF Evict, Restrict, Evictable
  <2>7. CASE Mark
    <3>1. cache' \in {cache, MarkUploaded(cache, output[cursor + 1].id)}
      BY <2>7 DEF Mark, Attempt
    <3>2. QED
      BY <2>1, <3>1 DEF MarkUploaded, IsTree, Entry
  <2>8. CASE \/ Tick \/ Detect \/ PostChunk \/ PostSingle \/ Stop
             \/ \E e \in Event : Send(e)
             \/ Outage \/ Reconnect \/ Start \/ UNCHANGED vars
    BY <2>8 DEF Tick, Detect, PostChunk, PostSingle, Stop, Send, Outage,
                Reconnect, Start, vars
  <2>9. QED
    BY <2>3, <2>4, <2>5, <2>6, <2>7, <2>8 DEF Next, Upload, Environment
<1>2. QED
  BY <1>1, BasicInit, BasicStep, PTL DEF Spec, CacheNeverForgets
-----------------------------------------------------------------------------
(* The order of versions and their tags, on a disk that does not fail. *)

LEMMA EmptyOrder ==
  ASSUME pending' = <<>>, batch' = <<>>, output' = <<>>
  PROVE  NewestLast' /\ TagsMerged'
<1>1. DOMAIN pending' = {} /\ DOMAIN batch' = {} /\ DOMAIN output' = {}
  BY EmptySeq
<1> QED
  BY <1>1 DEF NewestLast, LastIsCached, OutputLast, TagsMerged

(* put makes what joins the line the cached version of its id. *)
LEMMA PushOrder ==
  ASSUME Basic, ~DiskMayFail, CacheCovers, NewestLast,
         NEW e \in Event, CacheAndPush(e), pc \in {"select", "stream"},
         UNCHANGED output
  PROVE  NewestLast' /\ TagsMerged'
<1> DEFINE a == Append(pending, e)
<1>1. /\ IsTree(cache) /\ run \in Nat /\ pending \in Seq(Event)
      /\ batch = <<>> /\ output' = <<>> /\ DOMAIN output' = {} /\ DOMAIN <<>> = {}
  BY EarlyLemma, EmptySeq DEF Basic, TypeOK, Shape
<1>2. cache' = Put(cache, e, run)
  BY PushLemma
<1>3. /\ SameContent(e, cache'[IdOf[e]].ev)
      /\ \A i \in DOMAIN cache : i # IdOf[e] => cache'[i] = cache[i]
  <2> DEFINE c == Put(cache, e, run)
  <2>0. IsTree(cache) /\ run \in Nat
    BY <1>1
  <2>1. SameContent(e, c[IdOf[e]].ev)
    BY <2>0, PutLemma
  <2>2. \A i \in DOMAIN cache : i # IdOf[e] => c[i] = cache[i]
    BY <2>0, PutLemma
  <2> QED
    BY <1>2, <2>1, <2>2
<1>4. /\ DOMAIN a = 1 .. Len(pending) + 1 /\ DOMAIN pending = 1 .. Len(pending)
      /\ Len(pending) \in Nat /\ a[Len(pending) + 1] = e
      /\ \A k \in 1 .. Len(pending) : a[k] = pending[k] /\ pending[k] \in Range(pending)
  BY <1>1, AppendProperties, LenProperties DEF Range
<1>5. ASSUME NEW k \in DOMAIN a, \A m \in DOMAIN a : m > k => IdOf[a[m]] # IdOf[a[k]]
      PROVE  SameContent(a[k], cache'[IdOf[a[k]]].ev)
  <2>1. CASE k = Len(pending) + 1
    BY <1>3, <1>4, <2>1
  <2>2. CASE k \in 1 .. Len(pending)
    <3>1. IdOf[e] # IdOf[pending[k]] /\ a[k] = pending[k]
      BY <1>4, <1>5, <2>2
    <3>2. IdOf[pending[k]] \in DOMAIN cache
      BY <1>4, <2>2 DEF CacheCovers, Covered, InBatch
    <3>3. \A m \in DOMAIN pending : m > k => IdOf[pending[m]] # IdOf[pending[k]]
      BY <1>4, <1>5, <2>2
    <3>4. SameContent(pending[k], cache[IdOf[pending[k]]].ev)
      BY <1>4, <2>2, <3>3 DEF NewestLast, LastIsCached
    <3> QED
      BY <1>3, <3>1, <3>2, <3>4
  <2> QED
    BY <1>4, <2>1, <2>2
<1>6. \/ pending' = a /\ batch' = <<>>
      \/ pending' = <<>> /\ batch' = a
  BY <1>1 DEF CacheAndPush
<1>7. LastIsCached(pending)' /\ LastIsCached(batch)'
  BY <1>1, <1>5, <1>6 DEF LastIsCached
<1> QED
  BY <1>1, <1>7 DEF NewestLast, OutputLast, TagsMerged

(* Conflict resolution takes only versions out of the line that another    *)
(* version of the id follows.                                              *)
LEMMA DetectOrder ==
  ASSUME Basic, CacheCovers, NewestLast, Detect
  PROVE  NewestLast'
<1> DEFINE e == Head(batch)
<1>1. /\ e \in Event /\ cache' = cache /\ pending' = pending /\ pending = <<>>
      /\ batch \in Seq(Event) /\ batch # <<>> /\ batch' = Tail(batch)
      /\ Range(batch) = {e} \cup Range(batch')
      /\ IsTree(cache) /\ output \in Seq(Copy)
  BY DetectLemma DEF Basic, Shape, TypeOK
<1>2. /\ Len(batch) \in Nat /\ DOMAIN batch = 1 .. Len(batch) /\ 1 \in DOMAIN batch
      /\ batch[1] = e /\ DOMAIN batch' = 1 .. Len(batch) - 1
      /\ \A k \in 1 .. Len(batch) - 1 : batch'[k] = batch[k + 1]
      /\ DOMAIN output = 1 .. Len(output) /\ Len(output) \in Nat
  <2>1. Tail(batch) \in Seq(Event) /\ Len(Tail(batch)) = Len(batch) - 1
        /\ Len(batch) \in Nat \ {0}
    BY <1>1, TailRange, EmptySeq
  <2>2. \A k \in 1 .. Len(batch) - 1 : Tail(batch)[k] = batch[k + 1]
    BY <1>1, HeadTailProperties, <2>1
  <2> QED
    BY <1>1, <2>1, <2>2, LenProperties, HeadTailProperties
<1>3. LastIsCached(batch) /\ OutputLast
  BY DEF NewestLast
<1>4. LastIsCached(batch)'
  <2> SUFFICES ASSUME NEW k \in 1 .. Len(batch) - 1,
                      \A m \in 1 .. Len(batch) - 1 :
                        m > k => IdOf[batch'[m]] # IdOf[batch'[k]]
               PROVE  SameContent(batch'[k], cache[IdOf[batch'[k]]].ev)
    BY <1>1, <1>2 DEF LastIsCached
  <2>1. k + 1 \in DOMAIN batch /\ batch'[k] = batch[k + 1]
    BY <1>2
  <2>2. ASSUME NEW m \in DOMAIN batch, m > k + 1
        PROVE  IdOf[batch[m]] # IdOf[batch[k + 1]]
    <3>1. m - 1 \in 1 .. Len(batch) - 1 /\ m - 1 > k /\ (m - 1) + 1 = m
      BY <1>2, <2>2
    <3>2. batch'[m - 1] = batch[m]
      BY <1>2, <3>1
    <3> QED
      BY <2>1, <3>1, <3>2
  <2> QED
    BY <1>3, <2>1, <2>2 DEF LastIsCached
<1>5. InConflict(cache, e) => \E f \in Range(batch') : IdOf[f] = IdOf[e]
  <2> SUFFICES ASSUME InConflict(cache, e)
               PROVE  \E f \in Range(batch') : IdOf[f] = IdOf[e]
    OBVIOUS
  <2>1. PICK m \in DOMAIN batch : m > 1 /\ IdOf[batch[m]] = IdOf[e]
    <3>1. ~SameContent(batch[1], cache[IdOf[batch[1]]].ev)
      BY <1>2 DEF InConflict, SameContent
    <3> QED
      BY <1>2, <1>3, <3>1 DEF LastIsCached
  <2>2. m - 1 \in 1 .. Len(batch) - 1 /\ (m - 1) + 1 = m
    BY <1>2, <2>1
  <2>3. m - 1 \in DOMAIN batch' /\ batch'[m - 1] = batch[m]
    BY <1>2, <2>2
  <2> QED
    BY <2>1, <2>3 DEF Range
<1>6. LastIsCached(pending)'
  BY <1>1, EmptySeq DEF LastIsCached
<1>7. ASSUME NEW k \in DOMAIN output, output[k].id \in DOMAIN cache,
             \A m \in DOMAIN output : m > k => output[m].id # output[k].id,
             \A f \in Range(batch') : IdOf[f] # output[k].id,
             IdOf[e] = output[k].id => InConflict(cache, e)
      PROVE  SameContent(output[k].ev, cache[output[k].id].ev)
  <2>1. IdOf[e] # output[k].id
    BY <1>5, <1>7
  <2> QED
    BY <1>1, <1>3, <1>7, <2>1 DEF OutputLast
<1>8. CASE output' = <<>>
  BY <1>4, <1>6, <1>8, EmptySeq DEF NewestLast, OutputLast
<1>9. CASE output' = output /\ InConflict(cache, e)
  BY <1>1, <1>4, <1>6, <1>7, <1>9 DEF NewestLast, OutputLast
<1>10. ASSUME NEW o \in Copy, o.ev = e, o.id \in {IdOf[e], Fresh},
              ~InConflict(cache, e) => o.id = IdOf[e],
              DOMAIN output' = 1 .. Len(output) + 1,
              output'[Len(output) + 1] = o,
              \A k \in 1 .. Len(output) : output'[k] = output[k]
       PROVE  NewestLast'
  <2>1. ASSUME NEW k \in DOMAIN output', output'[k].id \in DOMAIN cache,
               \A m \in DOMAIN output' : m > k => output'[m].id # output'[k].id,
               \A f \in Range(batch') : IdOf[f] # output'[k].id
        PROVE  SameContent(output'[k].ev, cache[output'[k].id].ev)
    <3>1. CASE k = Len(output) + 1
      <4>1. o.id = IdOf[e]
        BY <1>1, <1>10, <2>1, <3>1, EventAssumption DEF IsTree
      <4>2. ~InConflict(cache, e)
        BY <1>5, <1>10, <2>1, <3>1, <4>1
      <4> QED
        BY <1>10, <2>1, <3>1, <4>1, <4>2 DEF InConflict, SameContent
    <3>2. CASE k \in 1 .. Len(output)
      <4>1. output'[k] = output[k] /\ k \in DOMAIN output /\ o.id # output[k].id
        BY <1>2, <1>10, <2>1, <3>2
      <4>2. \A m \in DOMAIN output : m > k => output[m].id # output[k].id
        BY <1>2, <1>10, <2>1, <4>1
      <4> QED
        BY <1>7, <1>10, <2>1, <4>1, <4>2
    <3> QED
      BY <1>2, <1>10, <3>1, <3>2
  <2> QED
    BY <1>1, <1>4, <1>6, <2>1 DEF NewestLast, OutputLast
<1> QED
  BY <1>8, <1>9, <1>10, DetectOutput

(* Under merge every event goes on, with the merged tags or its own.       *)
LEMMA DetectTags ==
  ASSUME Basic, ~DiskMayFail, TagsMerged, Detect
  PROVE  TagsMerged'
<1> SUFFICES ASSUME Strategy = "merge" PROVE TagsMerged'
  BY DEF TagsMerged
<1> DEFINE e == Head(batch)
           tags == IF InConflict(cache, e) THEN MergedTags(e, cache[IdOf[e]].ev)
                                           ELSE TagsOf[e]
<1>1. /\ e \in Event /\ cache' = cache /\ IsTree(cache) /\ output \in Seq(Copy)
      /\ DOMAIN output = 1 .. Len(output) /\ Len(output) \in Nat
  BY DetectLemma, LenProperties DEF Basic, TypeOK
<1>2. output' = output \o Kept(cache, e) \/ output' = <<>>
  BY DEF Detect, FinishBatch
<1>3. PICK o \in Copy : Kept(cache, e) = <<o>> /\ o.ev = e /\ o.tags = tags
  <2>1. AsIs(e) \in Copy /\ AsIs(e).ev = e /\ AsIs(e).tags = TagsOf[e]
    BY <1>1, EventAssumption DEF AsIs, Copy
  <2>2. CASE ~InConflict(cache, e)
    BY <2>1, <2>2 DEF Kept
  <2>3. CASE InConflict(cache, e)
    <3>1. cache[IdOf[e]].ev \in Event
      BY <1>1, <2>3 DEF InConflict, IsTree, Entry
    <3>2. MergedTags(e, cache[IdOf[e]].ev) \in TagMap
      BY <1>1, <3>1, MergeLemma
    <3>3. Kept(cache, e) = <<[AsIs(e) EXCEPT !.tags = MergedTags(e, cache[IdOf[e]].ev)]>>
      BY <2>3 DEF Kept, ApplyResolution, Resolve
    <3>4. /\ [AsIs(e) EXCEPT !.tags = MergedTags(e, cache[IdOf[e]].ev)] \in Copy
          /\ [AsIs(e) EXCEPT !.tags = MergedTags(e, cache[IdOf[e]].ev)].ev = e
          /\ [AsIs(e) EXCEPT !.tags = MergedTags(e, cache[IdOf[e]].ev)].tags
               = MergedTags(e, cache[IdOf[e]].ev)
      BY <2>1, <3>2 DEF Copy, AsIs
    <3> QED
      BY <2>3, <3>3, <3>4
  <2> QED
    BY <2>2, <2>3
<1>4. CASE output' = <<>>
  BY <1>4, EmptySeq DEF TagsMerged
<1>5. CASE output' = output \o Kept(cache, e)
  <2>1. /\ DOMAIN output' = 1 .. Len(output) + 1
        /\ output'[Len(output) + 1] = o
        /\ \A k \in 1 .. Len(output) : output'[k] = output[k]
    <3>1. /\ output' \in Seq(Copy) /\ Len(output') = Len(output) + 1
          /\ output'[Len(output) + 1] = o
          /\ \A k \in 1 .. Len(output) : output'[k] = output[k]
      BY <1>1, <1>3, <1>5, OutputLemma
    <3> QED
      BY <3>1, LenProperties
  <2>2. ASSUME NEW k \in 1 .. Len(output) + 1
        PROVE  output'[k].tags = IF InConflict(cache, output'[k].ev)
                                   THEN MergedTags(output'[k].ev, cache[IdOf[output'[k].ev]].ev)
                                   ELSE TagsOf[output'[k].ev]
    <3>1. CASE k = Len(output) + 1
      BY <1>3, <2>1, <3>1
    <3>2. CASE k \in 1 .. Len(output)
      BY <1>1, <2>1, <3>2 DEF TagsMerged
    <3> QED
      BY <1>1, <3>1, <3>2
  <2> QED
    BY <1>1, <2>1, <2>2 DEF TagsMerged, InConflict
<1> QED
  BY <1>2, <1>4, <1>5

(* Flagging changes no cached version. *)
LEMMA MarkOrder ==
  ASSUME Basic, NewestLast, TagsMerged, Mark
  PROVE  NewestLast' /\ TagsMerged'
<1>1. /\ UNCHANGED <<pending, batch>> /\ pending = <<>> /\ batch = <<>> /\ IsTree(cache)
      /\ output' = output \/ output' = <<>>
      /\ cache' \in {cache, MarkUploaded(cache, output[cursor + 1].id)}
  BY DEF Mark, FinishBatch, Attempt, Basic, Shape, TypeOK
<1>2. DOMAIN cache' = DOMAIN cache /\ \A j \in DOMAIN cache : cache'[j].ev = cache[j].ev
  BY <1>1, MarkLemma
<1>3. CASE output' = <<>>
  BY <1>1, <1>3, EmptyOrder
<1>4. CASE output' = output
  <2>1. LastIsCached(pending)' /\ LastIsCached(batch)'
    BY <1>1, EmptySeq DEF LastIsCached
  <2>2. OutputLast'
    BY <1>1, <1>2, <1>4 DEF NewestLast, OutputLast
  <2>3. TagsMerged'
    BY <1>2, <1>4 DEF TagsMerged, InConflict
  <2> QED
    BY <2>1, <2>2, <2>3 DEF NewestLast
<1> QED
  BY <1>1, <1>3, <1>4

LEMMA OrderStep ==
  ASSUME ~DiskMayFail, OrderInv, [Next]_vars
  PROVE  OrderInv'
<1>1. /\ Basic /\ CacheCovers /\ NewestLast /\ TagsMerged /\ IInv
  BY DEF OrderInv, IInv, Basic
<1>2. IInv'
  BY <1>1, IInvStep
<1>3. ASSUME UNCHANGED <<pending, batch, output, cache>> PROVE NewestLast' /\ TagsMerged'
  BY <1>1, <1>3 DEF NewestLast, LastIsCached, OutputLast, TagsMerged, InConflict
<1>4. CASE \/ \E e \in Event : Send(e)
           \/ Outage \/ Reconnect \/ Start \/ PostChunk \/ PostSingle \/ UNCHANGED vars
  <2>1. UNCHANGED <<pending, batch, output, cache>>
    BY <1>4 DEF Send, Outage, Reconnect, Start, PostChunk, PostSingle, vars, engine
  <2> QED
    BY <1>2, <1>3, <2>1 DEF OrderInv
<1>5. CASE \/ Stop \/ \E e \in Event : Import(e)
           \/ \E cutoff \in Cutoffs : Prune(cutoff)
  <2>1. pending' = <<>> /\ batch' = <<>> /\ output' = <<>>
    BY <1>1, <1>5 DEF Stop, Import, Prune, Basic, Shape, engine
  <2> QED
    BY <1>2, <2>1, EmptyOrder DEF OrderInv
<1>6. CASE Recv \/ Streamed
  <2>1. CASE Recv /\ EnableStreaming
    <3>1. UNCHANGED <<pending, batch, output, cache>>
      BY <2>1 DEF Recv
    <3> QED
      BY <1>2, <1>3, <3>1 DEF OrderInv
  <2>2. CASE Recv /\ ~EnableStreaming
    <3>1. Head(chan) \in Event /\ CacheAndPush(Head(chan)) /\ pc = "select"
          /\ UNCHANGED output
      BY <1>1, <2>2, TailRange DEF Recv, Basic, TypeOK
    <3> QED
      BY <1>1, <1>2, <3>1, PushOrder DEF OrderInv
  <2>3. CASE Streamed
    <3>1. cur \in Event /\ CacheAndPush(cur) /\ pc = "stream" /\ UNCHANGED output
      BY <1>1, <2>3 DEF Streamed, Basic, TypeOK, Shape
    <3> QED
      BY <1>1, <1>2, <3>1, PushOrder DEF OrderInv
  <2> QED
    BY <1>6, <2>1, <2>2, <2>3
<1>7. CASE Tick
  <2>1. CASE UNCHANGED <<pending, batch, output, cache>>
    BY <1>2, <1>3, <2>1 DEF OrderInv
  <2>2. CASE pending' = <<>> /\ batch' = pending /\ UNCHANGED <<output, cache>>
    <3>1. output' = <<>>
      BY <1>1, <1>7, <2>2 DEF Tick, Basic, Shape
    <3>2. NewestLast'
      BY <1>1, <2>2, <3>1, EmptySeq DEF NewestLast, LastIsCached, OutputLast
    <3>3. TagsMerged'
      BY <3>1, EmptySeq DEF TagsMerged
    <3> QED
      BY <1>2, <3>2, <3>3 DEF OrderInv
  <2> QED
    BY <1>7, <2>1, <2>2 DEF Tick
<1>8. CASE Detect
  BY <1>1, <1>2, <1>8, DetectOrder, DetectTags DEF OrderInv
<1>9. CASE Mark
  BY <1>1, <1>2, <1>9, MarkOrder DEF OrderInv
<1> QED
  BY <1>4, <1>5, <1>6, <1>7, <1>8, <1>9 DEF Next, Upload, Environment

LEMMA OrderInit == Init => OrderInv
<1> SUFFICES ASSUME Init PROVE OrderInv
  OBVIOUS
<1>1. DOMAIN pending = {} /\ DOMAIN batch = {} /\ DOMAIN output = {}
  BY EmptySeq DEF Init, Idle
<1> QED
  BY <1>1, IInvInit DEF OrderInv, NewestLast, LastIsCached, OutputLast, TagsMerged

(* On a disk that does not fail, of several versions of an id in one batch *)
(* the one posted last is the one the cache holds, under every strategy.   *)
THEOREM CachedVersionLast ==
  ASSUME ~DiskMayFail PROVE Spec => []LatestPostedLast
<1>1. OrderInv => LatestPostedLast
  <2> SUFFICES ASSUME OrderInv, pc \in {"post", "single", "mark"}
               PROVE  LatestPostedLast
    BY DEF LatestPostedLast
  <2>1. /\ batch = <<>> /\ OutputLast /\ output \in Seq(Copy)
        /\ DOMAIN output = 1 .. Len(output) /\ Len(output) \in Nat
    BY LenProperties DEF OrderInv, IInv, Shape, TypeOK, NewestLast
  <2>2. Range(batch) = {}
    BY <2>1, EmptyRange
  <2>3. \A k, m \in DOMAIN output : m > k => ~(m <= k)
    BY <2>1
  <2> QED
    BY <2>1, <2>2, <2>3 DEF LatestPostedLast, OutputLast
<1>2. OrderInv /\ [Next]_vars => OrderInv'
  BY OrderStep
<1> QED
  BY <1>1, <1>2, OrderInit, PTL DEF Spec

(* On a disk that does not fail, whatever is merged keeps every tag of the *)
(* event and of the cached version it was in conflict with.                *)
THEOREM TagsSurviveMerge ==
  ASSUME ~DiskMayFail PROVE Spec => []MergeKeepsTags
<1>1. OrderInv => MergeKeepsTags
  <2> SUFFICES ASSUME OrderInv, Strategy = "merge", NEW k \in DOMAIN output
               PROVE  LET e == output[k].ev
                      IN  /\ DOMAIN TagsOf[e] \subseteq DOMAIN output[k].tags
                          /\ InConflict(cache, e) =>
                               \A t \in DOMAIN TagsOf[cache[IdOf[e]].ev] :
                                 /\ t \in DOMAIN output[k].tags
                                 /\ output[k].tags[t] = TagsOf[cache[IdOf[e]].ev][t]
    BY DEF MergeKeepsTags
  <2> DEFINE e == output[k].ev
  <2>1. output[k].tags = IF InConflict(cache, e)
                           THEN MergedTags(e, cache[IdOf[e]].ev)
                           ELSE TagsOf[e]
    BY DEF OrderInv, TagsMerged
  <2> QED
    BY <2>1 DEF MergedTags
<1>2. OrderInv /\ [Next]_vars => OrderInv'
  BY OrderStep
<1> QED
  BY <1>1, <1>2, OrderInit, PTL DEF Spec

-----------------------------------------------------------------------------
(* The engine never holds more than one batch, however many events of it   *)
(* conflict: nothing is received between the start of an upload and its    *)
(* end, and an upload starts with the event that fills the batch.          *)
THEOREM OneBatchAtMost == Spec => []BatchBound
<1> DEFINE max == IF BatchSize = 0 THEN 1 ELSE BatchSize
           Room == /\ Len(pending) + Len(batch) + Len(output) <= max
                   /\ pc \in {"down", "select", "stream"} => Len(pending) < max
           Inv == Basic /\ Room
<1>1. max \in Nat /\ 1 <= max
  BY EngineAssumption
<1>2. ASSUME Basic
      PROVE  /\ pending \in Seq(Event) /\ batch \in Seq(Event)
             /\ output \in Seq(Copy) /\ Len(pending) \in Nat
             /\ Len(batch) \in Nat /\ Len(output) \in Nat
             /\ pending = <<>> => Len(pending) = 0
             /\ batch = <<>> => Len(batch) = 0
             /\ output = <<>> => Len(output) = 0
  BY <1>2, EmptySeq, LenProperties DEF Basic, TypeOK
<1>3. Init => Inv
  BY <1>1, BasicInit, EmptySeq DEF Init, Idle
<1>4. Inv /\ [Next]_vars => Room'
  <2> SUFFICES ASSUME Inv, [Next]_vars PROVE Room'
    OBVIOUS
  <2>1. ASSUME UNCHANGED <<pc, pending, batch, output>> PROVE Room'
    BY <2>1
  <2>2. CASE \/ \E e \in Event : Send(e) \/ Import(e)
             \/ \E cutoff \in Cutoffs : Prune(cutoff)
             \/ Outage \/ Reconnect \/ UNCHANGED vars
    BY <2>1, <2>2 DEF Send, Import, Prune, Outage, Reconnect,
                      vars, engine
  <2>3. CASE Start
    BY <2>3 DEF Start
  <2>4. CASE Stop
    <3>1. pending' = <<>> /\ batch' = <<>> /\ output' = <<>>
      BY <2>4 DEF Stop
    <3>2. Len(pending') = 0 /\ Len(batch') = 0 /\ Len(output') = 0
      BY <3>1, EmptySeq
    <3>3. QED
      BY <1>1, <3>2
  <2>5. ASSUME NEW e \in Event, CacheAndPush(e), output' = output,
               pc \in {"select", "stream"}
        PROVE  Room'
    <3>1. /\ Len(batch) = 0 /\ Len(output) = 0 /\ Len(pending) \in Nat
          /\ batch = <<>> /\ Len(pending) + 1 <= max
          /\ Len(Append(pending, e)) = Len(pending) + 1
      BY <1>1, <1>2, <2>5, AppendRange DEF Basic, Shape
    <3>2. CASE Len(pending) + 1 >= BatchSize
      <4>1. /\ pc' = "detect" /\ batch' = Append(pending, e) /\ pending' = <<>>
        BY <2>5, <3>2 DEF CacheAndPush
      <4>2. Len(pending') = 0
        BY <4>1, EmptySeq
      <4>3. QED
        BY <1>1, <2>5, <3>1, <4>1, <4>2
    <3>3. CASE ~(Len(pending) + 1 >= BatchSize)
      <4>1. batch' = batch /\ pending' = Append(pending, e)
        BY <2>5, <3>3 DEF CacheAndPush
      <4>2. Len(pending) + 1 < max
        BY <3>1, <3>3, EngineAssumption
      <4>3. QED
        BY <1>1, <2>5, <3>1, <4>1, <4>2
    <3>4. QED
      BY <3>2, <3>3
  <2>6. CASE Recv
    <3>1. Head(chan) \in Event /\ pc = "select" /\ output' = output
      BY <2>6, TailRange DEF Recv, Basic, TypeOK
    <3>2. CASE EnableStreaming
      BY <2>6, <3>1, <3>2 DEF Recv
    <3>3. CASE ~EnableStreaming
      BY <2>5, <2>6, <3>1, <3>3 DEF Recv
    <3>4. QED
      BY <3>2, <3>3
  <2>7. CASE Streamed
    <3>1. cur \in Event /\ pc = "stream" /\ output' = output
      BY <2>7 DEF Streamed, Basic, TypeOK, Shape
    <3>2. QED
      BY <2>5, <2>7, <3>1 DEF Streamed
  <2>8. CASE Tick
    <3>1. /\ output' = output /\ pc = "select" /\ batch = <<>>
          /\ \/ pc' = "detect" /\ pending' = <<>> /\ batch' = pending
             \/ UNCHANGED <<pc, pending, batch>>
      BY <2>8 DEF Tick, Basic, Shape
    <3>2. Len(<<>>) = 0
      BY EmptySeq
    <3>3. QED
      BY <1>1, <1>2, <3>1, <3>2
  <2>9. CASE Detect
    <3>1. /\ pending' = pending /\ batch \in Seq(Event) /\ batch # <<>>
          /\ batch' = Tail(batch) /\ pc = "detect" /\ pending = <<>>
      BY <2>9, DetectLemma DEF Basic, TypeOK, Shape
    <3>2. Len(batch') = Len(batch) - 1
      BY <3>1, TailRange
    <3>3. PICK kept :
            /\ kept = <<>> \/ \E o \in Copy : kept = <<o>>
            /\ \/ output' = output \o kept /\ pc' \in {"detect", "post"}
               \/ output' = <<>> /\ pc' = "select"
      BY <2>9, DetectLemma DEF FinishBatch
    <3>4. Len(output \o kept) <= Len(output) + 1
      <4>1. CASE kept = <<>>
        BY <1>2, <4>1, ConcatEmptySeq
      <4>2. ASSUME NEW o \in Copy, kept = <<o>>
            PROVE  Len(output \o kept) = Len(output) + 1
        BY <1>2, <4>2, OutputLemma
      <4>3. QED
        BY <1>2, <3>3, <4>1, <4>2
    <3>5. Len(output \o kept) \in Nat
      BY <1>2, <3>3, OutputLemma, LenProperties
    <3>6. Len(<<>>) = 0
      BY EmptySeq
    <3>7. QED
      BY <1>1, <1>2, <3>1, <3>2, <3>3, <3>4, <3>5, <3>6
  <2>10. CASE PostChunk \/ PostSingle
    <3>1. UNCHANGED <<pending, batch, output>>
      BY <2>10, PostLemma DEF PostChunk, PostSingle
    <3>2. pc' \in {"post", "single", "mark"}
      BY <2>10 DEF PostChunk, PostSingle, NextChunk
    <3>3. QED
      BY <3>1, <3>2
  <2>11. CASE Mark
    <3>1. /\ UNCHANGED <<pending, batch>> /\ pending = <<>> /\ batch = <<>>
          /\ \/ output' = output /\ pc' = pc
             \/ output' = <<>>
          /\ pc = "mark"
      BY <2>11 DEF Mark, FinishBatch, Basic, Shape
    <3>2. Len(<<>>) = 0
      BY EmptySeq
    <3>3. QED
      BY <1>1, <1>2, <3>1, <3>2
  <2>12. QED
    BY <2>2, <2>3, <2>4, <2>6, <2>7, <2>8, <2>9, <2>10, <2>11
    DEF Next, Upload, Environment
<1>5. Inv => BatchBound
  BY DEF BatchBound
<1>6. QED
  BY <1>3, <1>4, <1>5, BasicStep, PTL DEF Spec
=============================================================================
