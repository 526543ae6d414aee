--------------------------- MODULE PipelineProofs ---------------------------
(***************************************************************************)
(* Theorems of Pipeline for every set of events, every window, sample and  *)
(* size limit, and every capacity of the two channels.                     *)
(***************************************************************************)
EXTENDS Pipeline, SequenceTheorems, TLAPS

Entry == [key : Keys, age : 0 .. Old]

-----------------------------------------------------------------------------
(* The constants and the pure operators. *)

LEMMA WindowType == Window \in Nat /\ Old \in Nat /\ Old = Window + 1
BY PipelineAssumption DEF Old

LEMMA KeyType ==
  ASSUME NEW e \in Event
  PROVE  Content(e) \in Contents /\ Key(Content(e)) \in Keys
BY DEF Contents, Keys

LEMMA OlderType ==
  ASSUME NEW age \in 0 .. Old
  PROVE  /\ Older(age) \in 0 .. Old
         /\ Older(age) <= Window => age <= Window /\ Older(age) = age + 1
         /\ age <= Window => Older(age) = age + 1
BY WindowType DEF Older

(* Eviction takes everything that is out of the window and nothing else,   *)
(* though it stops at the first entry that is not.                         *)
LEMMA EvictionIsExact ==
  ASSUME NEW s \in Seq(Entry), NEW r \in Evicted(s),
         \A i, j \in DOMAIN s : i < j => s[i].age >= s[j].age
  PROVE  /\ r \in Seq(Entry)
         /\ \A i, j \in DOMAIN r : i < j => r[i].age >= r[j].age
         /\ \A i \in DOMAIN r : r[i].age <= Window /\ \E k \in DOMAIN s : s[k] = r[i]
         /\ \A i \in DOMAIN s : s[i].age <= Window => \E k \in DOMAIN r : r[k] = s[i]
<1>1. PICK n \in 0 .. Len(s) :
        /\ \A i \in 1 .. n : s[i].age > Window
        /\ n < Len(s) => s[n + 1].age <= Window
        /\ r = SubSeq(s, n + 1, Len(s))
  BY DEF Evicted
<1>2. /\ Len(s) \in Nat /\ DOMAIN s = 1 .. Len(s) /\ n \in Nat /\ n <= Len(s)
      /\ \A i \in 1 .. Len(s) : s[i] \in Entry /\ s[i].age \in Int
  <2>1. \A x \in Entry : x.age \in Int
    BY WindowType DEF Entry
  <2> QED
    BY <2>1, LenProperties, ElementOfSeq
<1>3. /\ r \in Seq(Entry)
      /\ Len(r) = Len(s) - n
      /\ \A i \in 1 .. Len(s) - n : r[i] = s[n + i]
  <2> DEFINE m == n + 1
             l == Len(s)
  <2>0. l \in Nat /\ n \in Nat /\ n <= l
    BY <1>2
  <2>1. m \in Int /\ l \in Int /\ l - m + 1 = l - n /\ (~(m <= l) => l - n = 0)
    <3> HIDE DEF l
    <3> QED
      BY <2>0
  <2>2. \A i \in m .. l : s[i] \in Entry
    BY <1>2
  <2>3. /\ SubSeq(s, m, l) \in Seq(Entry)
        /\ Len(SubSeq(s, m, l)) = IF m <= l THEN l - m + 1 ELSE 0
        /\ \A i \in 1 .. l - m + 1 : SubSeq(s, m, l)[i] = s[m + i - 1]
    <3> HIDE DEF m, l
    <3> QED
      BY <2>1, <2>2, SubSeqProperties
  <2>4. r = SubSeq(s, m, l)
    BY <1>1
  <2>5. \A i \in 1 .. l - n : m + i - 1 = n + i
    BY <1>2
  <2> QED
    BY <2>1, <2>3, <2>4, <2>5
<1>4. DOMAIN r = 1 .. Len(s) - n
  BY <1>3, LenProperties
<1>5. ASSUME NEW i \in n + 1 .. Len(s) PROVE s[i].age <= Window
  <2>1. n + 1 \in 1 .. Len(s) /\ i \in 1 .. Len(s) /\ n + 1 <= i
    BY <1>2
  <2>2. s[n + 1].age <= Window
    BY <1>1, <2>1
  <2>3. s[n + 1].age >= s[i].age
    BY <1>2, <2>1
  <2> QED
    BY <1>2, <2>1, <2>2, <2>3, WindowType
<1>6. ASSUME NEW i \in DOMAIN r
      PROVE  r[i].age <= Window /\ \E k \in DOMAIN s : s[k] = r[i]
  <2>1. n + i \in n + 1 .. Len(s) /\ n + i \in DOMAIN s /\ r[i] = s[n + i]
    BY <1>2, <1>3, <1>4
  <2> QED
    BY <1>5, <2>1
<1>7. ASSUME NEW i \in DOMAIN r, NEW j \in DOMAIN r, i < j
      PROVE  r[i].age >= r[j].age
  <2>1. /\ n + i \in DOMAIN s /\ n + j \in DOMAIN s /\ n + i < n + j
        /\ r[i] = s[n + i] /\ r[j] = s[n + j]
    BY <1>2, <1>3, <1>4, <1>7
  <2> QED
    BY <2>1
<1>8. ASSUME NEW i \in DOMAIN s, s[i].age <= Window
      PROVE  \E k \in DOMAIN r : r[k] = s[i]
  <2>1. i \in Int /\ ~(i \in 1 .. n)
    BY <1>1, <1>2, <1>8, WindowType
  <2>2. i - n \in 1 .. Len(s) - n /\ n + (i - n) = i
    BY <2>1, <1>2
  <2>3. r[i - n] = s[i]
    BY <2>2, <1>3
  <2> QED
    BY <2>2, <2>3, <1>4
<1> QED
  BY <1>3, <1>6, <1>7, <1>8

(* The time since a key passed is that of the one content that passed in   *)
(* the window, and out of the window when there is none.                   *)
LEMMA SinceLemma ==
  ASSUME NEW passed \in [Contents -> 0 .. Old], NEW k \in Keys,
         \A c, d \in Contents :
           Key(c) = Key(d) /\ passed[c] <= Window /\ passed[d] <= Window => c = d
  PROVE  /\ SinceIn(passed, k) \in 0 .. Old
         /\ \E c \in Contents : Key(c) = k /\ passed[c] = SinceIn(passed, k)
         /\ \A c \in Contents : Key(c) = k => SinceIn(passed, k) <= passed[c]
<1>1. \E a \in 0 .. Old :
        /\ \E c \in Contents : Key(c) = k /\ passed[c] = a
        /\ \A c \in Contents : Key(c) = k => a <= passed[c]
  <2>1. CASE \E c \in Contents : Key(c) = k /\ passed[c] <= Window
    <3>1. PICK c \in Contents : Key(c) = k /\ passed[c] <= Window
      BY <2>1
    <3>2. \A d \in Contents : Key(d) = k => passed[c] <= passed[d]
      <4> TAKE d \in Contents
      <4>1. passed[c] \in 0 .. Old /\ passed[d] \in 0 .. Old
        OBVIOUS
      <4> QED
        BY <3>1, <4>1, WindowType
    <3> QED
      BY <3>1, <3>2
  <2>2. CASE ~ \E c \in Contents : Key(c) = k /\ passed[c] <= Window
    <3>1. PICK c \in Contents : Key(c) = k
      BY DEF Keys
    <3>2. \A d \in Contents : Key(d) = k => passed[d] = Old
      BY <2>2, WindowType
    <3> QED
      BY <3>1, <3>2, WindowType
  <2> QED
    BY <2>1, <2>2
<1> QED
  BY <1>1 DEF SinceIn

-----------------------------------------------------------------------------
(* The actions. *)

LEMMA ChannelTypes ==
  ASSUME TypeOK
  PROVE  /\ Len(raw) \in Nat /\ Len(out) \in Nat /\ Len(hand) \in Nat
         /\ raw # <<>> => Head(raw) \in Event /\ Tail(raw) \in Seq(Event)
                          /\ Len(Tail(raw)) = Len(raw) - 1
         /\ out # <<>> => Head(out) \in Event /\ Tail(out) \in Seq(Event)
                          /\ Len(Tail(out)) = Len(out) - 1
         /\ hand # <<>> => \E e \in Event : hand = <<e>>
         /\ RawCap \in Nat /\ OutCap \in Nat /\ RawCap >= 1 /\ OutCap >= 1
<1>1. raw \in Seq(Event) /\ out \in Seq(Event) /\ hand \in Seq(Event)
  BY DEF TypeOK
<1>2. hand # <<>> => \E e \in Event : hand = <<e>>
  <2> SUFFICES ASSUME hand # <<>> PROVE \E e \in Event : hand = <<e>>
    OBVIOUS
  <2>0. Len(hand) \in Nat \ {0} /\ Len(hand) <= 1
    BY <1>1, EmptySeq DEF TypeOK
  <2>1. Len(hand) = 1
    <3> DEFINE l == Len(hand)
    <3>1. l \in Nat \ {0} /\ l <= 1
      BY <2>0
    <3>2. l = 1
      <4> HIDE DEF l
      <4> QED
        BY <3>1
    <3> QED
      BY <3>2
  <2>2. hand[1] \in Event
    BY <1>1, <2>1, ElementOfSeq
  <2>3. hand = <<hand[1]>>
    BY <1>1, <2>1
  <2> QED
    BY <2>2, <2>3
<1> QED
  BY <1>1, <1>2, LenProperties, HeadTailProperties, PipelineAssumption

LEMMA InitInv == Init => PipelineInv
<1> SUFFICES ASSUME Init PROVE PipelineInv
  OBVIOUS
<1>1. /\ <<>> \in Seq(Event) /\ <<>> \in Seq(Entry) /\ Len(<<>>) = 0
  BY EmptySeq
<1>2. \A c \in Contents : lastPassed[c] = Old /\ ~(lastPassed[c] <= Window)
  BY WindowType DEF Init
<1>3. TypeOK
  BY <1>1, WindowType, PipelineAssumption DEF Init, TypeOK, Entry
<1> QED
  BY <1>2, <1>3 DEF Init, PipelineInv, OldestFirst, EntriesPassed, PassedAreKept, OnePerKey

(* What the pipeline remembers, as one formula. *)
Memory == OldestFirst /\ EntriesPassed /\ PassedAreKept /\ OnePerKey

LEMMA MemoryUnchanged ==
  ASSUME Memory, UNCHANGED <<seen, lastPassed>> PROVE Memory'
BY DEF Memory, OldestFirst, EntriesPassed, PassedAreKept, OnePerKey

(* A verdict of the dedup check. *)
LEMMA ProcessMemory ==
  ASSUME TypeOK, Memory, Process
  PROVE  Memory' /\ seen' \in Seq(Entry) /\ lastPassed' \in [Contents -> 0 .. Old]
<1> DEFINE e == Head(raw)
           k == Key(Content(e))
<1>1. e \in Event /\ Content(e) \in Contents /\ k \in Keys
  BY ChannelTypes, KeyType DEF Process
<1>2. seen \in Seq(Entry) /\ lastPassed \in [Contents -> 0 .. Old]
  BY DEF TypeOK, Entry
<1>3. CASE UNCHANGED <<seen, lastPassed>>
  BY <1>2, <1>3, MemoryUnchanged
<1>4. ASSUME NEW s \in Evicted(seen), seen' = s, UNCHANGED lastPassed
      PROVE  Memory' /\ seen' \in Seq(Entry)
  <2>1. /\ s \in Seq(Entry)
        /\ \A i, j \in DOMAIN s : i < j => s[i].age >= s[j].age
        /\ \A i \in DOMAIN s : s[i].age <= Window /\ \E l \in DOMAIN seen : seen[l] = s[i]
        /\ \A i \in DOMAIN seen : seen[i].age <= Window => \E l \in DOMAIN s : s[l] = seen[i]
    BY <1>2, EvictionIsExact DEF Memory, OldestFirst
  <2>2. OldestFirst'
    BY <1>4, <2>1 DEF OldestFirst
  <2>3. EntriesPassed'
    BY <1>4, <2>1 DEF Memory, EntriesPassed
  <2>4. PassedAreKept'
    <3> SUFFICES ASSUME NEW c \in Contents, lastPassed[c] <= Window
                 PROVE  \E i \in DOMAIN s : s[i] = [key |-> Key(c), age |-> lastPassed[c]]
      BY <1>4 DEF PassedAreKept
    <3>1. PICK i \in DOMAIN seen : seen[i] = [key |-> Key(c), age |-> lastPassed[c]]
      BY DEF Memory, PassedAreKept
    <3>2. seen[i].age <= Window
      BY <3>1
    <3> QED
      BY <2>1, <3>1, <3>2
  <2>5. OnePerKey'
    BY <1>4 DEF Memory, OnePerKey
  <2> QED
    BY <1>4, <2>1, <2>2, <2>3, <2>4, <2>5 DEF Memory
<1>5. ASSUME NEW s \in Evicted(seen), ~Recorded(s, k),
             seen' = Append(s, [key |-> k, age |-> 0]),
             lastPassed' = [lastPassed EXCEPT ![Content(e)] = 0]
      PROVE  Memory' /\ seen' \in Seq(Entry) /\ lastPassed' \in [Contents -> 0 .. Old]
  <2> DEFINE new == [key |-> k, age |-> 0]
  <2>1. /\ s \in Seq(Entry)
        /\ \A i, j \in DOMAIN s : i < j => s[i].age >= s[j].age
        /\ \A i \in DOMAIN s : s[i].age <= Window /\ \E l \in DOMAIN seen : seen[l] = s[i]
        /\ \A i \in DOMAIN seen : seen[i].age <= Window => \E l \in DOMAIN s : s[l] = seen[i]
    BY <1>2, EvictionIsExact DEF Memory, OldestFirst
  <2>2. new \in Entry
    BY <1>1, WindowType DEF Entry
  <2>3. /\ seen' \in Seq(Entry) /\ Len(s) \in Nat
        /\ DOMAIN s = 1 .. Len(s) /\ DOMAIN seen' = 1 .. Len(s) + 1
        /\ \A i \in 1 .. Len(s) : seen'[i] = s[i] /\ s[i] \in Entry
        /\ seen'[Len(s) + 1] = new
    BY <1>5, <2>1, <2>2, AppendProperties, LenProperties, ElementOfSeq
  <2>4. /\ lastPassed' \in [Contents -> 0 .. Old]
        /\ lastPassed'[Content(e)] = 0
        /\ \A c \in Contents : c # Content(e) => lastPassed'[c] = lastPassed[c]
    BY <1>1, <1>2, <1>5, WindowType
  <2>5. \A c \in Contents : Key(c) = k => ~(lastPassed[c] <= Window)
    <3> SUFFICES ASSUME NEW c \in Contents, Key(c) = k, lastPassed[c] <= Window
                 PROVE  FALSE
      OBVIOUS
    <3>1. PICK i \in DOMAIN seen : seen[i] = [key |-> k, age |-> lastPassed[c]]
      BY DEF Memory, PassedAreKept
    <3>2. PICK l \in DOMAIN s : s[l] = seen[i]
      BY <2>1, <3>1
    <3> QED
      BY <1>5, <3>1, <3>2 DEF Recorded
  <2>6. OldestFirst'
    <3> SUFFICES ASSUME NEW i \in 1 .. Len(s) + 1, NEW j \in 1 .. Len(s) + 1, i < j
                 PROVE  seen'[i].age >= seen'[j].age
      BY <2>3 DEF OldestFirst
    <3>1. CASE j = Len(s) + 1
      BY <2>3, <3>1, WindowType DEF Entry
    <3>2. CASE j \in 1 .. Len(s)
      <4>1. i \in 1 .. Len(s)
        BY <2>3, <3>2
      <4>2. s[i].age >= s[j].age
        BY <2>1, <2>3, <3>2, <4>1
      <4> QED
        BY <2>3, <3>2, <4>1, <4>2
    <3> QED
      BY <2>3, <3>1, <3>2
  <2>7. EntriesPassed'
    <3> SUFFICES ASSUME NEW i \in 1 .. Len(s) + 1, seen'[i].age <= Window
                 PROVE  \E c \in Contents :
                          Key(c) = seen'[i].key /\ lastPassed'[c] = seen'[i].age
      BY <2>3 DEF EntriesPassed
    <3>1. CASE i = Len(s) + 1
      BY <1>1, <2>3, <2>4, <3>1
    <3>2. CASE i \in 1 .. Len(s)
      <4>1. PICK l \in DOMAIN seen : seen[l] = s[i]
        BY <2>1, <2>3, <3>2
      <4>2. seen'[i] = seen[l]
        BY <2>3, <3>2, <4>1
      <4>3. PICK c \in Contents : Key(c) = seen[l].key /\ lastPassed[c] = seen[l].age
        BY <4>2 DEF Memory, EntriesPassed
      <4>4. seen[l].key # k
        BY <1>5, <2>3, <3>2, <4>1 DEF Recorded
      <4> QED
        BY <2>4, <4>2, <4>3, <4>4
    <3> QED
      BY <2>3, <3>1, <3>2
  <2>8. PassedAreKept'
    <3> SUFFICES ASSUME NEW c \in Contents, lastPassed'[c] <= Window
                 PROVE  \E i \in DOMAIN seen' :
                          seen'[i] = [key |-> Key(c), age |-> lastPassed'[c]]
      BY DEF PassedAreKept
    <3>1. CASE c = Content(e)
      BY <2>3, <2>4, <3>1
    <3>2. CASE c # Content(e)
      <4>1. PICK i \in DOMAIN seen : seen[i] = [key |-> Key(c), age |-> lastPassed[c]]
        BY <2>4, <3>2 DEF Memory, PassedAreKept
      <4>2. PICK l \in DOMAIN s : s[l] = seen[i]
        BY <2>1, <2>4, <3>2, <4>1
      <4>3. l \in DOMAIN seen' /\ seen'[l] = [key |-> Key(c), age |-> lastPassed'[c]]
        BY <2>3, <2>4, <3>2, <4>1, <4>2
      <4> QED
        BY <4>3
    <3> QED
      BY <3>1, <3>2
  <2>9. OnePerKey'
    <3> SUFFICES ASSUME NEW c \in Contents, NEW d \in Contents, Key(c) = Key(d),
                        lastPassed'[c] <= Window, lastPassed'[d] <= Window
                 PROVE  c = d
      BY DEF OnePerKey
    <3> QED
      BY <2>4, <2>5 DEF Memory, OnePerKey
  <2> QED
    BY <2>3, <2>4, <2>6, <2>7, <2>8, <2>9 DEF Memory
<1> QED
  BY <1>2, <1>3, <1>4, <1>5 DEF Process

(* Time: every age grows alike. *)
LEMMA PassMemory ==
  ASSUME TypeOK, Memory, Pass
  PROVE  Memory' /\ seen' \in Seq(Entry) /\ lastPassed' \in [Contents -> 0 .. Old]
<1>1. seen \in Seq(Entry) /\ lastPassed \in [Contents -> 0 .. Old]
  BY DEF TypeOK, Entry
<1>2. Len(seen) \in Nat /\ DOMAIN seen = 1 .. Len(seen)
      /\ \A i \in DOMAIN seen : seen[i] \in Entry
  BY <1>1, LenProperties, ElementOfSeq
<1>3. /\ DOMAIN seen' = DOMAIN seen
      /\ \A i \in DOMAIN seen :
           /\ seen'[i] \in Entry
           /\ seen'[i].key = seen[i].key /\ seen'[i].age = Older(seen[i].age)
  BY <1>2, OlderType DEF Pass, Entry
<1>4. seen' \in Seq(Entry)
  <2>1. seen' \in [1 .. Len(seen) -> Entry]
    BY <1>2, <1>3 DEF Pass
  <2> QED
    BY <1>2, <2>1, SeqDef
<1>5. /\ lastPassed' \in [Contents -> 0 .. Old]
      /\ \A c \in Contents : lastPassed'[c] = Older(lastPassed[c])
  BY <1>1, OlderType DEF Pass
<1>6. OldestFirst'
  BY <1>2, <1>3, WindowType DEF Memory, OldestFirst, Older, Entry
<1>7. EntriesPassed'
  <2> SUFFICES ASSUME NEW i \in DOMAIN seen, seen'[i].age <= Window
               PROVE  \E c \in Contents :
                        Key(c) = seen'[i].key /\ lastPassed'[c] = seen'[i].age
    BY <1>3 DEF EntriesPassed
  <2>1. seen[i].age \in 0 .. Old
    BY <1>2 DEF Entry
  <2>2. PICK c \in Contents : Key(c) = seen[i].key /\ lastPassed[c] = seen[i].age
    BY <1>3, <2>1, OlderType DEF Memory, EntriesPassed
  <2> QED
    BY <1>3, <1>5, <2>2
<1>8. PassedAreKept'
  <2> SUFFICES ASSUME NEW c \in Contents, lastPassed'[c] <= Window
               PROVE  \E i \in DOMAIN seen' :
                        seen'[i] = [key |-> Key(c), age |-> lastPassed'[c]]
    BY DEF PassedAreKept
  <2>1. lastPassed[c] \in 0 .. Old
    BY <1>1
  <2>2. PICK i \in DOMAIN seen : seen[i] = [key |-> Key(c), age |-> lastPassed[c]]
    BY <1>5, <2>1, OlderType DEF Memory, PassedAreKept
  <2>3. seen'[i].key = Key(c) /\ seen'[i].age = lastPassed'[c] /\ seen'[i] \in Entry
    BY <1>3, <1>5, <2>2
  <2>4. seen'[i] = [key |-> Key(c), age |-> lastPassed'[c]]
    BY <2>3 DEF Entry
  <2> QED
    BY <1>3, <2>4
<1>9. OnePerKey'
  <2> SUFFICES ASSUME NEW c \in Contents, NEW d \in Contents, Key(c) = Key(d),
                      lastPassed'[c] <= Window, lastPassed'[d] <= Window
               PROVE  c = d
    BY DEF OnePerKey
  <2>1. lastPassed[c] \in 0 .. Old /\ lastPassed[d] \in 0 .. Old
    BY <1>1
  <2> QED
    BY <1>5, <2>1, OlderType DEF Memory, OnePerKey
<1> QED
  BY <1>4, <1>5, <1>6, <1>7, <1>8, <1>9 DEF Memory

LEMMA NextInv == PipelineInv /\ [Next]_vars => PipelineInv'
<1> SUFFICES ASSUME PipelineInv, [Next]_vars PROVE PipelineInv'
  OBVIOUS
<1>1. /\ TypeOK /\ Memory
      /\ raw \in Seq(Event) /\ out \in Seq(Event) /\ hand \in Seq(Event)
      /\ <<>> \in Seq(Event) /\ Len(<<>>) = 0
  BY EmptySeq DEF PipelineInv, Memory, TypeOK
<1>2. ASSUME Memory', TypeOK', sink' = "gone" => out' = <<>> PROVE PipelineInv'
  BY <1>2 DEF PipelineInv, Memory
<1>3. ASSUME NEW e \in Event, Produce(e) PROVE PipelineInv'
  <2>1. raw' \in Seq(Event) /\ Len(raw') <= RawCap
    <3>1. raw' \in Seq(Event) /\ Len(raw') = Len(raw) + 1 /\ Len(raw) < RawCap
      BY <1>1, <1>3, AppendProperties DEF Produce
    <3> QED
      BY <3>1, <1>1, ChannelTypes
  <2> QED
    BY <1>1, <1>2, <1>3, <2>1, MemoryUnchanged DEF Produce, TypeOK, PipelineInv
<1>4. CASE Process
  <2>1. raw' \in Seq(Event) /\ Len(raw') <= RawCap
    <3>1. raw' \in Seq(Event) /\ Len(raw') = Len(raw) - 1 /\ Len(raw) <= RawCap
      BY <1>1, <1>4, ChannelTypes DEF Process, TypeOK
    <3> QED
      BY <3>1, <1>1, ChannelTypes
  <2>2. hand' \in Seq(Event) /\ Len(hand') <= 1
    <3>1. CASE hand' = <<Head(raw)>>
      BY <1>1, <1>4, <3>1, ChannelTypes DEF Process
    <3>2. CASE hand' = hand
      BY <1>1, <3>2 DEF TypeOK
    <3> QED
      BY <1>4, <3>1, <3>2 DEF Process
  <2>3. TypeOK'
    BY <1>1, <1>4, <2>1, <2>2, ProcessMemory DEF Process, TypeOK, Entry
  <2> QED
    BY <1>1, <1>2, <1>4, <2>3, ProcessMemory DEF Process, PipelineInv
<1>5. CASE Forward
  <2>1. out' \in Seq(Event) /\ Len(out') <= OutCap
    <3>1. CASE sink = "open"
      <4>1. out' = out \o hand /\ Len(out) < OutCap
        BY <1>5, <3>1 DEF Forward
      <4>2. PICK e \in Event : hand = <<e>>
        BY <1>1, <1>5, ChannelTypes DEF Forward
      <4>3. out' \in Seq(Event) /\ Len(out') = Len(out) + 1
        BY <1>1, <4>1, <4>2
      <4> QED
        BY <1>1, <4>1, <4>3, ChannelTypes
    <3>2. CASE sink # "open"
      BY <1>1, <1>5, <3>2 DEF Forward, TypeOK
    <3> QED
      BY <3>1, <3>2
  <2>2. raw' \in Seq(Event) /\ Len(raw') <= RawCap /\ Len(hand') <= 1
        /\ hand' \in Seq(Event)
    <3>1. 0 <= RawCap
      BY <1>1, ChannelTypes
    <3>2. hand' = <<>> /\ raw' \in {raw, <<>>}
      BY <1>5 DEF Forward
    <3>3. raw' \in Seq(Event) /\ Len(raw') <= RawCap
      <4>1. CASE raw' = raw
        BY <1>1, <4>1 DEF TypeOK
      <4>2. CASE raw' = <<>>
        BY <1>1, <3>1, <4>2
      <4> QED
        BY <3>2, <4>1, <4>2
    <3> QED
      BY <1>1, <3>2, <3>3
  <2>3. TypeOK'
    BY <1>1, <1>5, <2>1, <2>2 DEF Forward, TypeOK
  <2> QED
    BY <1>1, <1>2, <1>5, <2>3, MemoryUnchanged DEF Forward, PipelineInv
<1>6. CASE Take
  <2>1. out' \in Seq(Event) /\ Len(out') <= OutCap
    <3>1. out' \in Seq(Event) /\ Len(out') = Len(out) - 1 /\ Len(out) <= OutCap
      BY <1>1, <1>6, ChannelTypes DEF Take, TypeOK
    <3> QED
      BY <3>1, <1>1, ChannelTypes
  <2> QED
    BY <1>1, <1>2, <1>6, <2>1, MemoryUnchanged DEF Take, TypeOK, PipelineInv
<1>7. CASE SinkEnds
  BY <1>1, <1>2, <1>7, MemoryUnchanged, PipelineAssumption DEF SinkEnds, TypeOK, PipelineInv
<1>8. CASE Pass
  BY <1>1, <1>2, <1>8, PassMemory DEF Pass, TypeOK, PipelineInv, Entry
<1>9. CASE UNCHANGED vars
  BY <1>1, <1>2, <1>9, MemoryUnchanged DEF vars, TypeOK, PipelineInv
<1> QED
  BY <1>3, <1>4, <1>5, <1>6, <1>7, <1>8, <1>9 DEF Next

-----------------------------------------------------------------------------
(* The channels, the deque and the clock keep their types and bounds.      *)
THEOREM PipelineTypeCorrect == Spec => []TypeOK
<1>1. PipelineInv => TypeOK
  BY DEF PipelineInv
<1> QED
  BY <1>1, InitInv, NextInv, PTL DEF Spec

(* The deque knows exactly the keys that passed within the window, though  *)
(* it is emptied from the front only, when an event arrives.               *)
THEOREM WindowIsExact == Spec => []WindowExact
<1>1. PipelineInv => WindowExact
  <2> SUFFICES ASSUME PipelineInv, NEW k \in Keys
               PROVE  PassedWithin(k) <=>
                        \E i \in DOMAIN seen : seen[i].key = k /\ seen[i].age <= Window
    BY DEF WindowExact
  <2>1. ASSUME PassedWithin(k)
        PROVE  \E i \in DOMAIN seen : seen[i].key = k /\ seen[i].age <= Window
    <3>1. PICK c \in Contents : Key(c) = k /\ lastPassed[c] <= Window
      BY <2>1 DEF PassedWithin
    <3>2. PICK i \in DOMAIN seen : seen[i] = [key |-> Key(c), age |-> lastPassed[c]]
      BY <3>1 DEF PipelineInv, PassedAreKept
    <3> QED
      BY <3>1, <3>2
  <2>2. ASSUME NEW i \in DOMAIN seen, seen[i].key = k, seen[i].age <= Window
        PROVE  PassedWithin(k)
    BY <2>2 DEF PipelineInv, EntriesPassed, PassedWithin
  <2> QED
    BY <2>1, <2>2
<1> QED
  BY <1>1, InitInv, NextInv, PTL DEF Spec

-----------------------------------------------------------------------------
(* The pipeline implements UniqueFeed. *)

LEMMA FeedInit == Init => Feed!Init
<1> SUFFICES ASSUME Init PROVE Feed!Init
  OBVIOUS
<1>1. /\ lastPassed \in [Contents -> 0 .. Old]
      /\ \A c \in Contents : lastPassed[c] = Old /\ ~(lastPassed[c] <= Window)
  BY WindowType DEF Init
<1>2. \A k \in Keys : SinceIn(lastPassed, k) = Window + 1
  <2> TAKE k \in Keys
  <2>1. \E c \in Contents : Key(c) = k /\ lastPassed[c] = SinceIn(lastPassed, k)
    BY <1>1, SinceLemma
  <2> QED
    BY <1>1, <2>1, WindowType
<1> QED
  BY <1>2 DEF Init, Feed!Init, SinceKey

(* The verdict on an event is the one its key's last passing asks for. *)
LEMMA VerdictLemma ==
  ASSUME PipelineInv, NEW s \in Evicted(seen), NEW k \in Keys
  PROVE  Recorded(s, k) <=> SinceIn(lastPassed, k) <= Window
<1>1. /\ seen \in Seq(Entry) /\ lastPassed \in [Contents -> 0 .. Old]
      /\ OldestFirst /\ EntriesPassed /\ PassedAreKept /\ OnePerKey
  BY DEF PipelineInv, TypeOK, Entry
<1>2. /\ \A i \in DOMAIN s : s[i].age <= Window /\ \E l \in DOMAIN seen : seen[l] = s[i]
      /\ \A i \in DOMAIN seen : seen[i].age <= Window => \E l \in DOMAIN s : s[l] = seen[i]
  BY <1>1, EvictionIsExact DEF OldestFirst
<1>3. /\ SinceIn(lastPassed, k) \in 0 .. Old
      /\ \E c \in Contents : Key(c) = k /\ lastPassed[c] = SinceIn(lastPassed, k)
      /\ \A c \in Contents : Key(c) = k => SinceIn(lastPassed, k) <= lastPassed[c]
  BY <1>1, SinceLemma DEF OnePerKey
<1>4. ASSUME Recorded(s, k) PROVE SinceIn(lastPassed, k) <= Window
  <2>1. PICK i \in DOMAIN s : s[i].key = k
    BY <1>4 DEF Recorded
  <2>2. PICK l \in DOMAIN seen : seen[l] = s[i] /\ seen[l].age <= Window
    BY <1>2, <2>1
  <2>3. PICK c \in Contents : Key(c) = k /\ lastPassed[c] = seen[l].age
    BY <1>1, <2>1, <2>2 DEF EntriesPassed
  <2>4. SinceIn(lastPassed, k) <= lastPassed[c] /\ lastPassed[c] <= Window
        /\ lastPassed[c] \in 0 .. Old
    BY <1>1, <1>3, <2>2, <2>3
  <2> QED
    BY <1>3, <2>4, WindowType
<1>5. ASSUME SinceIn(lastPassed, k) <= Window PROVE Recorded(s, k)
  <2>1. PICK c \in Contents : Key(c) = k /\ lastPassed[c] = SinceIn(lastPassed, k)
    BY <1>3
  <2>2. PICK l \in DOMAIN seen : seen[l] = [key |-> k, age |-> lastPassed[c]]
    BY <1>1, <1>5, <2>1 DEF PassedAreKept
  <2>3. PICK i \in DOMAIN s : s[i] = seen[l]
    BY <1>2, <1>5, <2>1, <2>2
  <2> QED
    BY <2>2, <2>3 DEF Recorded
<1> QED
  BY <1>4, <1>5

LEMMA FeedProcess ==
  ASSUME PipelineInv, PipelineInv', Process
  PROVE  Feed!Pass \/ Feed!Drop
<1> DEFINE e == Head(raw)
           k == Key(Content(e))
<1>1. /\ e \in Event /\ Content(e) \in Contents /\ k \in Keys
      /\ TypeOK /\ out \in Seq(Event) /\ hand = <<>> /\ raw # <<>> /\ raw' = Tail(raw)
      /\ UNCHANGED <<out, sink>>
  BY ChannelTypes, KeyType DEF Process, PipelineInv, TypeOK
<1>2. \A p \in Keys : SinceKey[p] = SinceIn(lastPassed, p)
  BY DEF SinceKey
<1>3. Feed!Fresh(e) <=> ~Oversized(e) /\ SinceIn(lastPassed, k) > Window
  BY <1>1, <1>2 DEF Feed!Fresh
<1>4. SinceIn(lastPassed, k) \in 0 .. Old
  BY <1>1, SinceLemma DEF PipelineInv, OnePerKey, TypeOK
<1>5. CASE UNCHANGED <<hand, lastPassed>> /\ ~Feed!Fresh(e)
  <2>1. SinceKey' = SinceKey /\ (out \o hand)' = out \o hand
    BY <1>1, <1>5 DEF SinceKey
  <2> QED
    BY <1>1, <1>5, <2>1 DEF Feed!Drop
<1>6. ASSUME NEW s \in Evicted(seen), ~Oversized(e), ~Recorded(s, k), hand' = <<e>>,
             lastPassed' = [lastPassed EXCEPT ![Content(e)] = 0]
      PROVE  Feed!Pass
  <2>1. Feed!Fresh(e)
    BY <1>1, <1>3, <1>4, <1>6, VerdictLemma, WindowType
  <2>2. (out \o hand)' = Append(out \o hand, e)
    BY <1>1, <1>6
  <2>3. /\ lastPassed \in [Contents -> 0 .. Old] /\ lastPassed' \in [Contents -> 0 .. Old]
        /\ lastPassed'[Content(e)] = 0
        /\ \A c \in Contents : c # Content(e) => lastPassed'[c] = lastPassed[c]
    BY <1>1, <1>6 DEF PipelineInv, TypeOK
  <2>4. SinceIn(lastPassed', k) = 0
    <3>1. /\ SinceIn(lastPassed', k) \in 0 .. Old
          /\ SinceIn(lastPassed', k) <= lastPassed'[Content(e)]
      BY <1>1, <2>3, SinceLemma DEF PipelineInv, OnePerKey
    <3> QED
      BY <2>3, <3>1, WindowType
  <2>5. ASSUME NEW p \in Keys, p # k PROVE SinceIn(lastPassed', p) = SinceIn(lastPassed, p)
    BY <1>1, <2>3, <2>5 DEF SinceIn
  <2>6. SinceKey' = [SinceKey EXCEPT ![k] = 0]
    BY <2>4, <2>5 DEF SinceKey
  <2> QED
    BY <1>1, <2>1, <2>2, <2>6 DEF Feed!Pass
<1>7. ASSUME NEW s \in Evicted(seen), Recorded(s, k) PROVE ~Feed!Fresh(e)
  BY <1>1, <1>3, <1>4, <1>7, VerdictLemma, WindowType
<1>8. Oversized(e) => ~Feed!Fresh(e)
  BY <1>3
<1> QED
  BY <1>5, <1>6, <1>7, <1>8 DEF Process

LEMMA FeedTime == ASSUME PipelineInv, PipelineInv', Pass PROVE Feed!Time
<1>1. /\ lastPassed \in [Contents -> 0 .. Old] /\ lastPassed' \in [Contents -> 0 .. Old]
      /\ \A c \in Contents : lastPassed'[c] = Older(lastPassed[c])
      /\ OnePerKey /\ OnePerKey'
  BY DEF PipelineInv, TypeOK, Pass
<1>2. ASSUME NEW k \in Keys
      PROVE  SinceIn(lastPassed', k) = Older(SinceIn(lastPassed, k))
  <2>1. /\ SinceIn(lastPassed, k) \in 0 .. Old
        /\ \E c \in Contents : Key(c) = k /\ lastPassed[c] = SinceIn(lastPassed, k)
        /\ \A c \in Contents : Key(c) = k => SinceIn(lastPassed, k) <= lastPassed[c]
    BY <1>1, SinceLemma DEF OnePerKey
  <2>2. /\ SinceIn(lastPassed', k) \in 0 .. Old
        /\ \E c \in Contents : Key(c) = k /\ lastPassed'[c] = SinceIn(lastPassed', k)
        /\ \A c \in Contents : Key(c) = k => SinceIn(lastPassed', k) <= lastPassed'[c]
    BY <1>1, SinceLemma DEF OnePerKey
  <2>3. PICK c \in Contents : Key(c) = k /\ lastPassed[c] = SinceIn(lastPassed, k)
    BY <2>1
  <2>4. PICK d \in Contents : Key(d) = k /\ lastPassed'[d] = SinceIn(lastPassed', k)
    BY <2>2
  <2>5. /\ SinceIn(lastPassed, k) <= lastPassed[d] /\ lastPassed[d] \in 0 .. Old
        /\ SinceIn(lastPassed', k) <= Older(SinceIn(lastPassed, k))
        /\ SinceIn(lastPassed', k) = Older(lastPassed[d])
    BY <1>1, <2>1, <2>2, <2>3, <2>4
  <2> QED
    BY <2>1, <2>2, <2>5, WindowType DEF Older
<1>3. SinceKey' = [c \in Keys |-> IF SinceKey[c] > Window THEN SinceKey[c] ELSE SinceKey[c] + 1]
  BY <1>2 DEF SinceKey, Older
<1> QED
  BY <1>3 DEF Pass, Feed!Time

LEMMA FeedNext ==
  PipelineInv /\ PipelineInv' /\ [Next]_vars => [Feed!Next]_(Feed!vars)
<1> SUFFICES ASSUME PipelineInv, PipelineInv', [Next]_vars
             PROVE  Feed!Next \/ UNCHANGED Feed!vars
  OBVIOUS
<1>1. /\ TypeOK
      /\ raw \in Seq(Event) /\ out \in Seq(Event) /\ hand \in Seq(Event)
      /\ out \o hand \in Seq(Event) /\ Len(out \o hand) \in Nat
      /\ sink = "gone" => out = <<>>
      /\ sink \in {"open", "gone"}
  BY ConcatProperties, LenProperties DEF PipelineInv, TypeOK
<1>2. lastPassed' = lastPassed => SinceKey' = SinceKey
  BY DEF SinceKey
<1>3. ASSUME NEW e \in Event, Produce(e) PROVE Feed!Accept(e)
  BY <1>2, <1>3 DEF Produce, Feed!Accept
<1>4. CASE Forward
  <2>1. CASE sink = "open"
    <3>1. (out \o hand)' = out \o hand
      BY <1>1, <1>4, <2>1 DEF Forward
    <3> QED
      BY <1>2, <1>4, <2>1, <3>1 DEF Forward, Feed!vars
  <2>2. CASE sink = "gone"
    <3>1. (out \o hand)' = <<>> /\ raw' = <<>>
      BY <1>1, <1>4, <2>2 DEF Forward
    <3>2. SubSeq(out \o hand, Len(out \o hand) + 1, Len(out \o hand)) = <<>>
      BY <1>1
    <3>3. Feed!Close
      BY <1>1, <1>2, <1>4, <2>2, <3>1, <3>2 DEF Forward, Feed!Close
    <3> QED
      BY <3>3 DEF Feed!Next
  <2> QED
    BY <1>1, <2>1, <2>2
<1>5. CASE Take
  <2>1. (out \o hand)' = Tail(out \o hand) /\ out \o hand # <<>>
    BY <1>1, <1>5 DEF Take
  <2>2. Feed!Deliver
    BY <1>2, <1>5, <2>1 DEF Take, Feed!Deliver
  <2> QED
    BY <2>2 DEF Feed!Next
<1>6. CASE SinkEnds
  <2>1. /\ Len(out) \in 0 .. Len(out \o hand)
        /\ (out \o hand)' = SubSeq(out \o hand, Len(out) + 1, Len(out \o hand))
    BY <1>1, <1>6 DEF SinkEnds
  <2>2. Feed!Close
    BY <1>2, <1>6, <2>1 DEF SinkEnds, Feed!Close
  <2> QED
    BY <2>2 DEF Feed!Next
<1>7. CASE UNCHANGED vars
  BY <1>2, <1>7 DEF vars, Feed!vars
<1> QED
  BY <1>3, <1>4, <1>5, <1>6, <1>7, FeedProcess, FeedTime DEF Next, Feed!Next

(* Order is kept, of the events of one key one passes per window, only a   *)
(* twin that passed within the window or its size drops an event, and a    *)
(* full channel delays but loses nothing while the sink is there.          *)
THEOREM PipelineIsUniqueFeed == Spec => FeedSpec
BY InitInv, NextInv, FeedInit, FeedNext, PTL DEF Spec, FeedSpec, Feed!Spec
=============================================================================
