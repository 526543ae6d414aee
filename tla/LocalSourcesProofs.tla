------------------------- MODULE LocalSourcesProofs -------------------------
(***************************************************************************)
(* Theorems of LocalSources for every choice of sources, every set of      *)
(* paths, any number of versions and changes, and whatever is unreadable.  *)
(***************************************************************************)
EXTENDS LocalSources, TLAPS

LEMMA VersionType == 0 \in Version /\ 1 \in Version /\ None \in [Paths -> Version]
BY SourceAssumption DEF Version, None

LEMMA InitInv == SourceInit => SourceInv
BY VersionType, SourceAssumption
DEF SourceInit, SourceInv, SourceTypeOK, Phases, ToldAsKnown, Agree, ListingTrue, Version, None

(* try_send: what was told of p is v, or p is missed. *)
LEMMA TellLemma ==
  ASSUME told \in [Paths -> Version], NEW p \in Paths, NEW v \in Version, Tell(p, v)
  PROVE  /\ told' \in [Paths -> Version]
         /\ \A q \in Paths \ missed' : q = p => told'[q] = v
         /\ \A q \in Paths \ missed' : q # p => q \notin missed /\ told'[q] = told[q]
         /\ \A q \in Paths : told'[q] # told[q] => q = p /\ told'[q] = v
BY DEF Tell

(* The files are listed and read, and deletions are told. *)
LEMMA ReadFileInv ==
  ASSUME SourceInv, NEW k \in {"git", "obsidian"}, NEW p \in Paths, ReadFile(k, p)
  PROVE  SourceInv'
<1> DEFINE v == (IF k = "git" THEN copy ELSE world)[p]
<1>1. /\ source = k /\ phase = "scan" /\ todo' = todo \ {p} /\ p \in todo
      /\ {world, copy, known, told} \subseteq [Paths -> Version] /\ v \in Version
      /\ UNCHANGED <<source, deletes, world, changes, copy, phase, listed, watching,
                     noticed, armed, unseen>>
  BY DEF SourceInv, SourceTypeOK, ReadFile, At, sourceConfig, outside, watcher
<1>2. /\ {known', told'} \subseteq [Paths -> Version]
      /\ \A q \in Paths \ missed' : told'[q] = known'[q]
  <2>1. CASE Silent /\ UNCHANGED known
    BY <1>1, <2>1 DEF Silent, SourceInv, ToldAsKnown, Agree
  <2>2. CASE known' = [known EXCEPT ![p] = v] /\ Tell(p, v)
    <3>1. /\ told' \in [Paths -> Version]
          /\ \A q \in Paths \ missed' : q = p => told'[q] = v
          /\ \A q \in Paths \ missed' : q # p => q \notin missed /\ told'[q] = told[q]
      BY <1>1, <2>2, TellLemma
    <3>2. \A q \in Paths \ missed : told[q] = known[q]
      BY <1>1 DEF SourceInv, ToldAsKnown, Agree
    <3> QED
      BY <1>1, <2>2, <3>1, <3>2
  <2> QED
    BY <2>1, <2>2 DEF ReadFile
<1>3. SourceTypeOK'
  BY <1>1, <1>2 DEF SourceInv, SourceTypeOK
<1>4. Phases' /\ ToldAsKnown' /\ ListingTrue'
  BY <1>1, <1>2 DEF SourceInv, Phases, ToldAsKnown, Agree, ListingTrue
<1> QED
  BY <1>3, <1>4 DEF SourceInv

LEMMA GitDeletionInv ==
  ASSUME SourceInv, NEW p \in Paths, GitDeletion(p) PROVE SourceInv'
<1>1. /\ source = "git" /\ phase = "scan" /\ Tell(p, 0) /\ known' = [known EXCEPT ![p] = 0]
      /\ {world, copy, known, told} \subseteq [Paths -> Version]
      /\ UNCHANGED <<source, deletes, world, changes, copy, phase, todo, listed, watching,
                     noticed, armed, unseen>>
  BY DEF SourceInv, SourceTypeOK, GitDeletion, At, sourceConfig, outside, watcher
<1>2. /\ {known', told'} \subseteq [Paths -> Version]
      /\ \A q \in Paths \ missed' : told'[q] = known'[q]
  <2>1. /\ told' \in [Paths -> Version]
        /\ \A q \in Paths \ missed' : q = p => told'[q] = 0
        /\ \A q \in Paths \ missed' : q # p => q \notin missed /\ told'[q] = told[q]
    BY <1>1, VersionType, TellLemma
  <2>2. \A q \in Paths \ missed : told[q] = known[q]
    BY <1>1 DEF SourceInv, ToldAsKnown, Agree
  <2> QED
    BY <1>1, <2>1, <2>2, VersionType
<1>3. SourceTypeOK'
  BY <1>1, <1>2 DEF SourceInv, SourceTypeOK
<1>4. Phases' /\ ToldAsKnown' /\ ListingTrue'
  BY <1>1, <1>2 DEF SourceInv, Phases, ToldAsKnown, Agree, ListingTrue
<1> QED
  BY <1>3, <1>4 DEF SourceInv

LEMMA ListInv ==
  ASSUME SourceInv, NEW k \in {"git", "obsidian"}, List(k) PROVE SourceInv'
<1>1. /\ source = k /\ phase = "list" /\ phase' = "scan"
      /\ {copy, world} \subseteq [Paths -> Version]
      /\ UNCHANGED <<source, deletes, world, changes, copy, known, watching, noticed,
                     armed, told, missed>>
  BY DEF SourceInv, SourceTypeOK, List, At, sourceConfig, outside, watcher
<1>2. PICK hidden \in SUBSET Paths :
        /\ todo' = {p \in Paths \ hidden : (IF k = "git" THEN copy ELSE world)[p] # 0}
        /\ listed' = todo' /\ unseen' = hidden
  BY DEF List
<1>3. SourceTypeOK'
  BY <1>1, <1>2 DEF SourceInv, SourceTypeOK
<1>4. Phases' /\ ToldAsKnown' /\ ListingTrue'
  BY <1>1, <1>2 DEF SourceInv, Phases, ToldAsKnown, Agree, ListingTrue, Alive
<1> QED
  BY <1>3, <1>4 DEF SourceInv

(* The other steps of Git and Obsidian only move the task on. *)
LEMMA ScanStepsInv ==
  ASSUME SourceInv,
         \/ GitStart \/ GitPull \/ ObsidianStart \/ InstallWatcher \/ ObsidianTick
         \/ \E k \in {"git", "obsidian"} : ListFails(k) \/ ScanEnds(k)
         \/ \E k \in {"git", "obsidian", "clipboard"} : Ends(k)
  PROVE  SourceInv'
<1> USE DEF SourceInv, At, sourceConfig, outside, watcher
<1>1. CASE GitStart
  BY <1>1 DEF GitStart, SourceTypeOK, Phases, ToldAsKnown, Agree, ListingTrue
<1>2. CASE GitPull
  BY <1>2 DEF GitPull, SourceTypeOK, Phases, ToldAsKnown, Agree, ListingTrue
<1>3. CASE ObsidianStart
  BY <1>3 DEF ObsidianStart, SourceTypeOK, Phases, ToldAsKnown, Agree, ListingTrue
<1>4. CASE InstallWatcher
  BY <1>4 DEF InstallWatcher, SourceTypeOK, Phases, ToldAsKnown, Agree, ListingTrue
<1>5. CASE ObsidianTick
  BY <1>5 DEF ObsidianTick, SourceTypeOK, Phases, ToldAsKnown, Agree, ListingTrue
<1>6. ASSUME NEW k \in {"git", "obsidian"}, ListFails(k) PROVE SourceInv'
  BY <1>6 DEF ListFails, AfterScan, SourceTypeOK, Phases, ToldAsKnown, Agree, ListingTrue
<1>7. ASSUME NEW k \in {"git", "obsidian"}, ScanEnds(k) PROVE SourceInv'
  BY <1>7 DEF ScanEnds, AfterScan, SourceTypeOK, Phases, ToldAsKnown, Agree, ListingTrue
<1>8. ASSUME NEW k \in {"git", "obsidian", "clipboard"}, Ends(k) PROVE SourceInv'
  BY <1>8 DEF Ends, SourceTypeOK, Phases, ToldAsKnown, Agree, ListingTrue
<1> QED
  BY <1>1, <1>2, <1>3, <1>4, <1>5, <1>6, <1>7, <1>8

(* The comparison of snapshots. *)
LEMMA CompareInv == ASSUME SourceInv, Compare PROVE SourceInv'
<1>1. {world, copy, known, told} \subseteq [Paths -> Version] /\ 0 \in Version
  BY VersionType DEF SourceInv, SourceTypeOK
<1>2. CASE ProcessSnapshot
  <2>1. SourceTypeOK' /\ Phases'
    BY <1>1, <1>2 DEF ProcessSnapshot, sourceConfig, outside, watcher, SourceInv,
                      SourceTypeOK, Phases
  <2>2. ToldAsKnown'
    BY <1>2 DEF ProcessSnapshot, sourceConfig, outside, SourceInv, ToldAsKnown, Agree,
                Differs, Alive
  <2>3. ListingTrue'
    BY <1>2 DEF ProcessSnapshot, ListingTrue
  <2> QED
    BY <2>1, <2>2, <2>3 DEF SourceInv
<1>3. CASE NetworkSnapshot
  <2>1. copy' \in [Paths -> Version] /\ told' \in [Paths -> Version] /\ unseen' \subseteq Paths
    BY <1>1, <1>3 DEF NetworkSnapshot
  <2>2. SourceTypeOK' /\ Phases'
    BY <1>1, <1>3, <2>1 DEF NetworkSnapshot, sourceConfig, outside, watcher, SourceInv,
                            SourceTypeOK, Phases
  <2>3. ToldAsKnown'
    <3>1. CASE phase = "start"
      BY <1>3, <3>1 DEF NetworkSnapshot, sourceConfig, ToldAsKnown, Agree
    <3>2. CASE phase = "idle"
      BY <1>3, <3>2 DEF NetworkSnapshot, sourceConfig, SourceInv, ToldAsKnown, Agree, Differs
    <3> QED
      BY <1>3, <3>1, <3>2 DEF NetworkSnapshot
  <2>4. ListingTrue'
    BY <1>3 DEF NetworkSnapshot, ListingTrue
  <2> QED
    BY <2>2, <2>3, <2>4 DEF SourceInv
<1>4. CASE ReportEnds
  BY <1>1, <1>4 DEF ReportEnds, sourceConfig, outside, watcher, SourceInv, SourceTypeOK,
                    Phases, ToldAsKnown, Agree, ListingTrue
<1>5. ASSUME NEW p \in Paths, Report(p) PROVE SourceInv'
  <2>1. /\ told' \in [Paths -> Version]
        /\ \A q \in Paths \ missed' : q = p => told'[q] = copy[p]
        /\ \A q \in Paths \ missed' : q # p => q \notin missed /\ told'[q] = told[q]
    BY <1>1, <1>5, TellLemma DEF Report
  <2>2. SourceTypeOK' /\ Phases'
    BY <1>1, <1>5, <2>1 DEF Report, sourceConfig, outside, watcher, SourceInv,
                            SourceTypeOK, Phases
  <2>3. ToldAsKnown'
    BY <1>5, <2>1 DEF Report, sourceConfig, SourceInv, ToldAsKnown, Agree
  <2>4. ListingTrue'
    BY <1>5 DEF Report, ListingTrue
  <2> QED
    BY <2>2, <2>3, <2>4 DEF SourceInv
<1> QED
  BY <1>2, <1>3, <1>4, <1>5 DEF Compare

LEMMA ClipboardInv == ASSUME SourceInv, ClipboardTick PROVE SourceInv'
<1> DEFINE v == world[Clip]
<1>1. /\ Clip \in Paths /\ source = "clipboard" /\ phase' = "idle" /\ v \in Version
      /\ phase \in {"start", "idle"}
      /\ {world, copy, known, told} \subseteq [Paths -> Version]
      /\ UNCHANGED <<source, deletes, world, changes, copy, todo, listed, watching,
                     noticed, armed, unseen>>
  BY SourceAssumption
  DEF SourceInv, SourceTypeOK, ClipboardTick, sourceConfig, outside, watcher
<1>2. /\ {known', told'} \subseteq [Paths -> Version]
      /\ \A q \in Paths \ missed' : told'[q] = known'[q]
  <2>1. \A q \in Paths \ missed : told[q] = known[q]
    BY <1>1 DEF SourceInv, ToldAsKnown, Agree
  <2>2. CASE Silent /\ UNCHANGED known
    BY <1>1, <2>1, <2>2 DEF Silent
  <2>3. CASE known' = [known EXCEPT ![Clip] = v] /\ Tell(Clip, v)
    <3>1. /\ told' \in [Paths -> Version]
          /\ \A q \in Paths \ missed' : q = Clip => told'[q] = v
          /\ \A q \in Paths \ missed' : q # Clip => q \notin missed /\ told'[q] = told[q]
      BY <1>1, <2>3, TellLemma
    <3> QED
      BY <1>1, <2>1, <2>3, <3>1
  <2> QED
    BY <2>2, <2>3 DEF ClipboardTick
<1>3. SourceTypeOK'
  BY <1>1, <1>2 DEF SourceInv, SourceTypeOK
<1>4. Phases' /\ ToldAsKnown' /\ ListingTrue'
  BY <1>1, <1>2 DEF SourceInv, Phases, ToldAsKnown, Agree, ListingTrue
<1> QED
  BY <1>3, <1>4 DEF SourceInv

(* The file collector. *)
LEMMA WatchedInv == ASSUME SourceInv, Watched PROVE SourceInv'
<1>1. {world, copy, known, told} \subseteq [Paths -> Version]
  BY DEF SourceInv, SourceTypeOK
<1>2. CASE WatchFiles
  BY <1>1, <1>2 DEF WatchFiles, At, sourceConfig, outside, watcher, SourceInv,
                    SourceTypeOK, Phases, ToldAsKnown, ListingTrue
<1>3. CASE WatchReturns
  BY <1>1, <1>3 DEF WatchReturns, At, sourceConfig, outside, watcher, SourceInv,
                    SourceTypeOK, Phases, ToldAsKnown, ListingTrue
<1>4. ASSUME NEW p \in Paths, FileEvent(p) PROVE SourceInv'
  <2>1. told' \in [Paths -> Version]
    BY <1>1, <1>4, TellLemma DEF FileEvent
  <2>2. phase # "start"
    BY <1>4 DEF FileEvent, SourceInv, Phases
  <2> QED
    BY <1>1, <1>4, <2>1, <2>2 DEF FileEvent, sourceConfig, outside, watcher, SourceInv,
                            SourceTypeOK, Phases, ToldAsKnown, ListingTrue
<1> QED
  BY <1>2, <1>3, <1>4 DEF Watched

LEMMA ChangeInv == ASSUME SourceInv, NEW p \in Paths, Change(p) PROVE SourceInv'
BY DEF Change, sourceConfig, SourceInv, SourceTypeOK, Phases, ToldAsKnown, Agree, ListingTrue

LEMMA NextInv == SourceInv /\ [SourceNext]_sourceVars => SourceInv'
<1>1. CASE UNCHANGED sourceVars
  BY <1>1 DEF sourceVars, sourceConfig, outside, watcher, SourceInv, SourceTypeOK,
              Phases, ToldAsKnown, Agree, ListingTrue
<1> QED
  BY <1>1, ReadFileInv, GitDeletionInv, ListInv, ScanStepsInv, CompareInv, ClipboardInv,
     WatchedInv, ChangeInv
  DEF SourceNext, SourceStep, Git, Obsidian

-----------------------------------------------------------------------------
(* Types, and which source stands where with what in hand.                 *)
THEOREM SourceTypeCorrect == SourceSpec => []SourceTypeOK
<1>1. SourceInv => SourceTypeOK
  BY DEF SourceInv
<1> QED
  BY <1>1, InitInv, NextInv, PTL DEF SourceSpec

(* What a source remembers and what it has told never part, but for events *)
(* that were given up.                                                     *)
THEOREM MemoryIsTold == SourceSpec => []RememberedIsTold
<1>1. SourceInv => RememberedIsTold
  BY DEF SourceInv, ToldAsKnown, Agree, RememberedIsTold
<1> QED
  BY <1>1, InitInv, NextInv, PTL DEF SourceSpec

(* Nothing that is there is reported as gone, unless its directory or its  *)
(* table could not be read just now.                                       *)
THEOREM EndsAreTrue == SourceSpec => NoFalseEnd
<1> DEFINE Honest ==
      \A p \in Paths :
        Alive(told[p]) /\ ~Alive(told'[p]) /\ source # "file"
          => p \in unseen \/ ~Alive(copy[p])
<1>1. SourceInv /\ [SourceNext]_sourceVars => [Honest]_sourceVars
  <2> SUFFICES ASSUME SourceInv, SourceNext PROVE Honest
    OBVIOUS
  <2>1. {world, copy, known, told} \subseteq [Paths -> Version] /\ 0 \in Version
    BY VersionType DEF SourceInv, SourceTypeOK
  <2>2. CASE UNCHANGED told
    BY <2>2
  <2>3. ASSUME NEW p \in Paths, NEW v \in Version, Tell(p, v),
               v # 0 \/ p \in unseen \/ ~Alive(copy[p])
        PROVE  Honest
    BY <2>1, <2>3, TellLemma DEF Alive
  <2>4. ASSUME NEW k \in {"git", "obsidian"}, NEW p \in Paths, ReadFile(k, p) PROVE Honest
    <3> DEFINE v == (IF k = "git" THEN copy ELSE world)[p]
    <3>1. v \in Version
      BY <2>1
    <3>2. UNCHANGED told \/ (Tell(p, v) /\ v # 0)
      BY <2>4 DEF ReadFile, Silent
    <3> QED
      BY <2>2, <2>3, <3>1, <3>2
  <2>5. ASSUME NEW p \in Paths, GitDeletion(p) PROVE Honest
    <3>1. p \in unseen \/ ~Alive(copy[p])
      BY <2>5 DEF GitDeletion, At, Vanished, SourceInv, ListingTrue
    <3> QED
      BY <2>1, <2>3, <2>5, <3>1 DEF GitDeletion
  <2>6. ASSUME NEW p \in Paths, Report(p) PROVE Honest
    <3>1. copy[p] \in Version /\ Tell(p, copy[p])
      BY <2>1, <2>6 DEF Report
    <3> QED
      BY <2>3, <3>1 DEF Alive
  <2>7. CASE NetworkSnapshot
    <3>1. UNCHANGED told \/ \A p \in Paths : ~Alive(told[p])
      BY <2>7 DEF NetworkSnapshot, SourceInv, Phases, Alive, None
    <3> QED
      BY <2>2, <3>1
  <2>8. CASE ClipboardTick
    <3>1. Clip \in Paths /\ world[Clip] \in Version
      BY <2>1, SourceAssumption
    <3>2. UNCHANGED told \/ (Tell(Clip, world[Clip]) /\ world[Clip] # 0)
      BY <2>8 DEF ClipboardTick, Silent
    <3> QED
      BY <2>2, <2>3, <3>1, <3>2
  <2>9. CASE Watched
    BY <2>9 DEF Watched, WatchFiles, WatchReturns, FileEvent, At
  <2>10. CASE \/ GitStart \/ GitPull \/ ObsidianStart \/ InstallWatcher \/ ObsidianTick
              \/ \E k \in {"git", "obsidian"} : List(k) \/ ListFails(k) \/ ScanEnds(k)
              \/ \E k \in {"git", "obsidian", "clipboard"} : Ends(k)
              \/ ProcessSnapshot \/ ReportEnds \/ \E p \in Paths : Change(p)
    BY <2>2, <2>10
    DEF GitStart, GitPull, ObsidianStart, InstallWatcher, ObsidianTick, List, ListFails,
        ScanEnds, Ends, ProcessSnapshot, ReportEnds, Change
  <2> QED
    BY <2>4, <2>5, <2>6, <2>7, <2>8, <2>9, <2>10
    DEF SourceNext, SourceStep, Git, Obsidian, Compare
<1> QED
  BY <1>1, InitInv, NextInv, PTL DEF SourceSpec, NoFalseEnd
=============================================================================
