---------------------------- MODULE LocalSources ----------------------------
(***************************************************************************)
(* The sources that watch this machine by comparing what they find with    *)
(* what they remember: the Git and Obsidian connectors and the collectors  *)
(* for files, processes, network connections and the clipboard.  They keep *)
(* no state in common, so one of them runs, chosen at the start.           *)
(*                                                                         *)
(* A path stands for what a source tells apart: a file, a process id, the  *)
(* two ends of a connection, the clipboard.  Its version is its content    *)
(* (the state, the resources), 0 when there is none.  try_send gives the   *)
(* event up when the channel is full or closed; either may be the case.    *)
(***************************************************************************)
EXTENDS Integers, FiniteSets

CONSTANTS
  Sources,      \* the sources to choose from
  Paths,
  Clip,         \* the path that stands for the clipboard
  MaxVersion,   \* versions of a path
  Unreadable,   \* versions that are too big for Git, or no UTF-8
  Threshold,    \* a process is reported when its version moves further
  MaxChanges    \* bound: changes of the world

ASSUME SourceAssumption ==
  /\ Sources \subseteq {"git", "obsidian", "process", "network", "clipboard", "file"}
  /\ Clip \in Paths
  /\ MaxVersion \in Nat \ {0}

VARIABLES
  source,       \* the source
  deletes,      \* detect_deletions of Git
  world,        \* the versions now; for Git: of the branch upstream
  changes,      \* how many changes there were
  copy,         \* the working copy of Git; the snapshot under comparison
  known,        \* known_hashes, prev_snapshot, prev_conns, prev_hash
  phase,        \* where the task is
  todo,         \* what is still to be read or reported in this round
  listed,       \* current_files of Git
  watching,     \* the file system watcher lives
  noticed,      \* its events that were not taken
  armed,        \* debounce_deadline is set
  told,         \* history: what the events sent so far add up to
  missed,       \* history: paths whose last event was given up
  unseen,       \* history: paths that could not be listed
  early         \* history: paths of the vault changed while it was not watched

sourceConfig == <<source, deletes>>
outside      == <<world, changes>>
watcher      == <<watching, noticed, armed>>
sourceVars   == <<sourceConfig, outside, copy, known, phase, todo, listed,
                  watcher, told, missed, unseen, early>>

Version == 0 .. MaxVersion
None    == [p \in Paths |-> 0]

SourceInit ==
  /\ source \in Sources
  /\ deletes \in BOOLEAN /\ (deletes => source = "git")
  /\ world \in [Paths -> {0, 1}] /\ changes = 0
  /\ copy = world /\ known = None
  /\ phase = "start" /\ todo = {} /\ listed = {}
  /\ watching = FALSE /\ noticed = {} /\ armed = FALSE
  /\ told = None /\ missed = {} /\ unseen = {} /\ early = {}

-----------------------------------------------------------------------------
(* The world changes; a watcher that lives notices it. *)
Change(p) ==
  /\ changes < MaxChanges /\ changes' = changes + 1
  /\ source = "clipboard" => p = Clip
  /\ \E v \in Version \ {world[p]} : world' = [world EXCEPT ![p] = v]
  /\ noticed' = IF watching THEN noticed \cup {p} ELSE noticed
  /\ early' = IF source = "obsidian" /\ ~watching THEN early \cup {p} ELSE early
  /\ UNCHANGED <<sourceConfig, copy, known, phase, todo, listed, watching, armed,
                 told, missed, unseen>>

(* try_send of the event that p has come to v. *)
Tell(p, v) ==
  \/ told' = [told EXCEPT ![p] = v] /\ missed' = missed \ {p}
  \/ missed' = missed \cup {p} /\ UNCHANGED told

Silent == UNCHANGED <<told, missed>>

At(k, ph) == source = k /\ phase = ph

(* Mutant: the watcher outlives the task. *)
EndsLeaking(k) ==
  /\ source = k /\ phase = "idle" /\ phase' = "off"
  /\ UNCHANGED <<sourceConfig, outside, copy, known, todo, listed, watcher,
                 told, missed, unseen, early>>

(* The task of the source ends: no clone, no vault, no tool, no watcher.   *)
Ends(k) ==
  /\ \/ phase = "start" /\ k \in {"git", "obsidian", "clipboard"}
     \/ phase \in {"install", "idle"} /\ k = "obsidian"
  /\ source = k
  /\ phase' = "off" /\ watching' = FALSE
  /\ UNCHANGED <<sourceConfig, outside, copy, known, todo, listed, noticed, armed,
                 told, missed, unseen, early>>

-----------------------------------------------------------------------------
(* The files of Git and Obsidian are listed, then read one by one. *)

(* Without a clone there is one now; an old one is scanned as it is.       *)
GitStart ==
  /\ At("git", "start")
  /\ copy' \in {world, copy}
  /\ phase' = "list"
  /\ UNCHANGED <<sourceConfig, outside, known, todo, listed, watcher, told, missed,
                 unseen, early>>

GitPull ==
  /\ At("git", "idle")
  /\ copy' = world /\ phase' = "list"
  /\ UNCHANGED <<sourceConfig, outside, known, todo, listed, watcher, told, missed,
                 unseen, early>>

ObsidianStart ==
  /\ At("obsidian", "start")
  /\ phase' = "list" /\ early' = {}
  /\ UNCHANGED <<sourceConfig, outside, copy, known, todo, listed, watcher, told,
                 missed, unseen>>

(* What the task does when a scan is through. *)
AfterScan == IF source = "obsidian" /\ ~watching THEN "install" ELSE "idle"

(* Mutant: what will not be read counts as absent. *)
ListReadable(k) ==
  /\ At(k, "list")
  /\ LET files == IF k = "git" THEN copy ELSE world
     IN  /\ todo'   = {p \in Paths : files[p] # 0}
         /\ listed' = {p \in todo' : files[p] \notin Unreadable}
  /\ phase' = "scan" /\ unseen' = {}
  /\ UNCHANGED <<sourceConfig, outside, copy, known, watcher, told, missed, early>>

(* A directory that cannot be read is passed over with all it holds; an    *)
(* entry that cannot be read ends the scan.                                *)
List(k) ==
  /\ At(k, "list")
  /\ \E hidden \in SUBSET Paths :
       /\ todo' = {p \in Paths \ hidden : (IF k = "git" THEN copy ELSE world)[p] # 0}
       /\ listed' = todo' /\ unseen' = hidden
  /\ phase' = "scan"
  /\ UNCHANGED <<sourceConfig, outside, copy, known, watcher, told, missed, early>>

ListFails(k) ==
  /\ At(k, "list")
  /\ phase' = AfterScan /\ unseen' = Paths
  /\ UNCHANGED <<sourceConfig, outside, copy, known, todo, listed, watcher, told,
                 missed, early>>

(* A file is remembered before its event is tried.  One that is too big or *)
(* cannot be read is left as it is known, but counts as present.           *)
ReadFile(k, p) ==
  /\ At(k, "scan") /\ p \in todo
  /\ todo' = todo \ {p}
  /\ early' = early \ {p}
  /\ LET v == (IF k = "git" THEN copy ELSE world)[p]
     IN  IF v \in Unreadable \cup {0, known[p]}
           THEN Silent /\ UNCHANGED known
           ELSE known' = [known EXCEPT ![p] = v] /\ Tell(p, v)
  /\ UNCHANGED <<sourceConfig, outside, copy, phase, listed, watcher, unseen>>

Vanished == IF deletes THEN {p \in Paths \ listed : known[p] # 0} ELSE {}

GitDeletion(p) ==
  /\ At("git", "scan") /\ todo = {} /\ p \in Vanished
  /\ known' = [known EXCEPT ![p] = 0]
  /\ Tell(p, 0)
  /\ UNCHANGED <<sourceConfig, outside, copy, phase, todo, listed, watcher, unseen,
                 early>>

(* Mutant: what was noticed during the scan is discarded. *)
ScanEndsDrained(k) ==
  /\ At(k, "scan") /\ todo = {} /\ Vanished = {}
  /\ phase' = AfterScan /\ noticed' = {}
  /\ UNCHANGED <<sourceConfig, outside, copy, known, todo, listed, watching, armed,
                 told, missed, unseen, early>>

ScanEnds(k) ==
  /\ At(k, "scan") /\ todo = {} /\ Vanished = {}
  /\ phase' = AfterScan
  /\ UNCHANGED <<sourceConfig, outside, copy, known, todo, listed, watcher, told,
                 missed, unseen, early>>

(* The vault is watched once the first scan is through. *)
InstallWatcher ==
  /\ At("obsidian", "install")
  /\ watching' = TRUE /\ phase' = "idle"
  /\ UNCHANGED <<sourceConfig, outside, copy, known, todo, listed, noticed, armed,
                 told, missed, unseen, early>>

(* The tick: events push the deadline back; without one, a deadline that   *)
(* has passed starts a scan.  (debounce_ms is taken to be positive.)       *)
ObsidianTick ==
  /\ At("obsidian", "idle")
  /\ IF noticed # {} THEN noticed' = {} /\ armed' = TRUE /\ UNCHANGED phase
     ELSE armed /\ armed' = FALSE /\ phase' = "list" /\ UNCHANGED noticed
  /\ UNCHANGED <<sourceConfig, outside, copy, known, todo, listed, watching, told,
                 missed, unseen, early>>

Git ==
  \/ GitStart \/ GitPull \/ List("git") \/ ListFails("git") \/ ScanEnds("git")
  \/ Ends("git")
  \/ \E p \in Paths : ReadFile("git", p) \/ GitDeletion(p)

Obsidian ==
  \/ ObsidianStart \/ List("obsidian") \/ ListFails("obsidian") \/ ScanEnds("obsidian")
  \/ InstallWatcher \/ ObsidianTick \/ Ends("obsidian")
  \/ \E p \in Paths : ReadFile("obsidian", p)

-----------------------------------------------------------------------------
(* Processes and connections are compared with the snapshot before. *)

(* What is reported of a path that was at a and is at b. *)
Differs(k, a, b) ==
  IF k = "process" /\ a # 0 /\ b # 0 THEN a - b > Threshold \/ b - a > Threshold
                                     ELSE a # b

ProcessSnapshot ==
  /\ source = "process" /\ phase \in {"start", "idle"}
  /\ copy' = world
  /\ todo' = {p \in Paths : Differs("process", known[p], world[p])}
  /\ phase' = "report"
  /\ UNCHANGED <<sourceConfig, outside, known, listed, watcher, told, missed, unseen,
                 early>>

(* A table of /proc/net that cannot be read is passed over.  The first     *)
(* snapshot is the baseline: what is in it is not reported.                *)
NetworkSnapshot ==
  /\ source = "network" /\ phase \in {"start", "idle"}
  /\ \E hidden \in SUBSET Paths :
       /\ copy' = [p \in Paths |-> IF p \in hidden THEN 0 ELSE world[p]]
       /\ unseen' = hidden
  /\ todo' = IF phase = "start" THEN {}
             ELSE {p \in Paths : Differs("network", known[p], copy'[p])}
  /\ told' = IF phase = "start" THEN copy' ELSE told
  /\ phase' = "report"
  /\ UNCHANGED <<sourceConfig, outside, known, listed, watcher, missed, early>>

Report(p) ==
  /\ phase = "report" /\ p \in todo
  /\ Tell(p, copy[p])
  /\ todo' = todo \ {p}
  /\ UNCHANGED <<sourceConfig, outside, copy, known, phase, listed, watcher, unseen,
                 early>>

(* Mutant: the next comparison starts from the world as it is now. *)
ReportEndsAnew ==
  /\ phase = "report" /\ todo = {}
  /\ known' = world /\ phase' = "idle"
  /\ UNCHANGED <<sourceConfig, outside, copy, todo, listed, watcher, told, missed,
                 unseen, early>>

(* The snapshot becomes the one to compare with, whatever was reported. *)
ReportEnds ==
  /\ phase = "report" /\ todo = {}
  /\ known' = copy /\ phase' = "idle"
  /\ UNCHANGED <<sourceConfig, outside, copy, todo, listed, watcher, told, missed,
                 unseen, early>>

Compare == ProcessSnapshot \/ NetworkSnapshot \/ ReportEnds \/ \E p \in Paths : Report(p)

-----------------------------------------------------------------------------
(* The clipboard is read at every tick; its hash is kept before the event  *)
(* is tried.                                                               *)
ClipboardTick ==
  /\ source = "clipboard" /\ phase \in {"start", "idle"}
  /\ phase' = "idle"
  /\ LET v == world[Clip]
     IN  IF v \in Unreadable \cup {0, known[Clip]}
           THEN Silent /\ UNCHANGED known
           ELSE known' = [known EXCEPT ![Clip] = v] /\ Tell(Clip, v)
  /\ UNCHANGED <<sourceConfig, outside, copy, todo, listed, watcher, unseen, early>>

(***************************************************************************)
(* The file collector: its debouncer belongs to start_watcher, and is      *)
(* dropped when that returns, which it does at once: it starts the thread  *)
(* that takes the events but does not wait for it.  What is there at the   *)
(* start needs no event.                                                   *)
(***************************************************************************)
WatchFiles ==
  /\ At("file", "start")
  /\ watching' = TRUE /\ phase' = "watch"
  /\ told' = world
  /\ UNCHANGED <<sourceConfig, outside, copy, known, todo, listed, noticed, armed,
                 missed, unseen, early>>

WatchReturns ==
  /\ At("file", "watch")
  /\ watching' = FALSE /\ noticed' = {} /\ phase' = "idle"
  /\ UNCHANGED <<sourceConfig, outside, copy, known, todo, listed, armed, told,
                 missed, unseen, early>>

(* The file is read when its event is handled. *)
FileEvent(p) ==
  /\ source = "file" /\ p \in noticed
  /\ noticed' = noticed \ {p}
  /\ Tell(p, world[p])
  /\ UNCHANGED <<sourceConfig, outside, copy, known, phase, todo, listed, watching,
                 armed, unseen, early>>

Watched == WatchFiles \/ WatchReturns \/ \E p \in Paths : FileEvent(p)

-----------------------------------------------------------------------------
SourceStep == Git \/ Obsidian \/ Compare \/ ClipboardTick \/ Ends("clipboard") \/ Watched

SourceNext == SourceStep \/ \E p \in Paths : Change(p)

(***************************************************************************)
(* The task goes on, and of the listings, which may fail or pass over a    *)
(* directory or a table, one is complete again and again.                  *)
(***************************************************************************)
Complete == unseen' = {}

SourceGoesOn    == SourceStep /\ phase' # "off"
ListsAll        == (\E k \in {"git", "obsidian"} : List(k)) /\ Complete
NetworkReadsAll == NetworkSnapshot /\ Complete

SourceSpec ==
  /\ SourceInit /\ [][SourceNext]_sourceVars
  /\ WF_sourceVars(SourceGoesOn)
  /\ SF_sourceVars(ListsAll) /\ SF_sourceVars(NetworkReadsAll)

-----------------------------------------------------------------------------
SourceTypeOK ==
  /\ source \in Sources /\ deletes \in BOOLEAN
  /\ {world, copy, known, told} \subseteq [Paths -> Version]
  /\ phase \in {"start", "list", "scan", "install", "report", "watch", "idle", "off"}
  /\ todo \subseteq Paths /\ (todo # {} => phase \in {"scan", "report"})
  /\ listed \subseteq Paths /\ unseen \subseteq Paths
  /\ noticed \subseteq Paths /\ (armed => source = "obsidian")
  /\ watching => <<source, phase>> \in
       {"obsidian"} \X {"idle", "list", "scan"} \cup {<<"file", "watch">>}

(***************************************************************************)
(* What a source remembers and what it has told never part, but for        *)
(* events that were given up: no comparison, deletion or restart of a scan *)
(* leaves a path that Soul knows otherwise.  (A process may creep away     *)
(* from the version it was reported with.)                                 *)
(***************************************************************************)
Alive(v) == v # 0

RememberedIsTold ==
  phase = "idle" /\ source # "file" =>
    \A p \in Paths \ missed :
      IF source = "process" THEN Alive(told[p]) <=> Alive(known[p])
                            ELSE told[p] = known[p]

(***************************************************************************)
(* Why it is so at all times: each task compares in phases of its own, a   *)
(* path that is through with its report agrees with the new snapshot, and  *)
(* what a listing of Git leaves out was hidden or is not in the clone.     *)
(***************************************************************************)
Phases ==
  /\ phase = "report" => source \in {"process", "network"}
  /\ phase \in {"list", "scan", "install"} => source \in {"git", "obsidian"}
  /\ phase = "start" => told = None /\ noticed = {}

Agree(a, b) == IF source = "process" THEN Alive(a) <=> Alive(b) ELSE a = b

ToldAsKnown ==
  source # "file" =>
    \A p \in Paths \ missed :
      IF phase = "report" THEN p \notin todo => Agree(told[p], copy[p])
                          ELSE Agree(told[p], known[p])

ListingTrue ==
  source = "git" /\ phase = "scan" =>
    \A p \in Paths \ listed : p \in unseen \/ ~Alive(copy[p])

SourceInv == SourceTypeOK /\ Phases /\ ToldAsKnown /\ ListingTrue

(***************************************************************************)
(* No file, process or connection that is there is reported as gone,       *)
(* unless its directory or its table could not be read just now.           *)
(***************************************************************************)
NoFalseEnd ==
  [][\A p \in Paths :
       Alive(told[p]) /\ ~Alive(told'[p]) /\ source # "file"
         => p \in unseen \/ ~Alive(copy[p])]_sourceVars

(***************************************************************************)
(* Whatever changes, and whenever, again and again a source has told how   *)
(* things are.  What stays out: events given up for want of room, changes  *)
(* while the vault was not watched yet or when a scan failed (Obsidian has *)
(* no other until something changes), removals that are not reported       *)
(* (Obsidian, an empty clipboard, Git on request), and what is unreadable. *)
(***************************************************************************)
Reported(p) ==
  \/ told[p] = world[p]
  \/ p \in missed
  \/ source = "obsidian" /\ p \in unseen \cup early
  \/ source = "process" /\ Alive(told[p]) /\ Alive(world[p])
  \/ source \in {"git", "obsidian", "clipboard"} /\ world[p] \in Unreadable
  \/ ~deletes /\ source \in {"git", "obsidian", "clipboard"} /\ world[p] = 0
  \/ source = "clipboard" /\ p # Clip

CatchesUp == []<>(phase = "off" \/ source = "file" \/ \A p \in Paths : Reported(p))

-----------------------------------------------------------------------------
(***************************************************************************)
(* README: the file collector "Monitors directories for new/changed        *)
(* files".  Once start_watcher has returned and all is told, whatever      *)
(* changes is told in the end, or given up.                                *)
(***************************************************************************)
Monitoring(p) == source = "file" /\ phase = "idle" /\ told[p] = world[p]

FilesMonitored ==
  \A p \in Paths :
    [](Monitoring(p) => (told[p] # world[p] ~> told[p] = world[p] \/ p \in missed))
=============================================================================
