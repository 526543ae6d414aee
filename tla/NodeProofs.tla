----------------------------- MODULE NodeProofs -----------------------------
(***************************************************************************)
(* The process and its commands keep their states, for any number of       *)
(* commands, any files, environments and numbers of workers; and so does   *)
(* the process with the pipeline in it.                                    *)
(***************************************************************************)
EXTENDS MCDaemon, PipelineProofs

LEMMA DaemonStart == DaemonInit => DaemonInv
<1> SUFFICES ASSUME DaemonInit PROVE DaemonInv
  OBVIOUS
<1>1. /\ job = [j \in Jobs |-> [kind |-> "none", at |-> "none"]]
      /\ exit = [j \in Jobs |-> -1]
  BY DEF DaemonInit, NotRun
<1>2. \A j \in Jobs : lock # j /\ job[j].at = "none" /\ exit[j] = -1
  BY <1>1, DaemonAssumption DEF DaemonInit
<1>3. DaemonTypeOK
  <2>1. started = {} /\ Tasks # {} /\ main = "load"
    BY DEF DaemonInit, Tasks
  <2>2. {noticed, unseen, fresh} \subseteq BOOLEAN
    BY DEF DaemonInit
  <2>3. QED
    BY <1>2, <2>1, <2>2, DaemonAssumption DEF DaemonInit, DaemonTypeOK
<1>4. /\ job \in [Jobs -> [kind : {"none"} \cup {Command(options) : options \in Invocations},
                         at : {"none", "load", "usage", "tell", "open", "work", "ask",
                               "show", "done"}]]
      /\ exit \in [Jobs -> Int]
  BY <1>1
<1>5. QED
  BY <1>3, <1>4 DEF DaemonInit, DaemonInv

(* The daemon's own threads. *)
LEMMA MainKeeps ==
  ASSUME DaemonInv, MainStep \/ Signal \/ CacheDropped \/ RuntimeDropped
  PROVE  DaemonInv'
<1> USE DaemonAssumption DEF DaemonInv, DaemonTypeOK, jobVars, reload
<1>1. Tasks # {}
  BY DEF Tasks
<1>2. CASE LoadConfig
  BY <1>1, <1>2 DEF LoadConfig
<1>3. CASE WatchConfig
  BY <1>1, <1>3 DEF WatchConfig
<1>4. CASE OpenCache
  BY <1>1, <1>4 DEF OpenCache
<1>5. CASE StartTasks
  BY <1>1, <1>5 DEF StartTasks
<1>6. CASE Signal
  BY <1>1, <1>6 DEF Signal
<1>7. CASE CacheDropped
  BY <1>1, <1>7 DEF CacheDropped
<1>8. CASE RuntimeDropped
  BY <1>1, <1>8 DEF RuntimeDropped
<1>9. QED
  BY <1>2, <1>3, <1>4, <1>5, <1>6, <1>7, <1>8 DEF MainStep

LEMMA ReloadKeeps ==
  ASSUME DaemonInv, WatchStarts \/ Reload \/ SetLevel \/ Edit
  PROVE  DaemonInv'
<1> USE DEF DaemonInv, DaemonTypeOK, jobVars
<1>1. CASE WatchStarts
  BY <1>1 DEF WatchStarts
<1>2. CASE Reload
  BY <1>2 DEF Reload
<1>3. CASE SetLevel
  BY <1>3 DEF SetLevel
<1>4. CASE Edit
  BY <1>4 DEF Edit
<1>5. QED
  BY <1>1, <1>2, <1>3, <1>4

(* Of the commands one may have the database, and only one at work has it. *)
Places == {"none", "load", "usage", "tell", "open", "work", "ask", "show", "done"}
Kinds  == {"none"} \cup {Command(options) : options \in Invocations}

LEMMA JobEnds ==
  ASSUME DaemonInv, NEW j \in Jobs, NEW codes \in SUBSET {0, 1, 101, 130}, Ends(j, codes)
  PROVE  /\ job' \in [Jobs -> [kind : Kinds, at : Places]]
         /\ exit' \in [Jobs -> Int]
         /\ job'[j].at = "done" /\ exit'[j] \in {-1, 0, 1, 101, 130}
         /\ \A i \in Jobs : i # j => job'[i] = job[i] /\ exit'[i] = exit[i]
BY DEF DaemonInv, Ends, Places, Kinds

LEMMA JobMoves ==
  ASSUME DaemonInv, NEW j \in Jobs, NEW place \in Places, GoesTo(j, place)
  PROVE  /\ job' \in [Jobs -> [kind : Kinds, at : Places]]
         /\ exit' = exit /\ job'[j].at = place
         /\ \A i \in Jobs : i # j => job'[i] = job[i]
<1>1. job \in [Jobs -> [kind : Kinds, at : Places]]
  BY DEF DaemonInv, Kinds, Places
<1>2. PICK k \in Kinds, a \in Places : job[j] = [kind |-> k, at |-> a]
  BY <1>1
<1>3. job' = [job EXCEPT ![j] = [kind |-> k, at |-> place]]
  <2>1. job' = [job EXCEPT ![j] = [job[j] EXCEPT !.at = place]]
    BY DEF GoesTo
  <2>2. [[kind |-> k, at |-> a] EXCEPT !.at = place] = [kind |-> k, at |-> place]
    OBVIOUS
  <2>3. QED
    BY <1>2, <2>1, <2>2
<1>4. QED
  BY <1>1, <1>3 DEF GoesTo

(* Nothing but the database and the command moves in such a step. *)
LEMMA JobKeeps ==
  ASSUME DaemonInv, NEW j \in Jobs, Job(j)
  PROVE  DaemonInv'
<1> DEFINE Others == \A i \in Jobs : i # j => job'[i] = job[i] /\ exit'[i] = exit[i]
           Typed  == /\ job' \in [Jobs -> [kind : Kinds, at : Places]]
                     /\ exit' \in [Jobs -> Int] /\ exit'[j] \in {-1, 0, 1, 101, 130}
           Rest   == UNCHANGED <<main, watch, filter, started>> /\ {noticed', unseen', fresh'} \subseteq BOOLEAN
<1>1. /\ exit \in [Jobs -> Int] /\ exit[j] \in {-1, 0, 1, 101, 130}
      /\ job \in [Jobs -> [kind : Kinds, at : Places]]
      /\ {noticed, unseen, fresh} \subseteq BOOLEAN
  BY DEF DaemonInv, DaemonTypeOK, Kinds, Places
<1>2. ASSUME Typed, Others, Rest, UNCHANGED lock,
             job[j].at # "work", job'[j].at # "work"
      PROVE  DaemonInv'
  BY <1>2, DaemonAssumption DEF DaemonInv, DaemonTypeOK, Kinds, Places
<1> HIDE DEF Others, Typed, Rest
<1>3. BesideJobs => Rest
  BY <1>1 DEF BesideJobs, reload, Rest
<1>4. ASSUME NEW codes \in SUBSET {0, 1, 101, 130}, Ends(j, codes)
      PROVE  Typed /\ Others /\ job'[j].at = "done"
  BY <1>4, JobEnds DEF Typed, Others
<1>5. ASSUME NEW place \in Places, GoesTo(j, place)
      PROVE  Typed /\ Others /\ job'[j].at = place
  BY <1>1, <1>5, JobMoves DEF Typed, Others
<1>6. CASE JobStarts(j)
  <2>1. PICK options \in Invocations, place \in {"usage", "tell", "load"} :
          job' = [job EXCEPT ![j] = [kind |-> Command(options), at |-> place]]
    BY <1>6 DEF JobStarts
  <2>2. Command(options) \in Kinds /\ place \in Places
    BY DEF Kinds, Places
  <2>3. Typed /\ Others /\ job'[j].at = place
    BY <1>1, <1>6, <2>1, <2>2 DEF JobStarts, Typed, Others
  <2>4. job[j].at # "work" /\ UNCHANGED lock /\ Rest
    BY <1>3, <1>6 DEF JobStarts, NotRun
  <2>5. QED
    BY <1>2, <2>3, <2>4
<1>7. CASE JobTells(j)
  <2>1. PICK codes \in SUBSET {0, 1, 101, 130} : Ends(j, codes)
    BY <1>7 DEF JobTells
  <2>2. job[j].at # "work" /\ UNCHANGED lock /\ Rest
    BY <1>3, <1>7 DEF JobTells
  <2>3. QED
    BY <1>2, <1>4, <2>1, <2>2
<1>8. CASE JobInits(j)
  <2>1. PICK codes \in SUBSET {0, 1, 101, 130} : Ends(j, codes)
    BY <1>8 DEF JobInits
  <2>2. /\ noticed' \in {noticed, noticed \/ watch = "blocked"}
        /\ fresh' \in {fresh, fresh \/ watch = "blocked"}
    BY <1>8 DEF JobInits
  <2>3. noticed' \in BOOLEAN /\ fresh' \in BOOLEAN
    BY <1>1, <2>2, Zenon
  <2>4. job[j].at # "work" /\ UNCHANGED lock /\ UNCHANGED <<main, watch, filter, started, unseen>>
    BY <1>8 DEF JobInits
  <2>5. Rest
    BY <1>1, <2>3, <2>4 DEF Rest
  <2>6. QED
    BY <1>2, <1>4, <2>1, <2>4, <2>5
<1>9. CASE JobGoesOn(j)
  <2>1. Typed /\ Others /\ job'[j].at # "work"
    <3>1. CASE Ends(j, {0, 1})
      BY <1>4, <3>1
    <3>2. CASE GoesTo(j, "ask")
      BY <1>5, <3>2 DEF Places
    <3>3. QED
      BY <1>9, <3>1, <3>2 DEF JobGoesOn
  <2>2. job[j].at # "work" /\ UNCHANGED lock /\ Rest
    BY <1>3, <1>9 DEF JobGoesOn
  <2>3. QED
    BY <1>2, <2>1, <2>2
<1>10. CASE JobLoads(j)
  <2>1. \/ GoesTo(j, "open")
        \/ \E codes \in SUBSET {0, 1, 101, 130} : Ends(j, codes)
    BY <1>10 DEF JobLoads, ValidateEnds, DoctorEnds, TestConnectorEnds
  <2>2. Typed /\ Others /\ job'[j].at # "work"
    BY <1>4, <1>5, <2>1 DEF Places
  <2>3. job[j].at # "work" /\ UNCHANGED lock /\ Rest
    BY <1>3, <1>10 DEF JobLoads
  <2>4. QED
    BY <1>2, <2>2, <2>3
<1>11. CASE JobOpens(j)
  <2>1. job[j].at = "open" /\ Rest
    BY <1>3, <1>11 DEF JobOpens
  <2>2. CASE lock = "free"
    <3>1. lock' = j /\ GoesTo(j, "work")
      BY <1>11, <2>2 DEF JobOpens
    <3>2. Typed /\ Others /\ job'[j].at = "work"
      BY <1>5, <3>1 DEF Places
    <3>3. \A i \in Jobs : job[i].at # "work"
      BY <2>2, DaemonAssumption DEF DaemonInv, DaemonTypeOK
    <3>4. QED
      BY <2>1, <2>2, <3>1, <3>2, <3>3, DaemonAssumption
      DEF DaemonInv, DaemonTypeOK, Typed, Others, Rest, Kinds, Places
  <2>3. CASE lock # "free"
    <3>1. UNCHANGED lock /\ Ends(j, {1})
      BY <1>11, <2>3 DEF JobOpens
    <3>2. QED
      BY <1>2, <1>4, <2>1, <3>1
  <2>4. QED
    BY <2>2, <2>3
<1>12. CASE JobCloses(j)
  <2>1. job[j].at = "work" /\ Rest /\ lock' = "free"
    BY <1>3, <1>12 DEF JobCloses
  <2>2. PICK codes \in SUBSET {0, 1, 101, 130} : Ends(j, codes)
    BY <1>12 DEF JobCloses
  <2>3. Typed /\ Others /\ job'[j].at = "done"
    BY <1>4, <2>2
  <2>4. lock = j
    BY <2>1 DEF DaemonInv, DaemonTypeOK
  <2>5. QED
    BY <2>1, <2>3, <2>4, DaemonAssumption
    DEF DaemonInv, DaemonTypeOK, Typed, Others, Rest, Kinds, Places
<1>13. CASE JobAsks(j)
  <2>1. Typed /\ Others /\ job'[j].at # "work"
    <3>1. CASE \E codes \in SUBSET {0, 1, 101, 130} : Ends(j, codes)
      BY <1>4, <3>1
    <3>2. CASE GoesTo(j, "show")
      BY <1>5, <3>2 DEF Places
    <3>3. QED
      BY <1>13, <3>1, <3>2 DEF JobAsks
  <2>2. job[j].at # "work" /\ UNCHANGED lock /\ Rest
    BY <1>3, <1>13 DEF JobAsks
  <2>3. QED
    BY <1>2, <2>1, <2>2
<1>14. CASE JobShows(j)
  <2>1. PICK codes \in SUBSET {0, 1, 101, 130} : Ends(j, codes)
    BY <1>14 DEF JobShows
  <2>2. job[j].at # "work" /\ UNCHANGED lock /\ Rest
    BY <1>3, <1>14 DEF JobShows
  <2>3. QED
    BY <1>2, <1>4, <2>1, <2>2
<1>15. QED
  BY <1>6, <1>7, <1>8, <1>9, <1>10, <1>11, <1>12, <1>13, <1>14 DEF Job

LEMMA DaemonKept == DaemonInv /\ [DaemonNext]_daemonVars => DaemonInv'
<1> SUFFICES ASSUME DaemonInv, [DaemonNext]_daemonVars PROVE DaemonInv'
  OBVIOUS
<1>1. CASE UNCHANGED daemonVars
  BY <1>1 DEF daemonVars, reload, jobVars, DaemonInv, DaemonTypeOK
<1>2. QED
  BY <1>1, MainKeeps, ReloadKeeps, JobKeeps DEF DaemonNext

-----------------------------------------------------------------------------
(***************************************************************************)
(* The database is the daemon's from its opening to its drop and otherwise *)
(* at most one command's, which is at work; all tasks run while the daemon *)
(* serves and none before or after; the level in force is one that can be  *)
(* set.                                                                    *)
(***************************************************************************)
THEOREM DaemonTypeCorrect == DaemonSpec => []DaemonTypeOK
<1>1. DaemonInv => DaemonTypeOK
  BY DEF DaemonInv
<1>2. QED
  BY <1>1, DaemonStart, DaemonKept, PTL DEF DaemonSpec

(***************************************************************************)
(* The same of the daemon and the pipeline in one process.                 *)
(***************************************************************************)
THEOREM NodeTypeCorrect == MCSpec => []NodeTypeOK
<1> DEFINE Inv == part \in {"pipeline", "daemon"} /\ PipelineInv /\ DaemonInv
<1>1. MCInit => Inv
  BY InitInv, DaemonStart DEF MCInit
<1>2. Inv /\ [MCNext]_allVars => Inv'
  <2> SUFFICES ASSUME Inv, [MCNext]_allVars PROVE Inv'
    OBVIOUS
  <2>1. [Next]_vars /\ [DaemonNext]_daemonVars /\ UNCHANGED part
    BY DEF MCNext, allVars
  <2>2. QED
    BY <2>1, NextInv, DaemonKept
<1>3. Inv => NodeTypeOK
  BY DEF NodeTypeOK, PipelineInv, DaemonInv
<1>4. QED
  BY <1>1, <1>2, <1>3, PTL DEF MCSpec
=============================================================================
