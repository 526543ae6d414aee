------------------------------- MODULE Daemon -------------------------------
(***************************************************************************)
(* The life of the process: start-up, the reload of the configuration,     *)
(* the shutdown; and beside it the commands of the same program, which     *)
(* read the configuration, open the database, whose files only one process *)
(* can have open, or ask the daemon.                                       *)
(*                                                                         *)
(* The runtime has a number of worker threads.  A task that waits with     *)
(* await leaves its worker to others; the one that watches config.toml     *)
(* waits for its channel without, and keeps its worker.                    *)
(***************************************************************************)
EXTENDS Configuration

CONSTANTS
  Files,        \* contents config.toml may come to have
  Envs,         \* environments
  Unparsable,   \* log levels that EnvFilter refuses
  WorkerCounts,
  Jobs,         \* commands run beside the daemon
  Invocations,  \* the sets of options they are run with
  MaxEdits      \* bound: changes of config.toml

ASSUME DaemonAssumption ==
  /\ "info" \notin Unparsable
  /\ {"free", "daemon"} \cap Jobs = {}

VARIABLES
  env,          \* the environment
  absolute,     \* the path of the file was given as an absolute path
  workers,      \* worker threads
  file,         \* config.toml
  edits,        \* how often it changed
  main,         \* where the main thread is
  watch,        \* the task of watch_config: "none", "spawned", "blocked", "gone"
  noticed,      \* the watcher has events for it
  sent,         \* the log level in the watch channel
  unseen,       \* the task that sets the level has not seen it
  filter,       \* the level in force
  started,      \* the tasks that were started and not aborted
  lock,         \* who has the database open
  job,          \* what each command is and where
  exit,         \* exit codes of the commands, -1: it runs
  fresh         \* history: a change came while the file was watched

daemonConfig == <<env, absolute, workers>>
reload       == <<watch, noticed, sent, unseen, filter>>
jobVars      == <<job, exit>>
daemonVars   == <<daemonConfig, file, edits, main, reload, started, lock,
                  jobVars, fresh>>

Tasks  == {"heartbeat", "collector", "connector", "processor", "sync", "status"}
NotRun == [kind |-> "none", at |-> "none"]

(* Some worker is left for the other tasks. *)
WorkerFree == watch = "blocked" => workers > 1

Runs(task) == task \in started /\ WorkerFree

DaemonInit ==
  /\ env \in Envs /\ absolute \in BOOLEAN /\ workers \in WorkerCounts
  /\ file \in Files /\ edits = 0
  /\ main = "load"
  /\ watch = "none" /\ noticed = FALSE /\ sent = "info" /\ unseen = FALSE
  /\ filter = "info"
  /\ started = {} /\ lock = "free" /\ fresh = FALSE
  /\ job = [j \in Jobs |-> NotRun] /\ exit = [j \in Jobs |-> -1]

-----------------------------------------------------------------------------
(* The main thread.  Every error ends in the drop of the runtime.          *)
LoadConfig ==
  /\ main = "load"
  /\ main' = IF Loads(file) THEN "watch" ELSE "drop"
  /\ UNCHANGED <<daemonConfig, file, edits, reload, started, lock, jobVars, fresh>>

(* watch_config loads the file again, then starts its task. *)
WatchConfig ==
  /\ main = "watch"
  /\ IF Loads(file)
       THEN /\ main' = "cache" /\ watch' = "spawned"
            /\ sent' = Load(file, env).level
       ELSE main' = "drop" /\ UNCHANGED <<watch, sent>>
  /\ UNCHANGED <<daemonConfig, file, edits, noticed, unseen, filter, started,
                 lock, jobVars, fresh>>

OpenCache ==
  /\ main = "cache"
  /\ IF lock = "free" THEN main' = "start" /\ lock' = "daemon"
                      ELSE main' = "drop" /\ UNCHANGED lock
  /\ UNCHANGED <<daemonConfig, file, edits, reload, started, jobVars, fresh>>

(* The client for Soul may not come about.  With it Soul is greeted, with  *)
(* or without success, and all tasks are started.                          *)
StartTasks ==
  /\ main = "start"
  /\ \/ main' = "drop" /\ UNCHANGED started
     \/ main' = "serving" /\ started' = Tasks
  /\ UNCHANGED <<daemonConfig, file, edits, reload, lock, jobVars, fresh>>

(* A signal is handled only once the daemon serves; before, it kills.      *)
Signal ==
  /\ \/ main = "serving" /\ main' = "drop" /\ started' = {} /\ UNCHANGED lock
     \/ /\ main \in {"load", "watch", "cache", "start"}
        /\ main' = "ended" /\ started' = {}
        /\ lock' = IF lock = "daemon" THEN "free" ELSE lock
  /\ UNCHANGED <<daemonConfig, file, edits, reload, jobVars, fresh>>

(* The tasks that held the database are dropped where they wait. *)
CacheDropped ==
  /\ main = "drop" /\ lock = "daemon" /\ WorkerFree
  /\ lock' = "free"
  /\ UNCHANGED <<daemonConfig, file, edits, main, reload, started, jobVars, fresh>>

(* The drop of the runtime waits until every worker is idle. *)
RuntimeDropped ==
  /\ main = "drop" /\ watch # "blocked"
  /\ main' = "ended"
  /\ lock' = IF lock = "daemon" THEN "free" ELSE lock
  /\ UNCHANGED <<daemonConfig, file, edits, reload, started, jobVars, fresh>>

MainStep == LoadConfig \/ WatchConfig \/ OpenCache \/ StartTasks

-----------------------------------------------------------------------------
(* The reload of the configuration. *)

WatchStarts ==
  /\ watch = "spawned" /\ main # "ended"
  /\ watch' \in {"blocked", "gone"}
  /\ UNCHANGED <<daemonConfig, file, edits, main, noticed, sent, unseen, filter,
                 started, lock, jobVars, fresh>>

(* Mutant: a file that cannot be loaded ends the task. *)
ReloadStops ==
  /\ watch = "blocked" /\ noticed /\ main # "ended"
  /\ noticed' = FALSE
  /\ IF absolute /\ Loads(file)
       THEN sent' = Load(file, env).level /\ unseen' = TRUE /\ UNCHANGED watch
       ELSE watch' = "gone" /\ UNCHANGED <<sent, unseen>>
  /\ UNCHANGED <<daemonConfig, file, edits, main, filter, started, lock,
                 jobVars, fresh>>

(* An event names the file by its absolute path; only the path the daemon  *)
(* was given counts.                                                       *)
Reload ==
  /\ watch = "blocked" /\ noticed /\ main # "ended"
  /\ noticed' = FALSE
  /\ IF absolute /\ Loads(file) THEN sent' = Load(file, env).level /\ unseen' = TRUE
                                ELSE UNCHANGED <<sent, unseen>>
  /\ UNCHANGED <<daemonConfig, file, edits, main, watch, filter, started, lock,
                 jobVars, fresh>>

SetLevel ==
  /\ unseen /\ WorkerFree /\ main \notin {"drop", "ended"}
  /\ unseen' = FALSE
  /\ filter' = IF sent \in Unparsable THEN filter ELSE sent
  /\ UNCHANGED <<daemonConfig, file, edits, main, watch, noticed, sent, started,
                 lock, jobVars, fresh>>

Edit ==
  /\ edits < MaxEdits /\ edits' = edits + 1
  /\ file' \in Files \ {file}
  /\ noticed' = (noticed \/ watch = "blocked")
  /\ fresh' = (fresh \/ watch = "blocked")
  /\ UNCHANGED <<daemonConfig, main, watch, sent, unseen, filter, started, lock,
                 jobVars>>

-----------------------------------------------------------------------------
(* The commands. *)

(* parse_config_path looks for them in this order. *)
OptionOrder ==
  <<"version", "version-json", "help", "connectors", "status", "metrics", "self-test",
    "doctor", "export", "import", "cache-info", "recent", "search", "source", "type",
    "stats", "tail", "prune", "test-connector", "top", "health", "init", "validate">>

Command(options) ==
  OptionOrder[CHOOSE i \in DOMAIN OptionOrder :
          OptionOrder[i] \in options /\ \A k \in 1 .. i - 1 : OptionOrder[k] \notin options]

WithArgument == {"export", "import", "search", "source", "type", "prune", "test-connector"}
Informs      == {"version", "version-json", "help"}
AsksDaemon   == {"status", "metrics", "health", "top"}
UsesDatabase == {"export", "import", "cache-info", "recent", "search", "source", "type",
                 "stats", "tail", "prune"}

Ends(j, codes) ==
  \E code \in codes : /\ exit' = [exit EXCEPT ![j] = code]
                      /\ job' = [job EXCEPT ![j] = [kind |-> "none", at |-> "done"]]

GoesTo(j, place) == job' = [job EXCEPT ![j].at = place] /\ UNCHANGED exit

BesideJobs == UNCHANGED <<daemonConfig, edits, main, reload, started, fresh>>

JobStarts(j) ==
  /\ job[j] = NotRun
  /\ \E options \in Invocations, complete \in BOOLEAN :
       LET kind == Command(options)
       IN  job' = [job EXCEPT ![j] =
                     [kind |-> kind,
                      at   |-> IF kind \in WithArgument /\ ~complete THEN "usage"
                               ELSE IF kind \in Informs THEN "tell" ELSE "load"]]
  /\ UNCHANGED <<file, lock, exit>> /\ BesideJobs

JobTells(j) ==
  /\ job[j].at \in {"usage", "tell"}
  /\ Ends(j, IF job[j].at = "usage" THEN {1} ELSE {0})
  /\ UNCHANGED <<file, lock>> /\ BesideJobs

(* --init writes the file unless there is one, or it cannot. *)
JobInits(j) ==
  /\ job[j].at = "load" /\ job[j].kind = "init"
  /\ \/ /\ file = NoFile
        /\ file' = DefaultFile /\ Ends(j, {0})
        /\ noticed' = (noticed \/ watch = "blocked")
        /\ fresh' = (fresh \/ watch = "blocked")
     \/ Ends(j, {1}) /\ UNCHANGED <<file, noticed, fresh>>
  /\ UNCHANGED <<daemonConfig, edits, main, watch, sent, unseen, filter, started,
                 lock>>

(* The self-test has a database of its own; of the file, those that ask    *)
(* the daemon want the port only, and have a default for it.               *)
JobGoesOn(j) ==
  /\ job[j].at = "load"
  /\ \/ job[j].kind = "self-test" /\ Ends(j, {0, 1})
     \/ job[j].kind \in AsksDaemon /\ GoesTo(j, "ask")
  /\ UNCHANGED <<file, lock>> /\ BesideJobs

(* With a configuration: --validate looks at the file only, --doctor also  *)
(* at what is outside, which may be anything.  --test-connector knows the  *)
(* name or not; for a connector that is enabled it starts a runtime within *)
(* main's, which panics.                                                   *)
ValidateEnds(config)      == IF Fatal(config) THEN {1} ELSE {0}
DoctorEnds(config)        == IF Fatal(config) THEN {1} ELSE {0, 1}
TestConnectorEnds(config) == {0, 1} \cup IF config.sections = {} THEN {} ELSE {101}

(* The file to import is read before the database is opened. *)
JobLoads(j) ==
  /\ job[j].at = "load"
  /\ LET kind   == job[j].kind
         config == Load(file, env)
     IN  /\ kind \notin AsksDaemon \cup {"init", "self-test"}
         /\ \/ ~Loads(file) /\ Ends(j, {1})
            \/ /\ Loads(file)
               /\ \/ kind = "connectors" /\ Ends(j, {0})
                  \/ kind = "validate" /\ Ends(j, ValidateEnds(config))
                  \/ kind = "doctor" /\ Ends(j, DoctorEnds(config))
                  \/ kind = "test-connector" /\ Ends(j, TestConnectorEnds(config))
                  \/ kind = "import" /\ Ends(j, {1})
                  \/ kind \in UsesDatabase /\ GoesTo(j, "open")
  /\ UNCHANGED <<file, lock>> /\ BesideJobs

JobOpens(j) ==
  /\ job[j].at = "open"
  /\ IF lock = "free" THEN lock' = j /\ GoesTo(j, "work")
                      ELSE UNCHANGED lock /\ Ends(j, {1})
  /\ UNCHANGED file /\ BesideJobs

(* The end of the process closes the database. --tail has to be stopped.   *)
JobCloses(j) ==
  /\ job[j].at = "work"
  /\ lock' = "free" /\ Ends(j, IF job[j].kind = "tail" THEN {130} ELSE {0, 1})
  /\ UNCHANGED file /\ BesideJobs

(* The answer may be missing or bad; --top shows one after the other until *)
(* it is stopped.                                                          *)
JobAsks(j) ==
  /\ job[j].at = "ask"
  /\ \/ Ends(j, {1})
     \/ /\ Runs("status")
        /\ IF job[j].kind = "top" THEN GoesTo(j, "show") ELSE Ends(j, {0})
  /\ UNCHANGED <<file, lock>> /\ BesideJobs

JobShows(j) ==
  /\ job[j].at = "show" /\ Ends(j, {130})
  /\ UNCHANGED <<file, lock>> /\ BesideJobs

Job(j) ==
  \/ JobStarts(j) \/ JobTells(j) \/ JobInits(j) \/ JobGoesOn(j) \/ JobLoads(j)
  \/ JobOpens(j) \/ JobCloses(j) \/ JobAsks(j) \/ JobShows(j)

DaemonNext ==
  \/ MainStep \/ Signal \/ CacheDropped \/ RuntimeDropped
  \/ WatchStarts \/ Reload \/ SetLevel \/ Edit
  \/ \E j \in Jobs : Job(j)

(* The scheduler runs what can run.  The user need not stop anything.      *)
DaemonSpec ==
  /\ DaemonInit /\ [][DaemonNext]_daemonVars
  /\ WF_daemonVars(MainStep) /\ WF_daemonVars(CacheDropped)
  /\ WF_daemonVars(RuntimeDropped)
  /\ WF_daemonVars(WatchStarts) /\ WF_daemonVars(Reload) /\ WF_daemonVars(SetLevel)

-----------------------------------------------------------------------------
DaemonTypeOK ==
  /\ main \in {"load", "watch", "cache", "start", "serving", "drop", "ended"}
  /\ watch \in {"none", "spawned", "blocked", "gone"}
  /\ {noticed, unseen, fresh} \subseteq BOOLEAN
  /\ filter \notin Unparsable
  /\ started \in {{}, Tasks} /\ (started = Tasks <=> main = "serving")
  /\ lock \in {"free", "daemon"} \cup Jobs
  /\ (main = "serving" => lock = "daemon")
  /\ \A j \in Jobs : (lock = j <=> job[j].at = "work") /\ exit[j] \in {-1, 0, 1, 101, 130}

(* From the opening of the database on the daemon has it; the commands are *)
(* where a command can be.                                                 *)
DaemonInv ==
  /\ DaemonTypeOK
  /\ main = "start" => lock = "daemon"
  /\ job \in [Jobs -> [kind : {"none"} \cup {Command(options) : options \in Invocations},
                       at : {"none", "load", "usage", "tell", "open", "work", "ask",
                             "show", "done"}]]
  /\ exit \in [Jobs -> Int]

(***************************************************************************)
(* While the daemon serves, a change of the file that can be loaded sets   *)
(* the level, however changes, broken files and reloads meet, if there is  *)
(* a second worker, the path is absolute and the file was watched before.  *)
(***************************************************************************)
Told(level) ==
  /\ main = "serving" /\ WorkerFree /\ absolute /\ fresh
  /\ Loads(file) /\ Load(file, env).level = level

LevelFollowsFile ==
  \A level \in {f.level : f \in Files \cup Envs} \ (Unparsable \cup {"unset"}) :
    Told(level) ~> (filter = level \/ ~Told(level))

(***************************************************************************)
(* main.rs: "Shutdown signal received, initiating graceful stop...".  A    *)
(* daemon that served and then leaves main ends.                           *)
(***************************************************************************)
ShutdownEnds == [](main = "serving" => (main = "drop" ~> main = "ended"))
=============================================================================
