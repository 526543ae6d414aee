------------------------------ MODULE Console ------------------------------
(***************************************************************************)
(* The status server: requests run at the same time and meet at the        *)
(* RwLocks of StatusServerState, at those of the registries, and at the    *)
(* writes of the pipeline, the sync engine and the health checks.  A lock  *)
(* of tokio is first come, first served: a reader waits behind a writer    *)
(* that waits.                                                             *)
(*                                                                         *)
(* A handler is the sequence of the locks it takes; what it shows of what  *)
(* they guard, and of what needs no lock, is left out.  A lock that only   *)
(* serves to copy or to set a value is given back at once ("copy", "set"), *)
(* another when the handler ends ("read", "write").                        *)
(*                                                                         *)
(* A client may hang up, and the server then drops the handler at the lock *)
(* it waits for, with what it has written so far.                          *)
(***************************************************************************)
EXTENDS Integers, SequencesExt

CONSTANTS
  Visitors,     \* requests, and tasks of the daemon, at the same time
  Switches      \* connectors that may be toggled

VARIABLES
  visits,       \* what each visitor does
  queues,       \* for each lock those who wait, in the order they came
  enabled,      \* connector_enabled, of those that were ever toggled
  active,       \* connectors_active
  cut           \* history: connectors whose last change of "enabled" was a
                \* toggle that ended before it came to connectors_active

consoleVars == <<visits, queues, enabled, active, cut>>

-----------------------------------------------------------------------------
Copy(lock)  == [lock |-> lock, how |-> "copy"]
Read(lock)  == [lock |-> lock, how |-> "read"]
Set(lock)   == [lock |-> lock, how |-> "set"]
Write(lock) == [lock |-> lock, how |-> "write"]

StatusAnswer     == <<Copy("active"), Copy("error")>>
MetricsAnswer    == <<Copy("active"), Copy("counts")>>
ConnectorsAnswer == <<Copy("active"), Copy("enabled"), Copy("counts")>>
CollectorsAnswer == <<Copy("collectors"), Copy("running")>>
ConnectorEvents  == <<Read("counts")>>

(* Mutant: health asks for a lock it holds. *)
HealthAnswerTwice == <<Read("enabled"), Read("counts"), Read("enabled")>>
HealthAnswer      == <<Read("enabled"), Read("counts")>>

(* Mutant: toggle gives the first lock back before it takes the second. *)
ToggleLoose == <<Set("enabled"), Set("active")>>
Toggle      == <<Write("enabled"), Write("active")>>

PluginsAnswer    == <<Copy("plugins"), Copy("plugins")>>
BreakersAnswer   == <<Copy("breakers")>>
LimitersAnswer   == <<Copy("limiters")>>
CacheStatsAnswer == <<Copy("cache")>>
DashboardPage    == <<Copy("collected"), Copy("synced"), Copy("active"), Copy("cache")>>
ConnectorsPage   == <<Copy("active"), Copy("counts")>>
SyncPage         == <<Copy("cache"), Copy("collected"), Copy("synced")>>
MonitorPage      == <<Copy("error")>>
PluginsPage      == <<Copy("plugins"), Copy("plugins")>>
DoctorPage       == <<Copy("collected"), Copy("synced"), Copy("health"),
                      Copy("plugins"), Copy("plugins")>>

(* What the daemon itself writes. *)
PipelineCounts == <<Set("collectors")>>
EngineStats    == <<Set("cache")>>
HealthRecord   == <<Set("health")>>

(* The routes.  An eviction request changes nothing and asks nobody. *)
Handlers ==
  [status |-> StatusAnswer, metrics |-> MetricsAnswer, connectors |-> ConnectorsAnswer,
   collectors |-> CollectorsAnswer, toggle |-> Toggle, events |-> ConnectorEvents,
   health |-> HealthAnswer, plugins |-> PluginsAnswer, breakers |-> BreakersAnswer,
   limiters |-> LimitersAnswer, stats |-> CacheStatsAnswer, evict |-> <<>>,
   dashboard |-> DashboardPage, list |-> ConnectorsPage, sync |-> SyncPage,
   monitor |-> MonitorPage, addons |-> PluginsPage, doctor |-> DoctorPage,
   counting |-> PipelineCounts, caching |-> EngineStats, checking |-> HealthRecord]

(* What the daemon itself runs: no client is behind it. *)
OwnTasks == {"counting", "caching", "checking"}

Locks == {"active", "error", "enabled", "counts", "collectors", "running", "plugins",
          "breakers", "limiters", "cache", "collected", "synced", "health"}

Away == [runs |-> "none", step |-> 0, waits |-> FALSE, name |-> "none", on |-> FALSE]

ConsoleInit ==
  /\ visits = [v \in Visitors |-> Away]
  /\ queues = [l \in Locks |-> <<>>]
  /\ enabled = [s \in Switches |-> "unset"]
  /\ active = {} /\ cut = {}

-----------------------------------------------------------------------------
Script(v) == Handlers[visits[v].runs]
Wanted(v) == Script(v)[visits[v].step]

Holds(v, lock, ways) ==
  /\ visits[v].runs # "none"
  /\ \E i \in 1 .. visits[v].step - 1 :
       Script(v)[i].lock = lock /\ Script(v)[i].how \in ways

Compatible(lock, how) ==
  \A v \in Visitors : ~Holds(v, lock, IF how \in {"copy", "read"} THEN {"write"} ELSE {"read", "write"})

Comes(v) ==
  /\ visits[v] = Away
  /\ \E h \in DOMAIN Handlers :
       \E s \in (IF h = "toggle" THEN Switches ELSE {"none"}) :
         \E on \in (IF h = "toggle" THEN BOOLEAN ELSE {FALSE}) :
           visits' = [visits EXCEPT ![v] =
                        [runs |-> h, step |-> 1, waits |-> FALSE, name |-> s, on |-> on]]
  /\ UNCHANGED <<queues, enabled, active, cut>>

AsksForLock(v) ==
  /\ visits[v].runs # "none" /\ ~visits[v].waits /\ visits[v].step <= Len(Script(v))
  /\ queues' = [queues EXCEPT ![Wanted(v).lock] = Append(@, v)]
  /\ visits' = [visits EXCEPT ![v].waits = TRUE]
  /\ UNCHANGED <<enabled, active, cut>>

(* What toggle does under each of its locks. *)
ToggleEffect(v) ==
  LET s == visits[v].name
      on == visits[v].on
  IN  CASE visits[v].runs = "toggle" /\ visits[v].step = 1 ->
             /\ enabled' = [enabled EXCEPT ![s] = IF on THEN "yes" ELSE "no"]
             /\ UNCHANGED <<active, cut>>
        [] visits[v].runs = "toggle" /\ visits[v].step = 2 ->
             /\ active' = (IF on THEN active \cup {s} ELSE active \ {s})
             /\ cut' = cut \ {s}
             /\ UNCHANGED enabled
        [] OTHER -> UNCHANGED <<enabled, active, cut>>

GetsLock(v) ==
  /\ visits[v].waits /\ Head(queues[Wanted(v).lock]) = v
  /\ Compatible(Wanted(v).lock, Wanted(v).how)
  /\ queues' = [queues EXCEPT ![Wanted(v).lock] = Tail(@)]
  /\ visits' = [visits EXCEPT ![v].waits = FALSE, ![v].step = @ + 1]
  /\ ToggleEffect(v)

(* The answer is sent, and what is still held is given back. *)
Leaves(v) ==
  /\ visits[v].runs # "none" /\ visits[v].step > Len(Script(v))
  /\ visits' = [visits EXCEPT ![v] = Away]
  /\ UNCHANGED <<queues, enabled, active, cut>>

(* The client is gone: the handler is dropped where it waits, its place in *)
(* the queue with it, and what it holds is given back.                     *)
GivesUp(v) ==
  /\ visits[v].waits /\ visits[v].runs \notin OwnTasks
  /\ \E i \in DOMAIN queues[Wanted(v).lock] :
       /\ queues[Wanted(v).lock][i] = v
       /\ queues' = [queues EXCEPT ![Wanted(v).lock] = RemoveAt(@, i)]
  /\ visits' = [visits EXCEPT ![v] = Away]
  /\ cut' = (IF visits[v].runs = "toggle" /\ visits[v].step = 2
              THEN cut \cup {visits[v].name} ELSE cut)
  /\ UNCHANGED <<enabled, active>>

Serves(v) == AsksForLock(v) \/ GetsLock(v) \/ Leaves(v)

ConsoleNext == \E v \in Visitors : Comes(v) \/ Serves(v) \/ GivesUp(v)

ConsoleSpec ==
  ConsoleInit /\ [][ConsoleNext]_consoleVars /\ \A v \in Visitors : WF_consoleVars(Serves(v))

-----------------------------------------------------------------------------
ConsoleTypeOK ==
  /\ \A v \in Visitors : visits[v] = Away \/ visits[v].step \in 1 .. Len(Script(v)) + 1
  /\ \A l \in Locks : \A i, j \in DOMAIN queues[l] : i # j => queues[l][i] # queues[l][j]
  /\ enabled \in [Switches -> {"unset", "yes", "no"}] /\ active \subseteq Switches
  /\ cut \subseteq Switches

(***************************************************************************)
(* However toggles meet and whoever hangs up, when none is under way the   *)
(* two places that say whether a connector is on (connector_enabled and    *)
(* connectors_active) agree, but for a connector whose last toggle was cut *)
(* off between its two writes; the next toggle that ends heals it.         *)
(***************************************************************************)
Agree(s) == enabled[s] # "unset" => (enabled[s] = "yes" <=> s \in active)

ToggleConsistent ==
  (\A v \in Visitors : visits[v].runs # "toggle") => \A s \in Switches \ cut : Agree(s)

(***************************************************************************)
(* Why: a toggle keeps its first lock until it has changed both places; no *)
(* two are beyond that lock, and where the places differ, a toggle of that *)
(* connector is between its steps or was cut off there.                    *)
(***************************************************************************)
HasToggled(v) == visits[v].runs = "toggle" /\ visits[v].step > 1
Midway(v)     == visits[v].runs = "toggle" /\ visits[v].step = 2

OneToggles == \A v, w \in Visitors : HasToggled(v) /\ HasToggled(w) => v = w

MidwayExplains ==
  /\ \A v \in Visitors :
       Midway(v) => enabled[visits[v].name] = IF visits[v].on THEN "yes" ELSE "no"
  /\ \A s \in Switches :
       \/ Agree(s) \/ s \in cut
       \/ \E v \in Visitors : Midway(v) /\ visits[v].name = s

(* A visitor's step is one of its handler's, and who waits is in the queue *)
(* of the lock it waits for and in no other.                               *)
VisitOK(v) ==
  \/ visits[v] = Away
  \/ /\ visits[v].runs \in DOMAIN Handlers
     /\ visits[v].step \in 1 .. Len(Script(v)) + 1
     /\ visits[v].waits => visits[v].step <= Len(Script(v))
     /\ visits[v].runs = "toggle" => visits[v].name \in Switches

InQueue(v, l) == \E i \in DOMAIN queues[l] : queues[l][i] = v

QueuedWait ==
  \A v \in Visitors : \A l \in Locks : InQueue(v, l) <=> visits[v].waits /\ Wanted(v).lock = l

ConsoleInv ==
  /\ ConsoleTypeOK
  /\ visits \in [Visitors -> [runs : DOMAIN Handlers \cup {"none"}, step : Nat, waits : BOOLEAN,
                             name : Switches \cup {"none"}, on : BOOLEAN]]
  /\ queues \in [Locks -> Seq(Visitors)]
  /\ \A v \in Visitors : VisitOK(v)
  /\ QueuedWait /\ OneToggles /\ MidwayExplains

(***************************************************************************)
(* Every handler comes to its end, though no client need ever hang up: no  *)
(* handler waits for a lock it holds (a second read behind a writer that   *)
(* waits would), and no two for each other.                                *)
(***************************************************************************)
EveryRequestAnswered == \A v \in Visitors : visits[v] # Away ~> visits[v] = Away
=============================================================================
