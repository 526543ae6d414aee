-------------------------- MODULE ConnectorHealth --------------------------
(***************************************************************************)
(* Starting the connectors and checking them.  One task starts them one    *)
(* after the other; another pings them in turn, round after round, and     *)
(* records what it finds.  Neither knows of the other: what is pinged is a *)
(* connector made for the ping.                                            *)
(***************************************************************************)
EXTENDS Integers, Sequences

CONSTANTS
  Order,     \* the enabled connectors, as build_enabled_connector_names lists them
  Untimed    \* those whose start or ping has no timeout (slack, discord, teams, email)

(* With no connector enabled there is no health check. *)
ASSUME HealthAssumption == Order \in Seq(STRING) /\ Order # <<>>

ConnectorNames == {Order[i] : i \in DOMAIN Order}

VARIABLES
  nextStart,  \* the next connector start_all starts
  task,       \* what became of each start
  up,         \* the service answers; for webhook: its address is free
  nextPing,   \* the connector the round is at
  hung,       \* a ping never returns
  failures,   \* consecutive_failures, which count to 3 here
  status      \* HealthStatus

healthVars == <<nextStart, task, up, nextPing, hung, failures, status>>

HealthInit ==
  /\ nextStart = 1 /\ task = [c \in ConnectorNames |-> "none"]
  /\ up \in [ConnectorNames -> BOOLEAN]
  /\ nextPing = 1 /\ hung = FALSE
  /\ failures = [c \in ConnectorNames |-> 0]
  /\ status = [c \in ConnectorNames |-> "unknown"]

UpTurns(c) ==
  /\ up' = [up EXCEPT ![c] = ~@]
  /\ UNCHANGED <<nextStart, task, nextPing, hung, failures, status>>

-----------------------------------------------------------------------------
(* A connector whose start fails is left off; nothing tries it again.      *)
StartConnector ==
  /\ nextStart <= Len(Order)
  /\ \E outcome \in {"running", "off"} : task' = [task EXCEPT ![Order[nextStart]] = outcome]
  /\ nextStart' = nextStart + 1
  /\ UNCHANGED <<up, nextPing, hung, failures, status>>

-----------------------------------------------------------------------------
RecordHealthy(c) ==
  /\ status' = [status EXCEPT ![c] = "healthy"]
  /\ failures' = [failures EXCEPT ![c] = 0]

RecordUnhealthy(c) ==
  /\ failures' = [failures EXCEPT ![c] = IF @ < 3 THEN @ + 1 ELSE @]
  /\ status' = [status EXCEPT ![c] = IF failures'[c] >= 3 THEN "unhealthy" ELSE "degraded"]

(* Mutant: a ping that fails ends the round. *)
PingRoundBreaks ==
  /\ ~hung
  /\ LET c == Order[nextPing]
     IN  /\ IF up[c] THEN RecordHealthy(c) ELSE RecordUnhealthy(c)
         /\ nextPing' = IF up[c] THEN (nextPing % Len(Order)) + 1 ELSE 1
  /\ UNCHANGED <<nextStart, task, up, hung>>

(* ping_connector_by_name; then the interval, after the last of them.      *)
Ping ==
  /\ ~hung
  /\ LET c == Order[nextPing]
     IN  /\ IF up[c] THEN RecordHealthy(c) ELSE RecordUnhealthy(c)
         /\ nextPing' = (nextPing % Len(Order)) + 1
  /\ UNCHANGED <<nextStart, task, up, hung>>

PingHangs ==
  /\ ~hung /\ Order[nextPing] \in Untimed /\ hung' = TRUE
  /\ UNCHANGED <<nextStart, task, up, nextPing, failures, status>>

(* What the summary says of all connectors that were checked.              *)
Overall ==
  IF \E c \in ConnectorNames : status[c] = "unhealthy" THEN "unhealthy"
  ELSE IF \E c \in ConnectorNames : status[c] = "degraded" THEN "degraded"
  ELSE IF \E c \in ConnectorNames : status[c] = "healthy" THEN "healthy"
  ELSE "unknown"

HealthNext ==
  StartConnector \/ Ping \/ PingHangs \/ \E c \in ConnectorNames : UpTurns(c)

(* Pings follow one another, as long as none hangs. *)
HealthSpec == HealthInit /\ [][HealthNext]_healthVars /\ WF_healthVars(Ping)

-----------------------------------------------------------------------------
HealthTypeOK ==
  /\ nextStart \in 1 .. Len(Order) + 1 /\ nextPing \in 1 .. Len(Order)
  /\ task \in [ConnectorNames -> {"none", "running", "off"}]
  /\ up \in [ConnectorNames -> BOOLEAN] /\ hung \in BOOLEAN
  /\ failures \in [ConnectorNames -> 0 .. 3]
  /\ status \in [ConnectorNames -> {"unknown", "healthy", "degraded", "unhealthy"}]

(***************************************************************************)
(* What is shown comes to what is: once a service is up for good, or down  *)
(* for good, its connector is shown so for good, and the summary never     *)
(* stays healthy over one that is down.  A ping that hangs ends all that.  *)
(***************************************************************************)
HealthConverges ==
  \A c \in ConnectorNames :
    /\ <>[](up[c] \/ hung) => <>[](status[c] = "healthy" \/ hung)
    /\ <>[](~up[c] \/ hung) => <>[]((status[c] = "unhealthy" /\ Overall = "unhealthy") \/ hung)
=============================================================================
