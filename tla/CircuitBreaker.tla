--------------------------- MODULE CircuitBreaker ---------------------------
(***************************************************************************)
(* The circuit breaker of a connector (CircuitBreaker,                     *)
(* src/src/connector/circuit_breaker.rs).  Every method runs under one     *)
(* mutex, so each is one step.  Instants are kept as the time elapsed      *)
(* since: opened_at.elapsed() is openedFor, counted up to the cooldown,    *)
(* the only value it is compared with.  The streaks are counted up to      *)
(* MaxStreak, no less than either threshold compared with.  The lifetime   *)
(* totals and the last_* instants, which only a snapshot shows, are left   *)
(* out.                                                                    *)
(***************************************************************************)
EXTENDS Integers

CONSTANTS
  FailureThreshold, SuccessThreshold,  \* of CircuitBreakerConfig
  Cooldown,                            \* cooldown_duration, in clock steps
  MaxStreak                            \* bound: longest streak counted

ASSUME BreakerAssumption ==
  /\ FailureThreshold \in Nat \ {0} /\ SuccessThreshold \in Nat \ {0}
  /\ Cooldown \in Nat
  /\ MaxStreak \in Nat
  /\ FailureThreshold <= MaxStreak /\ SuccessThreshold <= MaxStreak

VARIABLES
  state,
  consecutiveFailures,
  consecutiveSuccesses,
  openedFor     \* time since opened_at, Never when opened_at is None

breaker == <<state, consecutiveFailures, consecutiveSuccesses, openedFor>>

Never == -1

CircuitState == {"Closed", "Open", "HalfOpen"}

BreakerInit ==
  /\ state = "Closed"
  /\ consecutiveFailures = 0 /\ consecutiveSuccesses = 0
  /\ openedFor = Never

(* One more, or one more clock step, up to a limit. *)
Up(n, limit) == IF n < limit THEN n + 1 ELSE n

(* Mutant: every admitted probe starts the count of successes again. *)
AdmitRestart ==
  \/ /\ state = "Closed"
     /\ UNCHANGED breaker
  \/ /\ state = "HalfOpen" \/ openedFor >= Cooldown
     /\ state' = "HalfOpen"
     /\ consecutiveSuccesses' = 0
     /\ UNCHANGED <<consecutiveFailures, openedFor>>

(***************************************************************************)
(* allow_request returning Ok: always when Closed or HalfOpen; when Open,  *)
(* once the cooldown has elapsed, and the circuit is then HalfOpen.  In    *)
(* every other state it returns Err and changes nothing.                   *)
(***************************************************************************)
Admit ==
  \/ /\ state \in {"Closed", "HalfOpen"}
     /\ UNCHANGED breaker
  \/ /\ state = "Open"
     /\ openedFor # Never /\ openedFor >= Cooldown
     /\ state' = "HalfOpen"
     /\ consecutiveSuccesses' = 0
     /\ UNCHANGED <<consecutiveFailures, openedFor>>

(***************************************************************************)
(* record_success: an Open circuit closes at once, a HalfOpen one with the *)
(* success that completes the threshold.                                   *)
(***************************************************************************)
RecordSuccess ==
  /\ consecutiveFailures' = 0
  /\ consecutiveSuccesses' = Up(consecutiveSuccesses, MaxStreak)
  /\ IF \/ state = "Open"
        \/ state = "HalfOpen" /\ consecutiveSuccesses' >= SuccessThreshold
       THEN state' = "Closed" /\ openedFor' = Never
       ELSE UNCHANGED <<state, openedFor>>

(* Mutant: the circuit trips one failure late. *)
RecordFailureLate ==
  /\ consecutiveSuccesses' = 0
  /\ consecutiveFailures' = Up(consecutiveFailures, MaxStreak)
  /\ IF \/ state = "HalfOpen"
        \/ state = "Closed" /\ consecutiveFailures >= FailureThreshold
       THEN state' = "Open" /\ openedFor' = 0
       ELSE UNCHANGED <<state, openedFor>>

(* Mutant: a failed probe does not start a new cooldown. *)
RecordFailureStale ==
  /\ consecutiveSuccesses' = 0
  /\ consecutiveFailures' = Up(consecutiveFailures, MaxStreak)
  /\ IF \/ state = "HalfOpen"
        \/ state = "Closed" /\ consecutiveFailures' >= FailureThreshold
       THEN /\ state' = "Open"
            /\ openedFor' = IF state = "Closed" THEN 0 ELSE openedFor
       ELSE UNCHANGED <<state, openedFor>>

(* Mutant: the two streaks are swapped. *)
RecordFailureSwapped ==
  /\ consecutiveFailures' = 0
  /\ consecutiveSuccesses' = Up(consecutiveSuccesses, MaxStreak)
  /\ IF \/ state = "HalfOpen"
        \/ state = "Closed" /\ consecutiveFailures' >= FailureThreshold
       THEN state' = "Open" /\ openedFor' = 0
       ELSE UNCHANGED <<state, openedFor>>

(***************************************************************************)
(* record_failure: a HalfOpen circuit opens again, a Closed one with the   *)
(* failure that completes the threshold; an Open one only counts.          *)
(***************************************************************************)
RecordFailure ==
  /\ consecutiveSuccesses' = 0
  /\ consecutiveFailures' = Up(consecutiveFailures, MaxStreak)
  /\ IF \/ state = "HalfOpen"
        \/ state = "Closed" /\ consecutiveFailures' >= FailureThreshold
       THEN state' = "Open" /\ openedFor' = 0
       ELSE UNCHANGED <<state, openedFor>>

Record(ok) == IF ok THEN RecordSuccess ELSE RecordFailure

(* reset: the manual way back to Closed. *)
Reset ==
  /\ state' = "Closed"
  /\ consecutiveFailures' = 0 /\ consecutiveSuccesses' = 0
  /\ openedFor' = Never

(* A clock step. *)
Elapse ==
  /\ openedFor' = IF openedFor = Never THEN Never ELSE Up(openedFor, Cooldown)
  /\ UNCHANGED <<state, consecutiveFailures, consecutiveSuccesses>>

BreakerTypeOK ==
  /\ state \in CircuitState
  /\ consecutiveFailures \in 0 .. MaxStreak
  /\ consecutiveSuccesses \in 0 .. MaxStreak
  /\ openedFor \in {Never} \cup 0 .. Cooldown
=============================================================================
