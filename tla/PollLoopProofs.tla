--------------------------- MODULE PollLoopProofs ---------------------------
(***************************************************************************)
(* Theorems of PollLoop for all thresholds, cooldowns and kinds of loop.   *)
(***************************************************************************)
EXTENDS PollLoop, TLAPS

(* What the clock and the history say in each state: an open circuit has   *)
(* been open since it tripped, a probing one has waited or was cleared, a  *)
(* closed one was cleared.                                                 *)
TripHistory ==
  /\ state = "Open" => openedFor = sinceTrip /\ ~cleared
  /\ state = "HalfOpen" => sinceTrip >= Cooldown \/ cleared
  /\ state = "Closed" => cleared

PollInv == TypeOK /\ OpenedAtMatches /\ TripsInTime /\ TripHistory

(* Counting up stays within the limit. *)
LEMMA UpLemma ==
  ASSUME NEW limit \in Nat, NEW n \in 0 .. limit
  PROVE  /\ Up(n, limit) \in 0 .. limit
         /\ n <= Up(n, limit)
         /\ n < limit => Up(n, limit) = n + 1
BY DEF Up

LEMMA PollInit == Init => PollInv
BY BreakerAssumption, PollAssumption
DEF Init, BreakerInit, PollInv, TypeOK, BreakerTypeOK, OpenedAtMatches,
    TripsInTime, TripHistory, CircuitState, Upstream, Never

(* A recorded answer, by a poll or by the token timer.                     *)
LEMMA RecordLemma ==
  ASSUME PollInv, NEW ok \in BOOLEAN, Record(ok), Note(ok)
  PROVE  /\ BreakerTypeOK' /\ OpenedAtMatches' /\ TripsInTime' /\ TripHistory'
         /\ sinceTrip' \in 0 .. Cooldown /\ cleared' \in BOOLEAN
<1> USE BreakerAssumption
    DEF PollInv, TypeOK, BreakerTypeOK, OpenedAtMatches, TripsInTime,
        TripHistory, CircuitState, Never
<1>1. /\ Up(consecutiveFailures, MaxStreak) \in 0 .. MaxStreak
      /\ Up(consecutiveSuccesses, MaxStreak) \in 0 .. MaxStreak
  BY UpLemma
<1>2. CASE ok
  <2>1. /\ consecutiveFailures' = 0
        /\ consecutiveSuccesses' = Up(consecutiveSuccesses, MaxStreak)
        /\ \/ state' = "Closed" /\ openedFor' = Never
           \/ state # "Open" /\ UNCHANGED <<state, openedFor>>
    BY <1>2 DEF Record, RecordSuccess
  <2>2. state' # "Open"
    BY <2>1
  <2>3. sinceTrip' = sinceTrip /\ cleared' = TRUE
    BY <1>2, <2>2 DEF Note
  <2>4. /\ consecutiveFailures' \in 0 .. MaxStreak
        /\ consecutiveSuccesses' \in 0 .. MaxStreak
    BY <1>1, <2>1
  <2>5. consecutiveFailures' < FailureThreshold
    BY <2>1
  <2>6. CASE state' = "Closed" /\ openedFor' = Never
    BY <2>3, <2>4, <2>5, <2>6
  <2>7. CASE state # "Open" /\ UNCHANGED <<state, openedFor>>
    BY <2>3, <2>4, <2>5, <2>7
  <2>8. QED
    BY <2>1, <2>6, <2>7
<1>3. CASE ~ok
  <2>1. /\ consecutiveSuccesses' = 0
        /\ consecutiveFailures' = Up(consecutiveFailures, MaxStreak)
    BY <1>3 DEF Record, RecordFailure
  <2>2. CASE \/ state = "HalfOpen"
             \/ state = "Closed" /\ consecutiveFailures' >= FailureThreshold
    <3>1. state' = "Open" /\ openedFor' = 0
      BY <1>3, <2>2 DEF Record, RecordFailure
    <3>2. sinceTrip' = 0 /\ cleared' = FALSE
      BY <2>2, <3>1 DEF Note
    <3>3. BreakerTypeOK' /\ OpenedAtMatches' /\ TripsInTime'
      BY <1>1, <2>1, <3>1
    <3>4. cleared' \in BOOLEAN /\ ~cleared'
      BY <3>2
    <3>5. sinceTrip' \in 0 .. Cooldown /\ TripHistory'
      BY <3>1, <3>2, <3>4
    <3>6. QED
      BY <3>3, <3>4, <3>5
  <2>3. CASE ~ \/ state = "HalfOpen"
               \/ state = "Closed" /\ consecutiveFailures' >= FailureThreshold
    <3>1. UNCHANGED <<state, openedFor>>
      BY <1>3, <2>3 DEF Record, RecordFailure
    <3>2. sinceTrip' = sinceTrip /\ cleared' = cleared
      BY <1>3, <3>1 DEF Note
    <3>3. QED
      BY <1>1, <2>1, <2>3, <3>1, <3>2
  <2>4. QED
    BY <2>2, <2>3
<1>4. QED
  BY <1>2, <1>3

LEMMA AnswersLemma == ASSUME TypeOK PROVE Answers \subseteq BOOLEAN
BY DEF TypeOK, Upstream, Answers

(* The loop variables through a poll.                                      *)
LEMMA NextSourceLemma ==
  ASSUME TypeOK, pc = "poll", NextSource
  PROVE  /\ pc' \in {"idle", "poll"} /\ source' \in 0 .. Sources
         /\ pc' = "poll" <=> source' # 0
         /\ Sources = 1 => pc' = "idle"
BY PollAssumption DEF TypeOK, NextSource

LEMMA PollStep == PollInv /\ [Next]_vars => PollInv'
<1> SUFFICES ASSUME PollInv, [Next]_vars PROVE PollInv'
  OBVIOUS
<1> USE BreakerAssumption, PollAssumption
<1>1. CASE StartPoll
  BY <1>1 DEF StartPoll, Admit, PollInv, TypeOK, BreakerTypeOK, breaker, trip,
              OpenedAtMatches, TripsInTime, TripHistory, CircuitState, Never
<1>2. CASE Answer
  <2>1. PICK ok \in BOOLEAN : Record(ok) /\ Note(ok)
    BY <1>2, AnswersLemma DEF Answer, PollInv
  <2>2. /\ BreakerTypeOK' /\ OpenedAtMatches' /\ TripsInTime' /\ TripHistory'
        /\ sinceTrip' \in 0 .. Cooldown /\ cleared' \in BOOLEAN
    BY <2>1, RecordLemma
  <2>3. /\ pc' \in {"idle", "poll"} /\ source' \in 0 .. Sources
        /\ pc' = "poll" <=> source' # 0
        /\ upstream' = upstream
    BY <1>2, NextSourceLemma DEF Answer, PollInv
  <2>4. QED
    BY <2>2, <2>3 DEF PollInv, TypeOK
<1>3. CASE EmptyAnswer
  <2>1. /\ pc' \in {"idle", "poll"} /\ source' \in 0 .. Sources
        /\ pc' = "poll" <=> source' # 0
    BY <1>3, NextSourceLemma DEF EmptyAnswer, PollInv
  <2>2. QED
    BY <1>3, <2>1 DEF EmptyAnswer, PollInv, TypeOK, BreakerTypeOK, breaker,
       trip, OpenedAtMatches, TripsInTime, TripHistory
<1>4. CASE RefreshToken
  <2>1. PICK ok \in BOOLEAN : Record(ok) /\ Note(ok)
    BY <1>4, AnswersLemma DEF RefreshToken, PollInv
  <2>2. /\ BreakerTypeOK' /\ OpenedAtMatches' /\ TripsInTime' /\ TripHistory'
        /\ sinceTrip' \in 0 .. Cooldown /\ cleared' \in BOOLEAN
    BY <2>1, RecordLemma
  <2>3. QED
    BY <1>4, <2>2 DEF RefreshToken, PollInv, TypeOK, loop
<1>5. CASE ManualReset
  BY <1>5 DEF ManualReset, Reset, PollInv, TypeOK, BreakerTypeOK, loop,
              OpenedAtMatches, TripsInTime, TripHistory, CircuitState, Never
<1>6. CASE Pass
  <2>1. /\ Up(sinceTrip, Cooldown) \in 0 .. Cooldown
        /\ sinceTrip <= Up(sinceTrip, Cooldown)
    BY UpLemma DEF PollInv, TypeOK
  <2>2. openedFor # Never => Up(openedFor, Cooldown) \in 0 .. Cooldown
    BY UpLemma DEF PollInv, TypeOK, BreakerTypeOK
  <2>3. /\ sinceTrip' = Up(sinceTrip, Cooldown)
        /\ openedFor' = IF openedFor = Never THEN Never
                                             ELSE Up(openedFor, Cooldown)
        /\ UNCHANGED <<state, consecutiveFailures, consecutiveSuccesses,
                       pc, source, upstream, cleared>>
    BY <1>6 DEF Pass, Elapse, loop
  <2>4. QED
    BY <2>1, <2>2, <2>3
    DEF PollInv, TypeOK, BreakerTypeOK, OpenedAtMatches, TripsInTime,
        TripHistory, Never
<1>7. CASE Turn
  BY <1>7 DEF Turn, PollInv, TypeOK, BreakerTypeOK, breaker, loop, trip,
              OpenedAtMatches, TripsInTime, TripHistory
<1>8. CASE UNCHANGED vars
  BY <1>8 DEF vars, PollInv, TypeOK, BreakerTypeOK, breaker, loop, trip,
              OpenedAtMatches, TripsInTime, TripHistory
<1>9. QED
  BY <1>1, <1>2, <1>3, <1>4, <1>5, <1>6, <1>7, <1>8 DEF Next

(* The breaker's state is of the right type in every loop.                 *)
THEOREM PollTypeCorrect == Spec => []TypeOK
<1>1. PollInv => TypeOK
  BY DEF PollInv
<1>2. QED
  BY <1>1, PollInit, PollStep, PTL DEF Spec

(* The circuit is never Open without an opened_at, nor Closed with one.    *)
THEOREM OpenedAtKept == Spec => []OpenedAtMatches
<1>1. PollInv => OpenedAtMatches
  BY DEF PollInv
<1>2. QED
  BY <1>1, PollInit, PollStep, PTL DEF Spec

(* A closed circuit never has a full threshold of failures behind it.      *)
THEOREM TripsAtThreshold == Spec => []TripsInTime
<1>1. PollInv => TripsInTime
  BY DEF PollInv
<1>2. QED
  BY <1>1, PollInit, PollStep, PTL DEF Spec

(* No poll starts between the opening of the circuit and the end of the    *)
(* cooldown, unless a success or a reset came in between.                  *)
THEOREM CooldownKept == Spec => PollsKeepOff
<1> DEFINE KeepsOff == pc = "idle" /\ pc' = "poll" => sinceTrip >= Cooldown \/ cleared
<1>1. PollInv /\ [Next]_vars => [KeepsOff]_vars
  <2> SUFFICES ASSUME PollInv, Next PROVE KeepsOff
    OBVIOUS
  <2>1. CASE StartPoll
    BY <2>1 DEF StartPoll, Admit, PollInv, TripHistory, TypeOK,
                BreakerTypeOK, CircuitState
  <2>2. CASE Answer \/ EmptyAnswer
    BY <2>2 DEF Answer, EmptyAnswer
  <2>3. CASE RefreshToken \/ ManualReset \/ Pass \/ Turn
    BY <2>3 DEF RefreshToken, ManualReset, Pass, Turn, loop
  <2>4. QED
    BY <2>1, <2>2, <2>3 DEF Next
<1>2. QED
  BY <1>1, PollInit, PollStep, PTL DEF Spec, PollsKeepOff

(* A loop that queries one source per poll has no request on its way while *)
(* the circuit is Open, token refreshes and resets included.               *)
THEOREM OpenMeansQuiet == ASSUME Sources = 1 PROVE Spec => []OpenRejects
<1>1. Init => OpenRejects
  BY DEF Init, OpenRejects
<1>2. PollInv /\ OpenRejects /\ [Next]_vars => OpenRejects'
  <2> SUFFICES ASSUME PollInv, OpenRejects, [Next]_vars PROVE OpenRejects'
    OBVIOUS
  <2>1. CASE StartPoll
    BY <2>1 DEF StartPoll, Admit, OpenRejects, breaker
  <2>2. CASE Answer \/ EmptyAnswer
    <3>1. pc = "poll" /\ NextSource
      BY <2>2 DEF Answer, EmptyAnswer
    <3>2. pc' = "idle"
      BY <3>1, NextSourceLemma DEF PollInv
    <3>3. QED
      BY <3>2 DEF OpenRejects
  <2>3. CASE RefreshToken
    BY <2>3 DEF RefreshToken, loop, OpenRejects
  <2>4. CASE ManualReset
    BY <2>4 DEF ManualReset, Reset, OpenRejects
  <2>5. CASE Pass \/ Turn \/ UNCHANGED vars
    BY <2>5 DEF Pass, Elapse, Turn, vars, loop, breaker, OpenRejects
  <2>6. QED
    BY <2>1, <2>2, <2>3, <2>4, <2>5 DEF Next
<1>3. QED
  BY <1>1, <1>2, PollInit, PollStep, PTL DEF Spec
=============================================================================
