------------------------------ MODULE PollLoop ------------------------------
(***************************************************************************)
(* A polling connector and its circuit breaker.  The connector is one task *)
(* (start in src/src/connector/{rss,slack,email,telegram,notion,wecom,     *)
(* feishu,discord}.rs) that owns its breaker: at each poll tick it asks    *)
(* the breaker once, then queries its sources one after the other and      *)
(* records each answer.  The loops differ in how many sources a poll has   *)
(* (feeds, channels, accounts; one in telegram, notion and wecom), in      *)
(* whether a second timer refreshes a token and records the result without *)
(* asking the breaker (wecom, feishu, dingtalk), and in whether an answer  *)
(* without news is recorded at all (not in discord and teams).             *)
(***************************************************************************)
EXTENDS CircuitBreaker

CONSTANTS
  Sources,         \* requests of one poll
  RefreshesToken,  \* a token timer records on the breaker too
  SilentWhenEmpty, \* an answer without news is not recorded
  CanReset         \* somebody may call reset (the daemon does not)

ASSUME PollAssumption ==
  /\ Sources \in Nat \ {0}
  /\ {RefreshesToken, SilentWhenEmpty, CanReset} \subseteq BOOLEAN

VARIABLES
  pc,        \* "idle" between polls, "poll" awaiting an answer
  source,    \* the source being queried
  upstream,  \* "up": answers; "down": fails; "flaky": either
  sinceTrip, \* history: time since the circuit last became Open
  cleared    \* history: a success or a reset since then

loop == <<pc, source>>
trip == <<sinceTrip, cleared>>
vars == <<breaker, loop, upstream, trip>>

Upstream == {"up", "down", "flaky"}

(* The ways a request can end. *)
Answers ==
  {ok \in BOOLEAN : upstream \in {"flaky", IF ok THEN "up" ELSE "down"}}

Init ==
  /\ BreakerInit
  /\ pc = "idle" /\ source = 0
  /\ upstream = "up"
  /\ sinceTrip = Cooldown /\ cleared = TRUE

(* History of a recorded answer: did it trip the circuit. *)
Note(ok) ==
  IF state # "Open" /\ state' = "Open"
    THEN sinceTrip' = 0 /\ cleared' = FALSE
    ELSE sinceTrip' = sinceTrip /\ cleared' = (cleared \/ ok)

(* The poll tick, when the breaker lets the poll through. *)
StartPoll ==
  /\ pc = "idle"
  /\ Admit
  /\ pc' = "poll" /\ source' = 1
  /\ UNCHANGED <<upstream, trip>>

(* Mutant: the poll runs one source past the last. *)
NextSourceOver ==
  IF source <= Sources THEN source' = source + 1 /\ pc' = pc
                       ELSE source' = 0 /\ pc' = "idle"

(* On to the next source, or the end of the poll. *)
NextSource ==
  IF source < Sources THEN source' = source + 1 /\ pc' = pc
                      ELSE source' = 0 /\ pc' = "idle"

(***************************************************************************)
(* The current source's request ends and is recorded; the poll goes on     *)
(* with the next source whatever the breaker makes of it.                  *)
(***************************************************************************)
Answer ==
  /\ pc = "poll"
  /\ \E ok \in Answers : Record(ok) /\ Note(ok)
  /\ NextSource
  /\ UNCHANGED upstream

(* An answer without news, where the loop continues before recording it. *)
EmptyAnswer ==
  /\ SilentWhenEmpty
  /\ pc = "poll"
  /\ TRUE \in Answers
  /\ NextSource
  /\ UNCHANGED <<breaker, upstream, trip>>

(* The token tick: the breaker is not asked, but told the result. *)
RefreshToken ==
  /\ RefreshesToken
  /\ pc = "idle"
  /\ \E ok \in Answers : Record(ok) /\ Note(ok)
  /\ UNCHANGED <<loop, upstream>>

ManualReset ==
  /\ CanReset
  /\ Reset
  /\ cleared' = TRUE
  /\ UNCHANGED <<loop, upstream, sinceTrip>>

Pass ==
  /\ Elapse
  /\ sinceTrip' = Up(sinceTrip, Cooldown)
  /\ UNCHANGED <<loop, upstream, cleared>>

Turn ==
  /\ \E u \in Upstream \ {upstream} : upstream' = u
  /\ UNCHANGED <<breaker, loop, trip>>

Next ==
  \/ StartPoll \/ Answer \/ EmptyAnswer \/ RefreshToken \/ ManualReset
  \/ Pass \/ Turn

Spec == Init /\ [][Next]_vars

(***************************************************************************)
(* The poll interval ticks for ever, time passes, and every request ends,  *)
(* because the HTTP client has a timeout (rss, telegram, notion, wecom,    *)
(* feishu, dingtalk, discord; slack's and email's clients have none).      *)
(***************************************************************************)
FairSpec == Spec /\ WF_vars(StartPoll) /\ WF_vars(Answer) /\ WF_vars(Pass)
-----------------------------------------------------------------------------
TypeOK ==
  /\ BreakerTypeOK
  /\ pc \in {"idle", "poll"} /\ source \in 0 .. Sources
  /\ pc = "poll" <=> source # 0
  /\ upstream \in Upstream
  /\ sinceTrip \in 0 .. Cooldown /\ cleared \in BOOLEAN

(***************************************************************************)
(* allow_request, "Shouldn't happen, but treat as open": the circuit is    *)
(* never Open without an opened_at, or no request would ever be let        *)
(* through again; and a closed circuit carries no old opened_at.           *)
(***************************************************************************)
OpenedAtMatches == state = "Closed" <=> openedFor = Never

(***************************************************************************)
(* A closed circuit trips in time: it never has a full threshold of        *)
(* failures behind it, however refreshes, resets and polls mix.            *)
(***************************************************************************)
TripsInTime == state = "Closed" => consecutiveFailures < FailureThreshold

(***************************************************************************)
(* Once the circuit opened, no poll starts before the cooldown has passed, *)
(* unless a success or a reset came in between.                            *)
(***************************************************************************)
PollsKeepOff ==
  [][pc = "idle" /\ pc' = "poll" => sinceTrip >= Cooldown \/ cleared]_vars

(***************************************************************************)
(* While a request is on its way the circuit is not Open.                  *)
(***************************************************************************)
OpenRejects == pc = "poll" => state # "Open"

(***************************************************************************)
(* Once the upstream is up for good the circuit closes for good.           *)
(***************************************************************************)
Recovers == <>[](upstream = "up") => <>[](state = "Closed")

(***************************************************************************)
(* While the upstream stays down the circuit opens again and again.        *)
(***************************************************************************)
DownTrips == <>[](upstream = "down") => []<>(state = "Open")
=============================================================================
