---------------------------- MODULE RateLimiter ----------------------------
(***************************************************************************)
(* The token bucket of a rate limiter and the tasks that share it.  Tokens *)
(* are counted in fixed point: one token is One units.  Time is counted in *)
(* ticks; refills round down, a sleep rounds up.                           *)
(***************************************************************************)
EXTENDS Integers

CONSTANTS
  Takers,     \* the tasks that share the limiter
  Limits,     \* the configurations to choose from
  One,        \* FP_MULTIPLIER
  Interval,   \* refill_interval, in ticks
  MinSleep,   \* the 10 ms of acquire
  MaxClock    \* bound: ticks

ASSUME LimiterAssumption ==
  /\ {One, Interval} \subseteq Nat \ {0}
  /\ {MinSleep, MaxClock} \subseteq Nat
  /\ Limits \subseteq [max : Nat, rate : Nat]

(* The presets: the burst, and the thousandths of a token per second. *)
Presets ==
  {[max |-> 30,  rate |-> 1390],   [max |-> 20,  rate |-> 40000],    \* github, dingtalk
   [max |-> 25,  rate |-> 50000],  [max |-> 3,   rate |-> 3000],     \* feishu, discord; notion
   [max |-> 5,   rate |-> 830],    [max |-> 50,  rate |-> 200000],   \* slack, wecom
   [max |-> 50,  rate |-> 33000],  [max |-> 20,  rate |-> 30000],    \* teams, telegram
   [max |-> 10,  rate |-> 10000],  [max |-> 5,   rate |-> 2000],     \* email, rss
   [max |-> 100, rate |-> 100000], [max |-> 3,   rate |-> 1000]}     \* webhook, obsidian; git

VARIABLES
  limit,       \* config
  tokens,      \* tokens_fp
  lastRefill,  \* last_refill
  clock,       \* Instant::now()
  granted,     \* total_acquired
  sleeps       \* for each task the time it sleeps until, -1: it does not wait

limiterVars == <<limit, tokens, lastRefill, clock, granted, sleeps>>

(* max_tokens_fp and refill_amount_fp; the interval is a second. *)
Bucket == One * limit.max
Amount == limit.rate

LimiterInit ==
  /\ limit \in Limits
  /\ tokens = Bucket /\ lastRefill = 0 /\ clock = 0
  /\ granted = 0
  /\ sleeps = [t \in Takers |-> -1]

-----------------------------------------------------------------------------
AtMost(n, m) == IF n < m THEN n ELSE m
AtLeast(n, m) == IF n < m THEN m ELSE n

(* What came in since the last refill. *)
Due == ((clock - lastRefill) * Amount) \div Interval

(* The bucket after refill, which comes first in both ways to take one.    *)
Refilled == IF Due > 0 THEN AtMost(tokens + Due, Bucket) ELSE tokens

(* Mutant: last_refill is not moved. *)
RefillTimeKept == lastRefill' = lastRefill

(* The fraction that Due has cut off is lost when the time moves on. *)
RefillTime == lastRefill' = IF Due > 0 THEN clock ELSE lastRefill

(* How long until the deficit is made up, as acquire reckons. *)
SleepFor(have) ==
  LET rate == AtLeast(Amount, 1)
  IN  AtLeast(((One - have) * Interval + rate - 1) \div rate, MinSleep)

Grant ==
  /\ Refilled >= One
  /\ tokens' = Refilled - One
  /\ granted' = granted + 1

(* acquire, called by a task or repeated after its sleep. *)
Acquire(t) ==
  /\ sleeps[t] <= clock
  /\ RefillTime
  /\ \/ Grant /\ sleeps' = [sleeps EXCEPT ![t] = -1]
     \/ /\ Refilled < One
        /\ tokens' = Refilled
        /\ sleeps' = [sleeps EXCEPT ![t] = clock + SleepFor(Refilled)]
        /\ UNCHANGED granted
  /\ UNCHANGED <<limit, clock>>

TryAcquire(t) ==
  /\ sleeps[t] = -1
  /\ RefillTime
  /\ \/ Grant
     \/ Refilled < One /\ tokens' = Refilled /\ UNCHANGED granted
  /\ UNCHANGED <<limit, clock, sleeps>>

LimiterTick ==
  /\ clock < MaxClock /\ clock' = clock + 1
  /\ UNCHANGED <<limit, tokens, lastRefill, granted, sleeps>>

LimiterNext == LimiterTick \/ \E t \in Takers : Acquire(t) \/ TryAcquire(t)

LimiterSpec == LimiterInit /\ [][LimiterNext]_limiterVars

-----------------------------------------------------------------------------
LimiterTypeOK ==
  /\ limit \in Limits /\ tokens \in 0 .. Bucket
  /\ clock \in 0 .. MaxClock /\ lastRefill \in 0 .. clock
  /\ granted \in Nat
  /\ DOMAIN sleeps = Takers

(***************************************************************************)
(* However many tasks ask, in whatever rhythm, never more tokens are given *)
(* out than the full bucket and the refill rate allow: refill never counts *)
(* a moment twice.                                                         *)
(***************************************************************************)
RateBound ==
  Interval * (One * granted + tokens) <= Interval * Bucket + Amount * lastRefill

=============================================================================
