---------------------------- MODULE RateLimiter ----------------------------
(***************************************************************************)
(* The token bucket in front of every HTTP attempt                         *)
(* (crates/scout-rpc/src/ratelimit.rs), shared by concurrent callers.      *)
(*                                                                         *)
(* Time passes in ticks.  An Instant is represented by its age, counted up *)
(* to the point where a greater age makes no difference, so that the state *)
(* space is finite without a bound on time.  A rate is in 1/Scale units    *)
(* per tick: the division in refill rounds down as the code's does.        *)
(***************************************************************************)
EXTENDS Integers, Sequences, FiniteSets

CONSTANTS
  Callers,         \* tasks calling acquire
  Costs,           \* costs they ask for (at least 1)
  Rate, Burst,     \* arguments of new
  Retunes,         \* <<rate, burst>> arguments retune may be called with
  MinRate,         \* MIN_RATE_MILLI
  MaxWaiters,      \* max_waiters
  HalveDebounce,   \* HALVE_DEBOUNCE
  RecoverStep,     \* RECOVER_STEP
  RecoverDivisor,  \* RECOVER_DIVISOR
  Scale,           \* 1/Scale units per tick is a rate of 1
  MaxAge           \* bound: ages are counted up to here

Smaller(a, b) == IF a <= b THEN a ELSE b
Larger(a, b) == IF a >= b THEN a ELSE b
CeilDiv(a, b) == (a + b - 1) \div b

Rates == {Rate} \cup {r[1] : r \in Retunes}
Bursts == {Burst} \cup {r[2] : r \in Retunes}

\* new and retune raise their arguments to 1; with_max_waiters does as well.
ASSUME LimiterAssumption ==
  /\ IsFiniteSet(Callers) /\ MaxWaiters \in Nat \ {0}
  /\ Costs \subseteq Nat \ {0}
  /\ Rate \in Nat \ {0} /\ Burst \in Nat \ {0}
  /\ Retunes \subseteq (Nat \ {0}) \X (Nat \ {0})
  /\ {MinRate, RecoverStep, RecoverDivisor, Scale} \subseteq Nat \ {0}
  /\ MaxAge \in Nat

\* At MaxAge every bucket is full, and every rate has recovered.
ASSUME AgesAreLongEnough ==
  \A b \in Bursts, c \in Costs, r \in Rates :
    /\ MinRate <= r
    /\ MaxAge * MinRate >= (b + c) * Scale
    /\ MaxAge >= RecoverStep * CeilDiv(r, Larger(r \div RecoverDivisor, 1))
    /\ MaxAge > HalveDebounce

VARIABLES
  tokens,      \* tokens_micro: negative when in debt
  rate,        \* rate_milli
  lowest,      \* lowest_milli
  burst,       \* burst_micro
  initial,     \* initial_rate_milli, an atomic outside the lock
  sinceLast,   \* age of `last`
  quiet,       \* age of recover_from
  sinceHalved, \* age of last_halved (MaxAge: never)
  waiters,     \* the atomic counter of waiting callers
  turn,        \* the fair async mutex: its holder first, then its waiters
  task,        \* what each caller is doing
  target,      \* the rate new or retune was last called with
  tuning,      \* "no": retune not called; "half": lock released, initial not
               \* stored yet; "done"
  ideal,       \* history: 1/Scale units in a bucket that refills at the
               \* configured rate all the time and forgives nothing (counted
               \* down to a debt no honest bucket can have)
  cancelled    \* history: a 429 has found the bucket in debt

limiter == <<tokens, rate, lowest, burst, sinceLast, quiet, sinceHalved>>
history == <<ideal, cancelled>>
limiterVars == <<limiter, initial, target, waiters, turn, task, tuning, history>>

Idle == [pc |-> "idle", cost |-> 0, sleep |-> 0]

LimiterInit ==
  /\ tokens = Burst
  /\ rate = Rate
  /\ lowest = Rate
  /\ burst = Burst
  /\ initial = Rate
  /\ target = Rate
  /\ sinceLast = 0
  /\ quiet = 0
  /\ sinceHalved = MaxAge
  /\ waiters = 0
  /\ turn = <<>>
  /\ task = [c \in Callers |-> Idle]
  /\ tuning = "no"
  /\ ideal = Burst * Scale
  /\ cancelled = FALSE

----------------------------------------------------------------------------
(* acquire *)

\* fetch_add, and its result: the caller is counted even when it is refused.
Enter(c) ==
  /\ task[c].pc = "idle"
  /\ waiters' = waiters + 1
  /\ \E cost \in Costs :
       task' = [task EXCEPT ![c] = [Idle EXCEPT
                  !.pc = IF waiters >= MaxWaiters THEN "refused" ELSE "counted",
                  !.cost = cost]]
  /\ UNCHANGED <<limiter, initial, target, turn, tuning, history>>

\* Mutated form of Refuse: the counter is not given back.
RefuseKeepsCount(c) ==
  /\ task[c].pc = "refused"
  /\ task' = [task EXCEPT ![c] = Idle]
  /\ UNCHANGED <<limiter, initial, target, waiters, turn, tuning, history>>

\* RateLimiterSaturated
Refuse(c) ==
  /\ task[c].pc = "refused"
  /\ waiters' = waiters - 1
  /\ task' = [task EXCEPT ![c] = Idle]
  /\ UNCHANGED <<limiter, initial, target, turn, tuning, history>>

\* turn.lock().await
Join(c) ==
  /\ task[c].pc = "counted"
  /\ turn' = Append(turn, c)
  /\ task' = [task EXCEPT ![c].pc = "queued"]
  /\ UNCHANGED <<limiter, initial, target, waiters, tuning, history>>

\* Mutated form of Accrued: the bucket has no size.
AccruedUnbounded == tokens + (sinceLast * rate) \div Scale

\* The tokens after the time since the last refill.
Accrued == Smaller(tokens + (sinceLast * rate) \div Scale, burst)

\* Recovery: one step of the initial rate per RECOVER_STEP without a 429.
Recovered ==
  LET step == Larger(initial \div RecoverDivisor, 1)
      due  == Smaller(quiet \div RecoverStep, CeilDiv(initial - rate, step))
  IN  IF rate >= initial THEN rate ELSE Smaller(rate + step * due, initial)

\* refill, with the lock held: tokens and rate are brought up to date.
Refill ==
  /\ sinceLast' = 0
  /\ rate' = Recovered
  /\ quiet' = IF rate < initial THEN quiet % RecoverStep ELSE quiet
  /\ lowest' = IF rate < initial /\ Recovered = initial THEN initial ELSE lowest
  /\ UNCHANGED <<burst, sinceHalved>>

\* Mutated form of Need: the whole cost must be in the bucket.
NeedWholeCost(c) == task[c].cost

\* A cost above the bucket size needs a full bucket.
Need(c) == Smaller(task[c].cost, burst)

HoldsTurn(c) ==
  /\ turn # <<>> /\ Head(turn) = c
  /\ task[c].pc = "queued" \/ (task[c].pc = "sleeping" /\ task[c].sleep = 0)

\* The caller whose turn it is takes its tokens, down to a debt.
Take(c) ==
  /\ HoldsTurn(c)
  /\ Accrued >= Need(c)
  /\ Refill
  /\ tokens' = Accrued - task[c].cost
  /\ ideal' = Larger(ideal - task[c].cost * Scale, -MaxAge * MinRate)
  /\ turn' = Tail(turn)
  /\ waiters' = waiters - 1
  /\ task' = [task EXCEPT ![c].pc = "sent"]
  /\ UNCHANGED <<initial, target, tuning, cancelled>>

\* Else it sleeps until they will be, but no longer than a recovery step.
Sleep(c) ==
  /\ HoldsTurn(c)
  /\ Accrued < Need(c)
  /\ Refill
  /\ tokens' = Accrued
  /\ task' = [task EXCEPT ![c].pc = "sleeping",
                          ![c].sleep = Smaller(CeilDiv((Need(c) - Accrued) * Scale, Recovered),
                                               RecoverStep)]
  /\ UNCHANGED <<initial, target, waiters, turn, tuning, history>>

\* The caller's future is dropped: its guards release the turn and the count.
Cancel(c) ==
  /\ task[c].pc \in {"counted", "queued", "sleeping"}
  /\ waiters' = waiters - 1
  /\ turn' = SelectSeq(turn, LAMBDA d : d # c)
  /\ task' = [task EXCEPT ![c] = Idle]
  /\ UNCHANGED <<limiter, initial, target, tuning, history>>

----------------------------------------------------------------------------
(* The answer to the request; a 429 without Retry-After halves the rate. *)

Answered(c) ==
  /\ task[c].pc = "sent"
  /\ task' = [task EXCEPT ![c] = Idle]
  /\ UNCHANGED <<limiter, initial, target, waiters, turn, tuning, history>>

Halved == Larger(rate \div 2, MinRate)

OnRateLimited(c) ==
  /\ task[c].pc = "sent"
  /\ task' = [task EXCEPT ![c] = Idle]
  /\ tokens' = 0
  /\ sinceLast' = 0
  /\ quiet' = 0
  /\ IF sinceHalved < HalveDebounce \/ Halved >= rate
     THEN UNCHANGED <<rate, sinceHalved, lowest>>
     ELSE /\ rate' = Halved
          /\ sinceHalved' = 0
          /\ lowest' = Smaller(lowest, Halved)
  /\ cancelled' = (cancelled \/ Accrued < 0)
  /\ UNCHANGED <<burst, initial, target, waiters, turn, tuning, ideal>>

----------------------------------------------------------------------------
(* retune: the state under the lock, then the atomic outside it. *)

RetuneState ==
  /\ tuning = "no"
  /\ tuning' = "half"
  /\ \E r \in Retunes :
       /\ rate' = r[1]
       /\ target' = r[1]
       /\ lowest' = r[1]
       /\ burst' = r[2]
       /\ tokens' = r[2]
       /\ ideal' = r[2] * Scale
  /\ sinceLast' = 0
  /\ quiet' = 0
  /\ UNCHANGED <<initial, sinceHalved, waiters, turn, task, cancelled>>

RetuneInitial ==
  /\ tuning = "half"
  /\ tuning' = "done"
  /\ initial' = target
  /\ UNCHANGED <<limiter, target, waiters, turn, task, history>>

----------------------------------------------------------------------------
Older(age) == Smaller(age + 1, MaxAge)

\* A tick.  A timer may fire late.  retune is not interrupted for a tick.
Tick ==
  /\ tuning # "half"
  /\ sinceLast' = Older(sinceLast)
  /\ quiet' = Older(quiet)
  /\ sinceHalved' = Older(sinceHalved)
  /\ task' = [c \in Callers |-> [task[c] EXCEPT !.sleep = Larger(@ - 1, 0)]]
  /\ ideal' = Smaller(ideal + target, burst * Scale)
  /\ UNCHANGED <<tokens, rate, lowest, burst, initial, target, waiters, turn, tuning, cancelled>>

Attempt(c) == Refuse(c) \/ Join(c) \/ Take(c) \/ Sleep(c)

LimiterNext ==
  \/ Tick \/ RetuneState \/ RetuneInitial
  \/ \E c \in Callers :
       Enter(c) \/ Attempt(c) \/ Cancel(c) \/ Answered(c) \/ OnRateLimited(c)

LimiterSpec == LimiterInit /\ [][LimiterNext]_limiterVars

\* Time passes, and the runtime polls every task that can make a step.
LimiterFairSpec ==
  /\ LimiterSpec
  /\ WF_limiterVars(Tick)
  /\ WF_limiterVars(RetuneInitial)
  /\ \A c \in Callers : WF_limiterVars(Attempt(c))

----------------------------------------------------------------------------
LimiterTypeOK ==
  /\ tokens \in Int /\ tokens <= burst
  /\ rate \in Nat /\ lowest \in Nat
  /\ burst \in Bursts
  /\ initial \in Rates /\ target \in Rates
  /\ sinceLast \in 0..MaxAge /\ quiet \in 0..MaxAge /\ sinceHalved \in 0..MaxAge
  /\ waiters \in Nat
  /\ turn \in Seq(Callers)
  /\ task \in [Callers -> [pc : {"idle", "counted", "refused", "queued", "sleeping", "sent"},
                           cost : Costs \cup {0}, sleep : 0..RecoverStep]]
  /\ tuning \in {"no", "half", "done"}
  /\ cancelled \in BOOLEAN

Waiting == {c \in Callers : task[c].pc \in {"counted", "queued", "sleeping"}}

(***************************************************************************)
(* The queue is bounded: never more than max_waiters callers wait, however *)
(* admissions, refusals and cancellations interleave, and the counter that *)
(* enforces it leaks no place.                                             *)
(***************************************************************************)
QueueBounded ==
  /\ Cardinality(Waiting) <= MaxWaiters
  /\ waiters = Cardinality(Waiting) + Cardinality({c \in Callers : task[c].pc = "refused"})

(***************************************************************************)
(* Until a 429 meets a bucket in debt, the bucket never holds more than    *)
(* one that refills at the configured rate and in which every debt is paid *)
(* off: no interleaving of costs, halvings, recoveries and a retune is     *)
(* granted faster than that rate.                                          *)
(***************************************************************************)
SustainedRate == cancelled \/ Accrued * Scale <= ideal

(***************************************************************************)
(* "A heavy method is slow, never stuck": every waiting caller is granted  *)
(* its tokens or gives up, whatever 429s, cancellations and retunes come   *)
(* in between.                                                             *)
(***************************************************************************)
NeverStuck ==
  \A c \in Callers : (c \in Waiting) ~> (c \notin Waiting)
=============================================================================
