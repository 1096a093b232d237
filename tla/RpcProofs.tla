----------------------------- MODULE RpcProofs -----------------------------
(***************************************************************************)
(* Proofs about the two components of crates/scout-rpc: the JSON-RPC       *)
(* client, for any number of tasks, any budget and any retry policy, and   *)
(* the rate limiter in front of its requests, for any callers, costs,      *)
(* rates, bucket sizes and sequence of 429s, cancellations and a retune.   *)
(***************************************************************************)
EXTENDS RateLimiter, RpcClient, FiniteSetTheorems, TLAPS

----------------------------------------------------------------------------
(* The rate limiter. *)

Pcs == {"idle", "counted", "refused", "queued", "sleeping", "sent"}
TaskType == [pc : Pcs, cost : Nat, sleep : Int]

\* The type of what the two properties are about; the turn is left out.
LimiterType ==
  /\ tokens \in Int
  /\ rate \in Nat \ {0} /\ burst \in Nat \ {0}
  /\ initial \in Nat \ {0} /\ target \in Nat \ {0}
  /\ sinceLast \in Nat /\ quiet \in Nat
  /\ waiters \in Int
  /\ task \in [Callers -> TaskType]
  /\ ideal \in Int
  /\ cancelled \in BOOLEAN
  /\ tuning \in {"no", "half", "done"}

----------------------------------------------------------------------------
(* Arithmetic of a refill. *)

\* A quotient times its divisor does not exceed the dividend.
LEMMA DivBelow ==
  ASSUME NEW a \in Int, NEW n \in Nat \ {0}
  PROVE (a \div n) \in Int /\ (a \div n) * n <= a
OBVIOUS

\* A quotient of natural numbers is a natural number.
LEMMA DivNat ==
  ASSUME NEW a \in Nat, NEW n \in Nat \ {0}
  PROVE (a \div n) \in Nat
OBVIOUS

\* Rounding up gives a natural number.
LEMMA CeilNat ==
  ASSUME NEW a \in Nat, NEW n \in Nat \ {0}
  PROVE CeilDiv(a, n) \in Nat
BY DivNat DEF CeilDiv

\* Products of integers; a factor of zero; a smaller factor.
LEMMA Products ==
  /\ \A a, b \in Int : a * b \in Int
  /\ \A b \in Int : 0 * b = 0
  /\ \A a, b \in Int, n \in Nat : a <= b => a * n <= b * n
<1>1. ASSUME NEW a \in Int, NEW b \in Int, NEW n \in Nat, a <= b PROVE a * n <= b * n
  <2>1. (b - a) * n >= 0 BY <1>1
  <2> QED BY <2>1
<1> QED BY <1>1

\* What has accrued is at most what the elapsed time allows, and fits.
LEMMA AccruedBounds ==
  ASSUME LimiterType
  PROVE /\ Accrued \in Int
        /\ Accrued <= burst
        /\ Accrued * Scale <= tokens * Scale + sinceLast * rate
        /\ Accrued * Scale <= burst * Scale
<1> DEFINE q == (sinceLast * rate) \div Scale
<1>1. Scale \in Nat \ {0} BY LimiterAssumption
<1>2. sinceLast * rate \in Nat BY DEF LimiterType
<1>3. q \in Int /\ q * Scale <= sinceLast * rate
  <2>1. sinceLast * rate \in Int BY <1>2
  <2> QED BY <1>1, <2>1, DivBelow
<1>4. Accrued = Smaller(tokens + q, burst) BY DEF Accrued
<1> HIDE DEF q
<1>5. Accrued \in Int /\ Accrued <= burst /\ Accrued <= tokens + q
  BY <1>3, <1>4 DEF Smaller, LimiterType
<1>6. \A x, y \in Int : x <= y => x * Scale <= y * Scale
  <2> SUFFICES ASSUME NEW x \in Int, NEW y \in Int, x <= y PROVE x * Scale <= y * Scale
    OBVIOUS
  <2>1. (y - x) * Scale >= 0 BY <1>1
  <2> QED BY <1>1, <2>1
<1>7. Accrued * Scale <= (tokens + q) * Scale
  <2>1. tokens + q \in Int BY <1>3 DEF LimiterType
  <2> QED BY <1>5, <1>6, <2>1
<1>8. (tokens + q) * Scale = tokens * Scale + q * Scale
  BY <1>1, <1>3 DEF LimiterType
<1>9. Accrued * Scale <= burst * Scale
  <2>1. burst \in Int BY DEF LimiterType
  <2> QED BY <1>5, <1>6, <2>1
<1>10. Accrued * Scale \in Int /\ tokens * Scale \in Int /\ q * Scale \in Int
  BY <1>1, <1>3, <1>5 DEF LimiterType
<1> QED BY <1>2, <1>3, <1>5, <1>7, <1>8, <1>9, <1>10

\* A recovery raises the rate, to the configured one at most; in the middle of
\* a retune there is nothing to recover.
LEMMA RecoveredBounds ==
  ASSUME LimiterType
  PROVE /\ Recovered \in Nat \ {0}
        /\ rate <= Recovered
        /\ Recovered <= Larger(rate, initial)
        /\ quiet = 0 => Recovered = rate
<1>1. CASE rate >= initial BY <1>1 DEF Recovered, LimiterType, Larger
<1>2. CASE ~(rate >= initial)
  <2> DEFINE p == Larger(initial \div RecoverDivisor, 1)
             due == Smaller(quiet \div RecoverStep, CeilDiv(initial - rate, p))
  <2>1. p \in Nat \ {0}
    <3>1. initial \div RecoverDivisor \in Nat BY DivNat, LimiterAssumption DEF LimiterType
    <3> QED BY <3>1 DEF Larger
  <2>2. due \in Nat /\ (quiet = 0 => due = 0)
    <3>1. quiet \div RecoverStep \in Nat BY DivNat, LimiterAssumption DEF LimiterType
    <3>2. initial - rate \in Nat BY <1>2 DEF LimiterType
    <3>3. CeilDiv(initial - rate, p) \in Nat BY <2>1, <3>2, CeilNat
    <3>4. quiet = 0 => quiet \div RecoverStep = 0 BY LimiterAssumption
    <3> QED BY <3>1, <3>3, <3>4 DEF Smaller
  <2>3. Recovered = Smaller(rate + p * due, initial) BY <1>2 DEF Recovered
  <2> HIDE DEF p, due
  <2>4. p * due \in Nat /\ (due = 0 => p * due = 0) BY <2>1, <2>2
  <2> QED BY <1>2, <2>2, <2>3, <2>4 DEF Smaller, Larger, LimiterType
<1> QED BY <1>1, <1>2

----------------------------------------------------------------------------
\* The variables keep their types.
LEMMA TypeInit == LimiterInit => LimiterType
<1>1. Idle \in TaskType BY DEF Idle, TaskType, Pcs
<1>2. Burst * Scale \in Int BY LimiterAssumption
<1>3. ASSUME LimiterInit PROVE task \in [Callers -> TaskType] BY <1>1, <1>3 DEF LimiterInit
<1>4. ASSUME LimiterInit PROVE ideal \in Int BY <1>2, <1>4 DEF LimiterInit
<1>5. Rate \in Nat \ {0} /\ Burst \in Nat \ {0} BY LimiterAssumption
<1>6. ASSUME LimiterInit PROVE cancelled \in BOOLEAN BY <1>6 DEF LimiterInit
<1>7. ASSUME LimiterInit
      PROVE /\ tokens \in Int /\ waiters \in Int /\ sinceLast \in Nat /\ quiet \in Nat
            /\ {rate, burst, initial, target} \subseteq Nat \ {0}
            /\ tuning \in {"no", "half", "done"}
  BY <1>5, <1>7 DEF LimiterInit
<1> QED BY <1>3, <1>4, <1>6, <1>7 DEF LimiterType

\* A caller with another state, or another cost or sleep, is still a caller.
LEMMA TaskFields ==
  ASSUME NEW q \in TaskType
  PROVE /\ \A s \in Pcs : [q EXCEPT !.pc = s] \in TaskType /\ [q EXCEPT !.pc = s].pc = s
        /\ \A n \in Int : /\ [q EXCEPT !.sleep = n] \in TaskType
                          /\ [q EXCEPT !.sleep = n].pc = q.pc
        /\ \A n \in Int : /\ [q EXCEPT !.pc = "sleeping", !.sleep = n] \in TaskType
                          /\ [q EXCEPT !.pc = "sleeping", !.sleep = n].pc = "sleeping"
        /\ \A s \in Pcs, n \in Nat : /\ [q EXCEPT !.pc = s, !.cost = n] \in TaskType
                                     /\ [q EXCEPT !.pc = s, !.cost = n].pc = s
BY DEF TaskType, Pcs

\* How a step of the limiter moves its callers.
CallerMoves(c, s) == task' \in [Callers -> TaskType]
  /\ task'[c].pc = s /\ \A d \in Callers \ {c} : task'[d].pc = task[d].pc

\* Enter counts the caller or refuses it.
LEMMA EnterMoves ==
  ASSUME LimiterType, NEW c \in Callers, Enter(c)
  PROVE CallerMoves(c, IF waiters >= MaxWaiters THEN "refused" ELSE "counted")
<1> DEFINE s == IF waiters >= MaxWaiters THEN "refused" ELSE "counted"
<1>1. PICK cost \in Costs :
        task' = [task EXCEPT ![c] = [Idle EXCEPT !.pc = s, !.cost = cost]]
  BY DEF Enter
<1>2. s \in Pcs /\ cost \in Nat BY LimiterAssumption DEF Pcs
<1> HIDE DEF s
<1>3. Idle \in TaskType BY DEF Idle, TaskType, Pcs
<1>4. [Idle EXCEPT !.pc = s, !.cost = cost] \in TaskType
      /\ [Idle EXCEPT !.pc = s, !.cost = cost].pc = s
  BY <1>2, <1>3 DEF TaskType
<1>5. task \in [Callers -> TaskType] BY DEF LimiterType
<1>6. CallerMoves(c, s) BY <1>1, <1>4, <1>5 DEF CallerMoves
<1> QED BY <1>6 DEF s

\* A caller that is answered, refused or cancelled is idle again.
LEMMA IdleMoves ==
  ASSUME LimiterType, NEW c \in Callers, task' = [task EXCEPT ![c] = Idle]
  PROVE CallerMoves(c, "idle")
<1>1. Idle \in TaskType /\ Idle.pc = "idle" BY DEF Idle, TaskType, Pcs
<1> QED BY <1>1 DEF CallerMoves, LimiterType

\* A caller that changes its state alone.
LEMMA PcMoves ==
  ASSUME LimiterType, NEW c \in Callers, NEW s \in Pcs, task' = [task EXCEPT ![c].pc = s]
  PROVE CallerMoves(c, s)
<1>1. task[c] \in TaskType BY DEF LimiterType
<1>2. task' = [task EXCEPT ![c] = [task[c] EXCEPT !.pc = s]] OBVIOUS
<1>3. [task[c] EXCEPT !.pc = s] \in TaskType /\ [task[c] EXCEPT !.pc = s].pc = s
  BY <1>1, TaskFields
<1> QED BY <1>2, <1>3 DEF CallerMoves, LimiterType

\* Sleep puts the caller to sleep.
LEMMA SleepMoves ==
  ASSUME LimiterType, NEW c \in Callers, Sleep(c)
  PROVE CallerMoves(c, "sleeping")
<1> DEFINE n == Smaller(CeilDiv((Need(c) - Accrued) * Scale, Recovered), RecoverStep)
<1>1. task[c] \in TaskType BY DEF LimiterType
<1>2. task' = [task EXCEPT ![c] = [task[c] EXCEPT !.pc = "sleeping", !.sleep = n]]
  BY DEF Sleep, LimiterType
<1>3. n \in Int
  <2>1. Need(c) \in Int BY <1>1 DEF Need, Smaller, LimiterType, TaskType
  <2>2. Accrued \in Int /\ Accrued < Need(c) BY AccruedBounds DEF Sleep
  <2>3. Need(c) - Accrued \in Nat BY <2>1, <2>2
  <2>4. Scale \in Nat \ {0} /\ RecoverStep \in Int BY LimiterAssumption
  <2>5. (Need(c) - Accrued) * Scale \in Nat BY <2>3, <2>4
  <2>6. CeilDiv((Need(c) - Accrued) * Scale, Recovered) \in Nat
    BY <2>5, CeilNat, RecoveredBounds
  <2> QED BY <2>4, <2>6 DEF Smaller
<1> HIDE DEF n
<1>4. [task[c] EXCEPT !.pc = "sleeping", !.sleep = n] \in TaskType
      /\ [task[c] EXCEPT !.pc = "sleeping", !.sleep = n].pc = "sleeping"
  BY <1>1, <1>3, TaskFields
<1> QED BY <1>2, <1>4 DEF CallerMoves, LimiterType

\* A tick changes what no caller is doing.
LEMMA TickMoves ==
  ASSUME LimiterType, Tick
  PROVE task' \in [Callers -> TaskType] /\ \A c \in Callers : task'[c].pc = task[c].pc
<1> SUFFICES ASSUME NEW c \in Callers
             PROVE task'[c] \in TaskType /\ task'[c].pc = task[c].pc
  BY DEF Tick
<1>1. task[c] \in TaskType BY DEF LimiterType
<1>2. task'[c] = [task[c] EXCEPT !.sleep = Larger(task[c].sleep - 1, 0)] BY DEF Tick
<1> DEFINE n == Larger(task[c].sleep - 1, 0)
<1>3. n \in Int BY <1>1 DEF Larger, TaskType
<1>4. task'[c] = [task[c] EXCEPT !.sleep = n] BY <1>2
<1> HIDE DEF n
<1>5. [task[c] EXCEPT !.sleep = n] \in TaskType
      /\ [task[c] EXCEPT !.sleep = n].pc = task[c].pc
  BY <1>1, <1>3, TaskFields
<1> QED BY <1>4, <1>5

\* Everything but the callers keeps its type.
LEMMA TypeStep == ASSUME LimiterType, [LimiterNext]_limiterVars PROVE LimiterType'
<1>a. /\ Accrued \in Int /\ Recovered \in Nat \ {0}
      /\ Scale \in Int /\ RecoverStep \in Nat \ {0}
      /\ MaxAge \in Nat /\ MinRate \in Nat \ {0}
  BY AccruedBounds, RecoveredBounds, LimiterAssumption
<1>b. Refill => rate' \in Nat \ {0} /\ sinceLast' \in Nat /\ quiet' \in Nat
                /\ UNCHANGED burst
  BY <1>a DEF Refill, LimiterType
<1>1. CASE Tick
  <2>1. sinceLast' \in Nat /\ quiet' \in Nat BY <1>1, <1>a DEF Tick, Older, Smaller, LimiterType
  <2>2. burst * Scale \in Int BY <1>a DEF LimiterType
  <2>3. ideal' \in Int BY <1>1, <2>2 DEF Tick, Smaller, LimiterType
  <2> QED BY <1>1, <2>1, <2>3, TickMoves DEF Tick, LimiterType
<1>2. CASE RetuneState
  <2>1. PICK r \in Retunes :
          /\ rate' = r[1] /\ target' = r[1] /\ burst' = r[2] /\ tokens' = r[2]
          /\ ideal' = r[2] * Scale
    BY <1>2 DEF RetuneState
  <2>2. r[1] \in Nat \ {0} /\ r[2] \in Nat \ {0} BY LimiterAssumption
  <2>3. ideal' \in Int BY <1>a, <2>1, <2>2
  <2> QED BY <1>2, <2>1, <2>2, <2>3 DEF RetuneState, LimiterType
<1>3. CASE RetuneInitial BY <1>3 DEF RetuneInitial, limiter, history, LimiterType
<1>4. ASSUME NEW c \in Callers, Enter(c) PROVE LimiterType'
  <2>1. task' \in [Callers -> TaskType] BY <1>4, EnterMoves DEF Enter, CallerMoves
  <2> QED BY <1>4, <2>1 DEF Enter, limiter, history, LimiterType
<1>5. ASSUME NEW c \in Callers, Refuse(c) PROVE LimiterType'
  <2>1. task' \in [Callers -> TaskType] BY <1>5, IdleMoves DEF Refuse, CallerMoves
  <2> QED BY <1>5, <2>1 DEF Refuse, limiter, history, LimiterType
<1>6. ASSUME NEW c \in Callers, Join(c) PROVE LimiterType'
  BY <1>6, PcMoves DEF Join, Pcs, CallerMoves, limiter, history, LimiterType
<1>7. ASSUME NEW c \in Callers, Take(c) PROVE LimiterType'
  <2>1. task' \in [Callers -> TaskType] BY <1>7, PcMoves DEF Take, Pcs, CallerMoves
  <2>2. task[c].cost \in Int BY DEF LimiterType, TaskType
  <2>3. tokens' \in Int BY <1>7, <1>a, <2>2 DEF Take
  <2>4. ideal' \in Int
    <3>1. task[c].cost * Scale \in Int /\ -MaxAge * MinRate \in Int BY <1>a, <2>2
    <3> QED BY <1>7, <3>1 DEF Take, Larger, LimiterType
  <2> QED BY <1>7, <1>b, <2>1, <2>3, <2>4 DEF Take, LimiterType
<1>8. ASSUME NEW c \in Callers, Sleep(c) PROVE LimiterType'
  <2>1. task' \in [Callers -> TaskType] BY <1>8, SleepMoves DEF CallerMoves
  <2> QED BY <1>8, <1>a, <1>b, <2>1 DEF Sleep, history, LimiterType
<1>9. ASSUME NEW c \in Callers, Cancel(c) PROVE LimiterType'
  <2>1. task' \in [Callers -> TaskType] BY <1>9, IdleMoves DEF Cancel, CallerMoves
  <2> QED BY <1>9, <2>1 DEF Cancel, limiter, history, LimiterType
<1>10. ASSUME NEW c \in Callers, Answered(c) PROVE LimiterType'
  BY <1>10, IdleMoves DEF Answered, CallerMoves, limiter, history, LimiterType
<1>11. ASSUME NEW c \in Callers, OnRateLimited(c) PROVE LimiterType'
  <2>1. task' \in [Callers -> TaskType] BY <1>11, IdleMoves DEF OnRateLimited, CallerMoves
  <2>2. Halved \in Nat \ {0}
    <3>1. rate \div 2 \in Nat BY DivNat DEF LimiterType
    <3> QED BY <1>a, <3>1 DEF Halved, Larger
  <2> QED BY <1>11, <1>a, <2>1, <2>2 DEF OnRateLimited, LimiterType
<1>12. CASE UNCHANGED limiterVars BY <1>12 DEF limiterVars, limiter, history, LimiterType
<1> QED
  BY <1>1, <1>2, <1>3, <1>4, <1>5, <1>6, <1>7, <1>8, <1>9, <1>10, <1>11, <1>12
  DEF LimiterNext, Attempt

----------------------------------------------------------------------------
(* The queue. *)

Refused == {c \in Callers : task[c].pc = "refused"}

QueueInv == LimiterType /\ QueueBounded

\* The callers that wait, or are being refused, are finitely many.
LEMMA QueueFinite ==
  /\ IsFiniteSet(Waiting) /\ IsFiniteSet(Refused)
  /\ Cardinality(Waiting) \in Nat /\ Cardinality(Refused) \in Nat
<1>1. Waiting \in SUBSET Callers /\ Refused \in SUBSET Callers BY DEF Waiting, Refused
<1>2. IsFiniteSet(Callers) BY LimiterAssumption
<1>3. IsFiniteSet(Waiting) /\ IsFiniteSet(Refused) BY <1>1, <1>2, FS_Subset
<1> QED BY <1>3, FS_CardinalityType

WaitPcs == {"counted", "queued", "sleeping"}

\* A caller that moves joins or leaves each of the two sets.
LEMMA MoveCounts ==
  ASSUME LimiterType, NEW c \in Callers, NEW s \in Pcs, CallerMoves(c, s)
  PROVE /\ Cardinality(Waiting)' = Cardinality(Waiting)
             + (IF s \in WaitPcs THEN 1 ELSE 0) - (IF task[c].pc \in WaitPcs THEN 1 ELSE 0)
        /\ Cardinality(Refused)' = Cardinality(Refused)
             + (IF s = "refused" THEN 1 ELSE 0) - (IF task[c].pc = "refused" THEN 1 ELSE 0)
<1> DEFINE others == Waiting \ {c}
           rest == Refused \ {c}
<1>1. Waiting' = IF s \in WaitPcs THEN others \cup {c} ELSE others
  <2> SUFFICES ASSUME NEW d
               PROVE d \in Waiting' <=> d \in (IF s \in WaitPcs THEN others \cup {c} ELSE others)
    OBVIOUS
  <2>1. CASE d = c BY <2>1 DEF CallerMoves, Waiting, WaitPcs
  <2>2. CASE d # c BY <2>2 DEF CallerMoves, Waiting
  <2> QED BY <2>1, <2>2
<1>2. Refused' = IF s = "refused" THEN rest \cup {c} ELSE rest
  <2> SUFFICES ASSUME NEW d
               PROVE d \in Refused' <=> d \in (IF s = "refused" THEN rest \cup {c} ELSE rest)
    OBVIOUS
  <2>1. CASE d = c BY <2>1 DEF CallerMoves, Refused
  <2>2. CASE d # c BY <2>2 DEF CallerMoves, Refused
  <2> QED BY <2>1, <2>2
<1>3. /\ IsFiniteSet(others)
      /\ Cardinality(others) = Cardinality(Waiting) - (IF c \in Waiting THEN 1 ELSE 0)
  BY QueueFinite, FS_RemoveElement
<1>4. /\ IsFiniteSet(rest)
      /\ Cardinality(rest) = Cardinality(Refused) - (IF c \in Refused THEN 1 ELSE 0)
  BY QueueFinite, FS_RemoveElement
<1>5. /\ Cardinality(others \cup {c}) = Cardinality(others) + 1
      /\ Cardinality(rest \cup {c}) = Cardinality(rest) + 1
  BY <1>3, <1>4, FS_AddElement
<1>6. (c \in Waiting <=> task[c].pc \in WaitPcs) /\ (c \in Refused <=> task[c].pc = "refused")
  BY DEF Waiting, Refused, WaitPcs
<1> HIDE DEF others, rest
<1>7. /\ Cardinality(Waiting)' = Cardinality(IF s \in WaitPcs THEN others \cup {c} ELSE others)
      /\ Cardinality(Refused)' = Cardinality(IF s = "refused" THEN rest \cup {c} ELSE rest)
  BY <1>1, <1>2
<1>8. Cardinality(Waiting) \in Nat /\ Cardinality(Refused) \in Nat BY QueueFinite
<1>9. Cardinality(Waiting)' = Cardinality(Waiting)
        + (IF s \in WaitPcs THEN 1 ELSE 0) - (IF task[c].pc \in WaitPcs THEN 1 ELSE 0)
  BY <1>3, <1>5, <1>6, <1>7, <1>8
<1>10. Cardinality(Refused)' = Cardinality(Refused)
        + (IF s = "refused" THEN 1 ELSE 0) - (IF task[c].pc = "refused" THEN 1 ELSE 0)
  BY <1>4, <1>5, <1>6, <1>7, <1>8
<1> QED BY <1>9, <1>10

\* The counter is the callers that wait and those that are being refused.
CountIsExact ==
  /\ Cardinality(Waiting) <= MaxWaiters
  /\ waiters = Cardinality(Waiting) + Cardinality(Refused)

LEMMA QueueStep == ASSUME LimiterType, QueueBounded, [LimiterNext]_limiterVars PROVE QueueBounded'
<1> SUFFICES CountIsExact' BY DEF CountIsExact, QueueBounded, Refused
<1>a. CountIsExact BY DEF CountIsExact, QueueBounded, Refused
<1>b. /\ Cardinality(Waiting) \in Nat /\ Cardinality(Refused) \in Nat
      /\ MaxWaiters \in Nat
  BY QueueFinite, LimiterAssumption
<1>c. ASSUME waiters' = waiters, \A c \in Callers : task'[c].pc = task[c].pc
      PROVE CountIsExact'
  <2>1. Waiting' = Waiting /\ Refused' = Refused BY <1>c DEF Waiting, Refused
  <2> QED BY <1>a, <1>c, <2>1 DEF CountIsExact
<1>1. CASE Tick
  <2>1. waiters' = waiters BY <1>1 DEF Tick
  <2> QED BY <1>1, <1>c, <2>1, TickMoves
<1>2. CASE RetuneState BY <1>2, <1>c DEF RetuneState
<1>3. CASE RetuneInitial BY <1>3, <1>c DEF RetuneInitial
<1>4. ASSUME NEW c \in Callers, Enter(c) PROVE CountIsExact'
  <2>1. task[c].pc = "idle" /\ waiters' = waiters + 1 BY <1>4 DEF Enter
  <2>2. CASE waiters >= MaxWaiters
    <3>1. CallerMoves(c, "refused") BY <1>4, <2>2, EnterMoves
    <3>2. "refused" \in Pcs BY DEF Pcs
    <3>3. /\ Cardinality(Waiting)' = Cardinality(Waiting)
          /\ Cardinality(Refused)' = Cardinality(Refused) + 1
      BY <1>b, <2>1, <3>1, <3>2, MoveCounts DEF WaitPcs
    <3> QED BY <1>a, <1>b, <2>1, <3>3 DEF CountIsExact
  <2>3. CASE ~(waiters >= MaxWaiters)
    <3>1. CallerMoves(c, "counted") BY <1>4, <2>3, EnterMoves
    <3>2. "counted" \in Pcs BY DEF Pcs
    <3>3. /\ Cardinality(Waiting)' = Cardinality(Waiting) + 1
          /\ Cardinality(Refused)' = Cardinality(Refused)
      BY <1>b, <2>1, <3>1, <3>2, MoveCounts DEF WaitPcs
    <3> QED BY <1>a, <1>b, <2>1, <2>3, <3>3 DEF CountIsExact
  <2> QED BY <2>2, <2>3
<1>5. ASSUME NEW c \in Callers, Refuse(c) PROVE CountIsExact'
  <2>1. task[c].pc = "refused" /\ waiters' = waiters - 1 /\ CallerMoves(c, "idle")
    BY <1>5, IdleMoves DEF Refuse
  <2>2. "idle" \in Pcs BY DEF Pcs
  <2>3. /\ Cardinality(Waiting)' = Cardinality(Waiting)
        /\ Cardinality(Refused)' = Cardinality(Refused) - 1
    BY <1>b, <2>1, <2>2, MoveCounts DEF WaitPcs
  <2> QED BY <1>a, <1>b, <2>1, <2>3 DEF CountIsExact
<1>6. ASSUME NEW c \in Callers, NEW s \in WaitPcs, task[c].pc \in WaitPcs,
             CallerMoves(c, s), waiters' = waiters
      PROVE CountIsExact'
  <2>1. s \in Pcs /\ s # "refused" /\ task[c].pc # "refused" BY <1>6 DEF Pcs, WaitPcs
  <2>2. /\ Cardinality(Waiting)' = Cardinality(Waiting)
        /\ Cardinality(Refused)' = Cardinality(Refused)
    BY <1>6, <1>b, <2>1, MoveCounts
  <2> QED BY <1>a, <1>6, <2>2 DEF CountIsExact
<1>7. ASSUME NEW c \in Callers, NEW s \in {"idle", "sent"}, task[c].pc \in WaitPcs,
             CallerMoves(c, s), waiters' = waiters - 1
      PROVE CountIsExact'
  <2>1. s \in Pcs /\ s # "refused" /\ s \notin WaitPcs /\ task[c].pc # "refused"
    BY <1>7 DEF Pcs, WaitPcs
  <2>2. /\ Cardinality(Waiting)' = Cardinality(Waiting) - 1
        /\ Cardinality(Refused)' = Cardinality(Refused)
    BY <1>7, <1>b, <2>1, MoveCounts
  <2> QED BY <1>a, <1>b, <1>7, <2>2 DEF CountIsExact
<1>8. ASSUME NEW c \in Callers, task[c].pc = "sent", CallerMoves(c, "idle"),
             waiters' = waiters
      PROVE CountIsExact'
  <2>1. "idle" \in Pcs BY DEF Pcs
  <2>2. /\ Cardinality(Waiting)' = Cardinality(Waiting)
        /\ Cardinality(Refused)' = Cardinality(Refused)
    BY <1>8, <1>b, <2>1, MoveCounts DEF WaitPcs
  <2> QED BY <1>a, <1>8, <2>2 DEF CountIsExact
<1>9. ASSUME NEW c \in Callers, Join(c) PROVE CountIsExact'
  <2>1. CallerMoves(c, "queued") /\ task[c].pc = "counted" /\ waiters' = waiters
    BY <1>9, PcMoves DEF Join, Pcs
  <2> QED BY <1>6, <2>1 DEF WaitPcs
<1>10. ASSUME NEW c \in Callers, Take(c) PROVE CountIsExact'
  <2>1. CallerMoves(c, "sent") BY <1>10, PcMoves DEF Take, Pcs
  <2>2. task[c].pc \in WaitPcs /\ waiters' = waiters - 1 BY <1>10 DEF Take, HoldsTurn, WaitPcs
  <2> QED BY <1>7, <2>1, <2>2
<1>11. ASSUME NEW c \in Callers, Sleep(c) PROVE CountIsExact'
  <2>1. CallerMoves(c, "sleeping") BY <1>11, SleepMoves
  <2>2. task[c].pc \in WaitPcs /\ waiters' = waiters BY <1>11 DEF Sleep, HoldsTurn, WaitPcs
  <2> QED BY <1>6, <2>1, <2>2 DEF WaitPcs
<1>12. ASSUME NEW c \in Callers, Cancel(c) PROVE CountIsExact'
  <2>1. CallerMoves(c, "idle") BY <1>12, IdleMoves DEF Cancel
  <2>2. task[c].pc \in WaitPcs /\ waiters' = waiters - 1 BY <1>12 DEF Cancel, WaitPcs
  <2> QED BY <1>7, <2>1, <2>2
<1>13. ASSUME NEW c \in Callers, Answered(c) PROVE CountIsExact'
  BY <1>8, <1>13, IdleMoves DEF Answered
<1>14. ASSUME NEW c \in Callers, OnRateLimited(c) PROVE CountIsExact'
  BY <1>8, <1>14, IdleMoves DEF OnRateLimited
<1>15. CASE UNCHANGED limiterVars BY <1>15, <1>c DEF limiterVars
<1> QED
  BY <1>1, <1>2, <1>3, <1>4, <1>5, <1>9, <1>10, <1>11, <1>12, <1>13, <1>14, <1>15
  DEF LimiterNext, Attempt

LEMMA QueueInit == LimiterInit => QueueBounded
<1> SUFFICES ASSUME LimiterInit PROVE QueueBounded OBVIOUS
<1>1. Waiting = {} /\ Refused = {} BY DEF LimiterInit, Idle, Waiting, Refused
<1>2. Cardinality({}) = 0 BY FS_EmptySet
<1>3. waiters = 0 /\ MaxWaiters \in Nat BY LimiterAssumption DEF LimiterInit
<1>4. QueueBounded <=> CountIsExact BY DEF QueueBounded, CountIsExact, Refused
<1> QED BY <1>1, <1>2, <1>3, <1>4 DEF CountIsExact

(***************************************************************************)
(* Never more than max_waiters callers wait, and the counter leaks no      *)
(* place, for any number of callers and any order of admissions, refusals  *)
(* and cancellations.                                                      *)
(***************************************************************************)
THEOREM QueueIsBounded == LimiterFairSpec => []QueueBounded
<1>1. LimiterInit => QueueInv BY TypeInit, QueueInit DEF QueueInv
<1>2. QueueInv /\ [LimiterNext]_limiterVars => QueueInv' BY TypeStep, QueueStep DEF QueueInv
<1>3. QueueInv => QueueBounded BY DEF QueueInv
<1> QED BY <1>1, <1>2, <1>3, PTL DEF LimiterFairSpec, LimiterSpec

----------------------------------------------------------------------------
(* The rate. *)

\* The units a refill would find, before rounding.
Allowed == Smaller(tokens * Scale + sinceLast * rate, burst * Scale)

(***************************************************************************)
(* The bucket, with what the elapsed time adds to it, holds no more than   *)
(* the ideal one; the rate stays at the configured one or below, the       *)
(* recovery aims at that, and while a retune is between its two stores     *)
(* nothing has accrued or recovered.                                       *)
(***************************************************************************)
RateInv ==
  /\ LimiterType
  /\ cancelled \/ Allowed <= ideal
  /\ rate <= target
  /\ tuning # "half" => initial = target
  /\ tuning = "half" => quiet = 0

\* What a refill grants is allowed.
LEMMA AccruedAllowed ==
  ASSUME LimiterType PROVE Accrued * Scale <= Allowed /\ Accrued * Scale \in Int
                           /\ Allowed \in Int
<1>1. Scale \in Nat \ {0} BY LimiterAssumption
<1>2. /\ tokens * Scale + sinceLast * rate \in Int /\ burst * Scale \in Int
  BY <1>1 DEF LimiterType
<1>3. Accrued * Scale \in Int BY <1>1, AccruedBounds
<1> QED BY <1>2, <1>3, AccruedBounds DEF Allowed, Smaller

\* A step that leaves the bucket alone keeps the bound.
LEMMA AllowedKept ==
  ASSUME RateInv, UNCHANGED <<tokens, rate, sinceLast, burst, ideal, cancelled>>
  PROVE (cancelled \/ Allowed <= ideal)'
<1>1. Allowed' = Allowed BY DEF Allowed
<1> QED BY <1>1 DEF RateInv

\* After a refill the bucket holds what it did, without the time.
LEMMA RefillKeeps ==
  ASSUME RateInv, Refill
  PROVE /\ rate' <= target
        /\ tuning = "half" => quiet' = 0
        /\ tokens' \in Int => Allowed' <= tokens' * Scale
<1>1. LimiterType BY DEF RateInv
<1>2. rate' = Recovered /\ sinceLast' = 0 /\ burst' = burst BY DEF Refill
<1>3. rate' <= target
  <2>1. CASE tuning = "half" BY <1>1, <1>2, <2>1, RecoveredBounds DEF RateInv, LimiterType
  <2>2. CASE tuning # "half"
    <3>1. initial = target BY <2>2 DEF RateInv
    <3> QED BY <1>1, <1>2, <3>1, RecoveredBounds DEF RateInv, LimiterType, Larger
  <2> QED BY <2>1, <2>2
<1>4. tuning = "half" => quiet' = 0
  <2>1. 0 % RecoverStep = 0 BY LimiterAssumption
  <2> QED BY <2>1 DEF Refill, RateInv
<1>5. ASSUME tokens' \in Int PROVE Allowed' <= tokens' * Scale
  <2>1. Scale \in Nat \ {0} BY LimiterAssumption
  <2>2. tokens' * Scale \in Int /\ burst' * Scale \in Int
    BY <1>1, <1>2, <1>5, <2>1 DEF LimiterType
  <2>3. sinceLast' * rate' = 0
    <3>1. rate' \in Int BY <1>1, <1>2, RecoveredBounds
    <3> QED BY <1>2, <3>1
  <2> QED BY <2>2, <2>3 DEF Allowed, Smaller
<1> QED BY <1>3, <1>4, <1>5

LEMMA RateTick == ASSUME RateInv, Tick PROVE (cancelled \/ Allowed <= ideal)'
<1>1. LimiterType BY DEF RateInv
<1>2. CASE cancelled BY <1>2 DEF Tick
<1>3. CASE ~cancelled
  <2> DEFINE a == tokens * Scale + sinceLast * rate
             b == burst * Scale
             aa == tokens * Scale + sinceLast' * rate
  <2>1. Scale \in Nat \ {0} /\ MaxAge \in Nat BY LimiterAssumption
  <2>2. a \in Int /\ b \in Int /\ b >= 0 BY <1>1, <2>1 DEF LimiterType
  <2>3. aa \in Int /\ aa <= a + rate
    <3>1. sinceLast' \in Nat /\ sinceLast' <= sinceLast + 1
      BY <1>1, <2>1 DEF Tick, Older, Smaller, LimiterType
    <3>2. (sinceLast + 1) * rate = sinceLast * rate + rate BY <1>1 DEF LimiterType
    <3>3. sinceLast' * rate <= (sinceLast + 1) * rate
      <4>1. sinceLast' \in Int /\ sinceLast + 1 \in Int /\ rate \in Nat
        BY <1>1, <3>1 DEF LimiterType
      <4> QED BY <3>1, <4>1, Products
    <3>4. tokens * Scale \in Int /\ sinceLast * rate \in Int /\ sinceLast' * rate \in Int
      BY <1>1, <2>1, <3>1 DEF LimiterType
    <3> QED BY <1>1, <3>2, <3>3, <3>4 DEF LimiterType
  <2>4. Allowed = Smaller(a, b) /\ Allowed' = Smaller(aa, b) BY DEF Allowed, Tick
  <2>5. ideal' = Smaller(ideal + target, b) BY DEF Tick
  <2>6. Smaller(a, b) <= ideal BY <1>3, <2>4 DEF RateInv
  <2> HIDE DEF a, b, aa
  <2>7. Allowed' <= ideal'
    BY <1>1, <2>2, <2>3, <2>4, <2>5, <2>6 DEF RateInv, LimiterType, Smaller
  <2> QED BY <2>7
<1> QED BY <1>2, <1>3

LEMMA RateStep == ASSUME RateInv, [LimiterNext]_limiterVars PROVE RateInv'
<1>1. LimiterType /\ LimiterType' BY TypeStep DEF RateInv
<1>a. Scale \in Nat \ {0} BY LimiterAssumption
<1>b. Allowed' \in Int
  <2>1. /\ tokens' \in Int /\ sinceLast' \in Int /\ rate' \in Int /\ burst' \in Int
        /\ Scale \in Int
    BY <1>1, <1>a DEF LimiterType
  <2>2. /\ tokens' * Scale \in Int /\ sinceLast' * rate' \in Int
        /\ burst' * Scale \in Int
    BY <2>1, Products
  <2> QED BY <2>2 DEF Allowed, Smaller
<1>2. CASE Tick BY <1>1, <1>2, RateTick DEF Tick, RateInv
<1>3. CASE RetuneState
  <2>1. /\ rate' = target' /\ sinceLast' = 0 /\ quiet' = 0 /\ tuning' = "half"
        /\ ideal' = tokens' * Scale /\ tokens' = burst'
    BY <1>3 DEF RetuneState
  <2>2. sinceLast' * rate' = 0
    <3>1. rate' \in Int BY <1>1 DEF LimiterType
    <3> QED BY <2>1, <3>1, Products
  <2>3. tokens' * Scale \in Int
    <3>1. tokens' \in Int BY <1>1 DEF LimiterType
    <3> QED BY <1>a, <3>1, Products
  <2>4. Allowed' <= ideal' BY <2>1, <2>2, <2>3 DEF Allowed, Smaller
  <2> QED BY <1>1, <2>1, <2>4 DEF RateInv, LimiterType
<1>4. CASE RetuneInitial
  <2>1. (cancelled \/ Allowed <= ideal)' BY <1>4, AllowedKept DEF RetuneInitial, limiter, history
  <2> QED BY <1>1, <1>4, <2>1 DEF RetuneInitial, limiter, history, RateInv
<1>5. ASSUME UNCHANGED <<tokens, rate, sinceLast, burst, quiet, ideal, cancelled, initial,
                         target, tuning>>
      PROVE RateInv'
  <2>1. (cancelled \/ Allowed <= ideal)' BY <1>5, AllowedKept
  <2> QED BY <1>1, <1>5, <2>1 DEF RateInv
<1>6. ASSUME NEW c \in Callers,
             Enter(c) \/ Refuse(c) \/ Join(c) \/ Cancel(c) \/ Answered(c)
      PROVE RateInv'
  BY <1>5, <1>6 DEF Enter, Refuse, Join, Cancel, Answered, limiter, history
<1>7. ASSUME NEW c \in Callers, Take(c) PROVE RateInv'
  <2>1. Refill /\ UNCHANGED <<initial, target, tuning, cancelled>> BY <1>7 DEF Take
  <2>2. task[c].cost \in Int BY <1>1 DEF LimiterType, TaskType
  <2>3. Accrued \in Int BY <1>1, AccruedBounds
  <2>4. tokens' * Scale = Accrued * Scale - task[c].cost * Scale
    BY <1>7, <1>a, <2>2, <2>3 DEF Take
  <2>5. ideal - task[c].cost * Scale <= ideal'
    <3>1. task[c].cost * Scale \in Int /\ -MaxAge * MinRate \in Int
      BY <1>a, <2>2, LimiterAssumption
    <3>2. ideal' = Larger(ideal - task[c].cost * Scale, -MaxAge * MinRate) BY <1>7 DEF Take
    <3>3. \A i, p, m \in Int : i - p <= Larger(i - p, m) BY DEF Larger
    <3>4. ideal \in Int BY <1>1 DEF LimiterType
    <3> QED BY <3>1, <3>2, <3>3, <3>4
  <2>6. Accrued * Scale \in Int /\ task[c].cost * Scale \in Int /\ tokens' * Scale \in Int
    BY <1>1, <1>a, <2>2, <2>3 DEF LimiterType
  <2>7. ASSUME ~cancelled PROVE Allowed' <= ideal'
    <3>1. Accrued * Scale <= ideal
      <4>1. Allowed <= ideal BY <2>7 DEF RateInv
      <4> QED BY <1>1, <4>1, AccruedAllowed DEF LimiterType
    <3>2. Allowed' <= tokens' * Scale BY <1>1, <2>1, RefillKeeps DEF LimiterType
    <3>3. Allowed' \in Int BY <1>1, <1>b
    <3> QED BY <1>1, <2>4, <2>5, <2>6, <3>1, <3>2, <3>3 DEF LimiterType
  <2> QED BY <1>1, <2>1, <2>7, RefillKeeps DEF RateInv
<1>8. ASSUME NEW c \in Callers, Sleep(c) PROVE RateInv'
  <2>1. Refill /\ tokens' = Accrued /\ UNCHANGED <<initial, target, tuning, ideal, cancelled>>
    BY <1>8 DEF Sleep, history
  <2>2. ASSUME ~cancelled PROVE Allowed' <= ideal'
    <3>1. Allowed <= ideal BY <2>2 DEF RateInv
    <3>2. Accrued * Scale <= Allowed /\ Accrued * Scale \in Int /\ Allowed \in Int
      BY <1>1, AccruedAllowed
    <3>3. Allowed' <= tokens' * Scale BY <1>1, <2>1, RefillKeeps DEF LimiterType
    <3>4. Allowed' \in Int BY <1>1, <1>b
    <3> QED BY <1>1, <2>1, <3>1, <3>2, <3>3, <3>4 DEF LimiterType
  <2> QED BY <1>1, <2>1, <2>2, RefillKeeps DEF RateInv
<1>9. ASSUME NEW c \in Callers, OnRateLimited(c) PROVE RateInv'
  <2>1. /\ tokens' = 0 /\ sinceLast' = 0 /\ quiet' = 0
        /\ cancelled' = (cancelled \/ Accrued < 0)
        /\ UNCHANGED <<burst, initial, target, tuning, ideal>>
    BY <1>9 DEF OnRateLimited
  <2>2. rate' <= rate
    <3>1. rate \div 2 <= rate BY <1>1 DEF LimiterType
    <3> QED BY <1>1, <1>9 DEF OnRateLimited, LimiterType
  <2>3. rate' <= target' BY <1>1, <2>1, <2>2 DEF RateInv, LimiterType
  <2>4. ASSUME ~cancelled' PROVE Allowed' <= ideal'
    <3>1. ~cancelled /\ ~(Accrued < 0) BY <2>1, <2>4
    <3>2. Allowed <= ideal BY <3>1 DEF RateInv
    <3>3. Accrued * Scale >= 0
      <4>1. Accrued \in Nat BY <1>1, <3>1, AccruedBounds
      <4> QED BY <1>a, <4>1
    <3>4. ideal >= 0
      BY <1>1, <3>2, <3>3, AccruedAllowed DEF LimiterType
    <3>5. tokens' * Scale + sinceLast' * rate' = 0
      <4>1. rate' \in Int /\ Scale \in Int BY <1>1, <1>a DEF LimiterType
      <4>2. tokens' * Scale = 0 /\ sinceLast' * rate' = 0 BY <2>1, <4>1, Products
      <4> QED BY <4>2
    <3>6. burst' * Scale \in Nat
      <4>1. burst \in Nat BY <1>1 DEF LimiterType
      <4>2. burst * Scale \in Nat BY <1>a, <4>1
      <4> QED BY <2>1, <4>2
    <3> QED BY <1>1, <2>1, <3>4, <3>5, <3>6 DEF Allowed, Smaller, LimiterType
  <2> QED BY <1>1, <2>1, <2>3, <2>4 DEF RateInv
<1>10. CASE UNCHANGED limiterVars BY <1>5, <1>10 DEF limiterVars, limiter, history
<1> QED BY <1>2, <1>3, <1>4, <1>6, <1>7, <1>8, <1>9, <1>10 DEF LimiterNext, Attempt

LEMMA RateInit == LimiterInit => RateInv
<1> SUFFICES ASSUME LimiterInit PROVE RateInv OBVIOUS
<1>1. LimiterType BY TypeInit
<1>2. Scale \in Nat \ {0} BY LimiterAssumption
<1>3. Burst * Scale \in Int /\ sinceLast * rate = 0 BY <1>1, <1>2 DEF LimiterInit, LimiterType
<1>4. Allowed <= ideal BY <1>3 DEF LimiterInit, Allowed, Smaller
<1> QED BY <1>1, <1>4 DEF LimiterInit, RateInv, LimiterType

(***************************************************************************)
(* Until a 429 meets a bucket in debt, callers are granted no more than    *)
(* the configured rate, for any costs, rates and bucket sizes, however     *)
(* halvings, recoveries, refills that round down and a retune interleave.  *)
(***************************************************************************)
THEOREM RateIsSustained == LimiterFairSpec => []SustainedRate
<1>1. RateInv => SustainedRate
  <2> SUFFICES ASSUME RateInv, ~cancelled PROVE Accrued * Scale <= ideal
    BY DEF SustainedRate
  <2>1. LimiterType /\ Allowed <= ideal BY DEF RateInv
  <2> QED BY <2>1, AccruedAllowed DEF LimiterType
<1> QED BY <1>1, RateInit, RateStep, PTL DEF LimiterFairSpec, LimiterSpec

----------------------------------------------------------------------------
(* The client. *)

CallType == [pc : {"idle", "attempt", "limiter", "acquire", "reserve", "sent"},
             at : {"primary", "fallback"}, method : {"any", "alchemy"},
             generic : Nat, limited : Nat, attempt : Nat,
             primary : Errors \cup {"none"}]

LEMMA NoCallType == NoCall \in CallType
BY DEF NoCall, CallType

\* What GiveUp does to the call and the outcome counters: the call starts
\* over on the fallback or is over, and only "Budget" counts as "Budget".
LEMMA GiveUpType ==
  ASSUME TypeOK, ClientInv, NEW t \in Tasks, NEW e \in Errors, GiveUp(t, e)
  PROVE  /\ call' \in [Tasks -> CallType]
         /\ \A u \in Tasks : u # t => call'[u] = call[u]
         /\ repeats' \in Nat
         /\ ended' \in [Outcomes -> Nat]
         /\ CountsOK(t)'
         /\ e # "Budget" => ended'["Budget"] = ended["Budget"]
<1> USE ConstantsAssumption
<1>1. /\ call \in [Tasks -> CallType] /\ repeats \in Nat /\ ended \in [Outcomes -> Nat]
  BY DEF TypeOK, CallType
<1>2. CASE call[t].at = "primary" /\ Fallbackable(e) /\ call[t].method = "any" /\ HasFallback
  <2> DEFINE fresh == [NoCall EXCEPT !.pc = "attempt", !.at = "fallback", !.primary = e]
  <2>1. repeats' = repeats + 1 /\ call' = [call EXCEPT ![t] = fresh] /\ ended' = ended
    BY <1>2 DEF GiveUp
  <2>2. fresh \in CallType /\ fresh.generic = 0 /\ fresh.limited = 0 /\ fresh.attempt = 0
        /\ fresh.pc = "attempt" /\ fresh.primary = e
    BY DEF NoCall, CallType
  <2> HIDE DEF fresh
  <2>3. call'[t] = fresh
    BY <1>1, <2>1
  <2>4. CountsOK(t)'
    BY <1>2, <2>2, <2>3 DEF CountsOK, Fallbackable
  <2> QED BY <1>1, <2>1, <2>2, <2>4
<1>3. CASE ~(call[t].at = "primary" /\ Fallbackable(e) /\ call[t].method = "any" /\ HasFallback)
  <2> DEFINE returned == IF call[t].at = "primary" THEN e ELSE call[t].primary
  <2>1. /\ ended' = [ended EXCEPT ![returned] = @ + 1]
        /\ call' = [call EXCEPT ![t] = NoCall]
        /\ repeats' = repeats
    BY <1>3 DEF GiveUp
  <2>2. call[t].at # "primary" => call[t].primary \in Transient \cup {"Config", "Quota"}
    BY <1>1 DEF ClientInv, CountsOK, CallType
  <2>3. returned \in Outcomes /\ (e # "Budget" => returned # "Budget")
    BY <2>2 DEF Outcomes, Errors, Transient, Terminal
  <2> HIDE DEF returned
  <2>4. ended' \in [Outcomes -> Nat]
    BY <1>1, <2>1, <2>3
  <2>5. e # "Budget" => ended'["Budget"] = ended["Budget"]
    BY <1>1, <2>1, <2>3
  <2>6. call'[t] = NoCall
    BY <1>1, <2>1
  <2>7. CountsOK(t)'
    BY <2>6 DEF CountsOK, NoCall
  <2> QED BY <1>1, <2>1, <2>4, <2>5, <2>7, NoCallType
<1> QED BY <1>2, <1>3

\* A task that does not move keeps its counts.
LEMMA OthersKeep ==
  ASSUME NEW u \in Tasks, CountsOK(u), call'[u] = call[u]
  PROVE  CountsOK(u)'
BY DEF CountsOK

\* A step that leaves the budget and the outcomes alone keeps it exact.
LEMMA BudgetKeeps ==
  ASSUME BudgetExact, used' = used, ended'["Budget"] = ended["Budget"]
  PROVE  BudgetExact'
BY DEF BudgetExact

\* Giving up keeps the whole invariant, if "Budget" is only said when spent.
LEMMA GiveUpKeeps ==
  ASSUME TypeOK, ClientInv, NEW t \in Tasks, NEW e \in Errors, GiveUp(t, e), used' = used,
         e = "Budget" => Exhausted,
         retries' \in Nat, failures' \in Nat, calls' = calls
  PROVE  TypeOK' /\ ClientInv'
<1> USE ConstantsAssumption
<1>1. /\ call' \in [Tasks -> CallType]
      /\ \A u \in Tasks : u # t => call'[u] = call[u]
      /\ repeats' \in Nat
      /\ ended' \in [Outcomes -> Nat]
      /\ CountsOK(t)'
      /\ e # "Budget" => ended'["Budget"] = ended["Budget"]
  BY GiveUpType
<1>2. TypeOK'
  BY <1>1 DEF TypeOK, CallType
<1>3. \A u \in Tasks : CountsOK(u)'
  BY <1>1, OthersKeep DEF ClientInv
<1>4. BudgetExact'
  <2>1. CASE e = "Budget"
    <3> SUFFICES ASSUME NEW limit \in Limit
                 PROVE  used' <= limit /\ (ended'["Budget"] > 0 => used' = limit)
      BY DEF BudgetExact
    <3>1. used <= limit /\ limit \in Nat /\ used \in Nat
      BY DEF ClientInv, BudgetExact, TypeOK
    <3>2. PICK spent \in Limit : used >= spent
      BY <2>1 DEF Exhausted
    <3>3. limit = spent
      BY DEF ConstantsAssumption
    <3> QED BY <3>1, <3>2, <3>3
  <2>2. CASE e # "Budget"
    BY <1>1, <2>2, BudgetKeeps DEF ClientInv
  <2> QED BY <2>1, <2>2
<1> QED BY <1>2, <1>3, <1>4 DEF ClientInv

\* So does a step that only moves a call on, with its counts in order.
LEMMA MoveKeeps ==
  ASSUME TypeOK, ClientInv, NEW t \in Tasks, NEW c \in CallType,
         call' = [call EXCEPT ![t] = c],
         c.generic > 0 => c.generic < MaxAttempts,
         c.limited > 0 => c.limited < MaxAttempts + ExtraRetries,
         c.attempt = c.generic + c.limited + (IF c.pc \in {"idle", "attempt"} THEN 0 ELSE 1),
         c.at = "fallback" => c.primary \in Transient \cup {"Config", "Quota"},
         used' = used \/ (used' = used + 1 /\ ~Exhausted),
         ended' \in [Outcomes -> Nat], ended'["Budget"] = ended["Budget"],
         repeats' = repeats, retries' \in Nat, failures' = failures, calls' \in 0..MaxCalls
  PROVE  TypeOK' /\ ClientInv'
<1> USE ConstantsAssumption
<1>1. call \in [Tasks -> CallType] /\ used \in Nat
  BY DEF TypeOK, CallType
<1>2. call' \in [Tasks -> CallType] /\ call'[t] = c /\ \A u \in Tasks : u # t => call'[u] = call[u]
  BY <1>1
<1>3. used' \in Nat
  BY <1>1
<1>4. TypeOK'
  BY <1>2, <1>3 DEF TypeOK, CallType
<1>5. CountsOK(t)'
  BY <1>2 DEF CountsOK
<1>6. \A u \in Tasks : CountsOK(u)'
  BY <1>2, <1>5, OthersKeep DEF ClientInv
<1>7. BudgetExact'
  <2>1. CASE used' = used
    BY <2>1, BudgetKeeps DEF ClientInv
  <2>2. CASE used' = used + 1 /\ ~Exhausted
    <3> SUFFICES ASSUME NEW limit \in Limit
                 PROVE  used' <= limit /\ (ended'["Budget"] > 0 => used' = limit)
      BY DEF BudgetExact
    <3>1. used < limit /\ limit \in Nat
      BY <1>1, <2>2 DEF Exhausted
    <3>2. ~(ended["Budget"] > 0)
      BY <1>1, <3>1 DEF ClientInv, BudgetExact
    <3> QED BY <1>1, <2>2, <3>1, <3>2
  <2> QED BY <2>1, <2>2
<1> QED BY <1>4, <1>6, <1>7 DEF ClientInv

\* Counting a new attempt changes one counter of a call.
LEMMA AttemptMove ==
  ASSUME NEW c \in CallType, NEW p \in {"idle", "attempt", "limiter", "acquire", "reserve", "sent"}, NEW n \in Nat
  PROVE  LET d == [c EXCEPT !.pc = p, !.attempt = n] IN
         /\ d \in CallType
         /\ d.pc = p /\ d.attempt = n
         /\ d.generic = c.generic /\ d.limited = c.limited /\ d.at = c.at /\ d.primary = c.primary
BY DEF CallType

\* Counting a transport failure changes one counter of a call.
LEMMA GenericMove ==
  ASSUME NEW c \in CallType, NEW p \in {"idle", "attempt", "limiter", "acquire", "reserve", "sent"}, NEW n \in Nat
  PROVE  LET d == [c EXCEPT !.pc = p, !.generic = n] IN
         /\ d \in CallType
         /\ d.pc = p /\ d.generic = n
         /\ d.limited = c.limited /\ d.attempt = c.attempt /\ d.at = c.at /\ d.primary = c.primary
BY DEF CallType

\* Counting a 429 changes one counter of a call.
LEMMA LimitedMove ==
  ASSUME NEW c \in CallType, NEW p \in {"idle", "attempt", "limiter", "acquire", "reserve", "sent"}, NEW n \in Nat
  PROVE  LET d == [c EXCEPT !.pc = p, !.limited = n] IN
         /\ d \in CallType
         /\ d.pc = p /\ d.limited = n
         /\ d.generic = c.generic /\ d.attempt = c.attempt /\ d.at = c.at /\ d.primary = c.primary
BY DEF CallType

\* The invariant is inductive.
LEMMA StepKeeps == TypeOK /\ ClientInv /\ [Next]_vars => TypeOK' /\ ClientInv'
<1> SUFFICES ASSUME TypeOK, ClientInv, [Next]_vars PROVE TypeOK' /\ ClientInv'
  OBVIOUS
<1> USE ConstantsAssumption
<1>1. /\ call \in [Tasks -> CallType] /\ ended \in [Outcomes -> Nat]
      /\ retries \in Nat /\ failures \in Nat /\ calls \in 0..MaxCalls
  BY DEF TypeOK, CallType
<1>2. CASE UNCHANGED vars
  BY <1>2 DEF vars, TypeOK, ClientInv, BudgetExact, CountsOK
<1>3. ASSUME NEW t \in Tasks, Start(t) PROVE TypeOK' /\ ClientInv'
  <2>1. PICK method \in {"any", "alchemy"} :
          call' = [call EXCEPT ![t] = [NoCall EXCEPT !.pc = "attempt", !.method = method]]
    BY <1>3 DEF Start
  <2> DEFINE c == [NoCall EXCEPT !.pc = "attempt", !.method = method]
  <2>2. /\ c \in CallType /\ c.generic = 0 /\ c.limited = 0 /\ c.attempt = 0
        /\ c.pc = "attempt" /\ c.at = "primary"
    BY DEF NoCall, CallType
  <2> HIDE DEF c
  <2>3. call' = [call EXCEPT ![t] = c]
    BY <2>1 DEF c
  <2>4. calls' \in 0..MaxCalls
    BY <1>1, <1>3 DEF Start
  <2>5. UNCHANGED <<used, retries, failures, repeats, ended>>
    BY <1>3 DEF Start
  <2>6. /\ c.generic > 0 => c.generic < MaxAttempts
        /\ c.limited > 0 => c.limited < MaxAttempts + ExtraRetries
        /\ c.attempt = c.generic + c.limited + (IF c.pc \in {"idle", "attempt"} THEN 0 ELSE 1)
        /\ c.at = "fallback" => c.primary \in Transient \cup {"Config", "Quota"}
    BY <2>2
  <2> QED BY <1>1, <1>3, <2>2, <2>3, <2>4, <2>5, <2>6, MoveKeeps
<1>4. ASSUME NEW t \in Tasks, Step(t) PROVE TypeOK' /\ ClientInv'
  <2> DEFINE c == call[t]
  <2>1. c \in CallType
    BY <1>1, <1>4
  <2>2. /\ c.generic > 0 => c.generic < MaxAttempts
        /\ c.limited > 0 => c.limited < MaxAttempts + ExtraRetries
        /\ c.attempt = c.generic + c.limited + (IF c.pc \in {"idle", "attempt"} THEN 0 ELSE 1)
        /\ c.at = "fallback" => c.primary \in Transient \cup {"Config", "Quota"}
    BY <1>4 DEF ClientInv, CountsOK
  <2>3. c.generic \in Nat /\ c.limited \in Nat /\ c.attempt \in Nat
    BY <2>1 DEF CallType
  <2>e. {"Budget", "Saturated", "Transport", "RateLimited", "RetryTooLate"} \cup Terminal
          \subseteq Errors
    BY DEF Errors, Transient, Terminal
  <2>4. CASE NextAttempt(t)
    <3>1. CASE call[t].attempt > 0 /\ Exhausted
      <4>1. GiveUp(t, "Budget") /\ used' = used /\ retries' = retries /\ failures' = failures
            /\ calls' = calls
        BY <2>4, <3>1 DEF NextAttempt
      <4> QED BY <1>1, <1>4, <2>e, <3>1, <4>1, GiveUpKeeps
    <3>2. CASE ~(call[t].attempt > 0 /\ Exhausted)
      <4> DEFINE p == IF call[t].at \in Limited THEN "limiter" ELSE "reserve"
                 n == c.attempt + 1
                 d == [call[t] EXCEPT !.pc = p, !.attempt = n]
      <4>0. p \in {"idle", "attempt", "limiter", "acquire", "reserve", "sent"} /\ n \in Nat
        BY <2>3
      <4>1. call' = [call EXCEPT ![t] = d]
        BY <1>1, <1>4, <2>4, <3>2 DEF NextAttempt
      <4>2. d \in CallType
        <5> HIDE DEF p, n
        <5>1. d \in CallType
          BY <2>1, <4>0, AttemptMove
        <5> QED BY <5>1
      <4>3. /\ d.generic = c.generic /\ d.limited = c.limited /\ d.attempt = c.attempt + 1
            /\ d.pc \in {"limiter", "reserve"} /\ d.at = c.at /\ d.primary = c.primary
        <5> HIDE DEF p, n
        <5>1. /\ d.pc = p /\ d.attempt = n /\ d.at = c.at /\ d.primary = c.primary
              /\ d.generic = c.generic /\ d.limited = c.limited
          BY <2>1 DEF CallType
        <5> QED BY <5>1 DEF p, n
      <4>4. c.pc = "attempt"
        BY <2>4 DEF NextAttempt
      <4> HIDE DEF d
      <4>5. d.attempt = d.generic + d.limited + (IF d.pc \in {"idle", "attempt"} THEN 0 ELSE 1)
        BY <2>2, <2>3, <4>3, <4>4
      <4>6. /\ used' = used /\ retries' = retries /\ failures' = failures /\ calls' = calls
            /\ repeats' = repeats /\ ended' = ended
        BY <2>4, <3>2 DEF NextAttempt
      <4> QED BY <1>1, <1>4, <2>2, <4>1, <4>2, <4>3, <4>5, <4>6, MoveKeeps
    <3> QED BY <3>1, <3>2
  <2>5. ASSUME NEW pc \in {"acquire", "reserve", "sent"}, call' = [call EXCEPT ![t].pc = pc],
               c.pc \in {"limiter", "acquire", "reserve"},
               used' = used \/ (used' = used + 1 /\ ~Exhausted),
               UNCHANGED <<retries, failures, calls, repeats, ended>>
        PROVE  TypeOK' /\ ClientInv'
    <3> DEFINE d == [call[t] EXCEPT !.pc = pc]
    <3>1. call' = [call EXCEPT ![t] = d]
      BY <1>1, <1>4, <2>5
    <3>2. d \in CallType
      BY <2>1, <2>5 DEF CallType
    <3>3. /\ d.generic = c.generic /\ d.limited = c.limited /\ d.attempt = c.attempt
          /\ d.pc = pc /\ d.at = c.at /\ d.primary = c.primary
      BY <2>1 DEF CallType
    <3> HIDE DEF d
    <3>4. d.attempt = d.generic + d.limited + (IF d.pc \in {"idle", "attempt"} THEN 0 ELSE 1)
      BY <2>2, <2>3, <2>5, <3>3
    <3> QED BY <1>1, <1>4, <2>2, <2>5, <3>1, <3>2, <3>3, <3>4, MoveKeeps
  <2>6. CASE CheckBudget(t)
    <3>1. CASE Exhausted
      <4>1. GiveUp(t, "Budget") /\ used' = used /\ retries' = retries /\ failures' = failures
            /\ calls' = calls
        BY <2>6, <3>1 DEF CheckBudget
      <4> QED BY <1>1, <1>4, <2>e, <3>1, <4>1, GiveUpKeeps
    <3>2. CASE ~Exhausted
      BY <2>5, <2>6, <3>2 DEF CheckBudget
    <3> QED BY <3>1, <3>2
  <2>7. CASE Acquire(t)
    <3>1. CASE GiveUp(t, "Saturated")
      <4>1. used' = used /\ retries' = retries /\ failures' = failures /\ calls' = calls
        BY <2>7 DEF Acquire
      <4> QED BY <1>1, <1>4, <2>e, <3>1, <4>1, GiveUpKeeps
    <3>2. CASE call' = [call EXCEPT ![t].pc = "reserve"] /\ UNCHANGED <<repeats, ended>>
      BY <2>5, <2>7, <3>2 DEF Acquire
    <3> QED BY <2>7, <3>1, <3>2 DEF Acquire
  <2>8. CASE Reserve(t)
    <3>1. CASE Exhausted
      <4>1. GiveUp(t, "Budget") /\ used' = used /\ retries' = retries /\ failures' = failures
            /\ calls' = calls
        BY <2>8, <3>1 DEF Reserve
      <4> QED BY <1>1, <1>4, <2>e, <3>1, <4>1, GiveUpKeeps
    <3>2. CASE ~Exhausted
      BY <2>5, <2>8, <3>2 DEF Reserve
    <3> QED BY <3>1, <3>2
  <2>9. CASE AnswerOk(t)
    <3>1. call' = [call EXCEPT ![t] = NoCall]
      BY <2>9 DEF AnswerOk
    <3>2. /\ NoCall.generic = 0 /\ NoCall.limited = 0 /\ NoCall.attempt = 0
          /\ NoCall.pc = "idle" /\ NoCall.at = "primary"
      BY DEF NoCall
    <3>3. PICK o \in {"Ok", "FallbackOk"} : ended' = [ended EXCEPT ![o] = @ + 1]
      BY <2>9 DEF AnswerOk
    <3>4. ended' \in [Outcomes -> Nat] /\ ended'["Budget"] = ended["Budget"]
      BY <1>1, <3>3 DEF Outcomes
    <3>5. UNCHANGED <<used, retries, failures, repeats, calls>>
      BY <2>9 DEF AnswerOk
    <3> DEFINE n == NoCall
    <3>6. /\ n.generic > 0 => n.generic < MaxAttempts
          /\ n.limited > 0 => n.limited < MaxAttempts + ExtraRetries
          /\ n.attempt = n.generic + n.limited + (IF n.pc \in {"idle", "attempt"} THEN 0 ELSE 1)
          /\ n.at = "fallback" => n.primary \in Transient \cup {"Config", "Quota"}
      BY <3>2
    <3> QED BY <1>1, <1>4, <3>1, <3>4, <3>5, <3>6, NoCallType, MoveKeeps
  <2>10. CASE AnswerFinal(t)
    <3>1. PICK e \in Terminal \cup {"RetryTooLate"} : GiveUp(t, e)
      BY <2>10 DEF AnswerFinal
    <3>2. e \in Errors /\ e # "Budget"
      BY <2>e DEF Terminal
    <3>3. UNCHANGED <<used, retries, failures, calls>>
      BY <2>10 DEF AnswerFinal
    <3> QED BY <1>1, <1>4, <3>1, <3>2, <3>3, GiveUpKeeps
  <2>11. CASE AnswerTransport(t)
    <3>0. UNCHANGED <<used, retries, failures, calls>>
      BY <2>11 DEF AnswerTransport
    <3>1. CASE call[t].generic + 1 >= MaxAttempts
      <4>1. GiveUp(t, "Transport")
        BY <2>11, <3>1 DEF AnswerTransport
      <4> QED BY <1>1, <1>4, <2>e, <3>0, <4>1, GiveUpKeeps
    <3>2. CASE ~(call[t].generic + 1 >= MaxAttempts)
      <4> DEFINE p == "attempt"
                 n == c.generic + 1
                 d == [call[t] EXCEPT !.pc = p, !.generic = n]
      <4>0. p \in {"idle", "attempt", "limiter", "acquire", "reserve", "sent"} /\ n \in Nat
        BY <2>3
      <4>1. call' = [call EXCEPT ![t] = d] /\ UNCHANGED <<repeats, ended>>
        BY <1>1, <1>4, <2>11, <3>2 DEF AnswerTransport
      <4>2. d \in CallType
        <5> HIDE DEF p, n
        <5>1. d \in CallType
          BY <2>1, <4>0, GenericMove
        <5> QED BY <5>1
      <4>3. /\ d.generic = c.generic + 1 /\ d.limited = c.limited /\ d.attempt = c.attempt
            /\ d.pc = "attempt" /\ d.at = c.at /\ d.primary = c.primary
        <5> HIDE DEF p, n
        <5>1. /\ d.pc = p /\ d.generic = n /\ d.at = c.at /\ d.primary = c.primary
              /\ d.limited = c.limited /\ d.attempt = c.attempt
          BY <2>1 DEF CallType
        <5> QED BY <5>1 DEF p, n
      <4>4. c.pc = "sent"
        BY <2>11 DEF AnswerTransport
      <4>5. c.generic + 1 < MaxAttempts
        BY <2>3, <3>2
      <4> HIDE DEF d
      <4>6. d.attempt = d.generic + d.limited + (IF d.pc \in {"idle", "attempt"} THEN 0 ELSE 1)
        BY <2>2, <2>3, <4>3, <4>4
      <4> QED BY <1>1, <1>4, <2>2, <3>0, <4>1, <4>2, <4>3, <4>5, <4>6, MoveKeeps
    <3> QED BY <3>1, <3>2
  <2>12. CASE AnswerLimited(t)
    <3>0. UNCHANGED <<used, calls>>
      BY <2>12 DEF AnswerLimited
    <3>1. CASE call[t].limited + 1 >= MaxAttempts + ExtraRetries
      <4>1. GiveUp(t, "RateLimited") /\ failures' = failures + 1 /\ retries' = retries
        BY <2>12, <3>1 DEF AnswerLimited
      <4> QED BY <1>1, <1>4, <2>e, <3>0, <4>1, GiveUpKeeps
    <3>2. CASE ~(call[t].limited + 1 >= MaxAttempts + ExtraRetries)
      <4> DEFINE p == "attempt"
                 n == c.limited + 1
                 d == [call[t] EXCEPT !.pc = p, !.limited = n]
      <4>0. p \in {"idle", "attempt", "limiter", "acquire", "reserve", "sent"} /\ n \in Nat
        BY <2>3
      <4>1. /\ call' = [call EXCEPT ![t] = d] /\ retries' = retries + 1
            /\ UNCHANGED <<repeats, ended, failures>>
        BY <1>1, <1>4, <2>12, <3>2 DEF AnswerLimited
      <4>2. d \in CallType
        <5> HIDE DEF p, n
        <5>1. d \in CallType
          BY <2>1, <4>0, LimitedMove
        <5> QED BY <5>1
      <4>3. /\ d.limited = c.limited + 1 /\ d.generic = c.generic /\ d.attempt = c.attempt
            /\ d.pc = "attempt" /\ d.at = c.at /\ d.primary = c.primary
        <5> HIDE DEF p, n
        <5>1. /\ d.pc = p /\ d.limited = n /\ d.at = c.at /\ d.primary = c.primary
              /\ d.generic = c.generic /\ d.attempt = c.attempt
          BY <2>1 DEF CallType
        <5> QED BY <5>1 DEF p, n
      <4>4. c.pc = "sent"
        BY <2>12 DEF AnswerLimited
      <4>5. c.limited + 1 < MaxAttempts + ExtraRetries
        BY <2>3, <3>2
      <4> HIDE DEF d
      <4>6. d.attempt = d.generic + d.limited + (IF d.pc \in {"idle", "attempt"} THEN 0 ELSE 1)
        BY <2>2, <2>3, <4>3, <4>4
      <4>7. /\ retries' \in Nat /\ used' = used /\ calls' \in 0..MaxCalls
            /\ ended' = ended /\ repeats' = repeats /\ failures' = failures
        BY <1>1, <3>0, <4>1
      <4>8. /\ d.generic > 0 => d.generic < MaxAttempts
            /\ d.limited > 0 => d.limited < MaxAttempts + ExtraRetries
            /\ d.at = "fallback" => d.primary \in Transient \cup {"Config", "Quota"}
        BY <2>2, <4>3, <4>5
      <4>9. call' = [call EXCEPT ![t] = d]
        BY <4>1
      <4> QED BY <1>1, <1>4, <4>2, <4>6, <4>7, <4>8, <4>9, MoveKeeps
    <3> QED BY <3>1, <3>2
  <2> QED BY <1>4, <2>4, <2>6, <2>7, <2>8, <2>9, <2>10, <2>11, <2>12 DEF Step
<1> QED BY <1>2, <1>3, <1>4 DEF Next

LEMMA InitKeeps == Init => TypeOK /\ ClientInv
<1> SUFFICES ASSUME Init PROVE TypeOK /\ ClientInv
  OBVIOUS
<1> USE ConstantsAssumption DEF Init
<1>1. TypeOK
  BY NoCallType DEF TypeOK, CallType
<1>2. BudgetExact
  <2>1. "Budget" \in Outcomes
    BY DEF Outcomes, Errors
  <2>2. ended["Budget"] = 0
    BY <2>1
  <2> QED BY <2>2 DEF BudgetExact
<1>3. ASSUME NEW t \in Tasks PROVE CountsOK(t)
  <2>1. call[t] = NoCall
    OBVIOUS
  <2>2. /\ NoCall.generic = 0 /\ NoCall.limited = 0 /\ NoCall.attempt = 0
        /\ NoCall.pc = "idle" /\ NoCall.at = "primary"
    BY DEF NoCall
  <2> QED BY <2>1, <2>2 DEF CountsOK
<1> QED BY <1>1, <1>2, <1>3 DEF ClientInv

\* Every variable of the client keeps its type.
THEOREM TypeCorrect == Spec => []TypeOK
BY InitKeeps, StepKeeps, PTL DEF Spec

\* The request budget is exact under any interleaving of calls: never
\* overspent, and never reported spent while a request is left.
THEOREM BudgetIsExact == Spec => []BudgetExact
<1>1. ClientInv => BudgetExact
  BY DEF ClientInv
<1> QED BY <1>1, InitKeeps, StepKeeps, PTL DEF Spec

\* A call makes at most 2 * max_attempts + extra - 1 attempts per endpoint,
\* in whatever order 429s and other failures come.
THEOREM AttemptsAreBounded == Spec => []AttemptsBounded
<1>1. TypeOK /\ ClientInv => AttemptsBounded
  <2> SUFFICES ASSUME TypeOK, ClientInv, NEW t \in Tasks, call[t].attempt > 1
               PROVE  call[t].attempt < GenericAllowance + MaxAttempts + ExtraRetries
    BY DEF AttemptsBounded
  <2> DEFINE g == call[t].generic
             l == call[t].limited
             a == call[t].attempt
  <2>1. g \in Nat /\ l \in Nat /\ a \in Nat
    BY DEF TypeOK
  <2>2. /\ g > 0 => g < MaxAttempts
        /\ l > 0 => l < MaxAttempts + ExtraRetries
        /\ a <= g + l + 1
    BY <2>1 DEF ClientInv, CountsOK
  <2> HIDE DEF g, l, a
  <2>3. a > 1 => a < GenericAllowance + MaxAttempts + ExtraRetries
    <3>1. MaxAttempts \in Nat /\ ExtraRetries \in Nat
      BY ConstantsAssumption
    <3>2. CASE g = 0
      BY <2>1, <2>2, <3>1, <3>2 DEF GenericAllowance
    <3>3. CASE g > 0
      BY <2>1, <2>2, <3>1, <3>3 DEF GenericAllowance
    <3> QED BY <2>1, <3>2, <3>3
  <2> QED BY <2>3 DEF a
<1> QED BY <1>1, InitKeeps, StepKeeps, PTL DEF Spec
=============================================================================
