----------------------------- MODULE RpcClient -----------------------------
(***************************************************************************)
(* The JSON-RPC client every provider goes through                         *)
(* (crates/scout-rpc/src/client.rs): calls of several tasks share one      *)
(* request budget, retry transient failures with separate allowances for   *)
(* 429s and for the rest, and are repeated once on a fallback endpoint.    *)
(* Each await of a call is a step, so that calls interleave between the    *)
(* budget check, the wait for the limiter, the reservation and the answer. *)
(***************************************************************************)
EXTENDS Integers

CONSTANTS
  Tasks,         \* concurrent users of the client and its clones
  Limit,         \* budget.limit, the set of its value ({}: unlimited)
  MaxAttempts,   \* retry.max_attempts
  ExtraRetries,  \* RATE_LIMIT_EXTRA_RETRIES
  Limited,       \* the endpoints ("primary", "fallback") that have a limiter
  HasFallback,   \* a fallback endpoint is configured
  MaxCalls       \* bound: calls started

ASSUME ConstantsAssumption ==
  /\ Limit \in SUBSET Nat
  /\ \A c, d \in Limit : c = d
  /\ MaxAttempts \in Nat
  /\ ExtraRetries \in Nat
  /\ HasFallback \in BOOLEAN
  /\ MaxCalls \in Nat

\* What an attempt may answer, by how map_status and try_once classify it.
\* RateLimited has its retry_after absent or short enough, RetryTooLate one
\* above max_retry_after.
Transient == {"Transport", "RateLimited", "RetryTooLate"}
\* Config: 401 and 403.  Quota: capacity, quota or credit texts, HTTP 402.
\* Request: other 4xx, JSON-RPC errors, malformed or too large bodies.
Terminal == {"Config", "Quota", "Request"}
Errors == Transient \cup Terminal \cup {"Saturated", "Budget"}

VARIABLES
  call,     \* the call each task is in
  used,     \* budget.used
  retries,  \* budget.rate_limit_retries
  failures, \* budget.rate_limit_failures
  repeats,  \* budget.fallback_calls
  calls,    \* calls started so far
  ended     \* history: how often each outcome was returned, and on which
            \* endpoint Ok was answered

vars == <<call, used, retries, failures, repeats, calls, ended>>

Outcomes == {"Ok", "FallbackOk"} \cup Errors

NoCall == [pc |-> "idle", at |-> "primary", method |-> "any", generic |-> 0,
           limited |-> 0, attempt |-> 0, primary |-> "none"]

Init ==
  /\ call = [t \in Tasks |-> NoCall]
  /\ used = 0
  /\ retries = 0
  /\ failures = 0
  /\ repeats = 0
  /\ calls = 0
  /\ ended = [o \in Outcomes |-> 0]

\* is_exhausted
Exhausted == \E limit \in Limit : used >= limit

\* is_fallbackable
Fallbackable(e) == e \in Transient \cup {"Config", "Quota"}

----------------------------------------------------------------------------
\* call_with: a method of the primary provider alone is never repeated.
Start(t) ==
  /\ call[t].pc = "idle"
  /\ calls < MaxCalls
  /\ calls' = calls + 1
  /\ \E method \in {"any", "alchemy"} :
       call' = [call EXCEPT ![t] = [NoCall EXCEPT !.pc = "attempt", !.method = method]]
  /\ UNCHANGED <<used, retries, failures, repeats, ended>>

\* call_endpoint gave up on the endpoint: the call ends with error e, or is
\* repeated on the fallback.  The fallback's own error is dropped.
GiveUp(t, e) ==
  IF call[t].at = "primary" /\ Fallbackable(e) /\ call[t].method = "any" /\ HasFallback
  THEN /\ repeats' = repeats + 1
       /\ call' = [call EXCEPT ![t] = [NoCall EXCEPT !.pc = "attempt", !.at = "fallback",
                                                     !.primary = e]]
       /\ UNCHANGED ended
  ELSE LET returned == IF call[t].at = "primary" THEN e ELSE call[t].primary
       IN  /\ ended' = [ended EXCEPT ![returned] = @ + 1]
           /\ call' = [call EXCEPT ![t] = NoCall]
           /\ UNCHANGED repeats

\* The top of the retry loop: a spent budget ends it before the wait.
NextAttempt(t) ==
  /\ call[t].pc = "attempt"
  /\ IF call[t].attempt > 0 /\ Exhausted
     THEN GiveUp(t, "Budget")
     ELSE /\ call' = [call EXCEPT ![t] = [@ EXCEPT
                       !.pc = IF call[t].at \in Limited THEN "limiter" ELSE "reserve",
                       !.attempt = call[t].attempt + 1]]
          /\ UNCHANGED <<repeats, ended>>
  /\ UNCHANGED <<used, retries, failures, calls>>

\* try_once: "do not queue for a request the budget would refuse anyway".
CheckBudget(t) ==
  /\ call[t].pc = "limiter"
  /\ IF Exhausted
     THEN GiveUp(t, "Budget")
     ELSE /\ call' = [call EXCEPT ![t].pc = "acquire"]
          /\ UNCHANGED <<repeats, ended>>
  /\ UNCHANGED <<used, retries, failures, calls>>

\* Mutated form of Acquire: a full queue is tried again, without a bound.
AcquireTriesAgain(t) ==
  /\ call[t].pc = "acquire"
  /\ call' = [call EXCEPT ![t].pc = "limiter"]
  /\ UNCHANGED <<used, retries, failures, repeats, calls, ended>>

\* The limiter grants the request, or its queue is full.
Acquire(t) ==
  /\ call[t].pc = "acquire"
  /\ \/ /\ call' = [call EXCEPT ![t].pc = "reserve"]
        /\ UNCHANGED <<repeats, ended>>
     \/ GiveUp(t, "Saturated")
  /\ UNCHANGED <<used, retries, failures, calls>>

\* Mutated form of Reserve: the budget was checked before the limiter.
ReserveUnchecked(t) ==
  /\ call[t].pc = "reserve"
  /\ used' = used + 1
  /\ call' = [call EXCEPT ![t].pc = "sent"]
  /\ UNCHANGED <<retries, failures, repeats, calls, ended>>

\* try_reserve, then the request is sent.
Reserve(t) ==
  /\ call[t].pc = "reserve"
  /\ IF Exhausted
     THEN GiveUp(t, "Budget") /\ UNCHANGED used
     ELSE /\ used' = used + 1
          /\ call' = [call EXCEPT ![t].pc = "sent"]
          /\ UNCHANGED <<repeats, ended>>
  /\ UNCHANGED <<retries, failures, calls>>

AnswerOk(t) ==
  /\ call[t].pc = "sent"
  /\ ended' = [ended EXCEPT ![IF call[t].at = "primary" THEN "Ok" ELSE "FallbackOk"] = @ + 1]
  /\ call' = [call EXCEPT ![t] = NoCall]
  /\ UNCHANGED <<used, retries, failures, repeats, calls>>

\* Terminal answers, and a 429 asking for a longer wait than allowed.
AnswerFinal(t) ==
  /\ call[t].pc = "sent"
  /\ \E e \in Terminal \cup {"RetryTooLate"} : GiveUp(t, e)
  /\ UNCHANGED <<used, retries, failures, calls>>

\* Network failures and 5xx spend max_attempts.
AnswerTransport(t) ==
  /\ call[t].pc = "sent"
  /\ IF call[t].generic + 1 >= MaxAttempts
     THEN GiveUp(t, "Transport")
     ELSE /\ call' = [call EXCEPT ![t] = [@ EXCEPT !.pc = "attempt", !.generic = call[t].generic + 1]]
          /\ UNCHANGED <<repeats, ended>>
  /\ UNCHANGED <<used, retries, failures, calls>>

\* Mutated form of AnswerLimited: a 429 resets the other allowance.
AnswerLimitedResets(t) ==
  /\ call[t].pc = "sent"
  /\ IF call[t].limited + 1 >= MaxAttempts + ExtraRetries
     THEN GiveUp(t, "RateLimited") /\ failures' = failures + 1 /\ UNCHANGED retries
     ELSE /\ call' = [call EXCEPT ![t] = [@ EXCEPT !.pc = "attempt", !.limited = call[t].limited + 1,
                                                   !.generic = 0]]
          /\ retries' = retries + 1
          /\ UNCHANGED <<repeats, ended, failures>>
  /\ UNCHANGED <<used, calls>>

\* 429s spend their own allowance, max_attempts plus extra retries.
AnswerLimited(t) ==
  /\ call[t].pc = "sent"
  /\ IF call[t].limited + 1 >= MaxAttempts + ExtraRetries
     THEN GiveUp(t, "RateLimited") /\ failures' = failures + 1 /\ UNCHANGED retries
     ELSE /\ call' = [call EXCEPT ![t] = [@ EXCEPT !.pc = "attempt", !.limited = call[t].limited + 1]]
          /\ retries' = retries + 1
          /\ UNCHANGED <<repeats, ended, failures>>
  /\ UNCHANGED <<used, calls>>

Step(t) ==
  \/ NextAttempt(t) \/ CheckBudget(t) \/ Acquire(t) \/ Reserve(t)
  \/ AnswerOk(t) \/ AnswerFinal(t) \/ AnswerTransport(t) \/ AnswerLimited(t)

Next == \E t \in Tasks : Start(t) \/ Step(t)

Spec == Init /\ [][Next]_vars

\* Every wait is bounded: the sleep, the limiter's queue, the request (it
\* has a timeout).
FairSpec == Spec /\ \A t \in Tasks : WF_vars(Step(t))

----------------------------------------------------------------------------
TypeOK ==
  /\ call \in [Tasks -> [pc : {"idle", "attempt", "limiter", "acquire", "reserve", "sent"},
                         at : {"primary", "fallback"}, method : {"any", "alchemy"},
                         generic : Nat, limited : Nat, attempt : Nat,
                         primary : Errors \cup {"none"}]]
  /\ used \in Nat /\ retries \in Nat /\ failures \in Nat /\ repeats \in Nat
  /\ calls \in 0..MaxCalls
  /\ ended \in [Outcomes -> Nat]

(***************************************************************************)
(* The request budget is exact: calls that passed the same check before    *)
(* waiting for the limiter never send more requests than it allows, and no *)
(* call reports it as spent while a request is left.                       *)
(***************************************************************************)
BudgetExact ==
  \A limit \in Limit :
    /\ used <= limit
    /\ ended["Budget"] > 0 => used = limit

(***************************************************************************)
(* The attempts of one call at one endpoint are bounded, however network   *)
(* failures and 429s alternate: the last one of either kind ends the call. *)
(***************************************************************************)
GenericAllowance == IF MaxAttempts = 0 THEN 1 ELSE MaxAttempts

AttemptsBounded ==
  \A t \in Tasks :
    call[t].attempt > 1 =>
      call[t].attempt < GenericAllowance + MaxAttempts + ExtraRetries

\* Every call returns.
CallsReturn == \A t \in Tasks : (call[t].pc # "idle") ~> (call[t].pc = "idle")

----------------------------------------------------------------------------
\* The strengthening: every attempt but the current one failed and was
\* counted against one of the two allowances.
CountsOK(t) ==
  /\ call[t].generic > 0 => call[t].generic < MaxAttempts
  /\ call[t].limited > 0 => call[t].limited < MaxAttempts + ExtraRetries
  /\ call[t].attempt = call[t].generic + call[t].limited
                       + (IF call[t].pc \in {"idle", "attempt"} THEN 0 ELSE 1)
  /\ call[t].at = "fallback" => call[t].primary \in Transient \cup {"Config", "Quota"}

ClientInv == BudgetExact /\ \A t \in Tasks : CountsOK(t)
=============================================================================
