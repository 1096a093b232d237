-------------------------------- MODULE Rpc --------------------------------
(***************************************************************************)
(* The JSON-RPC client and the limiter it waits in (crates/scout-rpc).     *)
(* The client sees of the limiter only that a wait ends, granted or        *)
(* refused, which is what NeverStuck and Refuse of RateLimiter say; the    *)
(* limiter sees of the client only callers.  So a behaviour follows one    *)
(* of the two, and the other rests.                                        *)
(***************************************************************************)
EXTENDS RateLimiter, RpcClient

VARIABLE part  \* the part that is followed: "limiter" or "client"

rpcVars == <<part, limiterVars, vars>>

RpcInit == part \in {"limiter", "client"} /\ LimiterInit /\ Init

LimiterPart == part = "limiter" /\ LimiterNext /\ UNCHANGED <<part, vars>>
ClientPart == part = "client" /\ Next /\ UNCHANGED <<part, limiterVars>>

RpcSpec == RpcInit /\ [][LimiterPart \/ ClientPart]_rpcVars

\* The fairness of LimiterFairSpec and of FairSpec, for the part followed.
RpcFairSpec ==
  /\ RpcSpec
  /\ WF_limiterVars(part = "limiter" /\ Tick)
  /\ WF_limiterVars(part = "limiter" /\ RetuneInitial)
  /\ \A c \in Callers : WF_limiterVars(part = "limiter" /\ Attempt(c))
  /\ \A t \in Tasks : WF_vars(part = "client" /\ Step(t))
=============================================================================
