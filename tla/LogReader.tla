------------------------------ MODULE LogReader ------------------------------
(***************************************************************************)
(* What a caller of EvmRpcClient::get_logs relies on                       *)
(* (crates/scout-providers/src/evm_rpc.rs): the blocks of the range are    *)
(* delivered in ascending order, a run of them at a time and each once;    *)
(* the call returns Ok when none is left, and an error only before that.   *)
(* How the range is cut into requests is not visible here.                 *)
(***************************************************************************)
EXTENDS Integers

CONSTANTS
  MaxBlock,  \* bound: the highest block asked for
  Errors     \* the errors a call may return

VARIABLES
  from, to,  \* the requested range, inclusive
  next,      \* the lowest block not delivered yet
  out,       \* block -> how often its logs were delivered
  status     \* "running", "ok", or the error returned

vars == <<from, to, next, out, status>>

Init ==
  /\ from \in 0..MaxBlock
  /\ to \in 0..MaxBlock
  /\ next = from
  /\ out = [b \in from..to |-> 0]
  /\ status = "running"

\* Some blocks, at least one, are delivered.
Deliver ==
  /\ status = "running"
  /\ next <= to
  /\ next' \in (next + 1)..(to + 1)
  /\ out' = [b \in from..to |-> IF next <= b /\ b < next' THEN out[b] + 1 ELSE out[b]]
  /\ UNCHANGED status

Return ==
  /\ status = "running"
  /\ next > to
  /\ status' = "ok"
  /\ UNCHANGED <<next, out>>

Fail ==
  /\ status = "running"
  /\ next <= to
  /\ status' \in Errors
  /\ UNCHANGED <<next, out>>

Next == (Deliver \/ Return \/ Fail) /\ UNCHANGED <<from, to>>

Spec == Init /\ [][Next]_vars
=============================================================================
