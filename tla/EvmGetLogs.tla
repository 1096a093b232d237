----------------------------- MODULE EvmGetLogs -----------------------------
(***************************************************************************)
(* EvmRpcClient::get_logs (crates/scout-providers/src/evm_rpc.rs): one     *)
(* call reads the logs of blocks from..to with as many eth_getLogs         *)
(* requests as the endpoint's limits make necessary.  The windows still to *)
(* read are a stack, the lowest on top; a window the node refuses is split *)
(* and both parts go back.  The node's answers are arbitrary: it may name  *)
(* any span, name none, name one that does not help, or time out.          *)
(* An Option is the set of its value: {} is None, {x} is Some(x).          *)
(***************************************************************************)
EXTENDS Integers, Sequences

CONSTANTS
  MaxBlock,        \* bound: the highest block asked for
  MaxLogs,         \* cfg.max_logs
  MaxSplits,       \* cfg.max_splits
  MaxLogRequests,  \* cfg.max_log_requests, an Option
  LogsMaxSpan,     \* cfg.logs_max_span, an Option
  AnswerSizes,     \* numbers of logs one answer may hold
  NamedSpans       \* spans a range error may name

ASSUME ConstantsAssumption ==
  /\ MaxBlock \in Nat
  /\ MaxLogs \in Nat
  /\ MaxSplits \in Nat
  /\ MaxLogRequests \in SUBSET Nat
  /\ LogsMaxSpan \in SUBSET (Nat \ {0})
  /\ \A c, d \in LogsMaxSpan : c = d
  /\ AnswerSizes \in SUBSET Nat
  /\ NamedSpans \in SUBSET Nat

VARIABLES
  from, to,  \* the requested range, inclusive
  stack,     \* windows <<a, b>> still to read; the last one is the top
  out,       \* block -> how often its logs were appended to `out`
  collected, \* out.len()
  attempts,  \* eth_getLogs requests issued
  requests,  \* answered requests
  splits,    \* windows split after an error
  spanCap,   \* span_cap: the largest span the endpoint is known to serve
  status     \* "running", "ok", or the error returned

vars == <<from, to, stack, out, collected, attempts, requests, splits, spanCap, status>>

Errors == {"TooManyLogRequests", "TooManyLogs", "Provider", "RangeUnresolvable",
           "TooManySplits"}

Top == stack[Len(stack)]
Rest == SubSeq(stack, 1, Len(stack) - 1)

\* Mutated form of Cut: the remainder is read first.
CutHighFirst(n) == Rest \o <<<<Top[1], Top[1] + n - 1>>, <<Top[1] + n, Top[2]>>>>

\* The top window replaced by its first n blocks and the remainder.
Cut(n) == Rest \o <<<<Top[1] + n, Top[2]>>, <<Top[1], Top[1] + n - 1>>>>

\* Mutated form of Halve: mid belongs to both halves.
HalveOverlapping == Rest \o <<<<Top[1] + (Top[2] - Top[1]) \div 2, Top[2]>>,
                              <<Top[1], Top[1] + (Top[2] - Top[1]) \div 2>>>>

Halve == Cut((Top[2] - Top[1]) \div 2 + 1)

Fits == \A cap \in spanCap : Top[2] - Top[1] < cap

Init ==
  /\ from \in 0..MaxBlock
  /\ to \in 0..MaxBlock
  /\ stack = <<<<from, to>>>>
  /\ out = [b \in from..to |-> 0]
  /\ collected = 0
  /\ attempts = 0
  /\ requests = 0
  /\ splits = 0
  /\ spanCap = LogsMaxSpan
  /\ status = "running"

\* while let Some((a, b)) = stack.pop()
Popping == status = "running" /\ stack # <<>>

Finish ==
  /\ status = "running"
  /\ stack = <<>>
  /\ status' = "ok"
  /\ UNCHANGED <<stack, out, collected, attempts, requests, splits, spanCap>>

\* Mutated form of SkipEmpty: the window is looked at, not popped.
SkipEmptyPeeks ==
  /\ Popping
  /\ Top[1] > Top[2]
  /\ stack' = stack
  /\ UNCHANGED <<out, collected, attempts, requests, splits, spanCap, status>>

\* Only an empty range puts an empty window on the stack.
SkipEmpty ==
  /\ Popping
  /\ Top[1] > Top[2]
  /\ stack' = Rest
  /\ UNCHANGED <<out, collected, attempts, requests, splits, spanCap, status>>

\* A window wider than the known span is cut without asking.
CutToSpan ==
  /\ Popping
  /\ Top[1] <= Top[2]
  /\ \E cap \in spanCap : /\ Top[2] - Top[1] >= cap
                          /\ stack' = Cut(cap)
  /\ UNCHANGED <<out, collected, attempts, requests, splits, spanCap, status>>

AtRequestLimit == \E limit \in MaxLogRequests : attempts >= limit

TooManyLogRequests ==
  /\ Popping
  /\ Top[1] <= Top[2]
  /\ Fits
  /\ AtRequestLimit
  /\ status' = "TooManyLogRequests"
  /\ UNCHANGED <<stack, out, collected, attempts, requests, splits, spanCap>>

\* A request for the top window is issued.  The window stays in the model's
\* stack until the answer decides what takes its place.
Request ==
  /\ Popping
  /\ Top[1] <= Top[2]
  /\ Fits
  /\ ~AtRequestLimit
  /\ attempts' = attempts + 1

\* The logs of the window are added, unless they would exceed the cap.
Answered ==
  /\ Request
  /\ \E n \in AnswerSizes :
       IF collected + n > MaxLogs
       THEN /\ status' = "TooManyLogs"
            /\ UNCHANGED <<stack, out, collected, requests>>
       ELSE /\ stack' = Rest
            /\ out' = [b \in from..to |->
                         IF Top[1] <= b /\ b <= Top[2] THEN out[b] + 1 ELSE out[b]]
            /\ collected' = collected + n
            /\ requests' = requests + 1
            /\ UNCHANGED status
  /\ UNCHANGED <<splits, spanCap>>

\* Mutated form of TransportError: single blocks are halved too.
TransportErrorUnguarded ==
  /\ Request
  /\ IF splits >= MaxSplits
     THEN status' = "Provider" /\ UNCHANGED <<stack, splits>>
     ELSE stack' = Halve /\ splits' = splits + 1 /\ UNCHANGED status
  /\ UNCHANGED <<out, collected, requests, spanCap>>

\* The node did not serve the window in time, after the client's retries.
TransportError ==
  /\ Request
  /\ IF Top[1] = Top[2] \/ splits >= MaxSplits
     THEN status' = "Provider" /\ UNCHANGED <<stack, splits>>
     ELSE stack' = Halve /\ splits' = splits + 1 /\ UNCHANGED status
  /\ UNCHANGED <<out, collected, requests, spanCap>>

\* Mutated form of Narrowed: a suggestion is believed even when it is no
\* narrower than the failed window.
NarrowedBySuggestion(suggested, announced) ==
  IF suggested # {}
  THEN \E n \in suggested : stack' = Cut(n) /\ spanCap' = {n}
  ELSE stack' = Halve /\ UNCHANGED spanCap

\* suggested_range: the length of the range [sa, sb] an error text says
\* should work (sa <= sb); announced spans are numbers read from the text.
SuggestedRanges == {{}} \cup {{n} : n \in NamedSpans \ {0}}
AnnouncedSpans == {{}} \cup {{n} : n \in NamedSpans}

\* capped_span_from_error: a suggested range comes before an announced span.
CappedSpan(suggested, announced) == IF suggested # {} THEN suggested ELSE announced

\* The top window narrowed by what the error text names: a suggested range
\* shorter than it, an announced span shorter than it, or half.
Narrowed(suggested, announced) ==
  LET width == Top[2] - Top[1] + 1
      cap   == CappedSpan(suggested, announced)
  IN  IF \E n \in cap : 0 < n /\ n < width
      THEN \E n \in cap :
             /\ stack' = Cut(n)
             /\ spanCap' = IF suggested # {} \/ \A c \in spanCap : n <= c
                           THEN {n} ELSE spanCap
      ELSE stack' = Halve /\ UNCHANGED spanCap

\* is_range_or_cap_error: too wide a range, too many results.
RangeError ==
  /\ Request
  /\ \E suggested \in SuggestedRanges, announced \in AnnouncedSpans :
          IF Top[1] = Top[2] \/ splits >= MaxSplits
          THEN /\ status' = IF Top[1] = Top[2] THEN "RangeUnresolvable" ELSE "TooManySplits"
               /\ UNCHANGED <<stack, splits, spanCap>>
          ELSE /\ Narrowed(suggested, announced)
               /\ splits' = splits + 1
               /\ UNCHANGED status
  /\ UNCHANGED <<out, collected, requests>>

\* Any other error, an exhausted budget, or logs that do not parse.
OtherError ==
  /\ Request
  /\ status' = "Provider"
  /\ UNCHANGED <<stack, out, collected, requests, splits, spanCap>>

Next ==
  /\ \/ SkipEmpty \/ CutToSpan \/ TooManyLogRequests \/ Answered
     \/ TransportError \/ RangeError \/ OtherError \/ Finish
  /\ UNCHANGED <<from, to>>

Spec == Init /\ [][Next]_vars

\* Every request ends with an answer or an error of the RPC client.
FairSpec == Spec /\ WF_vars(Next)

----------------------------------------------------------------------------
Width == IF from <= to THEN to - from + 1 ELSE 0

TypeOK ==
  /\ from \in 0..MaxBlock
  /\ to \in 0..MaxBlock
  /\ stack \in Seq(Int \X Int)
  /\ out \in [from..to -> Nat]
  /\ collected \in 0..MaxLogs
  /\ attempts \in Nat
  /\ requests \in Nat
  /\ splits \in 0..MaxSplits
  /\ spanCap \in SUBSET (Nat \ {0})
  /\ status \in {"running", "ok"} \cup Errors

(***************************************************************************)
(* A successful call has read every block of the range exactly once,       *)
(* whatever spans the node named and however the windows were split:       *)
(* callers move their cursors past the whole range on its word.            *)
(***************************************************************************)
EveryBlockReadOnce == status = "ok" => \A b \in from..to : out[b] = 1

(***************************************************************************)
(* The requests of one call are bounded by the range alone, even with no   *)
(* request limit and splits left: 2n - 1 for n blocks.                     *)
(***************************************************************************)
RequestsBounded == attempts = 0 \/ attempts < 2 * Width

\* Once a span is known it only ever gets narrower, so no later window
\* exceeds what the operator configured or the endpoint announced.
SpanCapNeverGrows ==
  [][\A c \in spanCap : \E d \in spanCap' : d <= c]_vars

\* Whatever the node answers, the call returns.
Returns == <>(status # "running")

----------------------------------------------------------------------------
\* The lowest block not read yet.
Frontier == IF stack = <<>> THEN to + 1 ELSE Top[1]

(***************************************************************************)
(* The stack of windows implements a reader that delivers the range in     *)
(* ascending order, each block once, and fails only while blocks are left, *)
(* as the comment of get_logs says ("explicit stack, ascending order"):    *)
(* the windows and their splits are invisible to the caller.               *)
(***************************************************************************)
Reader == INSTANCE LogReader WITH next <- IF from > to THEN from ELSE Frontier

ReadsInOrder == Reader!Spec

----------------------------------------------------------------------------
(***************************************************************************)
(* The strengthening: the stack tiles the blocks not yet read, the lowest  *)
(* window on top, and every window holds a block unless the range was      *)
(* empty from the start.                                                   *)
(***************************************************************************)
Tiled ==
  /\ \A i \in 1..Len(stack) : from <= stack[i][1] /\ stack[i][1] <= stack[i][2]
  /\ \A i \in 1..Len(stack) : stack[i][2] + i <= to + 1
  /\ \A i \in 1..(Len(stack) - 1) : stack[i][1] = stack[i + 1][2] + 1
  /\ stack # <<>> => stack[1][2] = to

Counted ==
  /\ requests + from <= Frontier
  /\ status = "running" => splits < requests + Len(stack) \/ stack = <<>>
  /\ status = "running" => attempts = requests + splits
  /\ splits + from <= to
  /\ RequestsBounded
  /\ status = "ok" => stack = <<>>

LogsInv ==
  /\ \A c, d \in spanCap : c = d
  /\ from <= to => /\ Tiled
                  /\ Counted
                  /\ \A b \in from..to : out[b] = IF b < Frontier THEN 1 ELSE 0
  /\ from > to => attempts = 0 /\ (stack = <<>> \/ stack = <<<<from, to>>>>)
=============================================================================
