----------------------------- MODULE EvmIngest -----------------------------
(***************************************************************************)
(* Ingestion of one EVM event source of the dev tracker (dev-tracker       *)
(* `run`, `ingest` and `backfill`): crates/scout-devtracker/evm_ingest.rs, *)
(* its callers in bins/dev-tracker and the tables of crates/scout-devdb.   *)
(*                                                                         *)
(* Forward passes read from the source's cursor up to head minus           *)
(* confirmations; backfill steps read downwards from the backfill cursor   *)
(* to a floor.  Each pass is a chain of awaits: read the head, read the    *)
(* cursor, fetch the logs, commit the facts, store the cursor.  Any of     *)
(* them may fail, and the whole pass may be cancelled or crash between     *)
(* two of them; several processes may run the same code at once.           *)
(***************************************************************************)
EXTENDS Integers

CONSTANTS
  Forward,        \* processes running ingest_source (daemon, `ingest`)
  Backfill,       \* processes running backfill_evm_chain
  Tokens,         \* tokens a launch or migration event may name
  NoFact,         \* a block without an event of this source
  Confirmations,  \* blocks behind the head treated as final
  StartBack,      \* start_hours_back in blocks: reach of a first pass
  Span,           \* --days in blocks: reach of a backfill
  StepCap,        \* --evm-step-blocks
  MinStep,        \* MIN_STEP_BLOCKS
  MaxLag,         \* blocks the chain grows during one forward pass, at most
  InitHead,       \* the newest block when the first process starts
  MaxHead,        \* bound: the chain stops growing here
  MaxFailures     \* bound: failed or cancelled passes

\* The cursor of a source that was never ingested, a token never stored.
None == -1

ASSUME ConstantsAssumption ==
  /\ Confirmations \in Nat
  /\ StartBack \in Nat
  /\ Span \in Nat
  /\ StepCap \in Nat \ {0}
  /\ MinStep \in Nat \ {0}
  /\ MaxLag \in Nat
  /\ InitHead \in Nat
  /\ Confirmations <= InitHead
  /\ MaxHead \in Nat
  /\ InitHead <= MaxHead
  /\ MaxFailures \in Nat
  /\ Forward \cap Backfill = {}
  /\ NoFact \notin Tokens

\* A forward pass ends before the chain outgrows the reach of a first pass
\* (start_hours_back is counted in hours, a pass in minutes).
ASSUME PassIsShorterThanReach == Confirmations + MaxLag <= StartBack

VARIABLES
  head,      \* the chain's newest block
  chain,     \* block -> the token its event names, or NoFact
  facts,     \* table launches / migrations: token -> block of the stored row
  cursor,    \* cursors[src.key]: last block ingested forward
  backfill,  \* cursors["backfill:" + src.key]: lowest block backfilled
  proc,      \* the pass each process is in
  failures,  \* passes that failed or were cancelled so far
  liveFrom,  \* history: first block of the pass that created the cursor
  fromHead   \* history: a backfill started below the head, finding no cursor

vars == <<head, chain, facts, cursor, backfill, proc, failures, liveFrom, fromHead>>

Procs == Forward \cup Backfill
Blocks == 0..MaxHead

(***************************************************************************)
(* A pass: pc is the await it has reached, seen the head it read at the    *)
(* start, rows the facts decoded from blocks from..to; floor and step are  *)
(* the backfill's lower end and the size of its steps.                     *)
(***************************************************************************)
Idle == [pc |-> "idle", seen |-> 0, floor |-> 0, step |-> StepCap,
         from |-> 0, to |-> 0, rows |-> {}]

\* u64::saturating_sub
Minus(a, b) == IF a >= b THEN a - b ELSE 0

Larger(a, b) == IF a >= b THEN a ELSE b
Smaller(a, b) == IF a <= b THEN a ELSE b

\* The facts get_logs and the decoders find in blocks from..to, as
\* <<token, block>> rows.
Rows(from, to) == {<<chain[b], b>> : b \in {c \in from..to : chain[c] # NoFact}}

\* One batch committed with ON CONFLICT (chain, token) DO NOTHING: a stored
\* row is never replaced, and of two rows of the batch for one token the
\* lower block comes first.
Inserted(rows, table) ==
  \A t \in Tokens :
    IF facts[t] # None \/ \A r \in rows : r[1] # t
    THEN table[t] = facts[t]
    ELSE \E r \in rows : /\ r[1] = t
                         /\ table[t] = r[2]
                         /\ \A q \in rows : q[1] = t => r[2] <= q[2]

----------------------------------------------------------------------------
Init ==
  /\ head = InitHead
  /\ chain \in [Blocks -> Tokens \cup {NoFact}]
  /\ \A b \in Blocks : b > InitHead => chain[b] = NoFact
  /\ facts = [t \in Tokens |-> None]
  /\ cursor = None
  /\ backfill = None
  /\ proc = [p \in Procs |-> Idle]
  /\ failures = 0
  /\ liveFrom = None
  /\ fromHead = FALSE

\* The chain grows by one block.  No forward pass in flight is left more
\* than MaxLag blocks behind.
NewBlock ==
  /\ head < MaxHead
  /\ \A p \in Forward : proc[p].pc # "idle" => head + 1 <= proc[p].seen + MaxLag
  /\ head' = head + 1
  /\ \E f \in Tokens \cup {NoFact} : chain' = [chain EXCEPT ![head + 1] = f]
  /\ UNCHANGED <<facts, cursor, backfill, proc, failures, liveFrom, fromHead>>

\* A block that is not yet final is replaced.
Reorg ==
  /\ \E b \in Blocks, f \in Tokens \cup {NoFact} :
       /\ b <= head
       /\ b + Confirmations > head
       /\ chain' = [chain EXCEPT ![b] = f]
  /\ UNCHANGED <<head, facts, cursor, backfill, proc, failures, liveFrom, fromHead>>

----------------------------------------------------------------------------
(* ingest_source *)

\* ingest_chain reads the head once, before any source.
ReadHead(p) ==
  /\ proc[p].pc = "idle"
  /\ proc' = [proc EXCEPT ![p] = [Idle EXCEPT !.pc = "cursor", !.seen = head]]
  /\ UNCHANGED <<head, chain, facts, cursor, backfill, failures, liveFrom, fromHead>>

\* Mutated forms of ReadCursor: no confirmations; an off-by-one comparison.
ReadCursorUnconfirmed(p) ==
  /\ proc[p].pc = "cursor"
  /\ LET from == IF cursor = None THEN Minus(proc[p].seen, StartBack)
                 ELSE cursor + 1
     IN  proc' = [proc EXCEPT ![p] =
                    IF from > proc[p].seen THEN Idle
                    ELSE [@ EXCEPT !.pc = "fetch", !.from = from, !.to = proc[p].seen]]
  /\ UNCHANGED <<head, chain, facts, cursor, backfill, failures, liveFrom, fromHead>>

ReadCursorSkipsLast(p) ==
  /\ proc[p].pc = "cursor"
  /\ LET from == IF cursor = None THEN Minus(proc[p].seen, StartBack)
                 ELSE cursor + 1
         to   == Minus(proc[p].seen, Confirmations)
     IN  proc' = [proc EXCEPT ![p] =
                    IF from >= to THEN Idle
                    ELSE [@ EXCEPT !.pc = "fetch", !.from = from, !.to = to]]
  /\ UNCHANGED <<head, chain, facts, cursor, backfill, failures, liveFrom, fromHead>>

ReadCursor(p) ==
  /\ proc[p].pc = "cursor"
  /\ LET from == IF cursor = None THEN Minus(proc[p].seen, StartBack)
                 ELSE cursor + 1
         to   == Minus(proc[p].seen, Confirmations)
     IN  proc' = [proc EXCEPT ![p] =
                    IF from > to THEN Idle
                    ELSE [@ EXCEPT !.pc = "fetch", !.from = from, !.to = to]]
  /\ UNCHANGED <<head, chain, facts, cursor, backfill, failures, liveFrom, fromHead>>

\* The cursor moves only after the facts are stored.
StoreCursor(p) ==
  /\ proc[p].pc = "store"
  /\ cursor' = proc[p].to
  /\ liveFrom' = IF liveFrom = None THEN proc[p].from ELSE liveFrom
  /\ proc' = [proc EXCEPT ![p] = Idle]
  /\ UNCHANGED <<head, chain, facts, backfill, failures, fromHead>>

----------------------------------------------------------------------------
(* ingest_range, shared by both directions *)

Fetch(p) ==
  /\ proc[p].pc = "fetch"
  /\ proc' = [proc EXCEPT ![p] =
                [@ EXCEPT !.pc = "insert", !.rows = Rows(proc[p].from, proc[p].to)]]
  /\ UNCHANGED <<head, chain, facts, cursor, backfill, failures, liveFrom, fromHead>>

\* One transaction commits the whole batch.
InsertFacts(p) ==
  /\ proc[p].pc = "insert"
  /\ \E table \in [Tokens -> Blocks \cup {None}] :
       Inserted(proc[p].rows, table) /\ facts' = table
  /\ proc' = [proc EXCEPT ![p] = [@ EXCEPT !.pc = "store", !.rows = {}]]
  /\ UNCHANGED <<head, chain, cursor, backfill, failures, liveFrom, fromHead>>

----------------------------------------------------------------------------
(* backfill_evm_chain and backfill_step *)

BackfillHead(p) ==
  /\ proc[p].pc = "idle"
  /\ proc' = [proc EXCEPT ![p] = [Idle EXCEPT !.pc = "cursor", !.seen = head,
                                              !.floor = Minus(head, Span)]]
  /\ UNCHANGED <<head, chain, facts, cursor, backfill, failures, liveFrom, fromHead>>

\* Mutated form of StepBelow: the block just below top is skipped.
StepBelowSkipsOne(p, top) ==
  IF top <= proc[p].floor
  THEN Idle
  ELSE [proc[p] EXCEPT !.pc = "fetch",
                       !.from = Larger(Minus(top, proc[p].step), proc[p].floor),
                       !.to = Minus(top, 2)]

\* With top known: done at the floor, else the step below it.
StepBelow(p, top) ==
  IF top <= proc[p].floor
  THEN Idle
  ELSE [proc[p] EXCEPT !.pc = "fetch",
                       !.from = Larger(Minus(top, proc[p].step), proc[p].floor),
                       !.to = top - 1]

ReadBackfillCursor(p) ==
  /\ proc[p].pc = "cursor"
  /\ proc' = [proc EXCEPT ![p] = IF backfill = None
                                 THEN [@ EXCEPT !.pc = "live"]
                                 ELSE StepBelow(p, backfill)]
  /\ UNCHANGED <<head, chain, facts, cursor, backfill, failures, liveFrom, fromHead>>

\* No backfill cursor: start below the forward cursor, or below the head.
ReadLiveCursor(p) ==
  /\ proc[p].pc = "live"
  /\ proc' = [proc EXCEPT ![p] = IF cursor = None
                                 THEN StepBelow(p, proc[p].seen)
                                 ELSE StepBelow(p, cursor + 1)]
  /\ fromHead' = (fromHead \/ cursor = None)
  /\ UNCHANGED <<head, chain, facts, cursor, backfill, failures, liveFrom>>

\* A step with more logs than the configured cap is retried with a quarter
\* of the blocks; the cursor is read again.
SplitStep(p) ==
  /\ proc[p].pc = "fetch"
  /\ proc[p].step > MinStep
  /\ proc' = [proc EXCEPT ![p] =
                [@ EXCEPT !.pc = "cursor", !.from = 0, !.to = 0,
                          !.step = Larger(proc[p].step \div 4, MinStep)]]
  /\ UNCHANGED <<head, chain, facts, cursor, backfill, failures, liveFrom, fromHead>>

\* Mutated form of AdjustedSteps: a dense step halves without a floor.
AdjustedStepsNoFloor(step) ==
  {step, Smaller(step \div 2, StepCap), Smaller(step * 2, StepCap), Smaller(step, StepCap)}

\* adjusted_step_blocks: dense steps halve, sparse steps double, up to the
\* requested cap (sources whose creator comes from lock events), else kept.
AdjustedSteps(step) ==
  LET floor == Smaller(MinStep, StepCap) IN
  {step, Smaller(Larger(step \div 2, floor), StepCap),
         Smaller(step * 2, StepCap), Smaller(step, StepCap)}

StoreBackfillCursor(p) ==
  /\ proc[p].pc = "store"
  /\ backfill' = proc[p].from
  /\ \E step \in AdjustedSteps(proc[p].step) :
       proc' = [proc EXCEPT ![p] =
                  [@ EXCEPT !.pc = "cursor", !.from = 0, !.to = 0, !.step = step]]
  /\ UNCHANGED <<head, chain, facts, cursor, failures, liveFrom, fromHead>>

----------------------------------------------------------------------------
\* An RPC or database error, SIGTERM, or a crash ends the pass at any await.
Fail(p) ==
  /\ proc[p].pc # "idle"
  /\ failures < MaxFailures
  /\ failures' = failures + 1
  /\ proc' = [proc EXCEPT ![p] = Idle]
  /\ UNCHANGED <<head, chain, facts, cursor, backfill, liveFrom, fromHead>>

ForwardStep(p) == ReadHead(p) \/ ReadCursor(p) \/ Fetch(p) \/ InsertFacts(p) \/ StoreCursor(p)

BackfillStep(p) ==
  \/ BackfillHead(p) \/ ReadBackfillCursor(p) \/ ReadLiveCursor(p) \/ SplitStep(p)
  \/ Fetch(p) \/ InsertFacts(p) \/ StoreBackfillCursor(p)

Next ==
  \/ NewBlock
  \/ Reorg
  \/ \E p \in Forward : ForwardStep(p)
  \/ \E p \in Backfill : BackfillStep(p)
  \/ \E p \in Procs : Fail(p)

Spec == Init /\ [][Next]_vars

\* The daemon starts a pass every cycle, and every await of a pass ends with
\* an answer or an error; a backfill is a loop that nothing pauses.
FairSpec ==
  /\ Spec
  /\ \A p \in Forward : WF_vars(ForwardStep(p))
  /\ \A p \in Backfill : WF_vars(BackfillStep(p))

----------------------------------------------------------------------------
PassType ==
  [pc : {"idle", "cursor", "live", "fetch", "insert", "store"},
   seen : Blocks, floor : Blocks, step : 1..StepCap,
   from : Blocks, to : Blocks, rows : SUBSET (Tokens \X Blocks)]

TypeOK ==
  /\ head \in Blocks
  /\ chain \in [Blocks -> Tokens \cup {NoFact}]
  /\ facts \in [Tokens -> Blocks \cup {None}]
  /\ cursor \in Blocks \cup {None}
  /\ backfill \in Blocks \cup {None}
  /\ proc \in [Procs -> PassType]
  /\ failures \in 0..MaxFailures
  /\ liveFrom \in Blocks \cup {None}
  /\ fromHead \in BOOLEAN

\* The event of block b, if it has one, names a token that has its row.
Stored(b) == chain[b] # NoFact => facts[chain[b]] # None

(***************************************************************************)
(* No launch is lost behind the forward cursor: whatever passes failed,    *)
(* raced or were replayed, every block from where live data starts up to   *)
(* the stored cursor has its facts in the table ("a crash between the      *)
(* insert and the cursor update only replays already-known facts").        *)
(***************************************************************************)
LiveBlocksStored ==
  cursor # None => \A b \in liveFrom..cursor : Stored(b)

(***************************************************************************)
(* History meets live data: a backfill that started below the forward      *)
(* cursor leaves no hole anywhere between its own cursor and the forward   *)
(* one, even with forward passes moving that cursor meanwhile.             *)
(***************************************************************************)
NoHoleBelowCursor ==
  (backfill # None /\ ~fromHead) => \A b \in backfill..cursor : Stored(b)

(***************************************************************************)
(* Facts are final: a stored row is the event of a block that can no       *)
(* longer be replaced, as long as no backfill started at the head.         *)
(***************************************************************************)
FactsAreFinal ==
  ~fromHead => \A t \in Tokens :
    facts[t] # None => /\ facts[t] + Confirmations <= head
                       /\ chain[facts[t]] = t

(***************************************************************************)
(* The strengthening that makes these three inductive.  What a pass holds  *)
(* between two awaits is stale, but safely so: a forward pass never starts *)
(* above a block that is missing, and the range it has read is final.      *)
(***************************************************************************)
Reading(p) == proc[p].pc \in {"fetch", "insert", "store"}

RangeOK(p) ==
  /\ proc[p].from <= proc[p].to
  /\ proc[p].to + Confirmations <= head
  /\ proc[p].pc = "insert" => proc[p].rows = Rows(proc[p].from, proc[p].to)
  /\ proc[p].pc = "store" => \A b \in proc[p].from..proc[p].to : Stored(b)

ForwardOK(p) ==
  proc[p].pc # "idle" =>
    /\ proc[p].pc # "live"
    /\ proc[p].seen \in InitHead..head
    /\ head <= proc[p].seen + MaxLag
    /\ Reading(p) =>
         /\ RangeOK(p)
         /\ proc[p].to + Confirmations = proc[p].seen
         /\ cursor = None => proc[p].from = Minus(proc[p].seen, StartBack)
         /\ cursor # None => \A b \in liveFrom..(proc[p].from - 1) : Stored(b)

BackfillOK(p) ==
  (~fromHead /\ Reading(p)) =>
    /\ RangeOK(p)
    /\ cursor # None
    /\ \A b \in (proc[p].to + 1)..(liveFrom - 1) : Stored(b)

CursorOK ==
  /\ cursor = None <=> liveFrom = None
  /\ cursor # None => /\ liveFrom <= cursor
                      /\ liveFrom = 0 \/ liveFrom + StartBack <= head
                      /\ cursor + Confirmations <= head
  /\ (backfill # None /\ ~fromHead) =>
       /\ cursor # None
       /\ backfill + Confirmations <= head
       /\ \A b \in backfill..(liveFrom - 1) : Stored(b)

IngestInv ==
  /\ head >= InitHead
  /\ CursorOK
  /\ LiveBlocksStored
  /\ FactsAreFinal
  /\ \A p \in Forward : ForwardOK(p)
  /\ \A p \in Backfill : BackfillOK(p)

\* Once the chain stands still the forward cursor reaches the newest final
\* block and stays there: no stale pass leaves it behind for good.
CursorCatchesUp ==
  (head = MaxHead) ~> [](cursor = MaxHead - Confirmations)

\* A backfill ends: neither splitting nor adjusting its steps, nor another
\* backfill writing the same cursor, keeps it from its floor.
BackfillEnds ==
  \A p \in Backfill : (proc[p].pc # "idle") ~> (proc[p].pc = "idle")
=============================================================================
