-------------------------- MODULE EvmIngestProofs --------------------------
(***************************************************************************)
(* What the EVM ingestion guarantees for any number of processes, any      *)
(* chain and any step size: proofs of the invariants of EvmIngest.         *)
(***************************************************************************)
EXTENDS EvmIngest, TLAPS

\* AdjustedSteps never leaves 1..StepCap, so a backfill step is never empty.
LEMMA AdjustedStepsInRange ==
  ASSUME NEW step \in 1..StepCap
  PROVE  AdjustedSteps(step) \subseteq 1..StepCap
  BY ConstantsAssumption DEF AdjustedSteps, Smaller, Larger

\* The step below top lies in the chain whenever top - 1 does.
LEMMA StepBelowType ==
  ASSUME TypeOK, NEW p \in Procs, NEW top \in Int, top <= MaxHead + 1
  PROVE  StepBelow(p, top) \in PassType
  <1> USE ConstantsAssumption
  <1>1. proc[p] \in PassType
    BY DEF TypeOK
  <1>2. Idle \in PassType
    BY DEF Idle, PassType, Blocks
  <1>3. CASE top <= proc[p].floor
    BY <1>2, <1>3 DEF StepBelow
  <1>4. CASE top > proc[p].floor
    <2>1. /\ top \in Int
          /\ proc[p].floor \in Blocks
          /\ proc[p].step \in 1..StepCap
      BY <1>1 DEF PassType
    <2>2. Larger(Minus(top, proc[p].step), proc[p].floor) \in Blocks
      BY <2>1, <1>4 DEF Larger, Minus, Blocks
    <2>3. top - 1 \in Blocks
      BY <2>1, <1>4 DEF Blocks
    <2>4. StepBelow(p, top) =
            [proc[p] EXCEPT !.pc = "fetch",
               !.from = Larger(Minus(top, proc[p].step), proc[p].floor),
               !.to = top - 1]
      BY <1>4, <2>1 DEF StepBelow, Blocks
    <2> QED
      BY <1>1, <2>2, <2>3, <2>4 DEF PassType
  <1> QED
    BY <1>3, <1>4, <1>1 DEF PassType, Blocks

\* The rows of a range of the chain are well typed.
LEMMA RowsType ==
  ASSUME TypeOK, NEW from \in Blocks, NEW to \in Blocks
  PROVE  Rows(from, to) \subseteq Tokens \X Blocks
  BY ConstantsAssumption DEF TypeOK, Rows, Blocks

\* Every step of every action keeps the types.
LEMMA TypeStep == TypeOK /\ [Next]_vars => TypeOK'
<1> USE ConstantsAssumption
<1>0. Idle \in PassType
  BY DEF Idle, PassType, Blocks
<1>3. 0 \in Blocks
  BY DEF Blocks
<1>2. TypeOK /\ [Next]_vars => TypeOK'
  <2> SUFFICES ASSUME TypeOK, [Next]_vars PROVE TypeOK'
    OBVIOUS
  <2>0. \A p \in Procs : proc[p] \in PassType
    BY DEF TypeOK
  <2>1. CASE NewBlock
    BY <2>1 DEF NewBlock, TypeOK, Blocks
  <2>2. CASE Reorg
    BY <2>2 DEF Reorg, TypeOK
  <2>3. ASSUME NEW p \in Procs, ReadHead(p) PROVE TypeOK'
    BY <2>3, <1>0 DEF ReadHead, TypeOK, PassType, Idle
  <2>4. ASSUME NEW p \in Procs, ReadCursor(p) PROVE TypeOK'
    <3> DEFINE from == IF cursor = None THEN Minus(proc[p].seen, StartBack)
                       ELSE cursor + 1
               to   == Minus(proc[p].seen, Confirmations)
    <3>0. proc[p].seen \in Blocks /\ cursor \in Blocks \cup {None}
      BY <2>0 DEF TypeOK, PassType
    <3>1. from \in Nat /\ to \in Blocks
      BY <3>0 DEF Blocks, Minus
    <3>2. from <= to => from \in Blocks
      BY <3>1 DEF Blocks
    <3>3. CASE from > to
      BY <3>3, <2>4, <1>0 DEF ReadCursor, TypeOK
    <3>4. CASE ~(from > to)
      <4>1. proc' = [proc EXCEPT ![p] = [proc[p] EXCEPT !.pc = "fetch", !.from = from, !.to = to]]
        BY <3>4, <2>4 DEF ReadCursor, TypeOK
      <4>2. from \in Blocks
        BY <3>1, <3>2, <3>4 DEF Blocks
      <4> HIDE DEF from, to
      <4>3. [proc[p] EXCEPT !.pc = "fetch", !.from = from, !.to = to] \in PassType
        BY <4>2, <3>1, <2>0 DEF PassType
      <4> QED
        BY <4>1, <4>3, <2>4 DEF ReadCursor, TypeOK
    <3> QED
      BY <3>3, <3>4
  <2>5. ASSUME NEW p \in Procs, StoreCursor(p) PROVE TypeOK'
    BY <2>5, <1>0, <2>0 DEF StoreCursor, TypeOK, PassType
  <2>6. ASSUME NEW p \in Procs, Fetch(p) PROVE TypeOK'
    <3>1. Rows(proc[p].from, proc[p].to) \subseteq Tokens \X Blocks
      BY <2>0, RowsType DEF PassType
    <3>2. [proc[p] EXCEPT !.pc = "insert", !.rows = Rows(proc[p].from, proc[p].to)] \in PassType
      BY <2>0, <3>1 DEF PassType
    <3> QED
      BY <2>6, <3>2 DEF Fetch, TypeOK
  <2>7. ASSUME NEW p \in Procs, InsertFacts(p) PROVE TypeOK'
    <3>1. [proc[p] EXCEPT !.pc = "store", !.rows = {}] \in PassType
      BY <2>0 DEF PassType
    <3>2. facts' \in [Tokens -> Blocks \cup {None}]
      BY <2>7 DEF InsertFacts
    <3> QED
      BY <2>7, <3>1, <3>2 DEF InsertFacts, TypeOK
  <2>8. ASSUME NEW p \in Procs, BackfillHead(p) PROVE TypeOK'
    <3>1. Minus(head, Span) \in Blocks
      BY DEF TypeOK, Minus, Blocks
    <3> QED
      BY <2>8, <1>0, <3>1 DEF BackfillHead, TypeOK, PassType, Idle
  <2>9. ASSUME NEW p \in Procs, ReadBackfillCursor(p) PROVE TypeOK'
    <3>1. backfill # None => StepBelow(p, backfill) \in PassType
      BY StepBelowType DEF TypeOK, Blocks
    <3>2. [proc[p] EXCEPT !.pc = "live"] \in PassType
      BY <2>0 DEF PassType
    <3> QED
      BY <2>9, <3>1, <3>2 DEF ReadBackfillCursor, TypeOK
  <2>10. ASSUME NEW p \in Procs, ReadLiveCursor(p) PROVE TypeOK'
    <3>1. StepBelow(p, proc[p].seen) \in PassType
      BY StepBelowType, <2>0 DEF PassType, Blocks
    <3>2. cursor # None => StepBelow(p, cursor + 1) \in PassType
      BY StepBelowType DEF TypeOK, Blocks
    <3> QED
      BY <2>10, <3>1, <3>2 DEF ReadLiveCursor, TypeOK
  <2>11. ASSUME NEW p \in Procs, SplitStep(p) PROVE TypeOK'
    <3>1. Larger(proc[p].step \div 4, MinStep) \in 1..StepCap
      BY <2>11, <2>0 DEF SplitStep, PassType, Larger
    <3>2. [proc[p] EXCEPT !.pc = "cursor", !.from = 0, !.to = 0,
             !.step = Larger(proc[p].step \div 4, MinStep)] \in PassType
      BY <2>0, <3>1, <1>3 DEF PassType
    <3> QED
      BY <2>11, <3>2 DEF SplitStep, TypeOK
  <2>12. ASSUME NEW p \in Procs, StoreBackfillCursor(p) PROVE TypeOK'
    <3>1. PICK step \in AdjustedSteps(proc[p].step) :
            proc' = [proc EXCEPT ![p] =
              [@ EXCEPT !.pc = "cursor", !.from = 0, !.to = 0, !.step = step]]
      BY <2>12 DEF StoreBackfillCursor
    <3>2. step \in 1..StepCap
      BY AdjustedStepsInRange, <2>0 DEF PassType
    <3>3. [proc[p] EXCEPT !.pc = "cursor", !.from = 0, !.to = 0, !.step = step] \in PassType
      BY <2>0, <3>2, <1>3 DEF PassType
    <3>4. proc' \in [Procs -> PassType]
      BY <3>1, <3>3 DEF TypeOK
    <3> QED
      BY <2>12, <3>4, <2>0 DEF StoreBackfillCursor, TypeOK, PassType
  <2>13. ASSUME NEW p \in Procs, Fail(p) PROVE TypeOK'
    BY <2>13, <1>0 DEF Fail, TypeOK
  <2>14. CASE UNCHANGED vars
    BY <2>14 DEF vars, TypeOK
  <2> QED
    BY <2>1, <2>2, <2>3, <2>4, <2>5, <2>6, <2>7, <2>8, <2>9, <2>10, <2>11, <2>12,
       <2>13, <2>14 DEF Next, ForwardStep, BackfillStep, Procs
<1> QED
  BY <1>2

\* Every variable keeps its type: every range a pass computes, saturating
\* subtractions included, stays inside the chain, and every step is at
\* least one block.
THEOREM TypeCorrect == Spec => []TypeOK
<1> USE ConstantsAssumption
<1>0. Idle \in PassType
  BY DEF Idle, PassType, Blocks
<1>1. Init => TypeOK
  <2> SUFFICES ASSUME Init PROVE TypeOK
    OBVIOUS
  <2>1. head \in Blocks /\ failures \in 0..MaxFailures
    BY DEF Init, Blocks
  <2>2. proc \in [Procs -> PassType]
    BY <1>0 DEF Init
  <2>3. /\ facts \in [Tokens -> Blocks \cup {None}]
        /\ cursor \in Blocks \cup {None}
        /\ backfill \in Blocks \cup {None}
        /\ liveFrom \in Blocks \cup {None}
    BY DEF Init
  <2> QED
    BY <2>1, <2>2, <2>3 DEF Init, TypeOK
<1> QED
  BY <1>1, TypeStep, PTL DEF Spec

----------------------------------------------------------------------------
\* What no step undoes: final blocks keep their event, stored rows their
\* value, and a cursor, once set, exists.
LEMMA Stable ==
  ASSUME TypeOK, TypeOK', [Next]_vars
  PROVE  /\ head <= head'
         /\ \A b \in Blocks : b + Confirmations <= head => chain'[b] = chain[b]
         /\ \A t \in Tokens : facts[t] # None => facts'[t] = facts[t]
         /\ fromHead => fromHead'
         /\ cursor # None => cursor' # None
<1> USE ConstantsAssumption
<1> DEFINE Goal == /\ head <= head'
                   /\ \A b \in Blocks : b + Confirmations <= head => chain'[b] = chain[b]
                   /\ \A t \in Tokens : facts[t] # None => facts'[t] = facts[t]
                   /\ fromHead => fromHead'
                   /\ cursor # None => cursor' # None
<1>1. CASE NewBlock
  BY <1>1 DEF NewBlock, TypeOK, Blocks
<1>2. CASE Reorg
  BY <1>2 DEF Reorg, TypeOK, Blocks
<1>3. ASSUME NEW p \in Procs, InsertFacts(p) PROVE Goal
  <2>1. \A t \in Tokens : facts[t] # None => facts'[t] = facts[t]
    BY <1>3 DEF InsertFacts, Inserted
  <2> QED
    BY <1>3, <2>1 DEF InsertFacts, TypeOK, Blocks
<1>4. ASSUME NEW p \in Procs, StoreCursor(p) PROVE Goal
  BY <1>4 DEF StoreCursor, TypeOK, PassType, Blocks, None
<1>5. ASSUME NEW p \in Procs, ReadLiveCursor(p) PROVE Goal
  BY <1>5 DEF ReadLiveCursor, TypeOK, Blocks
<1>6. CASE UNCHANGED <<head, chain, facts, cursor, fromHead>>
  BY <1>6 DEF TypeOK, Blocks
<1> QED
  BY <1>1, <1>2, <1>3, <1>4, <1>5, <1>6
  DEF Next, ForwardStep, BackfillStep, Procs, vars, ReadHead, ReadCursor, Fetch,
      BackfillHead, ReadBackfillCursor, SplitStep, StoreBackfillCursor, Fail

\* A final block whose facts are stored keeps them.
LEMMA StoredStable ==
  ASSUME TypeOK, TypeOK', [Next]_vars,
         NEW b \in Blocks, b + Confirmations <= head, Stored(b)
  PROVE  Stored(b)'
  BY Stable, ConstantsAssumption DEF Stored, TypeOK

\* The rows of a final range do not change.
LEMMA RowsStable ==
  ASSUME TypeOK, TypeOK', [Next]_vars,
         NEW from \in Blocks, NEW to \in Blocks, to + Confirmations <= head
  PROVE  Rows(from, to)' = Rows(from, to)
<1>1. \A c \in from..to : c \in Blocks /\ chain'[c] = chain[c]
  BY Stable, ConstantsAssumption DEF Blocks, TypeOK
<1> QED
  BY <1>1 DEF Rows

\* A pass that does not move keeps a range it read.
LEMMA RangeStable ==
  ASSUME TypeOK, TypeOK', [Next]_vars,
         NEW p \in Procs, RangeOK(p), proc'[p] = proc[p]
  PROVE  RangeOK(p)'
<1> USE ConstantsAssumption
<1>1. proc[p].from \in Blocks /\ proc[p].to \in Blocks
  BY DEF TypeOK, PassType
<1>2. head \in Int /\ head' \in Int /\ head <= head'
  BY Stable DEF TypeOK, Blocks
<1>3. proc[p].to + Confirmations <= head'
  BY <1>1, <1>2 DEF RangeOK, Blocks
<1>4. Rows(proc[p].from, proc[p].to)' = Rows(proc[p].from, proc[p].to)
  BY RowsStable, <1>1 DEF RangeOK, Rows
<1>5. ASSUME proc[p].pc = "store", NEW b \in proc[p].from..proc[p].to
      PROVE  Stored(b)'
  <2>1. b \in Blocks /\ b + Confirmations <= head /\ Stored(b)
    BY <1>1, <1>2, <1>5 DEF RangeOK, Blocks
  <2> QED
    BY <2>1, StoredStable
<1> QED
  BY <1>3, <1>4, <1>5 DEF RangeOK
\* A forward pass that does not move is not disturbed while the cursor
\* stands still.
LEMMA ForwardStable ==
  ASSUME TypeOK, TypeOK', [Next]_vars, IngestInv,
         NEW p \in Forward, proc'[p] = proc[p],
         cursor' = cursor, liveFrom' = liveFrom,
         proc[p].pc # "idle" => head' <= proc[p].seen + MaxLag
  PROVE  ForwardOK(p)'
<1> USE ConstantsAssumption
<1> SUFFICES ASSUME proc[p].pc # "idle" PROVE ForwardOK(p)'
  BY DEF ForwardOK
<1>1. p \in Procs /\ proc[p] \in PassType
  BY DEF Procs, TypeOK
<1>2. ForwardOK(p)
  BY DEF IngestInv
<1>3. head \in Int /\ head' \in Int /\ head <= head'
  BY Stable DEF TypeOK, Blocks
<1>4. proc[p].seen \in InitHead..head'
  BY <1>1, <1>2, <1>3 DEF ForwardOK, PassType, Blocks
<1>5. ASSUME Reading(p) PROVE RangeOK(p)'
  BY <1>1, <1>2, <1>5, RangeStable DEF ForwardOK
<1>6. ASSUME Reading(p), cursor # None, NEW b \in liveFrom..(proc[p].from - 1)
      PROVE  Stored(b)'
  <2>1. Stored(b)
    BY <1>2, <1>6 DEF ForwardOK
  <2>2. liveFrom \in Blocks
    BY <1>6 DEF IngestInv, CursorOK, TypeOK
  <2>3. b \in Blocks /\ b + Confirmations <= head
    BY <1>1, <1>2, <1>3, <1>6, <2>2 DEF ForwardOK, RangeOK, PassType, Blocks
  <2> QED
    BY <2>1, <2>3, StoredStable
<1>7. Reading(p)' <=> Reading(p)
  BY DEF Reading
<1> QED
  BY <1>2, <1>4, <1>5, <1>6, <1>7 DEF ForwardOK

\* Nor is a backfill step that does not move.
LEMMA BackfillStable ==
  ASSUME TypeOK, TypeOK', [Next]_vars, IngestInv,
         NEW p \in Backfill, proc'[p] = proc[p], liveFrom # None => liveFrom' = liveFrom
  PROVE  BackfillOK(p)'
<1> USE ConstantsAssumption
<1> SUFFICES ASSUME ~fromHead', Reading(p)' PROVE BackfillOK(p)'
  BY DEF BackfillOK
<1>1. p \in Procs /\ proc[p] \in PassType
  BY DEF Procs, TypeOK
<1>2. ~fromHead /\ Reading(p)
  BY Stable DEF Reading
<1>3. /\ RangeOK(p)
      /\ cursor # None
      /\ \A b \in (proc[p].to + 1)..(liveFrom - 1) : Stored(b)
  BY <1>2 DEF IngestInv, BackfillOK
<1>4. liveFrom \in Blocks /\ cursor \in Blocks /\ liveFrom' = liveFrom /\ cursor' # None
  BY <1>3, Stable DEF IngestInv, CursorOK, TypeOK
<1>5. ASSUME NEW b \in (proc[p].to + 1)..(liveFrom - 1)
      PROVE  Stored(b)'
  <2>1. head \in Int
    BY DEF TypeOK, Blocks
  <2>2. b \in Blocks /\ b + Confirmations <= head
    BY <1>1, <1>3, <1>4, <1>5, <2>1 DEF IngestInv, CursorOK, PassType, Blocks
  <2> QED
    BY <1>3, <1>5, <2>2, StoredStable
<1>6. RangeOK(p)'
  BY <1>1, <1>3, RangeStable
<1> QED
  BY <1>4, <1>5, <1>6 DEF BackfillOK

\* What the cursors promise survives every step that moves none of them.
LEMMA CursorStable ==
  ASSUME TypeOK, TypeOK', [Next]_vars, IngestInv,
         cursor' = cursor, backfill' = backfill, liveFrom' = liveFrom
  PROVE  CursorOK' /\ LiveBlocksStored' /\ head' >= InitHead
<1> USE ConstantsAssumption
<1>0. fromHead => fromHead'
  BY Stable
<1>1. head \in Int /\ head' \in Int /\ head <= head'
  BY Stable DEF TypeOK, Blocks
<1>2. head' >= InitHead
  BY <1>1 DEF IngestInv
<1>3. LiveBlocksStored'
  <2> SUFFICES ASSUME cursor # None, NEW b \in liveFrom..cursor PROVE Stored(b)'
    BY DEF LiveBlocksStored
  <2>1. liveFrom \in Blocks /\ cursor \in Blocks /\ cursor + Confirmations <= head
    BY DEF IngestInv, CursorOK, TypeOK
  <2>2. b \in Blocks /\ b + Confirmations <= head
    BY <2>1, <1>1 DEF Blocks
  <2>3. Stored(b)
    BY DEF IngestInv, LiveBlocksStored
  <2> QED
    BY <2>2, <2>3, StoredStable
<1>4. cursor # None => /\ liveFrom <= cursor
                       /\ liveFrom = 0 \/ liveFrom + StartBack <= head'
                       /\ cursor + Confirmations <= head'
  BY <1>1 DEF IngestInv, CursorOK, TypeOK, Blocks, None
<1>5. ASSUME backfill # None, ~fromHead'
      PROVE  /\ cursor # None
             /\ backfill + Confirmations <= head'
             /\ \A b \in backfill..(liveFrom - 1) : Stored(b)'
  <2>1. /\ cursor # None
        /\ backfill + Confirmations <= head
        /\ \A b \in backfill..(liveFrom - 1) : Stored(b)
    BY <1>0, <1>5 DEF IngestInv, CursorOK
  <2>2. liveFrom \in Blocks /\ cursor \in Blocks /\ backfill \in Blocks
    BY <2>1, <1>5 DEF IngestInv, CursorOK, TypeOK
  <2>3. backfill + Confirmations <= head'
    BY <2>1, <2>2, <1>1 DEF Blocks
  <2>4. ASSUME NEW b \in backfill..(liveFrom - 1) PROVE Stored(b)'
    <3>1. b \in Blocks /\ b + Confirmations <= head
      BY <2>1, <2>2, <1>1 DEF IngestInv, CursorOK, Blocks
    <3> QED
      BY <2>1, <2>4, <3>1, StoredStable
  <2> QED
    BY <2>1, <2>3, <2>4
<1>6. CursorOK'
  BY <1>4, <1>5 DEF IngestInv, CursorOK
<1> QED
  BY <1>2, <1>3, <1>6

\* No step other than an insert makes a stored row wrong.
LEMMA FinalStable ==
  ASSUME TypeOK, TypeOK', [Next]_vars, IngestInv, facts' = facts
  PROVE  FactsAreFinal'
<1> USE ConstantsAssumption
<1> SUFFICES ASSUME ~fromHead', NEW t \in Tokens, facts[t] # None
             PROVE  /\ facts[t] + Confirmations <= head'
                    /\ chain'[facts[t]] = t
  BY DEF FactsAreFinal
<1>0. ~fromHead
  BY Stable
<1>1. head \in Int /\ head' \in Int /\ head <= head'
  BY Stable DEF TypeOK, Blocks
<1>2. facts[t] + Confirmations <= head /\ chain[facts[t]] = t /\ facts[t] \in Blocks
  BY <1>0 DEF IngestInv, FactsAreFinal, TypeOK
<1>3. chain'[facts[t]] = chain[facts[t]]
  BY <1>2, Stable
<1> QED
  BY <1>1, <1>2, <1>3 DEF Blocks
----------------------------------------------------------------------------
\* Every action preserves the strengthened invariant.
LEMMA IngestStep ==
  ASSUME TypeOK, TypeOK', IngestInv, [Next]_vars
  PROVE  IngestInv'
<1> USE ConstantsAssumption, PassIsShorterThanReach
<1>a. /\ \A p \in Procs : proc[p] \in PassType
      /\ head \in Int /\ head' \in Int /\ head <= head'
  BY Stable DEF TypeOK, Blocks
<1>b. ASSUME cursor' = cursor, backfill' = backfill, liveFrom' = liveFrom,
             facts' = facts, head' = head,
             NEW p \in Procs,
             \A q \in Procs \ {p} : proc'[q] = proc[q],
             p \in Forward => ForwardOK(p)',
             p \in Backfill => BackfillOK(p)'
      PROVE  IngestInv'
  <2>1. \A q \in Forward \ {p} : ForwardOK(q)'
    BY <1>b, ForwardStable DEF IngestInv, ForwardOK, Procs
  <2>2. \A q \in Backfill \ {p} : BackfillOK(q)'
    BY <1>b, BackfillStable DEF Procs
  <2> QED
    BY <1>b, <2>1, <2>2, CursorStable, FinalStable DEF IngestInv
\* A pass that is idle, or has read nothing yet, promises nothing.
<1>c. ASSUME NEW p \in Forward, proc'[p].pc = "idle" PROVE ForwardOK(p)'
  BY <1>c DEF ForwardOK
<1>d. ASSUME NEW p \in Backfill, proc'[p].pc \notin {"fetch", "insert", "store"}
      PROVE  BackfillOK(p)'
  BY <1>d DEF BackfillOK, Reading
<1>1. CASE NewBlock
  <2>1. \A q \in Forward : ForwardOK(q)'
    BY <1>1, ForwardStable DEF NewBlock
  <2>2. \A q \in Backfill : BackfillOK(q)'
    BY <1>1, BackfillStable DEF NewBlock
  <2> QED
    BY <1>1, <2>1, <2>2, CursorStable, FinalStable DEF NewBlock, IngestInv
<1>2. CASE Reorg
  <2>1. \A q \in Forward : ForwardOK(q)'
    BY <1>2, ForwardStable DEF Reorg, IngestInv, ForwardOK
  <2>2. \A q \in Backfill : BackfillOK(q)'
    BY <1>2, BackfillStable DEF Reorg
  <2> QED
    BY <1>2, <2>1, <2>2, CursorStable, FinalStable DEF Reorg, IngestInv
<1>3. ASSUME NEW p \in Forward, ReadHead(p) PROVE IngestInv'
  <2>1. p \in Procs /\ p \notin Backfill
    BY DEF Procs
  <2>2. proc'[p] = [Idle EXCEPT !.pc = "cursor", !.seen = head]
    BY <1>3, <2>1 DEF ReadHead, TypeOK
  <2>3. ForwardOK(p)'
    BY <2>2, <1>3, <1>a DEF ReadHead, ForwardOK, Idle, Reading, IngestInv
  <2> QED
    BY <1>b, <1>3, <2>1, <2>3 DEF ReadHead, TypeOK
<1>4. ASSUME NEW p \in Forward, ReadCursor(p) PROVE IngestInv'
  <2> DEFINE from == IF cursor = None THEN Minus(proc[p].seen, StartBack)
                     ELSE cursor + 1
             to   == Minus(proc[p].seen, Confirmations)
  <2>1. p \in Procs /\ p \notin Backfill
    BY DEF Procs
  <2>2. ForwardOK(p)'
    <3>1. CASE from > to
      BY <1>c, <1>4, <3>1, <2>1 DEF ReadCursor, TypeOK, Idle
    <3>2. CASE ~(from > to)
      <4>1. proc'[p] = [proc[p] EXCEPT !.pc = "fetch", !.from = from, !.to = to]
        BY <1>4, <3>2, <2>1 DEF ReadCursor, TypeOK
      <4>2. /\ proc[p].seen \in InitHead..head
            /\ head <= proc[p].seen + MaxLag
        BY <1>4 DEF ReadCursor, IngestInv, ForwardOK
      <4>3. /\ to + Confirmations = proc[p].seen
            /\ from <= to
            /\ from \in Int /\ to \in Int
        <5>1. proc[p].seen \in Int /\ cursor \in Int
          BY <1>a, <2>1 DEF TypeOK, PassType, Blocks, None
        <5>2. to = proc[p].seen - Confirmations
          BY <4>2, <5>1, <1>a DEF Minus
        <5>3. from \in Int
          BY <5>1 DEF Minus
        <5> QED
          BY <3>2, <5>1, <5>2, <5>3
      <4>4. cursor # None => \A b \in liveFrom..(from - 1) : Stored(b)
        <5> SUFFICES ASSUME cursor # None PROVE \A b \in liveFrom..(from - 1) : Stored(b)
          OBVIOUS
        <5>1. from - 1 = cursor
          BY DEF TypeOK, Blocks, None
        <5> QED
          BY <5>1 DEF IngestInv, LiveBlocksStored
      <4>5. cursor = None => from = Minus(proc[p].seen, StartBack)
        BY Zenon
      <4>6. chain' = chain /\ facts' = facts /\ cursor' = cursor /\ liveFrom' = liveFrom /\ head' = head
        BY <1>4 DEF ReadCursor
      <4> HIDE DEF from, to
      <4>7. /\ proc'[p].pc = "fetch" /\ proc'[p].from = from /\ proc'[p].to = to
            /\ proc'[p].seen = proc[p].seen
        BY <4>1, <1>a, <2>1 DEF PassType
      <4>8. RangeOK(p)'
        BY <4>7, <4>3, <4>2, <4>6, <1>a DEF RangeOK
      <4> QED
        BY <4>2, <4>3, <4>4, <4>5, <4>6, <4>7, <4>8 DEF ForwardOK, Stored
    <3> QED
      BY <3>1, <3>2
  <2> QED
    BY <1>b, <1>4, <2>1, <2>2 DEF ReadCursor, TypeOK
<1>5. ASSUME NEW p \in Forward, StoreCursor(p) PROVE IngestInv'
  <2>1. p \in Procs /\ p \notin Backfill /\ proc[p] \in PassType
    BY <1>a DEF Procs
  <2>2. /\ RangeOK(p)
        /\ proc[p].seen \in InitHead..head
        /\ head <= proc[p].seen + MaxLag
        /\ proc[p].to + Confirmations = proc[p].seen
        /\ cursor = None => proc[p].from = Minus(proc[p].seen, StartBack)
        /\ cursor # None => \A b \in liveFrom..(proc[p].from - 1) : Stored(b)
    BY <1>5 DEF StoreCursor, IngestInv, ForwardOK, Reading
  <2>3. /\ chain' = chain /\ facts' = facts /\ head' = head /\ backfill' = backfill
        /\ fromHead' = fromHead /\ cursor' = proc[p].to
        /\ liveFrom' = IF cursor = None THEN proc[p].from ELSE liveFrom
    BY <1>5 DEF StoreCursor, IngestInv, CursorOK
  <2>4. /\ proc[p].from \in Blocks /\ proc[p].to \in Blocks /\ proc[p].seen \in Blocks
        /\ proc[p].from <= proc[p].to
        /\ \A b \in proc[p].from..proc[p].to : Stored(b)
    BY <1>5, <2>1, <2>2 DEF StoreCursor, RangeOK, PassType
  <2>5. cursor' # None /\ liveFrom' # None /\ liveFrom' \in Blocks
    BY <2>3, <2>4 DEF IngestInv, CursorOK, TypeOK, Blocks, None
  \* The pass was short, so its range reaches past every first pass's start.
  <2>6. liveFrom' = 0 \/ liveFrom' + StartBack <= head
    <3>1. CASE cursor = None
      BY <3>1, <2>2, <2>3, <2>4, <1>a DEF Minus, Blocks
    <3>2. CASE cursor # None
      BY <3>2, <2>3 DEF IngestInv, CursorOK
    <3> QED
      BY <3>1, <3>2
  <2>7. /\ liveFrom' <= proc[p].to
        /\ proc[p].to + Confirmations <= head
    BY <2>2, <2>4, <2>5, <2>6, <1>a DEF RangeOK, Blocks
  <2>8. \A b \in liveFrom'..proc[p].to : Stored(b)
    <3>1. CASE cursor = None
      BY <3>1, <2>3, <2>4
    <3>2. CASE cursor # None
      <4> SUFFICES ASSUME NEW b \in liveFrom..proc[p].to PROVE Stored(b)
        BY <3>2, <2>3
      <4>1. liveFrom \in Int
        BY DEF TypeOK, Blocks, None
      <4>2. b \in liveFrom..(proc[p].from - 1) \/ b \in proc[p].from..proc[p].to
        BY <2>4, <4>1 DEF Blocks
      <4> QED
        BY <4>2, <3>2, <2>2, <2>4
    <3> QED
      BY <3>1, <3>2
  <2>9. LiveBlocksStored'
    BY <2>3, <2>8 DEF LiveBlocksStored, Stored
  <2>10. CursorOK'
    <3>1. ASSUME backfill # None, ~fromHead
          PROVE  /\ backfill + Confirmations <= head
                 /\ \A b \in backfill..(liveFrom' - 1) : Stored(b)
      BY <3>1, <2>3 DEF IngestInv, CursorOK
    <3> QED
      BY <3>1, <2>3, <2>5, <2>6, <2>7 DEF CursorOK, Stored
  <2>11. ASSUME NEW q \in Forward PROVE ForwardOK(q)'
    <3>1. CASE q = p
      BY <3>1, <1>c, <1>5, <2>1 DEF StoreCursor, TypeOK, Idle
    <3>2. CASE q # p
      <4>1. proc'[q] = proc[q] /\ ForwardOK(q) /\ q \in Procs /\ proc[q] \in PassType
        BY <3>2, <1>5, <1>a DEF StoreCursor, IngestInv, Procs, TypeOK
      <4>2. CASE cursor # None
        BY <4>1, <4>2, <2>3, <2>5 DEF ForwardOK, RangeOK, Reading, Rows, Stored
      <4>3. CASE cursor = None
        <5> SUFFICES ASSUME Reading(q)
                     PROVE  \A b \in liveFrom'..(proc[q].from - 1) : Stored(b)
          BY <4>1, <2>3, <2>5 DEF ForwardOK, RangeOK, Reading, Rows, Stored
        <5>1. /\ proc[q].from = Minus(proc[q].seen, StartBack)
              /\ proc[q].seen \in InitHead..head
          BY <4>1, <4>3 DEF ForwardOK, Reading
        <5>2. proc[q].from - 1 <= proc[p].to
          BY <5>1, <4>1, <2>2, <2>4, <1>a DEF Minus, Blocks
        <5>3. proc[q].from \in Blocks
          BY <4>1 DEF PassType
        <5>4. \A b \in liveFrom'..(proc[q].from - 1) : b \in liveFrom'..proc[p].to
          BY <5>2, <5>3, <2>4, <2>5 DEF Blocks
        <5> QED
          BY <5>4, <2>8
      <4> QED
        BY <4>2, <4>3
    <3> QED
      BY <3>1, <3>2
  <2>12. ASSUME NEW q \in Backfill PROVE BackfillOK(q)'
    <3>1. proc'[q] = proc[q]
      BY <1>5, <2>1 DEF StoreCursor, TypeOK, Procs
    <3>2. liveFrom # None => liveFrom' = liveFrom
      BY <2>3 DEF IngestInv, CursorOK
    <3> QED
      BY <3>1, <3>2, BackfillStable
  <2> QED
    BY <2>3, <2>9, <2>10, <2>11, <2>12, FinalStable DEF IngestInv
<1>6. ASSUME NEW p \in Procs, Fetch(p) PROVE IngestInv'
  <2>1. /\ proc'[p].pc = "insert" /\ proc'[p].from = proc[p].from
        /\ proc'[p].to = proc[p].to /\ proc'[p].seen = proc[p].seen
        /\ proc'[p].rows = Rows(proc[p].from, proc[p].to)
        /\ proc[p].pc = "fetch"
    BY <1>6, <1>a DEF Fetch, TypeOK, PassType
  <2>2. /\ chain' = chain /\ facts' = facts /\ cursor' = cursor
        /\ liveFrom' = liveFrom /\ head' = head /\ backfill' = backfill
        /\ fromHead' = fromHead
    BY <1>6 DEF Fetch
  <2>3. RangeOK(p) => RangeOK(p)'
    BY <2>1, <2>2 DEF RangeOK, Rows
  <2>4. p \in Forward => ForwardOK(p)'
    BY <2>1, <2>2, <2>3 DEF IngestInv, ForwardOK, Reading, Stored
  <2>5. p \in Backfill => BackfillOK(p)'
    BY <2>1, <2>2, <2>3 DEF IngestInv, BackfillOK, Reading, Stored
  <2> QED
    BY <1>b, <1>6, <2>2, <2>4, <2>5 DEF Fetch, TypeOK
<1>7. ASSUME NEW p \in Procs, InsertFacts(p) PROVE IngestInv'
  <2>1. /\ proc'[p].pc = "store" /\ proc'[p].from = proc[p].from
        /\ proc'[p].to = proc[p].to /\ proc'[p].seen = proc[p].seen
        /\ proc[p].pc = "insert" /\ proc[p] \in PassType
        /\ \A q \in Procs \ {p} : proc'[q] = proc[q]
    BY <1>7, <1>a DEF InsertFacts, TypeOK, PassType
  <2>2. UNCHANGED <<head, chain, cursor, backfill, liveFrom, fromHead>>
    BY <1>7 DEF InsertFacts
  <2>3. Inserted(proc[p].rows, facts')
    BY <1>7 DEF InsertFacts
  <2>4. RangeOK(p) => RangeOK(p)'
    <3> SUFFICES ASSUME RangeOK(p), NEW b \in proc[p].from..proc[p].to, chain[b] # NoFact
                 PROVE  facts'[chain[b]] # None
      BY <2>1, <2>2 DEF RangeOK, Stored
    <3>0. proc[p].from \in Blocks /\ proc[p].to \in Blocks
      BY <2>1 DEF PassType
    <3>5. b \in Blocks
      BY <3>0 DEF Blocks
    <3>1. b \in Blocks /\ chain[b] \in Tokens
      BY <3>5 DEF TypeOK
    <3>2. <<chain[b], b>> \in proc[p].rows
      BY <2>1 DEF RangeOK, Rows
    <3>3. \A r \in proc[p].rows : r[2] # None
      BY <2>1 DEF PassType, Blocks, None
    <3>4. ~ \A r \in proc[p].rows : r[1] # chain[b]
      BY <3>2
    <3> QED
      BY <3>1, <3>3, <3>4, <2>3 DEF Inserted
  <2>5. \A b \in Blocks : Stored(b) => Stored(b)'
    BY <2>2, Stable DEF Stored, TypeOK
  <2>6. p \in Forward => ForwardOK(p)'
    <3> SUFFICES ASSUME p \in Forward PROVE ForwardOK(p)'
      OBVIOUS
    <3>1. ForwardOK(p) /\ Reading(p) /\ RangeOK(p)
      BY <2>1 DEF IngestInv, ForwardOK, Reading
    <3>2. RangeOK(p)'
      BY <3>1, <2>4
    <3>3. ASSUME cursor # None, NEW b \in liveFrom..(proc[p].from - 1) PROVE Stored(b)'
      <4>1. liveFrom \in Blocks
        BY <3>3 DEF IngestInv, CursorOK, TypeOK
      <4>2. proc[p].from \in Blocks
        BY <2>1 DEF PassType
      <4>3. b \in Blocks
        BY <4>1, <4>2 DEF Blocks
      <4>4. Stored(b)
        BY <3>1, <3>3 DEF ForwardOK, Reading
      <4> QED
        BY <4>3, <4>4, <2>5
    <3> QED
      BY <3>1, <3>2, <3>3, <2>1, <2>2 DEF ForwardOK
  <2>7. p \in Backfill => BackfillOK(p)'
    <3> SUFFICES ASSUME p \in Backfill, ~fromHead PROVE BackfillOK(p)'
      BY <2>2 DEF BackfillOK
    <3>1. /\ RangeOK(p) /\ cursor # None
          /\ \A b \in (proc[p].to + 1)..(liveFrom - 1) : Stored(b)
      BY <2>1 DEF IngestInv, BackfillOK, Reading
    <3>2. ASSUME NEW b \in (proc[p].to + 1)..(liveFrom - 1) PROVE Stored(b)'
      <4>1. liveFrom \in Blocks /\ proc[p].to \in Blocks
        BY <3>1, <2>1 DEF IngestInv, CursorOK, TypeOK, PassType
      <4>2. b \in Blocks
        BY <4>1 DEF Blocks
      <4> QED
        BY <4>2, <3>1, <2>5
    <3> QED
      BY <3>1, <3>2, <2>1, <2>2, <2>4 DEF BackfillOK
  <2>8. FactsAreFinal'
    <3> SUFFICES ASSUME ~fromHead, NEW t \in Tokens, facts'[t] # None
                 PROVE  facts'[t] + Confirmations <= head /\ chain[facts'[t]] = t
      BY <2>2 DEF FactsAreFinal
    <3>1. CASE facts[t] # None \/ \A r \in proc[p].rows : r[1] # t
      BY <3>1, <2>3 DEF Inserted, IngestInv, FactsAreFinal
    <3>2. CASE ~(facts[t] # None \/ \A r \in proc[p].rows : r[1] # t)
      <4>1. PICK r \in proc[p].rows : r[1] = t /\ facts'[t] = r[2]
        BY <3>2, <2>3 DEF Inserted
      <4>2. RangeOK(p)
        BY <2>1 DEF IngestInv, ForwardOK, BackfillOK, Reading, Procs
      <4>3. r \in Rows(proc[p].from, proc[p].to)
        BY <4>2, <2>1 DEF RangeOK
      <4>4. PICK b \in proc[p].from..proc[p].to : r = <<chain[b], b>>
        BY <4>3 DEF Rows
      <4>5. facts'[t] = b /\ chain[b] = t
        BY <4>1, <4>4
      <4>6. b + Confirmations <= head
        <5>1. proc[p].to \in Int /\ b \in Int /\ b <= proc[p].to
          BY <2>1 DEF PassType, Blocks
        <5> QED
          BY <5>1, <4>2, <1>a DEF RangeOK
      <4> QED
        BY <4>5, <4>6
    <3> QED
      BY <3>1, <3>2
  <2>9. \A q \in Forward \ {p} : ForwardOK(q)'
    BY <2>1, <2>2, ForwardStable DEF IngestInv, ForwardOK, Procs
  <2>10. \A q \in Backfill \ {p} : BackfillOK(q)'
    BY <2>1, <2>2, BackfillStable DEF Procs
  <2> QED
    BY <2>2, <2>6, <2>7, <2>8, <2>9, <2>10, CursorStable DEF IngestInv
<1>8. ASSUME NEW p \in Backfill, BackfillHead(p) PROVE IngestInv'
  <2>1. p \in Procs /\ p \notin Forward
    BY DEF Procs
  <2>2. proc'[p].pc = "cursor"
    BY <1>8, <2>1 DEF BackfillHead, TypeOK, Idle
  <2> QED
    BY <1>b, <1>d, <1>8, <2>1, <2>2 DEF BackfillHead, TypeOK
<1>e. ASSUME NEW p \in Backfill, NEW top \in Int, top >= 0,
             proc'[p] = StepBelow(p, top),
             ~fromHead' =>
                /\ cursor # None
                /\ top + Confirmations <= head + 1
                /\ \A b \in top..(liveFrom - 1) : Stored(b),
             UNCHANGED <<head, chain, facts, cursor, liveFrom>>
      PROVE  BackfillOK(p)'
  <2>1. p \in Procs /\ proc[p] \in PassType
    BY <1>a DEF Procs
  <2>2. CASE top <= proc[p].floor
    BY <2>2, <1>e, <1>d DEF StepBelow, Idle
  <2>3. CASE ~(top <= proc[p].floor)
    <3> DEFINE from == Larger(Minus(top, proc[p].step), proc[p].floor)
    <3>1. proc[p].floor \in Nat /\ proc[p].step \in Nat /\ proc[p].step >= 1
      BY <2>1 DEF PassType, Blocks
    <3>2. from \in Int /\ from <= top - 1
      BY <3>1, <2>3, <1>e DEF Larger, Minus
    <3>3. proc'[p] = [proc[p] EXCEPT !.pc = "fetch", !.from = from, !.to = top - 1]
      BY <1>e, <2>3 DEF StepBelow
    <3> HIDE DEF from
    <3>4. proc'[p].pc = "fetch" /\ proc'[p].from = from /\ proc'[p].to = top - 1
      BY <3>3, <2>1 DEF PassType
    <3>5. ~fromHead' => RangeOK(p)'
      BY <3>4, <3>2, <1>e, <1>a DEF RangeOK
    <3>6. ~fromHead' => \A b \in (proc'[p].to + 1)..(liveFrom' - 1) : Stored(b)'
      BY <3>4, <1>e DEF Stored
    <3> QED
      BY <3>5, <3>6, <1>e DEF BackfillOK
  <2> QED
    BY <2>2, <2>3
<1>9. ASSUME NEW p \in Backfill, ReadBackfillCursor(p) PROVE IngestInv'
  <2>1. p \in Procs /\ p \notin Forward
    BY DEF Procs
  <2>2. BackfillOK(p)'
    <3>1. CASE backfill = None
      <4>1. proc'[p].pc = "live"
        BY <3>1, <1>9, <2>1, <1>a DEF ReadBackfillCursor, TypeOK, PassType
      <4> QED
        BY <4>1, <1>d
    <3>2. CASE backfill # None
      <4>1. proc'[p] = StepBelow(p, backfill)
        BY <3>2, <1>9, <2>1 DEF ReadBackfillCursor, TypeOK
      <4>2. backfill \in Int /\ backfill >= 0
        BY <3>2 DEF TypeOK, Blocks
      <4>3. ~fromHead' => /\ cursor # None
                          /\ backfill + Confirmations <= head + 1
                          /\ \A b \in backfill..(liveFrom - 1) : Stored(b)
        <5> SUFFICES ASSUME ~fromHead'
                     PROVE  /\ cursor # None
                            /\ backfill + Confirmations <= head + 1
                            /\ \A b \in backfill..(liveFrom - 1) : Stored(b)
          OBVIOUS
        <5>1. ~fromHead
          BY <1>9 DEF ReadBackfillCursor
        <5>2. /\ cursor # None
              /\ backfill + Confirmations <= head
              /\ \A b \in backfill..(liveFrom - 1) : Stored(b)
          BY <5>1, <3>2 DEF IngestInv, CursorOK
        <5>3. backfill + Confirmations <= head + 1
          BY <5>2, <4>2, <1>a
        <5> QED
          BY <5>2, <5>3
      <4>4. UNCHANGED <<head, chain, facts, cursor, liveFrom>>
        BY <1>9 DEF ReadBackfillCursor
      <4> QED
        BY <4>1, <4>2, <4>3, <4>4, <1>e
    <3> QED
      BY <3>1, <3>2
  <2> QED
    BY <1>b, <1>9, <2>1, <2>2 DEF ReadBackfillCursor, TypeOK
<1>10. ASSUME NEW p \in Backfill, ReadLiveCursor(p) PROVE IngestInv'
  <2>1. p \in Procs /\ p \notin Forward
    BY DEF Procs
  <2>2. UNCHANGED <<head, chain, facts, cursor, liveFrom>>
    BY <1>10 DEF ReadLiveCursor
  <2>3. BackfillOK(p)'
    <3>1. CASE cursor = None
      BY <3>1, <1>10 DEF ReadLiveCursor, BackfillOK
    <3>2. CASE cursor # None
      <4>1. proc'[p] = StepBelow(p, cursor + 1)
        BY <3>2, <1>10, <2>1 DEF ReadLiveCursor, TypeOK
      <4>2. /\ cursor \in Int /\ cursor >= 0 /\ liveFrom \in Int
            /\ liveFrom <= cursor /\ cursor + Confirmations <= head
        BY <3>2 DEF TypeOK, Blocks, IngestInv, CursorOK, None
      <4>3. cursor + 1 + Confirmations <= head + 1
        BY <4>2, <1>a
      <4>4. \A b \in (cursor + 1)..(liveFrom - 1) : Stored(b)
        BY <4>2
      <4> QED
        BY <3>2, <4>1, <4>2, <4>3, <4>4, <2>2, <1>e
    <3> QED
      BY <3>1, <3>2
  <2> QED
    BY <1>b, <1>10, <2>1, <2>3 DEF ReadLiveCursor, TypeOK
<1>11. ASSUME NEW p \in Backfill, SplitStep(p) PROVE IngestInv'
  <2>1. p \in Procs /\ p \notin Forward
    BY DEF Procs
  <2>2. proc'[p].pc = "cursor"
    BY <1>11, <2>1, <1>a DEF SplitStep, TypeOK, PassType
  <2> QED
    BY <1>b, <1>d, <1>11, <2>1, <2>2 DEF SplitStep, TypeOK
<1>12. ASSUME NEW p \in Backfill, StoreBackfillCursor(p) PROVE IngestInv'
  <2>1. p \in Procs /\ p \notin Forward /\ proc[p] \in PassType
    BY <1>a DEF Procs
  <2>2. /\ UNCHANGED <<head, chain, facts, cursor, liveFrom, fromHead>>
        /\ backfill' = proc[p].from
        /\ proc[p].pc = "store"
    BY <1>12 DEF StoreBackfillCursor
  <2>3. proc'[p].pc = "cursor" /\ \A q \in Procs \ {p} : proc'[q] = proc[q]
    BY <1>12, <2>1 DEF StoreBackfillCursor, TypeOK, PassType
  <2>4. ASSUME ~fromHead
        PROVE  /\ cursor # None
               /\ proc[p].from + Confirmations <= head
               /\ \A b \in proc[p].from..(liveFrom - 1) : Stored(b)
    <3>1. /\ RangeOK(p) /\ cursor # None
          /\ \A b \in (proc[p].to + 1)..(liveFrom - 1) : Stored(b)
      BY <2>2, <2>4 DEF IngestInv, BackfillOK, Reading
    <3>2. /\ proc[p].from <= proc[p].to /\ proc[p].to + Confirmations <= head
          /\ \A b \in proc[p].from..proc[p].to : Stored(b)
      BY <3>1, <2>2 DEF RangeOK
    <3>3. proc[p].from \in Int /\ proc[p].to \in Int /\ liveFrom \in Int
      BY <2>1 DEF PassType, Blocks, TypeOK, None
    <3>4. proc[p].from + Confirmations <= head
      BY <3>2, <3>3, <1>a
    <3>5. ASSUME NEW b \in proc[p].from..(liveFrom - 1) PROVE Stored(b)
      <4>1. b \in proc[p].from..proc[p].to \/ b \in (proc[p].to + 1)..(liveFrom - 1)
        BY <3>3
      <4> QED
        BY <4>1, <3>1, <3>2
    <3> QED
      BY <3>1, <3>4, <3>5
  <2>5. CursorOK'
    BY <2>2, <2>4 DEF IngestInv, CursorOK, Stored
  <2>6. LiveBlocksStored'
    BY <2>2 DEF IngestInv, LiveBlocksStored, Stored
  <2>7. \A q \in Forward : ForwardOK(q)'
    BY <2>1, <2>2, <2>3, ForwardStable DEF IngestInv, ForwardOK, Procs
  <2>8. \A q \in Backfill : BackfillOK(q)'
    BY <2>2, <2>3, <1>d, BackfillStable DEF Procs
  <2> QED
    BY <2>2, <2>5, <2>6, <2>7, <2>8, FinalStable DEF IngestInv
<1>13. ASSUME NEW p \in Procs, Fail(p) PROVE IngestInv'
  <2>1. proc'[p].pc = "idle"
    BY <1>13 DEF Fail, TypeOK, Idle
  <2> QED
    BY <1>b, <1>c, <1>d, <1>13, <2>1 DEF Fail, TypeOK
<1>14. CASE UNCHANGED vars
  BY <1>14 DEF vars, IngestInv, CursorOK, LiveBlocksStored, FactsAreFinal, ForwardOK,
               BackfillOK, RangeOK, Reading, Rows, Stored
<1> QED
  BY <1>1, <1>2, <1>3, <1>4, <1>5, <1>6, <1>7, <1>8, <1>9, <1>10, <1>11, <1>12,
     <1>13, <1>14 DEF Next, ForwardStep, BackfillStep, Procs
\* The strengthened invariant holds in every reachable state.
THEOREM IngestCorrect == Spec => []IngestInv
<1>1. Init => IngestInv
  BY ConstantsAssumption DEF Init, IngestInv, CursorOK, LiveBlocksStored, FactsAreFinal,
     ForwardOK, BackfillOK, Reading, Idle, Procs
<1> QED
  BY <1>1, TypeCorrect, IngestStep, PTL DEF Spec

\* No launch is lost behind the forward cursor, whatever fails or races.
THEOREM NothingLostBehindCursor == Spec => []LiveBlocksStored
<1>1. IngestInv => LiveBlocksStored
  BY DEF IngestInv
<1> QED
  BY <1>1, IngestCorrect, PTL

\* A backfill that started below the forward cursor leaves no hole.
THEOREM HistoryMeetsLiveData == Spec => []NoHoleBelowCursor
<1>1. TypeOK /\ IngestInv => NoHoleBelowCursor
  <2> SUFFICES ASSUME TypeOK, IngestInv, backfill # None, ~fromHead,
                      NEW b \in backfill..cursor
               PROVE  Stored(b)
    BY DEF NoHoleBelowCursor
  <2>1. cursor # None /\ \A c \in backfill..(liveFrom - 1) : Stored(c)
    BY DEF IngestInv, CursorOK
  <2>2. backfill \in Int /\ cursor \in Int /\ liveFrom \in Int
    BY DEF TypeOK, Blocks, None
  <2>3. b \in backfill..(liveFrom - 1) \/ b \in liveFrom..cursor
    BY <2>2
  <2> QED
    BY <2>1, <2>3 DEF IngestInv, LiveBlocksStored
<1> QED
  BY <1>1, TypeCorrect, IngestCorrect, PTL

\* Stored facts come from blocks that can no longer be replaced.
THEOREM OnlyFinalFacts == Spec => []FactsAreFinal
<1>1. IngestInv => FactsAreFinal
  BY DEF IngestInv
<1> QED
  BY <1>1, IngestCorrect, PTL
=============================================================================
