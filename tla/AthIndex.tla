------------------------------ MODULE AthIndex ------------------------------
(***************************************************************************)
(* The all-time-high store and the passes that fill it from the Codex      *)
(* index (crates/scout-devtracker/src/ath.rs, with the tables ath and      *)
(* cursors of crates/scout-devdb/src/lib.rs): the enumeration of closed    *)
(* days by created-at intervals that are split when the provider's offset  *)
(* cap is met, the all-time runner index that only has an offset, and the  *)
(* daemon's pass over its own candidates.  Passes run in any number of     *)
(* processes, which share the request budget, the cursors and the rows.    *)
(*                                                                         *)
(* The index is external: it lists tokens by creation time, and a listed   *)
(* token has a value.  What a value is does not matter here, only where it *)
(* came from and when it was observed.                                     *)
(***************************************************************************)
EXTENDS Integers, Sequences, FiniteSetsExt

CONSTANTS
  Order,       \* the tokens in the order of their creation
  Created,     \* the second each token was created in
  Days,        \* the closed days of the window are 1..Days
  DayLength,   \* seconds of a day
  PageSize,    \* rows of a full page, and tokens of a batch
  MaxOffset,   \* the provider's offset cap
  MaxStack,    \* the intervals a valid cursor may hold
  MaxRetries,  \* retries of a request of the day enumeration
  Launches,    \* tokens the ingestion tracks
  Others,      \* tokens the other provider knows
  Processes,
  Scenarios    \* the kinds of passes each process runs, the tokens listed and
               \* tracked only after the start, the counter at the start (the
               \* set of its value), and bounds on the clock and on the failed
               \* requests and crashes

ASSUME ConstantsAssumption ==
  /\ Created \in [DOMAIN Created -> Nat] /\ Order \in Seq(DOMAIN Created)
  /\ Days \in Nat \ {0} /\ DayLength \in Nat \ {0}
  /\ PageSize \in Nat \ {0} /\ MaxOffset \in Nat \ {0} /\ MaxOffset % PageSize = 0
  /\ MaxStack \in Nat /\ MaxRetries \in Nat
  /\ \A s \in Scenarios :
       /\ s.work \in [Processes -> SUBSET {"days", "runner", "observe"}]
       /\ s.budget \subseteq Nat /\ Cardinality(s.budget) <= 1
       /\ s.clock \in Nat /\ s.faults \in Nat
  /\ \A i, j \in 1..Len(Order) : i < j => Created[Order[i]] <= Created[Order[j]]

Tokens == {Order[i] : i \in 1..Len(Order)}
Keys == 0..Days           \* key 0 is the runner index, the others are days

VARIABLES
  listed,   \* external: the tokens the index lists
  tracked,  \* the launches table
  clock,
  budget,   \* the counter's row: the set of its value
  scenario, \* the one of Scenarios
  ath,      \* the row of each token: the set of its value
  saved,    \* the cursor row of each key: the set of its value
  begun,    \* history: when the first pass over each key started, and what
            \* it owes since
  proc,     \* the pass of each process
  faults

vars == <<listed, tracked, clock, budget, scenario, ath, saved, begun, proc, faults>>
store == <<ath, saved, begun>>
world == <<listed, tracked, clock>>
counter == <<budget, scenario>>

Done == [pc |-> "done", kind |-> "none", key |-> 0, cursor |-> << >>, todo |-> {},
         retry |-> 0, sent |-> FALSE, rows |-> {}, count |-> 0, at |-> 0]

Init ==
  /\ scenario \in Scenarios
  /\ listed = Tokens \ scenario.late /\ tracked = Launches \ scenario.late
  /\ clock = 0
  /\ budget = scenario.budget
  /\ ath = [t \in Tokens |-> {}]
  /\ saved = [k \in Keys |-> {}]
  /\ begun = [k \in Keys |-> {}]
  /\ proc = [p \in Processes |-> Done]
  /\ faults = 0

Fault == faults < scenario.faults /\ faults' = faults + 1

----------------------------------------------------------------------------
\* A token gets its first value, and the index lists it.
Appear(t) ==
  /\ t \notin listed
  /\ listed' = listed \cup {t}
  /\ UNCHANGED <<tracked, clock, counter, store, proc, faults>>

\* The ingestion stores a launch.
Track(t) ==
  /\ t \in Launches \ tracked
  /\ tracked' = tracked \cup {t}
  /\ UNCHANGED <<listed, clock, counter, store, proc, faults>>

Tick ==
  /\ clock < scenario.clock
  /\ clock' = clock + 1
  /\ UNCHANGED <<listed, tracked, counter, store, proc, faults>>

\* upsert_missing_ath: another provider fills a row that is still missing.
Fallback(t) ==
  /\ t \in tracked \cap Others
  /\ \E at \in 0..clock :
       /\ \A o \in ath[t] : o.source = "missing" /\ at >= o.at
       /\ ath' = [ath EXCEPT ![t] = {[source |-> "fallback", at |-> at]}]
  /\ UNCHANGED <<world, counter, saved, begun, proc, faults>>

----------------------------------------------------------------------------
\* The cursor of a key that was not begun: one interval, nothing read.
Whole(k) ==
  IF k = 0 THEN << [start |-> 0, end |-> (Days + 1) * DayLength, offset |-> 0] >>
  ELSE << [start |-> k * DayLength, end |-> (k + 1) * DayLength, offset |-> 0] >>

\* validate_runner_index_cursor.
ValidRunner(c) == \A i \in 1..Len(c) : c[i].offset <= MaxOffset /\ c[i].offset % PageSize = 0

\* validate_index_cursor.
ValidDay(k, c) ==
  /\ Len(c) <= MaxStack
  /\ \A i \in 1..Len(c) :
       /\ k * DayLength <= c[i].start /\ c[i].start < c[i].end
       /\ c[i].end <= (k + 1) * DayLength
       /\ c[i].offset <= MaxOffset - PageSize /\ c[i].offset % PageSize = 0
  /\ \A i, j \in 1..Len(c) : i # j => c[i].end <= c[j].start \/ c[j].end <= c[i].start

Valid(k, c) == IF k = 0 THEN ValidRunner(c) ELSE ValidDay(k, c)

Top(c) == c[Len(c)]
Pop(c) == SubSeq(c, 1, Len(c) - 1)

KeysOf(kind) == CASE kind = "days" -> 1..Days [] kind = "runner" -> {0} [] OTHER -> {}

\* The time of a pass is read before it is called.
Start(p, kind) ==
  /\ proc[p].pc = "done"
  /\ kind \in scenario.work[p]
  /\ proc' = [proc EXCEPT ![p] =
       [Done EXCEPT !.pc = "load", !.kind = kind, !.at = clock,
                    !.key = IF kind = "days" THEN Days ELSE 0]]
  /\ begun' = [k \in Keys |->
       IF k \in KeysOf(kind) /\ begun[k] = {}
       THEN {[at |-> clock, owed |-> listed \cap tracked]} ELSE begun[k]]
  /\ UNCHANGED <<world, counter, ath, saved, faults>>

\* The candidates of the daemon's pass: no row yet, or one that got stale.
Candidates ==
  LET missing == {t \in tracked : ath[t] = {}}
  IN  {missing \cup stale : stale \in SUBSET {t \in tracked : \E o \in ath[t] : o.at < clock}}

LoadCandidates(p) ==
  /\ proc[p].pc = "load" /\ proc[p].kind = "observe"
  /\ \E c \in Candidates :
       proc' = [proc EXCEPT ![p] = IF c = {} THEN Done ELSE [@ EXCEPT !.pc = "request", !.todo = c]]
  /\ UNCHANGED <<world, counter, store, faults>>

\* The day before, or the end of the pass.
Older(r) == IF r.key > 1 THEN [r EXCEPT !.pc = "load", !.key = r.key - 1] ELSE Done

\* The cursor of the key is read; the newest day comes first.
LoadCursor(p) ==
  LET r == proc[p]
      k == r.key
  IN  /\ r.pc = "load" /\ r.kind # "observe"
      /\ IF saved[k] = {}
         THEN proc' = [proc EXCEPT ![p] = [r EXCEPT !.pc = "request", !.cursor = Whole(k)]]
         ELSE \E c \in saved[k] :
                proc' = [proc EXCEPT ![p] =
                  IF ~Valid(k, c) THEN Done
                  ELSE IF c = << >> THEN (IF k = 0 THEN Done ELSE Older(r))
                  ELSE IF k = 0 /\ Top(c).offset >= MaxOffset THEN Done
                  ELSE [r EXCEPT !.pc = "request", !.cursor = c]]
      /\ UNCHANGED <<world, counter, store, faults>>

----------------------------------------------------------------------------
\* The bound of the pass, any positive number of requests, is met; the
\* daemon's pass is bounded by its candidates.
Exhausted(r) == r.kind # "observe" /\ r.sent

\* reserve_request_budget, one transaction under the counter's row lock; a
\* missing row is no limit.  Then the request is sent.
Reserve(p) ==
  LET r == proc[p]
  IN  /\ r.pc = "request"
      /\ \/ /\ Exhausted(r) \/ 0 \in budget
            /\ proc' = [proc EXCEPT ![p] = Done]
            /\ UNCHANGED counter
         \/ /\ 0 \notin budget
            /\ budget' = {b - 1 : b \in budget}
            /\ proc' = [proc EXCEPT ![p].pc = "sent", ![p].sent = TRUE]
            /\ UNCHANGED scenario
      /\ UNCHANGED <<world, store, faults>>

\* The rows of an interval: the places of its listed tokens in Order.
Rows(i) ==
  {j \in 1..Len(Order) :
     Order[j] \in listed /\ i.start <= Created[Order[j]] /\ Created[Order[j]] < i.end}

RowNumber(i, j) == Cardinality({h \in Rows(i) : h <= j})

\* The rows of its page.
Page(i) == {j \in Rows(i) : RowNumber(i, j) \in i.offset + 1 .. i.offset + PageSize}

\* A page's rows that are tracked; known_launch_tokens keeps the others out.
Observed(page, stamp) ==
  {<<t, [source |-> "codex", at |-> stamp]>> : t \in {Order[j] : j \in page} \cap tracked}

\* The time a page is stamped with: the runner index takes that of its start, a
\* day adds the seconds since, both rounded down.
Stamps(r) == IF r.kind = "days" THEN {s \in r.at..clock : s >= clock - 1} ELSE {r.at}

\* The answer of a page: its tracked rows are kept, its length counts.
AnswerPage(p) ==
  LET r == proc[p]
      page == Page(Top(r.cursor))
  IN  /\ r.pc = "sent" /\ r.kind # "observe"
      /\ \E stamp \in Stamps(r) :
           proc' = [proc EXCEPT ![p] =
             [r EXCEPT !.pc = "upsert", !.retry = 0, !.count = Cardinality(page),
                       !.rows = Observed(page, stamp)]]
      /\ UNCHANGED <<world, counter, store, faults>>

\* A batch's rows: a token the index does not list is missing.
ObservedBatch(batch, stamp) ==
  {<<t, [source |-> IF t \in listed THEN "codex" ELSE "missing", at |-> stamp]>> : t \in batch}

\* The answer for a batch of the candidates.
AnswerBatch(p) ==
  LET r == proc[p]
  IN  /\ r.pc = "sent" /\ r.kind = "observe"
      /\ \E batch \in SUBSET r.todo :
           /\ Cardinality(batch) = Min({Cardinality(r.todo), PageSize})
           /\ proc' = [proc EXCEPT ![p] =
                [r EXCEPT !.pc = "upsert", !.todo = r.todo \ batch,
                          !.rows = ObservedBatch(batch, r.at)]]
      /\ UNCHANGED <<world, counter, store, faults>>

\* The request fails: a day's is repeated, any other ends its pass.
RequestFails(p) ==
  LET r == proc[p]
  IN  /\ r.pc = "sent"
      /\ Fault
      /\ proc' = [proc EXCEPT ![p] =
           IF r.kind = "days" /\ r.retry < MaxRetries
           THEN [r EXCEPT !.pc = "request", !.retry = r.retry + 1] ELSE Done]
      /\ UNCHANGED <<world, counter, store>>

----------------------------------------------------------------------------
\* Mutated form of Merged: only a newer observation replaces a row.
MergedNewer(o, n) ==
  IF n.at <= o.at THEN o
  ELSE IF n.source = "missing" THEN [o EXCEPT !.at = n.at] ELSE n

\* The conflict clause of upsert_ath.
Merged(o, n) ==
  IF n.at < o.at THEN o
  ELSE IF n.source = "missing" THEN [o EXCEPT !.at = n.at] ELSE n

\* upsert_ath, one transaction.
Upsert(p) ==
  LET r == proc[p]
      new(t) == {x[2] : x \in {y \in r.rows : y[1] = t}}
      row(t) == IF new(t) = {} \/ ath[t] = {} THEN new(t) \cup ath[t]
                ELSE {Merged(o, n) : o \in ath[t], n \in new(t)}
  IN  /\ r.pc = "upsert"
      /\ ath' = [t \in Tokens |-> row(t)]
      /\ proc' = [proc EXCEPT ![p] =
           IF r.kind # "observe" THEN [r EXCEPT !.pc = "save", !.rows = {}]
           ELSE IF r.todo = {} THEN Done ELSE [r EXCEPT !.pc = "request", !.rows = {}]]
      /\ UNCHANGED <<world, counter, saved, begun, faults>>

\* Mutated form of Halves: the interval stays below its earlier half.
HalvesAndWhole(i) ==
  LET mid == i.start + (i.end - i.start) \div 2
  IN  << [start |-> i.start, end |-> i.end, offset |-> 0],
         [start |-> i.start, end |-> mid, offset |-> 0] >>

\* The halves of an interval, the earlier one on top.
Halves(i) ==
  LET mid == i.start + (i.end - i.start) \div 2
  IN  << [start |-> mid, end |-> i.end, offset |-> 0],
         [start |-> i.start, end |-> mid, offset |-> 0] >>

\* The next page of the interval on top.
Further(c, n) == Append(Pop(c), [Top(c) EXCEPT !.offset = @ + n])

\* Where a page of n rows leaves the cursor of the runner index ...
AdvanceRunner(c, n) == IF n < PageSize THEN Pop(c) ELSE Further(c, n)

\* ... and that of a day.
AdvanceDay(c, n) ==
  IF n < PageSize THEN Pop(c)
  ELSE IF Top(c).offset + n >= MaxOffset THEN Pop(c) \o Halves(Top(c))
  ELSE Further(c, n)

\* A second with more rows than the offset cap cannot be split.
Saturated(r) ==
  /\ r.kind = "days" /\ r.count = PageSize
  /\ Top(r.cursor).offset + r.count >= MaxOffset
  /\ Top(r.cursor).end - Top(r.cursor).start <= 1

\* The cursor is saved after the rows; the pass goes on, or ends at the cap.
Save(p) ==
  LET r == proc[p]
      c == IF r.key = 0 THEN AdvanceRunner(r.cursor, r.count) ELSE AdvanceDay(r.cursor, r.count)
  IN  /\ r.pc = "save"
      /\ \/ /\ Saturated(r)
            /\ proc' = [proc EXCEPT ![p] = Done]
            /\ UNCHANGED saved
         \/ /\ ~Saturated(r)
            /\ saved' = [saved EXCEPT ![r.key] = {c}]
            /\ proc' = [proc EXCEPT ![p] =
                 IF c = << >> THEN (IF r.key = 0 THEN Done ELSE Older(r))
                 ELSE IF r.key = 0 /\ Top(c).offset >= MaxOffset THEN Done
                 ELSE [r EXCEPT !.pc = "request", !.cursor = c, !.count = 0]]
      /\ UNCHANGED <<world, counter, ath, begun, faults>>

\* The process ends anywhere.
Crash(p) ==
  /\ proc[p].pc # "done"
  /\ Fault
  /\ proc' = [proc EXCEPT ![p] = Done]
  /\ UNCHANGED <<world, counter, store>>

Step(p) ==
  \/ LoadCandidates(p) \/ LoadCursor(p) \/ Reserve(p)
  \/ AnswerPage(p) \/ AnswerBatch(p) \/ Upsert(p) \/ Save(p)

Next ==
  \/ Tick \/ \E t \in Tokens : Appear(t) \/ Track(t) \/ Fallback(t)
  \/ \E p \in Processes :
       Step(p) \/ RequestFails(p) \/ Crash(p) \/ \E kind \in scenario.work[p] : Start(p, kind)

Spec == Init /\ [][Next]_vars

----------------------------------------------------------------------------
Known(t) == \E o \in ath[t] : o.source # "missing"

(***************************************************************************)
(* A cursor that says "complete" is right: every token that was tracked    *)
(* and listed when the first pass over it started has a known row,         *)
(* although pages shift while tokens appear, intervals are split, passes   *)
(* crash between the rows and the cursor, two processes overwrite each     *)
(* other's cursor, and the daemon's pass writes "missing" rows in between, *)
(* some of them with a later time than the page that has the token.        *)
(***************************************************************************)
CompleteIsCovered ==
  \A k \in Keys : << >> \in saved[k] =>
    \A b \in begun[k] : \A t \in b.owed :
      Created[t] \in Whole(k)[1].start .. Whole(k)[1].end - 1 => Known(t)

Crowded == \E t \in listed : Cardinality({u \in listed : Created[u] = Created[t]}) >= MaxOffset

\* The days are enumerated in the end, although two processes move each
\* other's cursor back, unless one second alone exceeds the offset cap or
\* the budget is used up.
DaysComplete ==
  (\E p \in Processes : "days" \in scenario.work[p])
    => <>((\A k \in 1..Days : << >> \in saved[k]) \/ Crowded \/ 0 \in budget)
=============================================================================
