---------------------------- MODULE SolanaIngest ----------------------------
(***************************************************************************)
(* Ingestion of one pump.fun source of the dev-tracker                     *)
(* (crates/scout-devtracker/src/solana_ingest.rs, solana_fallback.rs; the  *)
(* pagination of crates/scout-providers/src/helius.rs).  The live reader   *)
(* follows a cursor over block time, the backfill reads whole days, one    *)
(* task per day.  Both page through Helius; a live pass that fails is      *)
(* repeated over standard RPC.  The database keeps the stored facts, the   *)
(* cursor and the days done; a pass is lost when its process stops.        *)
(***************************************************************************)
EXTENDS Integers, FiniteSets

CONSTANTS
  Txs,         \* the source's transactions, numbered in chain order
  Time,        \* their block times
  Broken,      \* the ones the Helius decoder skips (with_skip_undecodable)
  Live,        \* the reader of the live cursor
  Days,        \* the backfill tasks, by day number
  DayLength,
  Settle,      \* settle_secs
  StartBack,   \* start_secs_back
  PageSize,    \* with_page_limit
  MaxPages,    \* with_max_pages
  FlushRows,   \* FLUSH_ROWS
  MaxWindow,   \* max_window_secs
  ListSize,    \* signatures in a page of getSignaturesForAddress
  ListPages,   \* MAX_SIGNATURE_PAGES
  NodeGaps,    \* the fallback node may answer null for a transaction it lists
  Outage,      \* Helius may go down for good
  MaxTime,     \* bound: the clock
  MaxFailures  \* bound: failed awaits and stopped processes

ASSUME ConstantsAssumption ==
  /\ Txs \subseteq Nat
  /\ Time \in [Txs -> Nat]
  /\ \A t, u \in Txs : t < u => Time[t] <= Time[u]
  /\ Live \notin Days
  /\ Days \subseteq Nat
  /\ {DayLength, PageSize, MaxPages, FlushRows, MaxWindow, ListSize, ListPages}
       \subseteq Nat \ {0}
  /\ {Settle, StartBack, MaxTime, MaxFailures} \subseteq Nat

VARIABLES
  now,       \* the clock
  visible,   \* the transactions the providers have indexed
  helius,    \* "up", or "down" for good
  stored,    \* the facts in the database
  cursor,    \* the cursor row: the set of its value
  done,      \* the days marked done
  pass,      \* the pass each reader is in
  failures,
  start,     \* history: where the pass that created the cursor began
  promised   \* history: what was indexed when the passes of the days marked
             \* done began

vars == <<now, visible, helius, stored, cursor, done, pass, failures, start, promised>>

Readers == {Live} \cup Days

\* taken is what the pages returned so far, token whether a page follows
\* them; held is the envelope held back; rows wait for the database.
NoPass == [pc |-> "idle", from |-> 0, to |-> 0, taken |-> {}, pages |-> 0,
           token |-> "first", held |-> {}, rows |-> {}, truncated |-> "no",
           newest |-> {}, indexed |-> {}]

Init ==
  /\ now = 0
  /\ visible = {}
  /\ helius = "up"
  /\ stored = {}
  /\ cursor = {}
  /\ done = {}
  /\ pass = [p \in Readers |-> NoPass]
  /\ failures = 0
  /\ start = {}
  /\ promised = {}

Between(from, to) == {t \in Txs : from <= Time[t] /\ Time[t] < to}

----------------------------------------------------------------------------
\* The environment.  A transaction is indexed at most Settle seconds after
\* its block time, which is what settle_secs is for.
Tick ==
  /\ now < MaxTime
  /\ Between(0, now + 1 - Settle) \subseteq visible
  /\ now' = now + 1
  /\ UNCHANGED <<visible, helius, stored, cursor, done, pass, failures, start, promised>>

Index(t) ==
  /\ t \notin visible
  /\ Time[t] <= now
  /\ visible' = visible \cup {t}
  /\ UNCHANGED <<now, helius, stored, cursor, done, pass, failures, start, promised>>

HeliusGoesDown ==
  /\ Outage
  /\ helius' = "down"
  /\ UNCHANGED <<now, visible, stored, cursor, done, pass, failures, start, promised>>

----------------------------------------------------------------------------
Open(p, from, to) ==
  pass' = [pass EXCEPT ![p] = [NoPass EXCEPT !.pc = "scan", !.from = from, !.to = to,
                                             !.indexed = Between(from, to) \cap visible]]

\* ingest_solana_source up to scan_window; an empty window is no pass.
BeginLive ==
  /\ pass[Live].pc = "idle"
  /\ \E from \in IF cursor = {} THEN {now - StartBack} ELSE cursor :
       /\ from < now - Settle
       /\ start' = IF cursor = {} THEN {from} ELSE start
       /\ Open(Live, from, now - Settle)
  /\ UNCHANGED <<now, visible, helius, stored, cursor, done, failures, promised>>

\* backfill_days lists the days before today; backfill_solana_day skips the
\* ones done.
BeginDay(d) ==
  /\ pass[d].pc = "idle"
  /\ d < now \div DayLength
  /\ d \notin done
  /\ Open(d, d * DayLength, (d + 1) * DayLength)
  /\ UNCHANGED <<now, visible, helius, stored, cursor, done, failures, start, promised>>

----------------------------------------------------------------------------
\* scan_step.  A page continues after the last transaction returned, oldest
\* first, and is full unless it is the last one.
Remaining(p) ==
  {t \in Between(pass[p].from, pass[p].to) \cap visible : \A u \in pass[p].taken : u < t}

Pages(p) ==
  {page \in SUBSET Remaining(p) :
     /\ \A t \in page, u \in Remaining(p) \ page : t < u
     /\ Cardinality(page) <= PageSize
     /\ page = Remaining(p) \/ Cardinality(page) = PageSize}

Latest(S) == {t \in S : \A u \in S : u <= t}

\* scan_window consumes the envelopes the scan yields.
Consume(p, yielded) ==
  [rows |-> pass[p].rows \cup yielded,
   newest |-> Latest(pass[p].newest \cup {Time[t] : t \in yielded})]

WithinBudget(p) == pass[p].pages < MaxPages

CanScan(p) ==
  /\ pass[p].pc = "scan"
  /\ Cardinality(pass[p].rows) < FlushRows

\* One page is read.  The last envelope is held back while pages follow, so
\* that a scan which stops can still mark it truncated.
FetchPage(p) ==
  /\ CanScan(p)
  /\ pass[p].token # "none"
  /\ WithinBudget(p)
  /\ helius = "up"
  /\ \E page \in Pages(p) :
       LET more == page # Remaining(p)
           good == page \ Broken
           held == IF ~more THEN {} ELSE IF good = {} THEN pass[p].held ELSE Latest(good)
           seen == Consume(p, (pass[p].held \cup good) \ held)
       IN  pass' = [pass EXCEPT ![p] = [@ EXCEPT
                      !.pages = pass[p].pages + 1, !.taken = pass[p].taken \cup page,
                      !.token = IF more THEN "more" ELSE "none", !.held = held,
                      !.rows = seen.rows, !.newest = seen.newest]]
  /\ UNCHANGED <<now, visible, helius, stored, cursor, done, failures, start, promised>>

\* An error ends the pass; ingest_solana repeats a live one on the fallback.
Abandon(p) ==
  pass' = [pass EXCEPT ![p] = IF p = Live THEN [NoPass EXCEPT !.pc = "fallback"] ELSE NoPass]

\* The page budget ends the scan: the envelope held back is truncated, and
\* without one the scan fails.
StopScan(p) ==
  /\ CanScan(p)
  /\ pass[p].token = "more"
  /\ ~WithinBudget(p)
  /\ IF pass[p].held = {}
     THEN Abandon(p)
     ELSE LET seen == Consume(p, pass[p].held)
          IN  pass' = [pass EXCEPT ![p] = [@ EXCEPT
                         !.token = "none", !.held = {}, !.truncated = "yes",
                         !.rows = seen.rows, !.newest = seen.newest]]
  /\ UNCHANGED <<now, visible, helius, stored, cursor, done, failures, start, promised>>

\* scan_window's writes: full batches meanwhile, the rest at the end.
Flush(p) ==
  /\ pass[p].pc = "scan"
  /\ pass[p].token = "none" \/ Cardinality(pass[p].rows) >= FlushRows
  /\ stored' = stored \cup pass[p].rows
  /\ pass' = [pass EXCEPT ![p] = [@ EXCEPT
                !.rows = {}, !.pc = IF pass[p].token = "none" THEN "written" ELSE "scan"]]
  /\ UNCHANGED <<now, visible, helius, cursor, done, failures, start, promised>>

\* Mutated form of Advance: only a complete pass moves the cursor.
AdvanceComplete ==
  /\ pass[Live].pc = "written"
  /\ cursor' = IF pass[Live].truncated = "no" THEN {pass[Live].to} ELSE cursor
  /\ pass' = [pass EXCEPT ![Live] = NoPass]
  /\ UNCHANGED <<now, visible, helius, stored, done, failures, start, promised>>

\* Mutated form of Advance: the newest second is not read again.
AdvancePastNewest ==
  /\ pass[Live].pc = "written"
  /\ cursor' = IF pass[Live].truncated = "no" THEN {pass[Live].to}
               ELSE {n + 1 : n \in pass[Live].newest}
  /\ pass' = [pass EXCEPT ![Live] = NoPass]
  /\ UNCHANGED <<now, visible, helius, stored, done, failures, start, promised>>

Clamp(n, low, high) == IF n < low THEN low ELSE IF n > high THEN high ELSE n

\* ingest_solana_source: the facts are stored, now the cursor moves.
Advance ==
  /\ pass[Live].pc = "written"
  /\ LET from == pass[Live].from
         to == pass[Live].to
     IN  cursor' = IF pass[Live].truncated = "no" THEN {to}
                   ELSE IF pass[Live].newest = {} THEN {from}
                   ELSE {Clamp(n, from, to) : n \in pass[Live].newest}
  /\ pass' = [pass EXCEPT ![Live] = NoPass]
  /\ UNCHANGED <<now, visible, helius, stored, done, failures, start, promised>>

\* Mutated form of MarkDay: a truncated day is marked done.
MarkDayAlways(d) ==
  /\ pass[d].pc = "written"
  /\ done' = done \cup {d}
  /\ promised' = promised \cup pass[d].indexed
  /\ pass' = [pass EXCEPT ![d] = NoPass]
  /\ UNCHANGED <<now, visible, helius, stored, cursor, failures, start>>

\* backfill_solana_day: a day read completely is marked done.
MarkDay(d) ==
  /\ pass[d].pc = "written"
  /\ IF pass[d].truncated = "no"
     THEN /\ done' = done \cup {d}
          /\ promised' = promised \cup pass[d].indexed
     ELSE UNCHANGED <<done, promised>>
  /\ pass' = [pass EXCEPT ![d] = NoPass]
  /\ UNCHANGED <<now, visible, helius, stored, cursor, failures, start>>

----------------------------------------------------------------------------
\* signatures_in lists from the newest transaction down: it ends at one
\* before the window or at an empty page, within ListPages pages.
ListingFits(from) ==
  LET listed == Cardinality({t \in visible : Time[t] >= from})
  IN  IF \E t \in visible : Time[t] < from
      THEN listed < ListPages * ListSize
      ELSE listed <= (ListPages - 1) * ListSize

\* fallback_ingest_source up to the listing.  Without a cursor, with an
\* empty window or a listing that is too long the pass ends.
List ==
  /\ pass[Live].pc = "fallback"
  /\ LET To(from) == IF from + MaxWindow < now - Settle THEN from + MaxWindow ELSE now - Settle
         ready == {from \in cursor : from < To(from) /\ ListingFits(from)}
     IN  IF ready = {}
         THEN pass' = [pass EXCEPT ![Live] = NoPass]
         ELSE \E from \in ready :
                pass' = [pass EXCEPT ![Live] = [NoPass EXCEPT
                           !.pc = "fetch", !.from = from, !.to = To(from),
                           !.rows = Between(from, To(from)) \cap visible]]
  /\ UNCHANGED <<now, visible, helius, stored, cursor, done, failures, start, promised>>

\* fallback_scan_window: the transactions are read and stored; a null answer
\* is skipped.
FetchListed ==
  /\ pass[Live].pc = "fetch"
  /\ \E null \in IF NodeGaps THEN SUBSET pass[Live].rows ELSE {{}} :
       stored' = stored \cup (pass[Live].rows \ null)
  /\ pass' = [pass EXCEPT ![Live] = [@ EXCEPT !.pc = "listed", !.rows = {}]]
  /\ UNCHANGED <<now, visible, helius, cursor, done, failures, start, promised>>

AdvanceListed ==
  /\ pass[Live].pc = "listed"
  /\ cursor' = {pass[Live].to}
  /\ pass' = [pass EXCEPT ![Live] = NoPass]
  /\ UNCHANGED <<now, visible, helius, stored, done, failures, start, promised>>

----------------------------------------------------------------------------
\* Helius is down: the next page fails.
Unanswered(p) ==
  /\ CanScan(p)
  /\ pass[p].token # "none"
  /\ WithinBudget(p)
  /\ helius = "down"
  /\ Abandon(p)
  /\ UNCHANGED <<now, visible, helius, stored, cursor, done, failures, start, promised>>

\* A page, a write or a cursor update fails.
Fails(p) ==
  /\ failures < MaxFailures
  /\ failures' = failures + 1
  /\ \/ pass[p].pc \in {"scan", "written"} /\ Abandon(p)
     \/ /\ pass[p].pc \in {"fallback", "fetch", "listed"}
        /\ pass' = [pass EXCEPT ![p] = NoPass]
  /\ UNCHANGED <<now, visible, helius, stored, cursor, done, start, promised>>

\* The daemon or the backfill stops (a signal, a crash) in the middle.
Stop(p) ==
  /\ failures < MaxFailures
  /\ failures' = failures + 1
  /\ pass[p].pc # "idle"
  /\ pass' = [pass EXCEPT ![p] = NoPass]
  /\ UNCHANGED <<now, visible, helius, stored, cursor, done, start, promised>>

Read(p) == FetchPage(p) \/ StopScan(p) \/ Flush(p) \/ Unanswered(p)

LiveStep == BeginLive \/ Read(Live) \/ Advance \/ List \/ FetchListed \/ AdvanceListed

DayStep(d) == BeginDay(d) \/ Read(d) \/ MarkDay(d)

Next ==
  \/ Tick \/ HeliusGoesDown
  \/ \E t \in Txs : Index(t)
  \/ LiveStep
  \/ \E d \in Days : DayStep(d)
  \/ \E p \in Readers : Fails(p) \/ Stop(p)

Spec == Init /\ [][Next]_vars

\* Time passes, the providers index, and every request and write of a pass
\* ends (client timeouts); failures are finitely many.
FairSpec ==
  /\ Spec
  /\ WF_vars(Tick)
  /\ \A t \in Txs : WF_vars(Index(t))
  /\ WF_vars(LiveStep)
  /\ \A d \in Days : WF_vars(DayStep(d))

----------------------------------------------------------------------------
TypeOK ==
  /\ now \in 0..MaxTime
  /\ visible \subseteq Txs /\ stored \subseteq visible
  /\ helius \in {"up", "down"}
  /\ cursor \subseteq Int /\ \A c, d \in cursor : c = d
  /\ start \subseteq Int /\ \A c, d \in start : c = d
  /\ done \subseteq Days
  /\ promised \subseteq Txs
  /\ failures \in 0..MaxFailures
  /\ pass \in [Readers ->
       [pc : {"idle", "scan", "written", "fallback", "fetch", "listed"},
        from : Int, to : Int, taken : SUBSET Txs, pages : 0..MaxPages,
        token : {"first", "more", "none"}, held : SUBSET Txs, rows : SUBSET Txs,
        truncated : {"yes", "no"}, newest : SUBSET Nat, indexed : SUBSET Txs]]

(***************************************************************************)
(* No gap behind the cursor: every transaction from the first pass's start *)
(* up to the cursor is stored, unless the Helius decoder skipped it,       *)
(* whatever was truncated, failed, stopped or went over the fallback.      *)
(***************************************************************************)
NoGap ==
  \A c \in cursor, s \in start : Between(s, c) \ Broken \subseteq stored

(***************************************************************************)
(* A day marked done was read completely: what was indexed in it when its  *)
(* pass began is stored.                                                   *)
(***************************************************************************)
DaysRead == promised \ Broken \subseteq stored

\* Helius is down for good and the listing from the cursor is too long: every
\* live pass fails in List and leaves the cursor where it is.
Stalled == helius = "down" /\ \E c \in cursor : ~ListingFits(c)

(***************************************************************************)
(* Once the first pass has created the cursor, it reaches the settled end  *)
(* of the history through truncated passes and fallback windows, or an     *)
(* outage that the listing budget does not reach across holds it for good. *)
(* Nothing else holds it: a listing that is too long only delays while     *)
(* Helius answers, or while a pass in flight still moves the cursor.       *)
(***************************************************************************)
CatchesUp == (cursor # {}) ~> (cursor = {MaxTime - Settle} \/ []Stalled)

(***************************************************************************)
(* What solana_fallback.rs:9-10 says without that exception: "a long       *)
(* outage is caught up in windows of at most `max_window_secs`".           *)
(***************************************************************************)
CaughtUpInWindows == (cursor # {}) ~> (cursor = {MaxTime - Settle})
=============================================================================
