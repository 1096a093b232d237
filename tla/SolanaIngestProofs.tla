------------------------- MODULE SolanaIngestProofs -------------------------
(***************************************************************************)
(* Proofs about the ingestion of a Solana source, for any history, page    *)
(* and flush sizes, budgets, days and failures, when the fallback node     *)
(* returns every transaction it lists (NodeGaps is FALSE).                 *)
(***************************************************************************)
EXTENDS SolanaIngest, TLAPS

PassType ==
  [pc : {"idle", "scan", "written", "fallback", "fetch", "listed"},
   from : Int, to : Int, taken : SUBSET Txs, pages : 0..MaxPages,
   token : {"first", "more", "none"}, held : SUBSET Txs, rows : SUBSET Txs,
   truncated : {"yes", "no"}, newest : SUBSET Nat, indexed : SUBSET Txs]

Scanning == {"scan", "written"}

(***************************************************************************)
(* What a pass q knows while the providers have indexed vis and the        *)
(* database holds sto: the pages are a prefix of what was indexed when it  *)
(* began, and what they returned is stored, on its way, or held back.      *)
(***************************************************************************)
Reading(q, vis, sto) ==
  /\ q.taken \cup q.rows \cup q.held \subseteq vis
  /\ q.pc \in Scanning =>
       /\ q.indexed \subseteq Between(q.from, q.to) \cap vis
       /\ \A t \in q.indexed \ q.taken, u \in q.taken : u < t
       /\ q.taken \ Broken \subseteq sto \cup q.rows \cup q.held
       /\ q.held \subseteq q.taken
       /\ \A n \in q.newest : \E u \in q.taken : n = Time[u]
       /\ \A m, n \in q.newest : m = n
       /\ q.token = "none" =>
            q.held = {} /\ (q.truncated = "no" => q.indexed \subseteq q.taken)
  /\ q.pc = "written" => q.token = "none" /\ q.rows = {}

\* The live pass works on the window above the cursor, which is settled.
AboveCursor(q, n, cur, st, sto) ==
  /\ q.pc \in {"scan", "written", "fetch", "listed"} =>
       /\ q.from < q.to /\ q.to <= n - Settle
       /\ cur = {} => q.pc \in Scanning /\ st = {q.from}
       /\ cur # {} => cur = {q.from}
  /\ q.pc \in Scanning => q.indexed = Between(q.from, q.to)
  /\ q.pc = "fetch" => q.rows = Between(q.from, q.to)
  /\ q.pc = "listed" => Between(q.from, q.to) \subseteq sto

Settled == Between(0, now - Settle) \subseteq visible

IngestInv ==
  /\ TypeOK
  /\ Settled
  /\ \A p \in Readers : Reading(pass[p], visible, stored)
  /\ AboveCursor(pass[Live], now, cursor, start, stored)
  /\ NoGap /\ DaysRead

USE ConstantsAssumption

----------------------------------------------------------------------------
\* A window ends where the next one begins.
LEMMA Windows ==
  ASSUME NEW a \in Int, NEW b \in Int, NEW c \in Int
  PROVE Between(a, c) \subseteq Between(a, b) \cup Between(b, c)
<1> SUFFICES ASSUME NEW t \in Between(a, c) PROVE t \in Between(a, b) \cup Between(b, c)
  OBVIOUS
<1>1. t \in Txs /\ Time[t] \in Int /\ a <= Time[t] /\ Time[t] < c BY DEF Between
<1>2. Time[t] < b \/ b <= Time[t] BY <1>1
<1> QED BY <1>1, <1>2 DEF Between

\* A window that ends settle_secs ago is indexed.
LEMMA SettledWindow ==
  ASSUME Settled, now \in Int, NEW a \in Int, NEW b \in Int, b <= now - Settle
  PROVE Between(a, b) \subseteq visible
<1> SUFFICES ASSUME NEW t \in Between(a, b) PROVE t \in visible OBVIOUS
<1>1. t \in Txs /\ Time[t] \in Nat /\ Time[t] < b BY DEF Between
<1>2. 0 <= Time[t] /\ Time[t] < now - Settle BY <1>1
<1>3. t \in Between(0, now - Settle) BY <1>1, <1>2 DEF Between
<1> QED BY <1>3 DEF Settled

\* The latest of a set is one at most, and one of it.
LEMMA LatestIsOne ==
  ASSUME NEW S \in SUBSET Int
  PROVE Latest(S) \subseteq S /\ \A m, n \in Latest(S) : m = n
BY DEF Latest

\* More indexed, more stored: what a pass knows stays true.
LEMMA ReadingStays ==
  ASSUME NEW q, NEW vis, NEW vis2, NEW sto, NEW sto2, Reading(q, vis, sto),
         vis \subseteq vis2, sto \subseteq sto2
  PROVE Reading(q, vis2, sto2)
BY DEF Reading

\* A pass that is over, or waits for the fallback, knows nothing.
LEMMA NoPassKnows ==
  ASSUME NEW vis, NEW sto, NEW n, NEW cur, NEW st,
         NEW r \in {NoPass, [NoPass EXCEPT !.pc = "fallback"]}
  PROVE r \in PassType /\ Reading(r, vis, sto) /\ AboveCursor(r, n, cur, st, sto)
<1>1. r.pc \in {"idle", "fallback"} /\ r.taken = {} /\ r.rows = {} /\ r.held = {} BY DEF NoPass
<1>2. r \in PassType BY DEF NoPass, PassType
<1> QED BY <1>1, <1>2 DEF Reading, AboveCursor, Scanning

\* A step of one reader that leaves the cursor, the days and the clock.
LEMMA ReaderStep ==
  ASSUME IngestInv, NEW p \in Readers, NEW r \in PassType,
         pass' = [pass EXCEPT ![p] = r],
         UNCHANGED <<now, visible, helius, cursor, done, start, promised>>,
         failures' \in 0..MaxFailures,
         stored \subseteq stored', stored' \subseteq visible,
         Reading(r, visible, stored'),
         p = Live => AboveCursor(r, now, cursor, start, stored')
  PROVE IngestInv'
<1>1. TypeOK' BY DEF IngestInv, TypeOK, PassType
<1>2. \A j \in Readers : Reading(pass'[j], visible', stored')
  <2>1. \A j \in Readers \ {p} : pass'[j] = pass[j] BY DEF IngestInv, TypeOK
  <2>2. pass'[p] = r BY DEF IngestInv, TypeOK
  <2>3. \A j \in Readers \ {p} : Reading(pass[j], visible, stored') BY ReadingStays DEF IngestInv
  <2> QED BY <2>1, <2>2, <2>3
<1>3. AboveCursor(pass'[Live], now', cursor', start', stored')
  <2>1. Live \in Readers BY DEF Readers
  <2>2. CASE p = Live BY <2>1, <2>2 DEF IngestInv, TypeOK
  <2>3. CASE p # Live
    <3>1. pass'[Live] = pass[Live] BY <2>1, <2>3 DEF IngestInv, TypeOK
    <3> QED BY <3>1 DEF IngestInv, AboveCursor
  <2> QED BY <2>2, <2>3
<1>4. Settled' /\ NoGap' /\ DaysRead' BY DEF IngestInv, Settled, NoGap, DaysRead
<1> QED BY <1>1, <1>2, <1>3, <1>4 DEF IngestInv

\* An error ends the pass of a reader.
LEMMA AbandonStep ==
  ASSUME IngestInv, NEW p \in Readers,
         pass' = [pass EXCEPT ![p] = NoPass]
           \/ pass' = [pass EXCEPT ![p] = [NoPass EXCEPT !.pc = "fallback"]],
         UNCHANGED <<now, visible, helius, stored, cursor, done, start, promised>>,
         failures' \in 0..MaxFailures
  PROVE IngestInv'
<1>1. PICK r \in {NoPass, [NoPass EXCEPT !.pc = "fallback"]} : pass' = [pass EXCEPT ![p] = r]
  OBVIOUS
<1>2. r \in PassType /\ Reading(r, visible, stored')
        /\ AboveCursor(r, now, cursor, start, stored')
  BY NoPassKnows
<1>3. stored' \subseteq visible /\ stored \subseteq stored' BY DEF IngestInv, TypeOK
<1> QED BY <1>1, <1>2, <1>3, ReaderStep

----------------------------------------------------------------------------
\* What the scan yields to scan_window is added to what it read.
LEMMA ConsumeAdds ==
  ASSUME TypeOK, NEW p \in Readers, NEW yielded \in SUBSET Txs
  PROVE /\ Consume(p, yielded).rows = pass[p].rows \cup yielded
        /\ Consume(p, yielded).rows \in SUBSET Txs
        /\ Consume(p, yielded).newest \in SUBSET Nat
        /\ \A n \in Consume(p, yielded).newest :
             n \in pass[p].newest \/ \E u \in yielded : n = Time[u]
        /\ \A m, n \in Consume(p, yielded).newest : m = n
<1>1. pass[p] \in PassType BY DEF TypeOK, PassType
<1>2. pass[p].newest \subseteq Nat /\ pass[p].rows \subseteq Txs BY <1>1 DEF PassType
<1> DEFINE S == pass[p].newest \cup {Time[t] : t \in yielded}
<1>3. S \subseteq Nat BY <1>2
<1>4. Consume(p, yielded).newest = Latest(S) /\ Consume(p, yielded).rows = pass[p].rows \cup yielded
  BY DEF Consume
<1>5. Latest(S) \subseteq S /\ \A m, n \in Latest(S) : m = n
  <2>1. S \in SUBSET Int BY <1>3
  <2> HIDE DEF S
  <2> QED BY <2>1, LatestIsOne
<1> QED BY <1>2, <1>3, <1>4, <1>5

\* A page: what is read stays a prefix, and all of it is accounted for.
LEMMA PageStep ==
  ASSUME IngestInv, NEW p \in Readers, FetchPage(p) PROVE IngestInv'
<1> DEFINE q == pass[p]
<1>1. PICK page \in Pages(p) :
        LET more == page # Remaining(p)
            good == page \ Broken
            held == IF ~more THEN {} ELSE IF good = {} THEN q.held ELSE Latest(good)
            seen == Consume(p, (q.held \cup good) \ held)
        IN  pass' = [pass EXCEPT ![p] = [q EXCEPT
               !.pages = q.pages + 1, !.taken = q.taken \cup page,
               !.token = IF more THEN "more" ELSE "none", !.held = held,
               !.rows = seen.rows, !.newest = seen.newest]]
  BY DEF FetchPage, IngestInv, TypeOK
<1> DEFINE more == page # Remaining(p)
           good == page \ Broken
           held == IF ~more THEN {} ELSE IF good = {} THEN q.held ELSE Latest(good)
           yielded == (q.held \cup good) \ held
           seen == Consume(p, yielded)
           r == [q EXCEPT !.pages = q.pages + 1, !.taken = q.taken \cup page,
                          !.token = IF more THEN "more" ELSE "none", !.held = held,
                          !.rows = seen.rows, !.newest = seen.newest]
<1>2. pass' = [pass EXCEPT ![p] = r] BY <1>1
<1>3. q \in PassType /\ Reading(q, visible, stored) BY DEF IngestInv, TypeOK, PassType
<1>4. q.pc = "scan" /\ q.pages + 1 \in 0..MaxPages
  BY <1>3 DEF FetchPage, CanScan, WithinBudget, PassType
<1>5. page \subseteq Remaining(p) /\ \A t \in page, u \in Remaining(p) \ page : t < u
  BY <1>1 DEF Pages
<1>6. Remaining(p) \subseteq Between(q.from, q.to) \cap visible /\ visible \subseteq Txs
      /\ \A t \in Remaining(p), u \in q.taken : u < t
  BY DEF Remaining, IngestInv, TypeOK
<1>7. good \subseteq page /\ page \subseteq visible /\ page \subseteq Txs BY <1>5, <1>6
<1>8. held \subseteq q.held \cup good
  <2>1. Latest(good) \subseteq good BY DEF Latest
  <2> QED BY <2>1
<1>9. q.held \subseteq q.taken /\ q.taken \subseteq visible BY <1>3, <1>4 DEF Reading, Scanning
<1>10. yielded \in SUBSET Txs /\ yielded \subseteq q.taken \cup page BY <1>6, <1>7, <1>9
<1>11. /\ seen.rows = q.rows \cup yielded
       /\ seen.rows \in SUBSET Txs /\ seen.newest \in SUBSET Nat
       /\ \A n \in seen.newest : n \in q.newest \/ \E u \in yielded : n = Time[u]
       /\ \A m, n \in seen.newest : m = n
  <2> HIDE DEF yielded
  <2> QED BY <1>10, ConsumeAdds DEF IngestInv
<1>12. held \in SUBSET Txs /\ q.taken \cup page \in SUBSET Txs BY <1>6, <1>7, <1>8, <1>9
<1> HIDE DEF yielded, held, seen, good
<1>13. /\ r.pc = "scan" /\ r.from = q.from /\ r.to = q.to /\ r.indexed = q.indexed
       /\ r.truncated = q.truncated /\ r.taken = q.taken \cup page /\ r.held = held
       /\ r.rows = seen.rows /\ r.newest = seen.newest
       /\ r.token = IF more THEN "more" ELSE "none"
  BY <1>3, <1>4 DEF PassType
<1>14. r \in PassType
  <2>1. (IF more THEN "more" ELSE "none") \in {"first", "more", "none"} OBVIOUS
  <2> QED BY <1>3, <1>4, <1>11, <1>12, <2>1 DEF PassType
<1> HIDE DEF r, more
<1>15. /\ r.indexed \subseteq Between(r.from, r.to) \cap visible
       /\ \A t \in r.indexed \ r.taken, u \in r.taken : u < t
  <2>1. q.indexed \subseteq Between(q.from, q.to) \cap visible
        /\ \A t \in q.indexed \ q.taken, u \in q.taken : u < t
    BY <1>3, <1>4 DEF Reading, Scanning
  <2>2. ASSUME NEW t \in q.indexed \ (q.taken \cup page), NEW u \in q.taken \cup page
        PROVE u < t
    <3>1. t \in Remaining(p) \ page BY <2>1, <2>2 DEF Remaining
    <3> QED BY <1>5, <1>6, <3>1
  <2> QED BY <1>13, <2>1, <2>2
<1>16. r.taken \ Broken \subseteq stored \cup r.rows \cup r.held /\ r.held \subseteq r.taken
       /\ r.taken \cup r.rows \cup r.held \subseteq visible
  <2>1. q.taken \ Broken \subseteq stored \cup q.rows \cup q.held /\ q.rows \subseteq visible
    BY <1>3, <1>4 DEF Reading, Scanning
  <2>2. q.held \cup good \subseteq yielded \cup held BY DEF yielded
  <2>3. page \ Broken \subseteq yielded \cup held BY <2>2 DEF good
  <2> QED BY <1>7, <1>8, <1>9, <1>10, <1>11, <1>13, <2>1, <2>2, <2>3
<1>17. /\ \A n \in r.newest : \E u \in r.taken : n = Time[u]
       /\ \A m, n \in r.newest : m = n
  <2>1. \A n \in q.newest : \E u \in q.taken : n = Time[u]
    BY <1>3, <1>4 DEF Reading, Scanning
  <2> QED BY <1>10, <1>11, <1>13, <2>1
<1>18. r.token = "none" => r.held = {} /\ r.indexed \subseteq r.taken
  <2> SUFFICES ASSUME ~more PROVE r.held = {} /\ r.indexed \subseteq r.taken
    BY <1>13
  <2>1. r.held = {} BY <1>13 DEF held
  <2>2. page = Remaining(p) BY DEF more
  <2>3. q.indexed \subseteq q.taken \cup page
    BY <1>3, <1>4, <2>2 DEF Reading, Scanning, Remaining
  <2> QED BY <1>13, <2>1, <2>3
<1>19. Reading(r, visible, stored)
  BY <1>13, <1>15, <1>16, <1>17, <1>18 DEF Reading, Scanning
<1>20. p = Live => AboveCursor(r, now, cursor, start, stored)
  <2> SUFFICES ASSUME p = Live PROVE AboveCursor(r, now, cursor, start, stored) OBVIOUS
  <2>1. AboveCursor(q, now, cursor, start, stored) BY DEF IngestInv
  <2> HIDE DEF q
  <2> QED BY <1>4, <1>13, <2>1 DEF AboveCursor, Scanning
<1>21. UNCHANGED <<now, visible, helius, stored, cursor, done, failures, start, promised>>
  BY DEF FetchPage
<1>22. stored' \subseteq visible /\ stored \subseteq stored' /\ failures' \in 0..MaxFailures
  BY <1>21 DEF IngestInv, TypeOK
<1> HIDE DEF q
<1> QED BY <1>2, <1>14, <1>19, <1>20, <1>21, <1>22, ReaderStep

\* The budget ends a scan: the held envelope is yielded, and the pass knows
\* that it is truncated.
LEMMA StopScanStep ==
  ASSUME IngestInv, NEW p \in Readers, StopScan(p) PROVE IngestInv'
<1> DEFINE q == pass[p]
           seen == Consume(p, q.held)
           r == [q EXCEPT !.token = "none", !.held = {}, !.truncated = "yes",
                          !.rows = seen.rows, !.newest = seen.newest]
<1>1. UNCHANGED <<now, visible, helius, stored, cursor, done, failures, start, promised>>
  BY DEF StopScan
<1>2. failures' \in 0..MaxFailures BY <1>1 DEF IngestInv, TypeOK
<1>3. CASE Abandon(p)
  <2>1. \/ pass' = [pass EXCEPT ![p] = NoPass]
        \/ pass' = [pass EXCEPT ![p] = [NoPass EXCEPT !.pc = "fallback"]]
    BY <1>3 DEF Abandon
  <2> QED BY <1>1, <1>2, <2>1, AbandonStep
<1>4. CASE pass' = [pass EXCEPT ![p] = r]
  <2>1. q \in PassType /\ Reading(q, visible, stored) /\ q.pc = "scan"
    BY DEF StopScan, CanScan, IngestInv, TypeOK, PassType
  <2>2. q.held \in SUBSET Txs /\ q.held \subseteq q.taken
    BY <2>1 DEF PassType, Reading, Scanning
  <2>3. /\ seen.rows = q.rows \cup q.held
        /\ seen.rows \in SUBSET Txs /\ seen.newest \in SUBSET Nat
        /\ \A n \in seen.newest : n \in q.newest \/ \E u \in q.held : n = Time[u]
        /\ \A m, n \in seen.newest : m = n
    BY <2>2, ConsumeAdds DEF IngestInv
  <2> HIDE DEF seen
  <2>4. /\ r.pc = "scan" /\ r.from = q.from /\ r.to = q.to /\ r.indexed = q.indexed
        /\ r.truncated = "yes" /\ r.taken = q.taken /\ r.held = {} /\ r.token = "none"
        /\ r.rows = seen.rows /\ r.newest = seen.newest
    BY <2>1 DEF PassType
  <2>5. r \in PassType BY <2>1, <2>3 DEF PassType
  <2> HIDE DEF r
  <2>6. Reading(r, visible, stored)
    <3>1. \A n \in r.newest : \E u \in r.taken : n = Time[u]
      BY <2>1, <2>2, <2>3, <2>4 DEF Reading, Scanning
    <3>2. r.taken \ Broken \subseteq stored \cup r.rows \cup r.held
          /\ r.taken \cup r.rows \cup r.held \subseteq visible
      BY <2>1, <2>2, <2>3, <2>4 DEF Reading, Scanning
    <3> QED BY <2>1, <2>3, <2>4, <3>1, <3>2 DEF Reading, Scanning
  <2>7. p = Live => AboveCursor(r, now, cursor, start, stored)
    <3> SUFFICES ASSUME p = Live PROVE AboveCursor(r, now, cursor, start, stored) OBVIOUS
    <3>1. AboveCursor(q, now, cursor, start, stored) BY DEF IngestInv
    <3> HIDE DEF q
    <3> QED BY <2>1, <2>4, <3>1 DEF AboveCursor, Scanning
  <2>8. stored' \subseteq visible /\ stored \subseteq stored' BY <1>1 DEF IngestInv, TypeOK
  <2> HIDE DEF q
  <2> QED BY <1>1, <1>2, <1>4, <2>5, <2>6, <2>7, <2>8, ReaderStep
<1> QED BY <1>3, <1>4 DEF StopScan, IngestInv, TypeOK

\* A batch is stored: its rows move from the pass to the database.
LEMMA FlushStep ==
  ASSUME IngestInv, NEW p \in Readers, Flush(p) PROVE IngestInv'
<1> DEFINE q == pass[p]
           pcn == IF q.token = "none" THEN "written" ELSE "scan"
           r == [q EXCEPT !.rows = {}, !.pc = pcn]
<1>1. q \in PassType /\ Reading(q, visible, stored) /\ q.pc = "scan"
  BY DEF Flush, IngestInv, TypeOK, PassType
<1>2. stored' = stored \cup q.rows /\ pass' = [pass EXCEPT ![p] = r]
  BY DEF Flush, IngestInv, TypeOK
<1>3. /\ r.pc = pcn /\ r.from = q.from /\ r.to = q.to /\ r.indexed = q.indexed
      /\ r.truncated = q.truncated /\ r.taken = q.taken /\ r.held = q.held
      /\ r.token = q.token /\ r.rows = {} /\ r.newest = q.newest
  BY <1>1 DEF PassType
<1>4. r \in PassType BY <1>1 DEF PassType
<1> HIDE DEF r
<1>5. Reading(r, visible, stored')
  BY <1>1, <1>2, <1>3 DEF Reading, Scanning
<1>6. p = Live => AboveCursor(r, now, cursor, start, stored')
  <2> SUFFICES ASSUME p = Live PROVE AboveCursor(r, now, cursor, start, stored') OBVIOUS
  <2>1. AboveCursor(q, now, cursor, start, stored) BY DEF IngestInv
  <2>2. r.pc \in Scanning BY <1>3 DEF Scanning
  <2>3. q.pc \in Scanning BY <1>1 DEF Scanning
  <2> HIDE DEF q, pcn
  <2> QED BY <1>3, <2>1, <2>2, <2>3 DEF AboveCursor, Scanning
<1>7. UNCHANGED <<now, visible, helius, cursor, done, failures, start, promised>>
  BY DEF Flush
<1>8. stored \subseteq stored' /\ stored' \subseteq visible /\ failures' \in 0..MaxFailures
  BY <1>1, <1>2, <1>7 DEF Reading, IngestInv, TypeOK
<1> HIDE DEF q, pcn
<1> QED BY <1>2, <1>4, <1>5, <1>6, <1>7, <1>8, ReaderStep

\* A pass ends without its result: an error, a stop, or an outage.
LEMMA EndStep ==
  ASSUME IngestInv, NEW p \in Readers, Unanswered(p) \/ Fails(p) \/ Stop(p)
  PROVE IngestInv'
<1>1. \/ pass' = [pass EXCEPT ![p] = NoPass]
      \/ pass' = [pass EXCEPT ![p] = [NoPass EXCEPT !.pc = "fallback"]]
  BY DEF Unanswered, Fails, Stop, Abandon
<1>2. UNCHANGED <<now, visible, helius, stored, cursor, done, start, promised>>
  BY DEF Unanswered, Fails, Stop
<1>3. failures' \in 0..MaxFailures BY DEF Unanswered, Fails, Stop, IngestInv, TypeOK
<1> QED BY <1>1, <1>2, <1>3, AbandonStep

----------------------------------------------------------------------------
\* The fallback lists its whole window, which is settled.
LEMMA ListStep == ASSUME IngestInv, List PROVE IngestInv'
<1>1. UNCHANGED <<now, visible, helius, stored, cursor, done, failures, start, promised>>
  BY DEF List
<1>2. Live \in Readers BY DEF Readers
<1>3. stored' \subseteq visible /\ stored \subseteq stored' /\ failures' \in 0..MaxFailures
  BY <1>1 DEF IngestInv, TypeOK
<1>4. CASE pass' = [pass EXCEPT ![Live] = NoPass]
  BY <1>1, <1>2, <1>3, <1>4, AbandonStep
<1>5. ASSUME NEW from \in cursor, NEW to \in Int, from < to, to <= now - Settle,
             pass' = [pass EXCEPT ![Live] = [NoPass EXCEPT !.pc = "fetch", !.from = from,
                        !.to = to, !.rows = Between(from, to) \cap visible]]
      PROVE IngestInv'
  <2> DEFINE r == [NoPass EXCEPT !.pc = "fetch", !.from = from, !.to = to,
                                 !.rows = Between(from, to) \cap visible]
  <2>1. from \in Int /\ now \in Int /\ cursor = {from} BY DEF IngestInv, TypeOK
  <2>2. Between(from, to) \cap visible = Between(from, to)
    BY <1>5, <2>1, SettledWindow DEF IngestInv
  <2>3. /\ r.pc = "fetch" /\ r.from = from /\ r.to = to /\ r.taken = {} /\ r.held = {}
        /\ r.rows = Between(from, to) \cap visible
    BY DEF NoPass
  <2>4. r \in PassType
    <3>1. Between(from, to) \cap visible \in SUBSET Txs BY DEF Between
    <3>2. NoPass \in PassType BY DEF NoPass, PassType
    <3> QED BY <2>1, <3>1, <3>2 DEF PassType
  <2> HIDE DEF r
  <2>5. Reading(r, visible, stored') BY <2>3 DEF Reading, Scanning
  <2>6. AboveCursor(r, now, cursor, start, stored')
    BY <1>5, <2>1, <2>2, <2>3 DEF AboveCursor, Scanning
  <2>7. pass' = [pass EXCEPT ![Live] = r] BY <1>5 DEF r
  <2> QED BY <1>1, <1>2, <1>3, <2>4, <2>5, <2>6, <2>7, ReaderStep
<1>6. now \in Int /\ cursor \subseteq Int BY DEF IngestInv, TypeOK
<1> DEFINE To(from) == IF from + MaxWindow < now - Settle THEN from + MaxWindow ELSE now - Settle
<1>7. \A from \in cursor : To(from) \in Int /\ To(from) <= now - Settle BY <1>6
<1>8. \/ pass' = [pass EXCEPT ![Live] = NoPass]
      \/ \E from \in cursor : from < To(from) /\
           pass' = [pass EXCEPT ![Live] = [NoPass EXCEPT !.pc = "fetch", !.from = from,
                      !.to = To(from), !.rows = Between(from, To(from)) \cap visible]]
  BY DEF List
<1> HIDE DEF To
<1> QED BY <1>4, <1>5, <1>7, <1>8

\* The listed transactions are stored, all of them.
LEMMA FetchListedStep ==
  ASSUME ~NodeGaps, IngestInv, FetchListed PROVE IngestInv'
<1> DEFINE q == pass[Live]
           r == [q EXCEPT !.pc = "listed", !.rows = {}]
<1>1. UNCHANGED <<now, visible, helius, cursor, done, failures, start, promised>>
  BY DEF FetchListed
<1>2. Live \in Readers BY DEF Readers
<1>3. q \in PassType /\ Reading(q, visible, stored) /\ q.pc = "fetch"
      /\ AboveCursor(q, now, cursor, start, stored)
  BY <1>2 DEF FetchListed, IngestInv, TypeOK, PassType
<1>4. stored' = stored \cup q.rows BY DEF FetchListed
<1>5. pass' = [pass EXCEPT ![Live] = r] BY <1>2 DEF FetchListed, IngestInv, TypeOK
<1>6. /\ r.pc = "listed" /\ r.from = q.from /\ r.to = q.to /\ r.rows = {}
      /\ r.taken = q.taken /\ r.held = q.held
  BY <1>3 DEF PassType
<1>7. r \in PassType BY <1>3 DEF PassType
<1> HIDE DEF r
<1>8. Reading(r, visible, stored') BY <1>3, <1>6 DEF Reading, Scanning
<1>9. AboveCursor(r, now, cursor, start, stored')
  BY <1>3, <1>4, <1>6 DEF AboveCursor, Scanning
<1>10. stored \subseteq stored' /\ stored' \subseteq visible /\ failures' \in 0..MaxFailures
  BY <1>1, <1>3, <1>4 DEF Reading, IngestInv, TypeOK
<1> HIDE DEF q
<1> QED BY <1>1, <1>2, <1>5, <1>7, <1>8, <1>9, <1>10, ReaderStep

----------------------------------------------------------------------------
\* Time passes, a transaction is indexed, or Helius goes down.
LEMMA WorldStep ==
  ASSUME IngestInv, Tick \/ HeliusGoesDown \/ (\E t \in Txs : Index(t)) PROVE IngestInv'
<1>1. UNCHANGED <<stored, cursor, done, pass, failures, start, promised>>
  BY DEF Tick, HeliusGoesDown, Index
<1>2. now \in Nat /\ now' \in 0..MaxTime /\ now <= now' /\ visible \subseteq visible'
      /\ visible' \subseteq Txs /\ helius' \in {"up", "down"}
  <2>1. now \in 0..MaxTime /\ visible \subseteq Txs /\ helius \in {"up", "down"}
    BY DEF IngestInv, TypeOK
  <2>2. CASE Tick BY <2>1, <2>2 DEF Tick
  <2>3. CASE HeliusGoesDown BY <2>1, <2>3 DEF HeliusGoesDown
  <2>4. CASE \E t \in Txs : Index(t) BY <2>1, <2>4 DEF Index
  <2> QED BY <2>2, <2>3, <2>4
<1>3. TypeOK' BY <1>1, <1>2 DEF IngestInv, TypeOK
<1>4. Settled'
  <2>1. CASE Tick
    <3>1. Between(0, now + 1 - Settle) \subseteq visible /\ now' = now + 1 /\ visible' = visible
      BY <2>1 DEF Tick
    <3>2. now' - Settle = now + 1 - Settle BY <1>2, <3>1
    <3> SUFFICES ASSUME NEW t \in Txs, 0 <= Time[t], Time[t] < now' - Settle
                 PROVE t \in visible'
      BY DEF Settled, Between
    <3> QED BY <3>1, <3>2 DEF Between
  <2>2. CASE HeliusGoesDown BY <2>2 DEF HeliusGoesDown, IngestInv, Settled
  <2>3. CASE \E t \in Txs : Index(t) BY <2>3 DEF Index, IngestInv, Settled
  <2> QED BY <2>1, <2>2, <2>3
<1>5. \A p \in Readers : Reading(pass'[p], visible', stored')
  BY <1>1, <1>2, ReadingStays DEF IngestInv
<1>6. AboveCursor(pass'[Live], now', cursor', start', stored')
  <2>1. AboveCursor(pass[Live], now, cursor, start, stored) BY DEF IngestInv
  <2>2. pass[Live].to \in Int BY DEF IngestInv, TypeOK, Readers
  <2>3. pass[Live].to <= now - Settle => pass[Live].to <= now' - Settle BY <1>2, <2>2
  <2> QED BY <1>1, <2>1, <2>3 DEF AboveCursor
<1>7. NoGap' /\ DaysRead' BY <1>1 DEF IngestInv, NoGap, DaysRead
<1> QED BY <1>3, <1>4, <1>5, <1>6, <1>7 DEF IngestInv

\* A pass opens its window with what is indexed of it.
LEMMA OpenPass ==
  ASSUME TypeOK, NEW from \in Int, NEW to \in Int, NEW sto,
         NEW r, r = [NoPass EXCEPT !.pc = "scan", !.from = from, !.to = to,
                                   !.indexed = Between(from, to) \cap visible]
  PROVE /\ r \in PassType /\ Reading(r, visible, sto)
        /\ r.pc = "scan" /\ r.from = from /\ r.to = to
        /\ r.indexed = Between(from, to) \cap visible
<1>1. Between(from, to) \cap visible \in SUBSET Txs BY DEF Between
<1>2. NoPass \in PassType BY DEF NoPass, PassType
<1>3. r \in PassType BY <1>1, <1>2 DEF PassType
<1>4. /\ r.pc = "scan" /\ r.from = from /\ r.to = to /\ r.taken = {} /\ r.held = {}
      /\ r.rows = {} /\ r.newest = {} /\ r.token = "first"
      /\ r.indexed = Between(from, to) \cap visible
  BY DEF NoPass
<1>5. Reading(r, visible, sto) BY <1>4 DEF Reading, Scanning
<1> QED BY <1>3, <1>4, <1>5

\* A day's pass opens.
LEMMA BeginDayStep == ASSUME IngestInv, NEW d \in Days, BeginDay(d) PROVE IngestInv'
<1> DEFINE a == d * DayLength
           b == (d + 1) * DayLength
           r == [NoPass EXCEPT !.pc = "scan", !.from = a, !.to = b,
                               !.indexed = Between(a, b) \cap visible]
<1>1. UNCHANGED <<now, visible, helius, stored, cursor, done, failures, start, promised>>
  BY DEF BeginDay
<1>2. d \in Nat /\ DayLength \in Nat OBVIOUS
<1>3. a \in Int /\ b \in Int BY <1>2
<1>4. pass' = [pass EXCEPT ![d] = r] BY DEF BeginDay, Open
<1>5. d \in Readers /\ d # Live BY DEF Readers
<1> HIDE DEF a, b
<1>6. r \in PassType /\ Reading(r, visible, stored') BY <1>3, OpenPass DEF IngestInv
<1>7. stored' \subseteq visible /\ stored \subseteq stored' /\ failures' \in 0..MaxFailures
  BY <1>1 DEF IngestInv, TypeOK
<1> HIDE DEF r
<1> QED BY <1>1, <1>4, <1>5, <1>6, <1>7, ReaderStep

\* Without a cursor nothing is promised yet: the pass starts where it likes.
LEMMA BeginLiveStep == ASSUME IngestInv, BeginLive PROVE IngestInv'
<1>1. PICK from \in (IF cursor = {} THEN {now - StartBack} ELSE cursor) :
        /\ from < now - Settle
        /\ start' = IF cursor = {} THEN {from} ELSE start
        /\ Open(Live, from, now - Settle)
  BY DEF BeginLive
<1> DEFINE to == now - Settle
           r == [NoPass EXCEPT !.pc = "scan", !.from = from, !.to = to,
                               !.indexed = Between(from, to) \cap visible]
<1>2. UNCHANGED <<now, visible, helius, stored, cursor, done, failures, promised>>
  BY DEF BeginLive
<1>3. now \in Int /\ cursor \subseteq Int /\ (\A c, d \in cursor : c = d) BY DEF IngestInv, TypeOK
<1>4. from \in Int /\ to \in Int BY <1>1, <1>3
<1>5. pass' = [pass EXCEPT ![Live] = r] BY <1>1 DEF Open
<1>6. /\ r \in PassType /\ Reading(r, visible, stored)
      /\ r.pc = "scan" /\ r.from = from /\ r.to = to
      /\ r.indexed = Between(from, to) \cap visible
  BY <1>4, OpenPass DEF IngestInv
<1>7. Between(from, to) \subseteq visible BY <1>3, <1>4, SettledWindow DEF IngestInv
<1> HIDE DEF r
<1>8. Live \in Readers BY DEF Readers
<1>9. TypeOK'
  <2>1. start' \subseteq Int /\ \A c, d \in start' : c = d BY <1>1, <1>4 DEF IngestInv, TypeOK
  <2>2. pass' \in [Readers -> PassType] BY <1>5, <1>6 DEF IngestInv, TypeOK, PassType
  <2> QED BY <1>2, <2>1, <2>2 DEF IngestInv, TypeOK, PassType
<1>10. Settled' /\ DaysRead' BY <1>2 DEF IngestInv, Settled, DaysRead
<1>11. NoGap' BY <1>1, <1>2 DEF IngestInv, NoGap
<1>12. \A j \in Readers : Reading(pass'[j], visible', stored')
  BY <1>2, <1>5, <1>6 DEF IngestInv, TypeOK
<1>13. AboveCursor(pass'[Live], now', cursor', start', stored')
  <2>1. pass'[Live] = r BY <1>5, <1>8 DEF IngestInv, TypeOK
  <2>2. r.indexed = Between(from, to) BY <1>6, <1>7
  <2>3. cursor # {} => cursor = {from} BY <1>1, <1>3
  <2>4. from < to /\ to <= now - Settle BY <1>1, <1>3
  <2> HIDE DEF to
  <2> QED BY <1>1, <1>2, <1>6, <2>1, <2>2, <2>3, <2>4 DEF AboveCursor, Scanning
<1> QED BY <1>9, <1>10, <1>11, <1>12, <1>13 DEF IngestInv

----------------------------------------------------------------------------
\* The cursor moves to c: the live pass has stored all there is below it.
LEMMA CursorStep ==
  ASSUME IngestInv, NEW c \in Int, cursor' = {c}, pass' = [pass EXCEPT ![Live] = NoPass],
         UNCHANGED <<now, visible, helius, stored, done, failures, start, promised>>,
         pass[Live].pc \in {"scan", "written", "fetch", "listed"},
         Between(pass[Live].from, c) \ Broken \subseteq stored
  PROVE IngestInv'
<1>1. Live \in Readers BY DEF Readers
<1>2. NoPass \in PassType /\ Reading(NoPass, visible, stored)
        /\ AboveCursor(NoPass, now, cursor', start, stored)
  BY NoPassKnows
<1>3. TypeOK'
  <2>1. pass' \in [Readers -> PassType] BY <1>2 DEF IngestInv, TypeOK, PassType
  <2> QED BY <2>1 DEF IngestInv, TypeOK, PassType
<1>4. NoGap'
  <2> SUFFICES ASSUME NEW s \in start PROVE Between(s, c) \ Broken \subseteq stored
    BY DEF NoGap
  <2>1. pass[Live].from \in Int /\ s \in Int BY <1>1 DEF IngestInv, TypeOK
  <2>2. AboveCursor(pass[Live], now, cursor, start, stored) BY DEF IngestInv
  <2>3. CASE cursor = {}
    <3>1. s = pass[Live].from BY <2>2, <2>3 DEF AboveCursor
    <3> QED BY <3>1
  <2>4. CASE cursor # {}
    <3>1. pass[Live].from \in cursor BY <2>2, <2>4 DEF AboveCursor
    <3>2. Between(s, pass[Live].from) \ Broken \subseteq stored BY <3>1 DEF IngestInv, NoGap
    <3>3. Between(s, c) \subseteq Between(s, pass[Live].from) \cup Between(pass[Live].from, c)
      BY <2>1, Windows
    <3> QED BY <3>2, <3>3
  <2> QED BY <2>3, <2>4
<1>5. \A j \in Readers : Reading(pass'[j], visible', stored')
  BY <1>2 DEF IngestInv, TypeOK
<1>6. AboveCursor(pass'[Live], now', cursor', start', stored')
  BY <1>1, <1>2 DEF IngestInv, TypeOK
<1>7. Settled' /\ DaysRead' BY DEF IngestInv, Settled, DaysRead
<1> QED BY <1>3, <1>4, <1>5, <1>6, <1>7 DEF IngestInv

\* A complete pass moves the cursor to its end, a truncated one to the newest
\* second it saw, below which its prefix holds everything.
LEMMA AdvanceStep == ASSUME IngestInv, Advance PROVE IngestInv'
<1> DEFINE q == pass[Live]
<1>1. Live \in Readers BY DEF Readers
<1>2. /\ q \in PassType /\ Reading(q, visible, stored) /\ q.pc = "written"
      /\ AboveCursor(q, now, cursor, start, stored)
  BY <1>1 DEF Advance, IngestInv, TypeOK, PassType
<1>3. q.from \in Int /\ q.to \in Int /\ q.newest \subseteq Int /\ q.from < q.to
      /\ q.indexed = Between(q.from, q.to)
  BY <1>2 DEF PassType, AboveCursor, Scanning
<1>4. q.taken \ Broken \subseteq stored BY <1>2 DEF Reading, Scanning
<1>5. UNCHANGED <<now, visible, helius, stored, done, failures, start, promised>>
      /\ pass' = [pass EXCEPT ![Live] = NoPass]
  BY DEF Advance
<1>6. CASE q.truncated = "no"
  <2>1. Between(q.from, q.to) \ Broken \subseteq stored
    BY <1>2, <1>3, <1>4, <1>6 DEF Reading, Scanning
  <2>2. cursor' = {q.to} BY <1>6 DEF Advance
  <2> QED BY <1>2, <1>3, <1>5, <2>1, <2>2, CursorStep
<1>7. CASE q.truncated # "no" /\ q.newest = {}
  <2>1. cursor' = {q.from} BY <1>7 DEF Advance
  <2>2. Between(q.from, q.from) = {}
    <3> DEFINE f == q.from
    <3>1. f \in Int BY <1>3
    <3> HIDE DEF f
    <3>2. Between(f, f) = {}
      <4> SUFFICES ASSUME NEW t \in Txs, f <= Time[t], Time[t] < f PROVE FALSE BY DEF Between
      <4>1. Time[t] \in Int OBVIOUS
      <4> QED BY <3>1, <4>1
    <3> QED BY <3>2 DEF f
  <2> QED BY <1>2, <1>3, <1>5, <2>1, <2>2, CursorStep
<1>8. CASE q.truncated # "no" /\ q.newest # {}
  <2>1. PICK n \in q.newest : TRUE BY <1>8
  <2>2. q.newest = {n} BY <1>2, <2>1 DEF Reading, Scanning
  <2>3. cursor' = {Clamp(n, q.from, q.to)} BY <1>8, <2>2 DEF Advance
  <2>4. PICK u \in q.taken : n = Time[u] BY <1>2, <2>1 DEF Reading, Scanning
  <2>5. n \in Int /\ Clamp(n, q.from, q.to) \in Int BY <1>3, <2>1 DEF Clamp
  <2>6. Between(q.from, Clamp(n, q.from, q.to)) \subseteq q.taken
    <3> SUFFICES ASSUME NEW t \in Between(q.from, Clamp(n, q.from, q.to)), t \notin q.taken
                 PROVE FALSE
      OBVIOUS
    <3>1. t \in Txs /\ Time[t] \in Int /\ q.from <= Time[t] /\ Time[t] < Clamp(n, q.from, q.to)
      BY DEF Between
    <3>2. Time[t] < n /\ Time[t] < q.to BY <1>3, <2>5, <3>1 DEF Clamp
    <3>3. t \in q.indexed BY <1>3, <3>1, <3>2 DEF Between
    <3>4. u < t BY <1>2, <3>3 DEF Reading, Scanning
    <3>5. u \in Txs BY <1>2 DEF PassType
    <3>6. Time[u] <= Time[t] BY <3>1, <3>4, <3>5
    <3> QED BY <2>4, <2>5, <3>1, <3>2, <3>6
  <2> HIDE DEF q
  <2>7. Between(q.from, Clamp(n, q.from, q.to)) \ Broken \subseteq stored BY <1>4, <2>6
  <2> QED BY <1>2, <1>5, <2>3, <2>5, <2>7, CursorStep DEF q
<1> QED BY <1>6, <1>7, <1>8

\* The fallback's window is stored as a whole, then the cursor moves.
LEMMA AdvanceListedStep == ASSUME IngestInv, AdvanceListed PROVE IngestInv'
<1>1. pass[Live].pc = "listed" /\ pass[Live].to \in Int
  BY DEF AdvanceListed, IngestInv, TypeOK, Readers
<1>2. Between(pass[Live].from, pass[Live].to) \subseteq stored
  BY <1>1 DEF IngestInv, AboveCursor
<1>3. /\ cursor' = {pass[Live].to} /\ pass' = [pass EXCEPT ![Live] = NoPass]
      /\ UNCHANGED <<now, visible, helius, stored, done, failures, start, promised>>
  BY DEF AdvanceListed
<1> QED BY <1>1, <1>2, <1>3, CursorStep

\* A day is marked done by a complete pass, all of which is stored.
LEMMA MarkDayStep == ASSUME IngestInv, NEW d \in Days, MarkDay(d) PROVE IngestInv'
<1> DEFINE q == pass[d]
<1>1. d \in Readers /\ d # Live /\ Live \in Readers BY DEF Readers
<1>2. q \in PassType /\ Reading(q, visible, stored) /\ q.pc = "written"
  BY <1>1 DEF MarkDay, IngestInv, TypeOK, PassType
<1>3. NoPass \in PassType /\ Reading(NoPass, visible, stored) BY NoPassKnows
<1>4. UNCHANGED <<now, visible, helius, stored, cursor, failures, start>>
      /\ pass' = [pass EXCEPT ![d] = NoPass]
  BY DEF MarkDay
<1>5. done' \subseteq Days /\ promised' \subseteq Txs /\ DaysRead'
  <2>1. CASE q.truncated = "no"
    <3>1. done' = done \cup {d} /\ promised' = promised \cup q.indexed BY <2>1 DEF MarkDay
    <3>2. q.indexed \ Broken \subseteq stored BY <1>2, <2>1 DEF Reading, Scanning
    <3>3. q.indexed \subseteq Txs BY <1>2 DEF PassType
    <3> QED BY <1>4, <3>1, <3>2, <3>3 DEF IngestInv, TypeOK, DaysRead
  <2>2. CASE q.truncated # "no"
    BY <1>4, <2>2 DEF MarkDay, IngestInv, TypeOK, DaysRead
  <2> QED BY <2>1, <2>2
<1>6. TypeOK'
  <2>1. pass' \in [Readers -> PassType] BY <1>3, <1>4 DEF IngestInv, TypeOK, PassType
  <2> QED BY <1>4, <1>5, <2>1 DEF IngestInv, TypeOK, PassType
<1>7. \A j \in Readers : Reading(pass'[j], visible', stored')
  BY <1>3, <1>4 DEF IngestInv, TypeOK
<1>8. AboveCursor(pass'[Live], now', cursor', start', stored')
  <2>1. pass'[Live] = pass[Live] BY <1>1, <1>4 DEF IngestInv, TypeOK
  <2> QED BY <1>4, <2>1 DEF IngestInv
<1>9. Settled' /\ NoGap' BY <1>4 DEF IngestInv, Settled, NoGap
<1> QED BY <1>5, <1>6, <1>7, <1>8, <1>9 DEF IngestInv

----------------------------------------------------------------------------
\* Nothing is read, stored or promised at the start.
LEMMA IngestInit == Init => IngestInv
<1> SUFFICES ASSUME Init PROVE IngestInv OBVIOUS
<1>1. Live \in Readers BY DEF Readers
<1>2. \A p \in Readers : pass[p] = NoPass BY DEF Init
<1>3. NoPass \in PassType /\ Reading(NoPass, visible, stored)
        /\ AboveCursor(NoPass, now, cursor, start, stored)
  BY NoPassKnows
<1>4. Settled
  <2> SUFFICES ASSUME NEW t \in Between(0, 0 - Settle) PROVE FALSE BY DEF Init, Settled
  <2>1. Time[t] \in Nat /\ Time[t] < 0 - Settle BY DEF Between
  <2> QED BY <2>1
<1>5. TypeOK BY <1>3 DEF Init, TypeOK, PassType
<1> QED BY <1>1, <1>2, <1>3, <1>4, <1>5 DEF Init, IngestInv, NoGap, DaysRead

\* Every step keeps the invariant.
LEMMA IngestStep == ASSUME ~NodeGaps, IngestInv, [Next]_vars PROVE IngestInv'
<1>1. CASE UNCHANGED vars
  BY <1>1 DEF vars, IngestInv, TypeOK, Settled, NoGap, DaysRead
<1>2. CASE LiveStep
  <2>1. Live \in Readers BY DEF Readers
  <2> QED
    BY <1>2, <2>1, BeginLiveStep, PageStep, StopScanStep, FlushStep, EndStep, AdvanceStep,
       ListStep, FetchListedStep, AdvanceListedStep
    DEF LiveStep, Read
<1>3. ASSUME NEW d \in Days, DayStep(d) PROVE IngestInv'
  <2>1. d \in Readers BY DEF Readers
  <2> QED
    BY <1>3, <2>1, BeginDayStep, PageStep, StopScanStep, FlushStep, EndStep, MarkDayStep
    DEF DayStep, Read
<1> QED BY <1>1, <1>2, <1>3, WorldStep, EndStep DEF Next

(***************************************************************************)
(* Every variable of the ingestion keeps its type; what is stored was      *)
(* indexed, and there is one cursor at most.                               *)
(***************************************************************************)
THEOREM TypeCorrect == ~NodeGaps => (Spec => []TypeOK)
<1> SUFFICES ASSUME ~NodeGaps PROVE Spec => []TypeOK OBVIOUS
<1>1. IngestInv => TypeOK BY DEF IngestInv
<1> QED BY <1>1, IngestInit, IngestStep, PTL DEF Spec

(***************************************************************************)
(* No transaction between the first pass's start and the cursor is lost,   *)
(* whatever is truncated, fails, stops or goes over the fallback, if the   *)
(* fallback node returns what it lists.                                    *)
(***************************************************************************)
THEOREM NothingIsSkipped == ~NodeGaps => (Spec => []NoGap)
<1> SUFFICES ASSUME ~NodeGaps PROVE Spec => []NoGap OBVIOUS
<1>1. IngestInv => NoGap BY DEF IngestInv
<1> QED BY <1>1, IngestInit, IngestStep, PTL DEF Spec

(***************************************************************************)
(* A day marked done was read completely: everything the provider had      *)
(* indexed of it when its pass began is stored.                            *)
(***************************************************************************)
THEOREM DoneDaysAreRead == ~NodeGaps => (Spec => []DaysRead)
<1> SUFFICES ASSUME ~NodeGaps PROVE Spec => []DaysRead OBVIOUS
<1>1. IngestInv => DaysRead BY DEF IngestInv
<1> QED BY <1>1, IngestInit, IngestStep, PTL DEF Spec
=============================================================================
