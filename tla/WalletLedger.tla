---------------------------- MODULE WalletLedger ----------------------------
(***************************************************************************)
(* The ledger of one wallet and one token: the FIFO lots of                *)
(* crates/scout-ledger (fifo.rs, lot.rs) and the episodes that             *)
(* crates/scout-engine books on them (Builder::acquire, Builder::dispose   *)
(* and close_record of solana_wallet_ledger.rs, which the EVM ledger of    *)
(* evm_wallet_ledger.rs shares).                                           *)
(*                                                                         *)
(* An episode lasts from the first unit held to the last one sold.  The    *)
(* transactions arrive in order; each books verified trades and movements  *)
(* whose price is unknown.  An Option is a set with at most one element.   *)
(***************************************************************************)
EXTENDS Integers, Sequences, FiniteSets, FiniteSetsExt, Functions

CONSTANTS
  Units,      \* QuoteUnit
  Native,     \* the chain's native quote unit
  Amounts,    \* token amounts of a trade (at least 1: zero is ignored)
  Costs,      \* consideration and fee of a verified buy
  Gross,      \* proceeds of a verified sell
  Fee,        \* fee share of a verified sell in the native unit
  MaxTrades   \* bound: trades and movements of the wallet

ASSUME LedgerInputs ==
  /\ IsFiniteSet(Units) /\ Native \in Units
  /\ Amounts \subseteq Nat \ {0}
  /\ Costs \subseteq Nat /\ Gross \subseteq Nat /\ Fee \in Nat
  /\ MaxTrades \in Nat

VARIABLES
  window,   \* left_censoring: the input is a window of the history
  lots,     \* Ledger.lots, oldest first; an exhausted lot stays
  episode,  \* MintState.episode
  records,  \* the EpisodeRecords pushed so far
  phase,    \* "booking", then "finished"
  trades,   \* trades and movements booked so far
  truth     \* history: what the wallet held, paid and received since it last
            \* held nothing, from the inputs alone

vars == <<window, lots, episode, records, phase, trades, truth>>

\* UnknownReason: "unverified" stands for every reason a trade or a movement
\* comes with.
Reasons ==
  {"unverified", "left_censored", "not_observed", "unknown_lot_consumed", "cross_quote_unit"}

\* EpisodeAcc.  byUnit: the known basis consumed, for the units touched; its
\* times, counters and the journal of the USD view are left out.
NewEpisode ==
  [unit |-> {}, pnl |-> 0, unknown |-> {}, byUnit |-> <<>>, tainted |-> "no"]

NoTruth ==
  [held |-> 0, paid |-> [u \in Units |-> 0], cash |-> [u \in Units |-> 0],
   units |-> {}, vague |-> {}]

Init ==
  /\ window \in BOOLEAN
  /\ lots = <<>>
  /\ episode = {}
  /\ records = {}
  /\ phase = "booking"
  /\ trades = 0
  /\ truth = NoTruth

The(S) == CHOOSE x \in S : TRUE

----------------------------------------------------------------------------
(* The FIFO lots. *)

\* What is left of each lot.
Left(ls) == [i \in DOMAIN ls |-> ls[i].left]

\* open_amount
OpenAmount(ls) == SumFunctionOnSet(Left(ls), DOMAIN ls)

\* acquire_in_unit
AddLot(ls, a, cost, u, why) ==
  Append(ls, [amount |-> a, left |-> a, basis |-> cost, unit |-> u, reason |-> why])

\* What a disposal of `need` takes from each lot, the oldest lot first.
Taken(ls, need) ==
  [i \in DOMAIN ls |->
     Min({ls[i].left, Max({0, need - SumFunctionOnSet(Left(ls), 1..(i - 1))})})]

\* proportional_money: rounded down, except for the last part.
ProportionalMoney(total, part, whole) ==
  IF part = whole THEN total ELSE (total * part) \div whole

\* The basis that goes with it: a share of what is left of the lot's.
Spent(ls, need) ==
  [i \in DOMAIN ls |->
     IF Taken(ls, need)[i] = 0 THEN 0
     ELSE ProportionalMoney(ls[i].basis, Taken(ls, need)[i], ls[i].left)]

\* The lots after dispose.
Consumed(ls, need) ==
  [i \in DOMAIN ls |-> [ls[i] EXCEPT !.left = @ - Taken(ls, need)[i],
                                     !.basis = @ - Spent(ls, need)[i]]]

\* The lots a disposal touches.
Touched(ls, need) == {i \in DOMAIN ls : Taken(ls, need)[i] > 0}

----------------------------------------------------------------------------
(* Episodes. *)

\* Builder::acquire: the lot, and the episode it opens or joins.
Opened(ep, why) ==
  LET e == IF ep = {} THEN NewEpisode ELSE The(ep)
  IN  IF why = "known" THEN e ELSE [e EXCEPT !.unknown = @ \cup {why}]

\* Mutated form of Crosses: a basis in another unit is not noticed.
CrossesNever(ls, need, u) == FALSE

\* consumed_unknown_kinds: a known basis in another unit than the proceeds,
Crosses(ls, need, u) ==
  \E i \in Touched(ls, need) : ls[i].reason = "known" /\ ls[i].unit # u

\* or a lot whose basis is unknown for another reason than the window.
TakesOtherUnknown(ls, need) ==
  \E i \in Touched(ls, need) : ls[i].reason \notin {"known", "left_censored"}

AllBasisKnown(ls, need) == \A i \in Touched(ls, need) : ls[i].reason = "known"

\* consumed_known_basis_by_unit, added to the episode's.
BasisByUnit(e, ls, need) ==
  LET known(u) == {i \in Touched(ls, need) : ls[i].reason = "known" /\ ls[i].unit = u}
      before(u) == IF u \in DOMAIN e.byUnit THEN e.byUnit[u] ELSE 0
  IN  [u \in DOMAIN e.byUnit \cup {v \in Units : known(v) # {}} |->
         before(u) + SumFunctionOnSet(Spent(ls, need), known(u))]

\* The episode after a disposal; `proceeds` is an Option, `why` the reason
\* when it is None.
Disposed(e, ls, need, proceeds, u, fee, why) ==
  LET gross   == IF Crosses(ls, need, u) THEN {} ELSE proceeds
      reason  == IF proceeds # {} /\ gross = {} THEN "cross_quote_unit" ELSE why
      known   == AllBasisKnown(ls, need)
      cost    == SumFunctionOnSet(Spent(ls, need), DOMAIN ls)
      booked  == [e EXCEPT !.byUnit = BasisByUnit(e, ls, need),
                           !.tainted = IF known THEN @ ELSE "yes"]
  IN  IF gross # {} /\ known
      THEN [booked EXCEPT
              !.unit = IF @ = {} THEN {u} ELSE @,
              !.unknown = IF e.unit \subseteq {u} THEN @ ELSE @ \cup {"cross_quote_unit"},
              !.pnl = @ + The(gross) - fee - cost]
      ELSE [booked EXCEPT
              !.unknown = @ \cup (IF gross = {} THEN {reason} ELSE {})
                            \cup (IF TakesOtherUnknown(ls, need)
                                  THEN {"unknown_lot_consumed"} ELSE {})]

\* Mutated form of Bound: an unknown basis counts as zero.
BoundIgnoresTaint(e) ==
  IF Cardinality(DOMAIN e.byUnit) # 1
  THEN {}
  ELSE {[unit |-> u, low |-> 0 - e.byUnit[u]] : u \in DOMAIN e.byUnit}

\* unknown_pnl_bound: {} is Unbounded.  (Without a known lot the episode is
\* tainted, so the default for no unit is never used.)
Bound(e) ==
  IF e.tainted = "yes" \/ Cardinality(DOMAIN e.byUnit) # 1
  THEN {}
  ELSE {[unit |-> u, low |-> 0 - e.byUnit[u]] : u \in DOMAIN e.byUnit}

Outcome(e, open) ==
  IF open THEN "open"
  ELSE IF e.unknown \ {"left_censored"} # {} THEN "closed_unknown"
  ELSE IF e.unknown # {} THEN "left_censored"
  ELSE "closed_known"

\* close_record, with the history the record is about.
Record(e, open, t) ==
  [outcome |-> Outcome(e, open), unit |-> e.unit, pnl |-> e.pnl,
   bound |-> IF Outcome(e, open) = "closed_unknown" THEN Bound(e) ELSE {}, truth |-> t]

----------------------------------------------------------------------------
Booking == phase = "booking" /\ trades < MaxTrades /\ trades' = trades + 1

Acquire(a, cost, u, why) ==
  /\ Booking
  /\ lots' = AddLot(lots, a, cost, u, why)
  /\ episode' = {Opened(episode, why)}
  /\ UNCHANGED <<window, records, phase>>

\* A verified buy.
Buy(a, cost, u) ==
  /\ Acquire(a, cost, u, "known")
  /\ truth' = [truth EXCEPT !.held = @ + a, !.paid[u] = @ + cost, !.cash[u] = @ - cost,
                            !.units = @ \cup {u}]

\* A buy whose consideration is not verified, or an unexplained inflow.  (The
\* unit of a lot without a known basis is never looked at.)
Inflow(a) ==
  /\ Acquire(a, 0, Native, "unverified")
  /\ truth' = [truth EXCEPT !.held = @ + a, !.vague = @ \cup {"cost"}]

\* Mutated form of Covered: the whole amount is acquired, not the rest.
CoveredWhole(need, u) ==
  LET why == IF window THEN "left_censored" ELSE "not_observed"
  IN  IF need > OpenAmount(lots)
      THEN [lots |-> AddLot(lots, need, 0, u, why), episode |-> {Opened(episode, why)}]
      ELSE [lots |-> lots, episode |-> episode]

\* A disposal of more than is held first acquires the rest, of unknown basis.
Covered(need, u) ==
  LET why == IF window THEN "left_censored" ELSE "not_observed"
      gap == need - OpenAmount(lots)
  IN  IF gap > 0
      THEN [lots |-> AddLot(lots, gap, 0, u, why), episode |-> {Opened(episode, why)}]
      ELSE [lots |-> lots, episode |-> episode]

\* Builder::dispose; `t` is the history after it.
Dispose(need, proceeds, u, fee, why, t) ==
  /\ Booking
  /\ LET c    == Covered(need, u)
         left == Consumed(c.lots, need)
         e    == Disposed(The(c.episode), c.lots, need, proceeds, u, fee, why)
     IN  /\ lots' = left
         /\ IF OpenAmount(left) = 0
            THEN /\ records' = records \cup {Record(e, FALSE, t)}
                 /\ episode' = {}
            ELSE episode' = {e} /\ UNCHANGED records
  /\ truth' = IF t.held = 0 THEN NoTruth ELSE t
  /\ UNCHANGED <<window, phase>>

\* The history after a sale of `need`.
Sold(need) ==
  [truth EXCEPT !.held = Max({@ - need, 0}),
                !.vague = @ \cup (IF need > truth.held THEN {"cost"} ELSE {})]

\* A sale in the native unit bears its share of the transaction's fee.
SaleFee(u) == IF u = Native THEN Fee ELSE 0

\* A verified sell.
Sell(need, gross, u) ==
  Dispose(need, {gross}, u, SaleFee(u), "unverified",
          [Sold(need) EXCEPT !.cash[u] = @ + gross - SaleFee(u), !.units = @ \cup {u}])

\* A sell whose consideration is not verified, or an unexplained outflow.
Outflow(need) ==
  Dispose(need, {}, Native, 0, "unverified",
          [Sold(need) EXCEPT !.vague = @ \cup {"proceeds"}])

\* finish: an episode that is still open is recorded as such.
Finish ==
  /\ phase = "booking"
  /\ phase' = "finished"
  /\ records' = records \cup {Record(e, TRUE, truth) : e \in episode}
  /\ episode' = {}
  /\ UNCHANGED <<window, lots, trades, truth>>

Next ==
  \/ \E a \in Amounts :
       \/ \E u \in Units : \/ \E c \in Costs : Buy(a, c, u)
                           \/ \E g \in Gross : Sell(a, g, u)
       \/ Inflow(a) \/ Outflow(a)
  \/ Finish

Spec == Init /\ [][Next]_vars

----------------------------------------------------------------------------
Truths ==
  [held : Nat, paid : [Units -> Nat], cash : [Units -> Int], units : SUBSET Units,
   vague : SUBSET {"cost", "proceeds"}]

TypeOK ==
  /\ window \in BOOLEAN
  /\ \A i \in DOMAIN lots :
       /\ lots[i].left \in 0..lots[i].amount
       /\ lots[i].basis \in Nat
       /\ lots[i].reason \in Reasons \cup {"known"}
  /\ Cardinality(episode) <= 1
  /\ \A e \in episode :
       /\ e.unit \subseteq Units /\ Cardinality(e.unit) <= 1
       /\ e.pnl \in Int
       /\ e.unknown \subseteq Reasons
       /\ DOMAIN e.byUnit \subseteq Units
  /\ \A r \in records : r.truth \in Truths
  /\ phase \in {"booking", "finished"}
  /\ trades \in 0..MaxTrades
  /\ truth \in Truths

(***************************************************************************)
(* The lots hold what the wallet holds, and an episode is open exactly     *)
(* then: a disposal always finds enough inventory and an open episode, so  *)
(* the two errors of dispose never end an analysis.  A lot is touched only *)
(* when every older one is used up, and a used-up lot leaves no basis      *)
(* behind, however its shares were rounded.                                *)
(***************************************************************************)
InventoryKept ==
  /\ OpenAmount(lots) = truth.held
  /\ phase = "booking" => (episode # {} <=> truth.held > 0)
  /\ \A j \in DOMAIN lots :
       /\ lots[j].left < lots[j].amount => \A i \in 1..(j - 1) : lots[i].left = 0
       /\ lots[j].left = 0 => lots[j].basis = 0

Closed == {r \in records : r.outcome # "open"}

(***************************************************************************)
(* A closed episode has a known result exactly when every unit in it was   *)
(* bought and sold at a known price in one quote unit, and the result is   *)
(* what the wallet received minus what it paid, to the last unit: an       *)
(* unknown basis is never treated as zero, and no rounding is lost between *)
(* lots or episodes.                                                       *)
(***************************************************************************)
KnownIsCashFlow ==
  \A r \in Closed :
    /\ r.outcome = "closed_known" <=> r.truth.vague = {} /\ Cardinality(r.truth.units) = 1
    /\ r.outcome = "closed_known" =>
         r.unit = r.truth.units /\ \A u \in r.unit : r.pnl = r.truth.cash[u]

(***************************************************************************)
(* A bounded episode paid a known price for everything it held, in the     *)
(* bound's unit, and the bound is the whole of it.                         *)
(***************************************************************************)
BoundIsPrice ==
  \A r \in Closed : \A b \in r.bound :
    /\ "cost" \notin r.truth.vague
    /\ b.low = 0 - r.truth.paid[b.unit]
    /\ \A u \in Units \ {b.unit} : r.truth.paid[u] = 0

(***************************************************************************)
(* The comment of EpisodePnlBound: "Proceeds are unknown but never         *)
(* negative, so PnL >= -(consumed known basis)".  With nothing received    *)
(* where the proceeds are unknown, the episode's cash flow respects it.    *)
(***************************************************************************)
LowerBoundHolds ==
  \A r \in Closed : \A b \in r.bound : r.truth.cash[b.unit] >= b.low
=============================================================================
