# Verification of crypto-tools

The repository holds three programs. `trader-scout` is a Rust workspace: a daemon (`dev-tracker`)
that collects token launches and migrations of several chains into a database and sends lists of
developers to a Telegram chat, and one-shot tools that reconstruct the profit of a wallet from its
transactions. `polymarket-data` is a library of read-only adapters and evidence checkers;
`trading-dashboard` is a user interface. This directory models the parts of `trader-scout` and
`polymarket-data` whose correctness depends on order, failure and arithmetic, checks the models
with TLC and proves the central results with TLAPS.

All paths below are relative to `src/trader-scout/` unless they start with `polymarket-data`.

## 1. Inventory

| part | state it keeps | operations | what makes it correct |
|---|---|---|---|
| EVM ingestion (`scout-devtracker/evm_ingest.rs`, `bins/dev-tracker/backfill.rs`) | `cursors`, `launches`, `migrations` tables | forward pass, backfill step, step adjustment | no block behind a cursor is without its facts, whatever fails or runs beside it; facts come from final blocks; both readers progress |
| EVM log reader (`scout-providers/evm_rpc.rs`, `get_logs`) | window stack, span cap, counters of one call | split, narrow, give up | each block read exactly once, a bounded number of requests, termination |
| Rate limiter (`scout-rpc/ratelimit.rs`) | bucket, rate, queue, recovery target | `acquire`, `on_rate_limited`, `retune`, cancellation | bounded queue, bounded rate, nobody stuck |
| JSON-RPC client (`scout-rpc/client.rs`) | request budget, counters, the state of each call | `call_with`, `call_endpoint`, `try_once` | the shared budget is exact, two retry allowances end every call |
| Solana ingestion (`scout-devtracker/solana_ingest.rs`, `solana_fallback.rs`, page scan of `scout-providers/helius.rs`) | cursor, day marks, tables | live pass, fallback pass, day backfill | no transaction behind the cursor is missing, the cursor moves forward and catches up |
| Alerts and run state (`bins/dev-tracker/main.rs`, `scout-devdb`) | `incidents`, `daemon_state` | `failed`, `ok`, start, stop | one alert and one recovery per incident, an honest start notice, no silent incident |
| List delivery (`bins/dev-tracker/main.rs`, `scout-devdb`) | `deliveries` | `export` | the table tells what the chat shows, every change arrives |
| Wallet ledger (`scout-ledger`, `scout-engine/*_wallet_ledger.rs`) | FIFO lots, open episode, records | `acquire`, `dispose`, `close_record`, `finish` | holdings and lots agree, a known result is the cash flow, an unknown one is never presented as known |
| Watchdog and heartbeat (`bins/dev-tracker/main.rs:675-760`) | last mark, threshold, `stalled_alerted` | `mark`, `reload`, the beat task | a stuck cycle is alerted and no longer pinged, an idle or slow one is not |
| All-time-high store and index passes (`scout-devtracker/ath.rs`, `scout-devdb`) | `ath`, `cursors` and request budget rows | day enumeration, runner index, the daemon's pass | a complete cursor is right and is reached |
| Solana Tracker observations (`bins/dev-tracker/solana_tracker_backfill.rs`, `scout-devdb`) | month's allocation, archive files, observations | the pass over the tokens | the allocation is kept, a saved observation has its evidence, passes resume |
| Other ATH providers | none | parsing | their writes are actions of the two models above |
| Identities and categories (`scout-devtracker/identity.rs`, `lib.rs`) | none | grouping, thresholds | not modelled (section 8) |
| Decoders, pricing, extraction, front ends, tools | none or files | parsing | not modelled (section 8) |
| `polymarket-data` market stream (`src/market_stream.rs`) | subscriptions, channel, prices | socket task, `watch_token` | no watched token is forgotten, no price outlives the next connection attempt |
| `polymarket-data` cache (`src/ttl_cache.rs`) | map, queue of keys | get, insert, evict | bound, freshness |
| `polymarket-data` readers and chain log audit | none, files | paging, evidence checks | not modelled |

How they interact. The daemon runs one cycle after another: for every EVM source a forward pass,
for every Solana source a live pass, then derivation and export. `backfill` and `ingest` are other
processes on the same tables. Every network read goes through the RPC client, which reserves the
request budget and waits in the rate limiter of its endpoint; a 429 comes back to the limiter. EVM
passes read logs through `get_logs`, which makes many client calls. Every error of a pass reaches
`failed`, every success `ok`. The wallet tools use the same providers and then build the ledger
sequentially. The beat task of the daemon shares only three atomics with the cycle. The two
sources of all-time highs have their own tables, request counters and processes, which run beside
the daemon. In `polymarket-data`, `watch_token` hands a token to the socket's task through a set and
a channel, and the Gamma lookups share the cache.

What is hard: processes that read a cursor and store it later; awaits that may be cancelled
between the write of facts and the write of the cursor; reads cut short by page budgets in the
middle of a second; node errors that change how a range is split; a budget checked before and
reserved after a wait; messages sent before the row that remembers them; FIFO arithmetic with
rounding and missing history; cursors, budgets and archives shared without a lock by processes that
may be killed; atomics read and stored in an order that decides whether an alert is raised; tasks
that add to a set while another one reads it. `PROJECT.json` lists them as hazards, each at its line.

## 2. Modules

| module | models | run by | proofs |
|---|---|---|---|
| `EvmIngest` | one EVM source, any number of forward and backfill processes | `MCEvmIngest`, `MCEvmIngestTeams` | `EvmIngestProofs` |
| `EvmGetLogs` | one `get_logs` call against an arbitrary node | `MCEvmGetLogs` | `EvmGetLogsProofs` |
| `LogReader` | what a caller of `get_logs` relies on: the specification `EvmGetLogs` implements | `MCEvmGetLogs` | `EvmGetLogsProofs` |
| `RateLimiter` | one limiter and its callers | through `Rpc` | `RpcProofs` |
| `RpcClient` | concurrent calls of one client | through `Rpc` | `RpcProofs` |
| `Rpc` | both of them | `MCRpc` | `RpcProofs`, of each part |
| `SolanaIngest` | one Solana source: live reader, fallback, days | `MCSolanaIngest` | `SolanaIngestProofs` |
| `DaemonAlerts` | incidents, run state, stops and crashes | through `Daemon` | `DaemonProofs` |
| `ListDelivery` | export and the deliveries table | through `Daemon` | `DaemonProofs` |
| `Watchdog` | the cycle's marks and waits, the beat task | through `Daemon` | `DaemonProofs` |
| `Daemon` | the three parts above | `MCDaemon` | `DaemonProofs` |
| `WalletLedger` | one wallet and one token | itself | `WalletLedgerProofs` |
| `AthIndex` | the passes over the Codex index and the rows they share | through `AthBackfills` | `AthBackfillsProofs` |
| `TrackerAth` | invocations of the Solana Tracker pass | through `AthBackfills` | `AthBackfillsProofs` |
| `AthBackfills` | both sources of all-time highs | `MCAthBackfills` | `AthBackfillsProofs` |
| `MarketStream` | the socket's task and the tasks of `watch_token` | through `Polymarket` | `PolymarketProofs` |
| `TtlCache` | the metadata cache and its callers | through `Polymarket` | `PolymarketProofs` |
| `Polymarket` | both parts of `polymarket-data` | itself | `PolymarketProofs` |

`Rpc`, `Daemon`, `AthBackfills` and `Polymarket` put parts together that share no variable but, in
`Daemon` and `AthBackfills`, the fault counter. `part` is chosen once, a behaviour follows that part and the others rest: interleaving
parts that cannot see each other would multiply the states and show nothing more. Parts that do see
each other (two processes on one cursor, the beat and the cycle) are interleaved in one module.

An Option of the code is a set with at most one element. `MC` modules hold values a cfg cannot
write and symmetry sets; `MCEvmIngestTeams` also chooses, once per behaviour, which of the processes run. A proof module holds the theorems of one component or of two that belong
together; the limiter's operators have names of their own (`LimiterInit`, `LimiterNext`) so that
`RpcProofs` can extend both.

### EvmIngest
`proc[p]` is the pass process `p` is in; its `pc` names the await it is at (head, cursor, live
cursor, fetch, insert, store). One action per await, so all interleavings between awaits happen.
`facts` is the row per token (a stored row is never replaced, as the SQL says), `cursor` and
`backfill` the two rows of `cursors`. `NewBlock` and `Reorg` are the chain: blocks deeper than
`Confirmations` never change. `Fail(p)` is an error, a cancellation or a crash at any await; what
was committed stays. A backfill re-reads both cursors each step and keeps the head of its start, as
the code does; the step is halved, quartered and doubled between `MinStep` and `StepCap`.

### EvmGetLogs
The variables are the local variables of the loop. The node is arbitrary: every window may be
answered with any allowed number of logs, refused with a range error that names any span (zero, and
spans no narrower than the window, included), or fail otherwise. Each branch of the loop is an action.
Block contents are reduced to the number of logs and how often a block was read (`out`).

### RateLimiter
Ages instead of instants: `sinceLast`, `quiet` and `sinceHalved` are the times since the last
refill, 429 and halving, capped at `MaxAge` (an assumption of the module says that no comparison
sees beyond the cap). Micro-tokens become units of `1/Scale` token, so refills still round down.
`retune` is two actions, the locked part and the later store of the target, with no clock tick
between them. `ideal` and `cancelled` are history: what the configured rate would have accrued, and
whether a 429 found the bucket in debt.

### RpcClient
`call[t]` is the call of task `t`: the endpoint it is at, both failure counts, the attempt. The
answer of an attempt is any class that `map_status` and the envelope check can give. The limiter
appears as a wait that ends; its own behaviour is `RateLimiter`'s.

### SolanaIngest
`visible` is what the providers have indexed, `stored` the tables. A scan reads pages from the
oldest; it stops at its page budget, possibly inside a second, and then reports the truncation.
Rows are flushed in batches. `Broken` transactions are the ones Helius returns undecodable. The
fallback lists newest first within `ListPages` and fetches one by one. The clock starts at an
arbitrary origin, so cursors may be negative. The environment is assumed to index a transaction
within `Settle`, the delay the code itself relies on. One page holds one transaction, so every
boundary of the code falls between any two transactions.

### LogReader
`get_logs` seen from its caller: blocks are delivered in ascending order, a run of them at a time,
each once, until none is left; then `Ok`, before that an error. `EvmGetLogs` implements it with the
lowest block of the window stack as `next` (`ReadsInOrder`, `ImplementsReader`). How the range is cut,
narrowed and retried is the detail the refinement hides.

### DaemonAlerts, ListDelivery
One action per await of `failed`, `ok`, `export`: the send and the row that records it are
different steps and a stop, crash or failed query may come between them. Incident ages are capped
at `After`, the only value they are compared with. `lastEnd`, `began` and `orphan` are history
variables: how the previous run ended, when an incident began, which formats were sent and not
recorded.

### Watchdog
One unit of time is the beat's period; deadlines are kept as the time left, the last mark as its
age. The cycle's steps that store an atomic are single actions (the threshold, then the mark), and so are the beat's
reads (the mark, then the threshold), because that order is what decides. The threshold follows from the
settings, which any cycle may find edited. A message, the database beat and a ping take any time;
ticks that fall due meanwhile are bounded by `MaxMissed`. `disturbed` is a history variable: this
run gave the watchdog a reason to alert (a step longer than the slack, or one of the two edits that
`NoFalseAlarm` names).

### AthIndex, TrackerAth
`saved[k]` is the cursor row of a day, or of the runner index (key 0): a stack of intervals with an
offset. A page of an interval is read, its rows are committed, and then the cursor is saved, each an
action, so a crash or the other process may come between. An interval whose offset cap is met is
split in halves; a cursor that a pass could not have written is refused, as the code does. The index
lists further tokens at any time, which shifts the pages behind them. The row of a token follows the
conflict clause of the SQL (`Merged`), so rows of the same second may come in either order. A page of
the runner index is stamped with the start of its pass, a page of a day with that start plus the whole
seconds since, which is up to a second less than the clock (`Stamps`). `begun` is a history variable:
when the first pass over a key started, and the tokens the enumeration owes since: those tracked and
listed at that moment.

`TrackerAth` has one action per await of the pass: reserve, request, archive, write, save. An answer
is its bytes; a file is `"torn"` from its creation to the end of its write. Reserving is one
transaction, so its action is whole; the row of a month is made with the settings of its first
invocation. A pass that crosses a month's boundary goes on charging the month it began in, which is no
longer followed.

### MarketStream, TtlCache
A price is told apart by the connection it came from: none, the live one, or the one just ended. Each
read, clear, subscription and channel operation is an action; `additions` is the channel, `initial`
the set as the new connection read it. `subscribed` is the server's side. In the cache a value is its
age since the source gave it. The methods hold the lock for their body and are one action each; the request
runs without it.

### WalletLedger
`lots` is `Ledger.lots`, exhausted lots included; `episode` is the accumulator of the open episode.
An action is one call of `acquire` or `dispose` with the arguments of one caller: verified trades,
trades whose price is unknown, unexplained movements. A disposal beyond the holdings first acquires
the rest. `truth` is a history computed from the inputs alone (what was held, paid and received
since the wallet was last empty); each record keeps the one of its episode, and the properties
compare the two. Bookings of one transaction are applied one after another, as the code does.
Money and amounts are unbounded: the code's checked operations end the analysis with an error.

## 3. Runs

| run | shows | instance and why it is enough |
|---|---|---|
| `evm_ingest_races` | nothing lost behind a cursor, no hole between history and live data, only final facts | two forward processes and a backfill, four blocks, one failure; the head is at 3 with a reach of 2, so that live data starts above the history and the slower pass can move the cursor back |
| `evm_ingest_progress` | the cursor catches up and stays, a backfill ends | two forward processes beside a backfill, or two backfills (with different floors when the chain grew between their starts) beside a forward process; one failure. A pass that read the head before the last block stores its older cursor over the newer one, and a backfill moves the common cursor up again under the other. All four processes at once are too many states for a routine run; without failures and on a shorter chain (`InitHead` 2, `MaxHead` 3, `Span` 1) TLC finds both properties true of them as well. Facts steer no pass, so the chain carries none here |
| `evm_get_logs` | each block once and in order (`LogReader` as a property), requests bounded, span never grows, the call returns | every range up to seven blocks, three levels of splitting, named spans below, at and above every window, a configured span of 4, nine requests at most |
| `rpc` | bounded queue, sustained rate, nobody stuck; the budget is exact, attempts are bounded, calls return | the limiter: three callers for two places, a cost equal to the bucket that a retune makes larger than it, 429s at any time. The client: two tasks, two calls, budget 7: a call with both allowances on both endpoints makes eight attempts, so one call alone, or both together, exceed it, and the second may begin after it is spent |
| `solana_ingest` | no gap, days complete, catching up | five transactions with two shared seconds, one undecodable, page budget 3 so that a second is cut, an outage of Helius; a listing budget of three transactions, so the fallback may catch up or be held by a listing that is too long |
| `solana_long_outage` | **violation**, finding 3 | the same budget, Helius down for good, nothing else fails |
| `solana_null_answers` | **violation**, finding 1 | the fallback node may answer null |
| `daemon` | repeated alerts only after a lost mark, honest notice, no silent incident; rows tell what the chat shows, changes arrive; no false "stuck" alert, no ping without progress, a stuck cycle is alerted | two keys, one never succeeding, two passes; two lists, two formats, three changes; two sets of cadences that a reload swaps, one with the threshold shorter than its cadences; three faults |
| `ath_backfills` | a complete cursor is right, the days are completed; the allocation and the evidence are kept, passes resume | two days of two seconds, pages of one row, an offset cap of two rows, three tokens with two in one second; two processes that enumerate the same days, or days beside the daemon's pass, or days beside the runner index with a counter of two requests, each with one fault and tokens that are listed late; the runner index beside the daemon's pass while no token is listed at the start, because it is complete only while it lists fewer than the cap; two Tracker invocations with the same or a larger allocation and one fault. `DaysAreComplete` is about the first of these scenarios: in the second the two tokens of one second fill the offset cap from the start (`Crowded`), where the code gives up |
| `wallet_ledger` | inventory kept, exact known results, complete bounds | five trades, amounts 1 and 3 with a cost of 5, so shares round; two quote units; whole and windowed histories |
| `wallet_ledger_bound` | **violation**, finding 2 | three trades |
| `polymarket` | prices of a connection, no forgotten token, queue and map agree, fresh values, every watched token is subscribed | one token from the start and three calls for two more, three connections that fail or end; three keys for two places, two callers, a load that may take as long as the time to live |

Deadlock checking is off where the system may stop: the bounds end the chain, the calls or the
trades.

Bounds named in the modules: `MaxHead`, `MaxFailures`, `MaxBlock`, `MaxAge`, `MaxCalls`, `MaxTime`,
`MaxPasses`, `MaxFaults`, `MaxChanges`, `MaxTrades`, `MaxMissed`, `Cap`, `MaxBreaks`, the clock
and the faults of a scenario. Not bounds of the model but of the code, with small values: `MaxOffset`, `MaxStack`,
`MaxRetries`, `PageSize`, `Slack`, `Ttl`, `MaxLoad`, `Capacity`.

## 4. Fairness

- `EvmIngest`: weak fairness of each process of the team. The daemon starts a pass every cycle and each await
  ends with an answer or a timeout; failures are finitely many.
- `EvmGetLogs`: weak fairness of the loop; each request ends (the client's timeout).
- `RateLimiter`: time passes, and the runtime polls each task that can step.
- `RpcClient`: each wait of a call ends: the sleep is bounded, the limiter's queue moves
  (`NeverStuck`), the request has a timeout.
- `SolanaIngest`: time passes, providers index, each request and write ends.
- `Daemon`: the supervisor restarts the daemon (`deploy/`), awaits of an alert, a send and a query
  end; strong fairness of `Failed(k)`, because a pass of a failing key comes round again after every
  interruption; weak fairness of the delivery's pass, which runs in every cycle. For the watchdog
  only the clock, the beat and the steps of the cycle without an await are fair: a pass may hang
  for good, and that is what `StuckIsAlerted` is about.
- `AthBackfills`: requests, queries and file operations end; the passes are run again (strong
  fairness, because another one may be running); months go by, and a Tracker pass is invoked again
  with the settings of its month.
- `Polymarket`: the runtime goes on with every task that is ready, the `select!` of the live
  connection is not biased, an attempt ends. Nothing makes a server send prices or a connection end.

## 5. Assumptions

- `PassIsShorterThanReach`: a forward pass ends before the chain outgrows `start_hours_back`. Hours
  against minutes; without it two first passes could leave a hole between their starts.
- A block that is `Confirmations` deep is final; the chain is longer than that when the daemon starts.
- `CatchesUp` of `SolanaIngest` needs a page budget larger than the transactions of one second:
  the code restarts a truncated pass at the newest second it saw.
- `NothingIsSkipped` and `DoneDaysAreRead` assume that the fallback node returns what it lists
  (`~NodeGaps`); finding 1 is what happens otherwise.
- `LimiterAssumption` (finitely many callers, positive costs, rates and bursts),
  `WatchdogAssumption` (positive cadences, as the configuration requires), `TrackerAssumption`
  (finitely many invocations, prior usage within the limit) and `CacheAssumption` (positive lifetime
  and capacity) are the arguments the code accepts.
- In `AthIndex` the page size divides the offset cap, as the constants of the code do, and an
  interval is split at most `MaxStack` deep: 18 suffices for the 86 400 seconds of a day.

## 6. Proofs

`EvmIngestProofs`, for any number of processes, any chain length, step and failure bound:
type correctness, `LiveBlocksStored`, `NoHoleBelowCursor`, `FactsAreFinal`. None is inductive. The
invariant `IngestInv` adds what a pass knows at each await: the range it computed starts no higher
than one block after some stretch that is already stored, its rows are the facts of that range, and
the range is stored once the pass reaches `store`; so a slower pass that stores an older cursor
still stores one whose blocks have their facts. One lemma per action.

`EvmGetLogsProofs`, for every range, configuration and sequence of answers: `EveryBlockReadOnce`,
`RequestsBounded` (at most 2n - 1 requests for n blocks), `SpanCapNeverGrows`. `LogsInv` says that
the stack tiles the unread part of the range in order (`stack[i]` ends below `stack[i-1]`'s start,
no gaps), that each block below the frontier was read once and none above, and counts:
finished windows are at most the blocks read, and splits are fewer than requests plus windows left.
`ImplementsReader` is the refinement: under the same invariant every step delivers the top window
of the stack, returns, or is a stutter of `LogReader`.

`RpcProofs`, first for any number of callers of the limiter, any costs, rates and retunes:
`QueueBounded` and `SustainedRate`. `RateInv` compares what the bucket could hold now, `tokens` plus
the refill that is due, with `ideal`, the history of what the rate allows: the first never exceeds the
second, the rate never exceeds its target, recovery aims at the target, and between the two parts of a
retune no time passes. The counter of the queue is the callers waiting plus those refused and not yet
subtracted. Then for any number of tasks of a client, any limit and any allowances: type correctness,
`BudgetExact`, `AttemptsBounded`. `ClientInv` ties the attempt number of a call to its two failure
counts and the attempt in flight.

`SolanaIngestProofs`, for any history, page and listing budget, number of days and failures: type
correctness, `NoGap`, `DaysRead`. `IngestInv` says what a scan has behind it at each await: the pages
it took are a prefix of what was indexed, and all they returned is stored, in the batch it
carries or held back (`Reading`); the live pass works on the window that starts at the stored cursor and
ends at least `Settle` ago (`AboveCursor`); and what is that old is indexed (`Settled`), so no
transaction can still appear behind the cursor.

`DaemonProofs`, for any keys, lists, formats, schedules and faults: `AlertsBounded` (an incident
that is not marked has been alerted no more often than marks were cut off), `NoticeHonest` (the state row
agrees with how the last run went, at every await of start and stop), `RowsAreShown` (the content
an album carries while its rows are written), `NoFalseAlarm` and `PingFresh` (what the beat read of
the mark and of the threshold is consistent with what the cycle did since; undisturbed deadlines never
exceed the cadences). The three invariants are over disjoint variables.

`AthBackfillsProofs`, for any tokens, answers and invocations: `EvidenceKept` (a pass that is about
to save has a whole file) and `AllocationKept` (requests sent plus passes about to send
are at most what the row has reserved, and that is within the limit of the row). Then, for any index,
days, pages, offset cap, processes and failures: `CompleteIsCovered`. `IndexInv` says that every
cursor, saved or in the hands of a pass, covers each owed token that has no known row yet: its number
among the rows of some interval of the stack is above that interval's offset (`CursorOK`). The lemmas
follow a cursor: rows only get larger numbers while the index grows (`RowsMove`), a page with a row
behind it is full (`FullPage`, by counting), so a short one ends its interval (`PageRead`), and the
next offset or the two halves cover what the page left (`CursorMoves`). The rest is about time: a
"missing" row of an owed token is no newer than the start of the enumeration (`NotLater`) and a page's
rows no older (`RowsOK`), so the conflict clause cannot turn the known row away (`JoinedIs`,
`UpsertKeeps`). TLC checked `IndexInv` on small instances before it was proved.

The first attempt at this proof failed, and with a reason. What an enumeration owes was recorded when
its cursor was first read; a token listed between the start of a pass and that read could then be
lost: the daemon's pass marks it "missing" with a later time than the page that lists it, and the
page's row is refused. The claim that holds is about what was listed when the pass started, and the
instance was too small to show the difference, because its runner index was never complete with late
tokens. The model now has the stamps of the code, and the run an instance that tells them apart.

`WalletLedgerProofs`, for any units, amounts, costs, proceeds and any order of trades and movements:
type correctness, `InventoryKept`, `KnownIsCashFlow`, `BoundIsPrice`. `LedgerInv` says that the open
lots add up to what the wallet holds, that an episode is open exactly then, and how its accumulator
stands to the history (`Booked`): what was paid in a unit is the basis consumed plus the basis still
held (`PaidKept`), a known result is the cash flow plus that basis (`CashKept`), a price that is not
known has made the result unknown or sits in an open lot (`ReasonsSeen`, `CostSeen`). The lemmas from
`Share` to `CostIsBasis` are about FIFO consumption: what is taken from the lots adds up to the need,
each lot gives a share of its cost that is rounded down unless it is used up, and the cost of a disposal
is the drop of the basis, so nothing is lost to rounding over an episode. Sums over lots are induction
over data, for which the library's induction theorems cannot be instantiated; the module obtains
induction over the naturals and over finite sets from the well-foundedness of their orders
(`Inductive`, `Descent`: sets instead of predicates), shows that the iteration in the definition of
`SumFunctionOnSet` exists and is unique (`IterExists`, `SumsUnique`, `SumIs`), and reads the laws of
sums off it.

`PolymarketProofs`: `PricesOfConnection`, `NotForgotten` (each token of the set is in the channel,
subscribed, in what the new connection read, or carried by a task), `ServedFresh` (a value is no
older than its place in the cache and one load), `OrderIsRetained` (the queue holds each cached key
once and nothing else: dropping a key keeps the others once, `DropFrom`, so the queue has as many places as
the map has keys, `QueueLength`, and the front that an insertion evicts at the capacity is a key of the map).

The type invariants are lemmas of these proofs: a run checks what is harder to see than a type.

Every invariant and every action property of a passing run is the statement of a theorem. Only
model-checked is liveness, because the prover does neither fairness nor ENABLED: `CursorCatchesUp`,
`BackfillEnds`, `Returns`, `NeverStuck`, `CallsReturn`, `CatchesUp`, `DoomedIsAlerted`,
`ChangesArrive`, `StuckIsAlerted`, `DaysAreComplete`, `Resumes`, `AllSubscribed`.

## 7. Findings

1. `solana_null_answers` (`solana_fallback.rs:184`): a transaction that the fallback node lists and
   answers null for is skipped silently and the cursor moves past it.
2. `wallet_ledger_bound` (`solana_wallet_ledger.rs:1599`): the lower bound of an episode with an
   unknown sale ignores a verified sale whose fee exceeds its proceeds; the comment calls the bound
   exact.
3. `solana_long_outage` (`solana_fallback.rs:147`): the fallback lists signatures from the newest down
   to the start of its window, so its page budget bounds the distance from now to the cursor and not
   the window. Once an outage leaves more signatures than that (200 pages of 1 000) above the cursor,
   every fallback pass fails until Helius returns. The comment (lines 9-10) says "a long outage is
   caught up in windows of at most `max_window_secs`". `CatchesUp` of the passing run excuses exactly
   this (`Stalled`): whatever else happens, the cursor reaches the settled end.

Seen in the code and not given a run of their own:
- a backfill that runs before the first forward pass starts below the head of that moment; the
  forward source that starts later begins above it, and the blocks between are read by neither
  (`evm_ingest.rs:743`); `NoHoleBelowCursor` and `FactsAreFinal` therefore
  leave such a backfill out (`fromHead`);
- a 429 sets the bucket to zero also when it is in debt, which cancels the debt
  (`ratelimit.rs:315`); `SustainedRate` therefore holds until that happens (`cancelled`);
- `rate_limit_failures` and `fallback_calls` count one endpoint's outcome as the call's
  (`client.rs:446`, `346`);
- a day that is backfilled before its end is indexed is marked done (`solana_ingest.rs:309`);
  `DaysRead` speaks of what the scan found;
- an alert is sent twice when the daemon stops between the send and the mark, and is marked
  although Telegram refused it (`main.rs:623`, `605`);
- an album that Telegram refuses is skipped and the export still succeeds, which resolves its incident
  (`main.rs:542`); the missing row brings the album back in the next cycle;
- an edit that lowers the threshold below the age of the last mark, or below deadlines set under
  the earlier settings, raises a "stuck" alert in a healthy daemon (`main.rs:740`, `871`; `disturbed`);
- `stalled_alerted` is lost on a restart, so the recovery of a stuck daemon that was restarted is
  not reported (`main.rs:697`);
- an answer whose file was cut off is never archived: every later Tracker pass pays a request for the
  token and ends at it, as long as the answer is the same (`solana_tracker_backfill.rs:303`);
  `Resumes` names the case (`Torn`);
- a Tracker pass that crosses a month's boundary charges the month it began in;
- rows of the runner index that leave the holders filter would shift the pages behind them; the
  model's index only grows;
- a token that is first listed while an enumeration runs may stay "missing" although a page listed it:
  the daemon's pass can observe it, still unlisted, with a later time than that of the page, which the
  runner index takes from the start of its pass (`ath.rs:867`) and a day rounds down;
  `CompleteIsCovered` speaks of what was listed at the start;
- prices of an ended connection stay readable during the reconnect delay
  (`polymarket-data/src/market_stream.rs:142`), while the module comment (lines 1-4) speaks of live
  prices; a connection that is half open keeps its prices until it is noticed;
- two concurrent misses may insert in either order: an older value can replace a newer one and starts
  a new lifetime (`polymarket-data/src/ttl_cache.rs:103`); `ServedFresh` bounds how old it gets.

## 8. Not modelled

Decoding of instructions, logs and events, prices and their conversion, trade extraction, rankings
and output are functions of their input without a protocol; their results enter the models as
arbitrary inputs (the fact of a block, a verified or unknown trade, an answer). Logging, statistics,
text and layout are left out. Identities and categories are pure functions of the facts.
`evm_scan.rs` repeats the splitting that `EvmGetLogs` models. `WatermarkStore` has no caller. Two Solana sources
in one pass are not composed: each has its own cursor, but a failure of the first keeps the second
from being read in that pass (`main.rs:345`). `SolanaIngest` has one live reader and `ListDelivery` one
exporter, although `ingest` and `export --send` may be started beside the daemon; only `EvmIngest` and the
all-time-high passes have several processes on one cursor. The counters of `RpcClient` that statistics
alone read (`retries`, `failures`, `repeats`) are kept for their updates, and no property is about them. `trading-dashboard` is presentation. The list
with reasons is `components` in `PROJECT.json`.

Measured in lines, the models stand for a small share of the repository. More than a third of its
Rust is the chain log audit of `polymarket-data` (a sequential checker over captured files), one
file of price evidence rules (`birdeye.rs`), and the tests that sit inside the other files. What has
state that outlives a call, or runs beside something else, is modelled, except where this section
says otherwise.

## 9. Plan

Order: what loses data first (done: both ingestions, the log reader, the client and its limiter),
what misinforms the operator second (done: alerts, lists, watchdog), what reports wrong numbers third
(done: the ledger), then what enriches and serves (done: all-time highs, market stream, cache).

Extend the models:
1. `EvmIngest` with `LogReader` in its fetch step, so that a forward pass and its reads compose.
2. Identities and categories as operators, checked against a reference closure over small graphs.
3. The windowed scan of `evm_scan.rs`.
4. Two Solana sources in one pass, with `main.rs:345`.
5. The paging of `polymarket-data/src/trade_firehose.rs`.

Prove more:
1. What termination needs of safety: quantities that only decrease while a call runs (the windows and
   requests left of a `get_logs` call, the attempts left of a client call, the stack of a day), as
   theorems about their steps.
2. The type invariants that are lemmas, as theorems of `Daemon`, `AthBackfills` and `Polymarket`.
3. `EvmIngest` with `LogReader` in its fetch step, once the composition is modelled: a pass stores what
   the reader delivered.
