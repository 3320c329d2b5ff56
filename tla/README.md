# Beyul in TLA+

Beyul is a prediction market: users buy and sell shares of the outcomes of a
market, a matching engine pairs their orders, a market is later resolved, and
every share of the winning outcome is paid one unit of the settlement asset.
This directory holds a formal model of the parts of the repository on which that
promise depends, the TLC runs that check it on small instances, and TLAPS proofs
of its most important properties for instances of every size.

Contents: the system · the modules · the models and the code · the runs · what the
runs find · the proofs · what is not modelled · the plan.

## 1. The system

Paths are relative to the repository; `postgres.py` is
`services/api/app/repositories/postgres.py` and `engine` is
`services/realtime/crates/matching-engine/src/main.rs`.

| Component | State it keeps | Operations | What makes it correct |
|---|---|---|---|
| Order intake (`PostgresTradingRepository`) | `orders` rows, Redis list `engine.orders.incoming` | `create_market_order`, `cancel_market_order`, `fund_balance` | an order is accepted only with collateral for it; it is queued once; a cancelled order stays cancelled |
| Matching engine (`engine`) | nothing between commands; one database transaction per command | pop, lock, select candidates, fill, commit, publish | price-time priority, an uncrossed book, orders that agree with trades, a balanced ledger, shares that are backed |
| Ledger (`supabase/migrations/005_ledger_and_payments.sql`) | `ledger_transactions`, `ledger_entries`, view `account_balances` | posted to by funding, matching and settlement | double entry; the market account can pay the winners |
| Markets (`PostgresMarketRepository`) | `markets.status`, `market_outcomes` | `publish_from_request`, `update_market_status` | statuses only follow the allowed transitions |
| Resolution and settlement (same class) | `market_resolutions`, candidates, `market_disputes` | `request_settlement`, `reconcile_oracle_resolution`, `create_market_dispute`, `review_market_dispute`, `settle_market` | one final winner, not while it is disputed or can still be disputed; winners are paid once and in full |
| Settlement automation (`admin_service.py`) | none of its own | list the queue, reconcile, derive the winner, settle | never finalizes an assertion that is undecided |
| Rolling markets (`rolling_market_service.py`) | rows of `markets` whose slug names a window | create the next windows, open them, request and settle those that are over | one market per window; settlement requested after its end; one cycle settles it, by its own prices |
| Oracle client (`oracle_service.py`) | the candidate's payload; the UMA assertion and the signer's nonce, tokens and allowance are on a chain | approve the bond, begin a resolution, reconcile | what a payload says of an assertion is true of its own assertion |
| Market requests and publication (`PostgresMarketRequestRepository`, `market_quality_service.py`, `publish_from_request`) | `market_creation_requests`, answers, `markets`, `market_outcomes` | check, create, update, answer, submit, review, publish | a converted request has its market with all its outcomes; a limit on pending requests |
| WebSocket gateway (`ws-gateway`) | a broadcast channel of 256 events per market | subscribe, dispatch, deliver, disconnect | a client hears the events of its market in order, all of them if it keeps up |
| In-memory repositories (`memory.py`) | Python dictionaries | the operations above without a database | reserves are covered; market, resolution, candidate and disputes agree |
| Communities, members, posts | rows, or lists in memory | found, update, join, change a role, leave, post, review | staff decide what is published |
| Wallets | rows with a primary flag | create, update, delete | one primary wallet, or as many as calls overlap |
| Conditional orders, AMM, rate limiter, fees, transfers, notifications, profiles, web | small tables or in-process maps | requests, reports | see section 7 |

How they interact: the API commits an order and then LPUSHes a command; the
engine BRPOPs it, so the database and the queue are two stores without a common
transaction. API and engine share the rows of `orders`, `positions`,
`ledger_entries` and `markets`, under PostgreSQL's default isolation, READ
COMMITTED: every *statement* sees what was committed when it began. The engine
publishes events over Redis pub/sub after its commit; the gateway relays them.
A scheduler (`scripts/scheduler/rolling-settlement-loop.ps1`) posts to the API every
minute, which creates, opens and settles rolling markets and settles others whose
assertion is decided; the oracle may call back, and administrators may call the same
operations. The oracle's client talks to a node by JSON-RPC and stores what it learns
in the candidate's payload. One configuration value swaps all repositories for the
in-memory ones.
Settlement and the engine both write `positions` and `orders`.

What is hard: handlers that read in one statement and write in a later one; the
gap between commit and LPUSH, and between BRPOP and commit; an engine that reads
its candidates once and then matches for a while as cancellations queue up
behind its row locks; two processes that lock rows in different orders;
settlement of a market that is still being traded or disputed; requests that list
the markets once and act on the list for a while; transactions that are mined later,
or under another nonce, than when they were computed; clocks.
`PROJECT.json` lists these hazards line by line.

## 2. The modules

| Module | Models | Extends |
|---|---|---|
| `Tally` | sums over finite functions, as the cardinality of a set (no recursion, so it can be proved about) | |
| `AtomicExchange` | what trading promises: an order meets its counterparties at one moment, in price and time order | `Tally` |
| `Exchange` | order intake, cancellation, funding, market status, queue and matching engine of one market | `Tally`, instance of `AtomicExchange` |
| `ExchangeInvariant` | the inductive invariants of `Exchange` | `Exchange` |
| `MCExchange` | workloads and constants for TLC | `ExchangeInvariant` |
| `TallyTheorems` | lemmas about sums, and induction over the subsets of a finite set | `Tally` |
| `ExchangeTables` | lemmas about single statements: types, effect on consistency, which statements commute | `ExchangeInvariant`, `TallyTheorems` |
| `Exchange_proofs` | the theorems about `Spec`, the refinement among them | `ExchangeTables` |
| `Claims` | what settlement promises: all shares redeemed together, once, for one winner | |
| `Resolution` | the calls that request settlement, dispute, review, reconcile, settle and change the status of one market, against PostgreSQL | instance of `Claims` |
| `ResolutionInvariant` | the inductive invariant of `Resolution` | `Resolution` |
| `MCResolution` | combinations of calls for TLC | `ResolutionInvariant` |
| `Resolution_proofs` | the theorems about `Resolution`, the refinement among them | `ResolutionInvariant` |
| `Automation` | the rolling cycle and the settlement run, beside users, callback, chain, clock and crashes | |
| `AutomationInvariant` | the inductive invariant of `Automation` | `Automation` |
| `MCAutomation` | prices, payloads and scenarios for TLC | `AutomationInvariant` |
| `Automation_proofs` | the theorems about `Automation` | `AutomationInvariant` |
| `MemoryMarkets` | the in-memory request, market and trading repositories | `Tally` |
| `MCMemoryMarkets` | one or two requests and a budget of rows for TLC | `MemoryMarkets` |
| `MemoryMarkets_proofs` | its inductive invariant and the theorems about `MemoryMarkets` | `MemoryMarkets`, `TallyTheorems` |
| `Publication` | from a proposal through quality checks and review to a market, in PostgreSQL | |
| `Wallets` | a user's wallets and the primary flag, in PostgreSQL and in memory | |
| `Community` | communities, members and posts, in PostgreSQL and in memory | |
| `OracleClient` | the approval, assertion and reconciliation calls against the chain | |
| `Gateway` | channels, dispatch and websockets of the gateway | |
| `Platform` | the five modules above side by side | instances of them |
| `MCPlatform` | a few rows and two overlapping calls for TLC | `Platform` |
| `Publication_proofs` | the inductive invariant of `Publication`, and that every step of it keeps it | `Publication` |
| `Platform_proofs` | the inductive invariants of the other parts, and the theorems about `Platform` | `Platform`, instances of `Publication_proofs` |

## 3. The models and the code

### Exchange

**State.** `db` is the committed version of the tables: `orders` (status,
`matched_quantity`, `remaining_quantity`, `max_total_cost`), the debit and credit
totals of each ledger account, `positions` by user and outcome, and the `trades`
in the order of their insertion. `tx` is what the engine's own transaction sees;
with no transaction open it equals `db`. `queue` is the Redis list, oldest
command first (LPUSH at one end, BRPOP at the other). `intake` and `seen` are the
program counter and the local variable of each `create_market_order` call,
`cancelling` the calls of `cancel_market_order` that have checked a status and
not written yet, `eng` the phase and locals of `process_order_command`. `born` is
`created_at`: PostgreSQL's `now()` is the time the transaction began, so it is
fixed by the first statement and not by the insert. Distinct transactions get
distinct times in the model.

**Grain.** A step is one SQL statement of an API handler, or a whole handler
when it is a single transaction whose intermediate states nobody can see and
whose reads are of rows it has locked. The engine's steps are pop, begin (lock
the taker, read and lock the candidates), one step per candidate, and commit.
A match makes about nine statements; they are one step, because
nothing outside can see between them and a failure of any of them rolls back
all of them (`EngineFail`).

**Locks.** The taker and every candidate are held `FOR UPDATE`: a cancellation or
rejection of one of them waits (`Locked`). The engine's select joins `orders`
with `assets` and its `FOR UPDATE` has no `OF`, so it locks the asset row as
well; `orders.asset_id` references that row, so the insert of *any* order in the
asset waits until the engine's transaction ends (guard `~Matching` of
`CreateInsert`). The statements that may run beside an open transaction touch
rows it does not hold, so the model applies them to both versions, `db` and `tx`.

**Actions.**

| Action | Code |
|---|---|
| `CreateReadMarket`, `CreateReadBalance`, `CreateReadReserved`, `CreateInsert` | `create_market_order`, up to its commit |
| `Enqueue`, `EnqueueFails`, `MarkOrderRejected`, `ApiCrash` | the LPUSH, its failure with and without effect, the rejection that follows, a process that dies in between |
| `CancelRead`, `CancelWrite` | `cancel_market_order`: the status check and the update by id |
| `FundBalance`, `UpdateMarketStatus` | one transaction each |
| `EnginePop` | BRPOP |
| `EngineSkip` | the command of an order in a final state |
| `EngineBegin`, `EngineSkipCandidate`, `EngineFill`, `EngineCommit` | `process_order_command` |
| `EngineFail` | the engine dies, or a statement fails and `main` logs it: rollback, and the command is gone |

**What it implements.** `AtomicExchange` has the requests, the book (status and what is
left of each order), cash and shares, and five actions: `Send`, `Place`, `Close`,
`Fund` and `Match`. Its `Match` lets a pending order take of the counterparties, in one step
and once: by price and then age, at their prices, as much as there is. It knows nothing of
the queue, the candidates that were read, transactions, locks or failures. `MatchesAtOnce` is its
specification under the mapping `Book` (the order rows), `Cash` (the view
`account_balances`) and the positions: only the commit of the engine is a `Match`.

**Numbers.** Prices are whole ticks out of `Unit` and money is counted in ticks,
so products are exact. The code computes in decimals and the columns keep eight
places; rounding is a question of its own (section 8).

**Assumptions.** One engine process, as the deployment files start it. One
market, one asset and one rail. The ledger accounts exist: both sides create them on
first use, the API with `on conflict do nothing`; the engine's `ensure_*` functions look
first and then insert without it, so an account that the API inserts in between makes the
match fail and roll back, which is `EngineFail`. `reject_order` in the engine,
for market orders and for orders without price, is not modelled: the API refuses
both before they are inserted. A client or the API's sweeper does not invent
order ids: the queue holds only ids that the API put there.

### Resolution

**State.** `db` holds the committed rows of one market: its status, the resolution
row (candidate, `final_payload.status`, winner), the candidate's status, the
disputes, the outcomes' statuses, the positions, the active orders, and what each
holder was paid. `call` says what each API call asks for; `at`, `status` and
`seen` are its next statement, its fate, and the rows it read and still uses.

**A call is a plan of statements** (`RequestPlan`, `DisputePlan`, `ReviewPlan`,
`ReconcilePlan`, `SettlePlan`, `StatusPlan`), in the order of its handler in
`postgres.py`. `ReadRow` reads what is committed now; `Refuse` is the 404 or 409 that
the handler raises after a read; `WriteRow` waits for the row and then holds it;
`Commit` installs the handler's effect (`RequestEffect` ... `SettleEffect`) and
releases the rows. Installing at the commit is the same as writing in place: a
row that a transaction has written is invisible and locked until then, and what
is written depends only on constants, on the call, and on `seen`. `Abort` is a
failure at any statement, among them `OracleConfigurationError` from the oracle,
which is awaited between the first read and the first write of a request;
`RejectDuplicate` is the unique index on `market_resolutions.market_id`;
`BreakDeadlock` is PostgreSQL's deadlock detector, which aborts one call of a circle.

**Abstractions.** The rows of one table that a statement writes together (the
outcomes, the positions, the orders) are one lock. Of a payload only its status
is kept, of a position its quantity. A payout is what the holder's ledger account
receives; its counter-entry on the market account is left to the composition with
`Exchange`. Trading has ended: the model starts with positions and active orders
as they are when the resolution begins. Who may make which call (the oracle's
secret, admin rights) is not modelled: any call may come at any time, as the
several callers of `settle_market` are not coordinated.

### Automation

**State.** `market` holds a row for each window's slug (status, when it is due, who asked
for the settlement, what `final_payload` says of the assertion, the disputes that are not
closed, the winner, who settled it and by whose prices), `created` the order in which the
rows were inserted, which is the order of `list_markets`; `chain` is the assertion as the
chain knows it, `now` the minute, `task` what each request is doing: its payload, the
markets it listed when it started, the due ones that are left, and its locals. `handling`
holds the calls of everybody else (users, administrators, the oracle's callback) that have
passed their checks and have not written yet.

**Grain.** A request lists the markets once and then makes one repository call after
another. A repository call is two steps, a check and a write: it reads the market without
a lock, refuses or goes on, and writes by id or slug whatever the row has become. The
phases `opening`, `requesting`, `settling`, `record` and `finalizing`, and `handling`, are
calls between the two. So a late `open` may replace `awaiting_resolution`, a second
settlement the winner of the first, a dispute the status `settled`. (Statement by
statement the calls are in `Resolution`.) `StartCycle`, `SkipExisting`, `ReadSource`,
`CreateSource`, `CreateDirectMarket`, `OpenCreated` and `Opened`, `EndCreation`,
`RequestDue` and `RequestRecorded`, `RequestFails`, `ComputeWinner`, `PriceFails`,
`SettleDue` and `SettledDue`, `SettlementFails` are `run_up_down_cycle`; `StartRun`,
`ReadAssertion` and `RecordAssertion`, `ReconcileFails`, `RecordFails`, `DeriveWinner`,
`FinalizeDue` and `FinalizedDue`, `FinalizeFails` are `run_settlement_automation`;
`UpdateMarketStatus`, `RequestSettlement`, `CreateDispute`, `ReviewDispute`,
`ReconcileOracleResolution`, `FinalizeOracleSettlement` and the step named after the outcome
of each (`StatusUpdated` ... `OracleSettlementFinalized`) are the calls of others. Row locks
only put the writes in an order, except that calls which lock in a circle are ended by the
database: `SettlementFails`, `RecordFails` and `FinalizeFails` need another call on the same
market (`Contended`). The callback names whichever winner it likes, of any pending market,
with a simulated oracle too, as the code and its tests have it. In the due loop an
exception is a warning and the loop goes on (`NextDue`); in the creation loop it ends the
request (`Stops`). `Crash` forgets what a request had read.

**Data.** A slug is symbol, interval and start of its window, a price a number; the
reference a cycle settles by is its own symbol and interval, whatever market it settles,
as in the code. `Prices` beyond the present are not looked at: a candle that is still
running has the present price as its close. Settlements, disputes and reviews read the
payload some time after their check and write it back merged: `Merged` lets them write
what it was at the check or what it is at the write, which covers what it was in between
unless two reconciliations fall between the two.

### MemoryMarkets

A handler of `memory.py` runs on one event loop and is one step up to its first `await`
of another service: publication waits for a reference price, a settlement request and a
reconciliation for the oracle. `awaiting` holds what such a handler had read; the second
half (`PublishAnswered`, `SettlementBegun`, `Reconciled`) writes it, and `Interrupted` is an
error or a client that leaves. What was read before and is written after is the point:
`SettlementBegun` puts the copy of the market back that it read. Requests, statuses,
disputes, evidence, candidates, resolutions, orders and balances are the dictionaries of
the code; `BuildQuote`, `BuildOrderBook` and `ResolutionHistory` are the readers that a
property is about. There is no matching: the repository does not match. A user has one
balance per rail, as all markets are in one asset, and the books of all markets are told apart by
their market and outcome code.

### Publication, Wallets, Community

The same plan of statements as above, for PostgreSQL: a call first reads, without a lock,
and writes in a later statement. `serving`, `updating` and `handling` are what each call has
read. In `Publication` the quality check is two queries, each in a session of its own, that
may fail and then let the proposal pass (`CheckSpamFails`, `CheckDuplicatesFails`); the
insert follows in a third. `InsertMarket` is one transaction with the market, its
outcomes and the conversion, refused by the unique constraints on slug, request and
outcome code. In `Wallets` the first statement clears the flags of the wallets that were
there when it began (`ClearPrimary`), which it locks one at a time, in any order
(`ClearFound`); what is inserted while it waits it does not see. The second statement writes
and commits (`WriteWallet`). Calls that wait for each other's rows are ended by the database
(`RolledBack`); a wallet that is deleted under a waiting call is neither cleared nor updated
(`Misses`). `Community` has the permission checks of `_get_community_context` and its callers as guards of the first step. In memory a handler awaits
nothing, so no other begins before it ends (`Begins`); its differences (one profile for
every wallet, lists of members without a unique pair, posts that keep a copy of the
seeded communities) are kept.

### OracleClient

One step per JSON-RPC call after which the code decides something: allowance, preflight,
nonce (with the gas estimate that fails when the assertion would), send, receipt, state
of the assertion, and the write of the payload. The node and the contract are external
and only what their answers show: `Mine` takes one of the transactions of the next nonce,
`Accepts` replaces one that is still waiting, an assertion's identifier depends on the
claim and on the time of the block it lands in. `SentButLost` is a transaction that the
node has and of which no row is written; `RpcFails` is any call that raises.

### Gateway

`wire` is what the engine published to Redis and the loop has not read, `channels` the
broadcast channels with all that was ever sent on them, of which a receiver can still get
the last `Capacity`. `sender_for` takes a read lock and, when it finds nothing, a write
lock: two steps (`Subscribe` and `SubscribeNew`, `Dispatch` and `MakeChannel`). `Lag` is a
receiver that fell behind and goes on with the oldest event held, `Ends` the end of the
process with all its clients.

### Platform

The five modules share no row, so their interleavings with each other say nothing: a
behaviour picks one `part` and only that part has state. The part `queue` is a second
instance of `Publication` with more and simpler requests.

## 4. The runs

All are exhaustive on their instance. `Workloads` in `MCExchange` names the sets
of requests; a run starts from each of its workloads. Two or three orders by two
or three users are enough for a taker with two makers, for two takers that
compete for one maker, for own orders that are skipped, for partial fills on both
sides and for priority by price and by time; a fourth order adds
interleavings of the same kinds.

| Run | Instance | Shows |
|---|---|---|
| `exchange_core` | two outcomes, three orders of which two may be cancelled, `engine` and `queue` faults | the type invariant, five consistency invariants, the uncrossed book, that closed orders stay out and that priority is kept, refinement of `AtomicExchange` |
| `exchange_live` | three outcomes, refused requests, funding, a pause, `queue` and `api` faults, fairness | every queued command is decided; shares stay backed, also with more than two outcomes |
| `exchange_overdrawn` | one user, two orders, money for one | **violated**: `Solvent` |
| `exchange_cancel_filled` | cancellation beside matching | **violated**: `FilledStaysFilled` |
| `exchange_stuck` | an engine that may fail | **violated**: `PendingOrdersAreDecided` |
| `resolution_calls` | five scenarios of five concurrent calls, each of which may fail at any statement; two holders, one of them short | the type invariant, one winner, one resolution row, refinement of `Claims`, and that every call ends |
| `resolution_disputed` | a dispute beside a settlement | **violated**: `NoSettlementBesideOpenDispute` |
| `resolution_unsettled` | a cancellation beside a settlement | **violated**: `SettledStaysSettled` |
| `automation_rolling` | five scenarios of two requests, calls of others, a crash, a simulated or live oracle, fairness | one market per window, whose settlement is requested after its end and before it is settled; one cycle at most goes on to settle it, and by its own prices; with a simulated oracle the settlement run settles nothing |
| `automation_undecided` | a settlement run a minute after the cycle asked, live oracle | **violated**: `FinalizedBySettledAssertion` |
| `memory_backend` | one request, one user, two candidates, disputes and orders | covered reserves, a quiet settled market, agreement of market, resolution, candidate and disputes, kept history, frozen answers, two book views that agree |
| `platform` | each part with two overlapping calls | whole markets, the limit on pending requests, primary wallets, payloads that follow the chain, what websockets hear |

`CHECK_DEADLOCK FALSE` is set everywhere because a workload is finite: when every
request has been answered and the queue is empty, the system rests. That the
engine does not rest earlier is what `QueuedOrdersAreDecided` says, and for the calls
of a resolution `CallsEnd`, and for rolling markets `ElapsedMarketsRequested`. The other
modules bound their rows, and when these are used up the model may rest.

**Bounds.** `OrderIds` bounds the orders; `MaxFunding`, `FundAmounts` the money;
`Cancellable` the orders that a cancel may name; `AdminStatuses` the statuses an
administrator asks for; `Faults` the kinds of failure. A fault kind may happen any
number of times. `Requests` bounds prices and quantities to the workload's.
In `Resolution` the only bound is `Scenarios`. Five calls are enough for a request,
a dispute, its review and two settlements, for two requests around two status
updates, and for circles of calls that wait for each other: a settlement (outcomes, resolution,
market) with a dispute or a review (market, resolution), and a reconciliation
(candidate, resolution) with a dispute (resolution, candidate).
Every bound only removes behaviours and the proofs do not use their values.

In `Automation` a scenario fixes the oracle's mode, the payloads each of the two requests
may be given again and again, the last minute, how often the API stops and how many calls
others make: two cycles of which one dies, two cycles beside a call of somebody else, a cycle
for another symbol, a run beside the cycle with a live oracle, and one worker that serves
cycle and runs in turn beside two calls of others, which overlap with it and each other
between their checks and their writes. Windows last a minute, so within two minutes a window is created, ends, is
asked for, becomes due and is settled, and a cycle finds the windows of an earlier one.
Two symbols are enough for a cycle that finds another's markets. The prices rise, rise
and fall, and the other way round for the second symbol, so that both winners occur and
open and close can be told apart. `PageSize` is that of the code and is never
reached: a market behind fifty newer ones is outside the instance (section 5).

In `MemoryMarkets` a behaviour may add four rows together (`Budget`: orders, waiting
handlers, candidates, disputes, evidence), of which kind is open; two candidates are
needed for a settlement request that was answered late, two disputes for one after a
review, two orders for two price levels, of which one is shown (`Depth`). The seed of 7
covers one order at any price and not always a second.

In `Platform` two calls overlap. One pending request is allowed (`MaxPending`), and
`queue` may make four, which is one more than `PendingBounded` tolerates with a failed check;
four kinds of proposal (plain, with a slug that another title has, with outcome
codes that clash, too short); three addresses for two callers and a third wallet;
three memberships and one post beside the seeded, which the type invariant is about; three transactions over two block
times, with funds for two bonds, so that a nonce can be shared, a transaction replaced
and an identifier change between preflight and block; four events over two markets with
one event held, so that a client lags. The symmetry is in calls, candidates, websockets and
their markets, none of which the modules compare or choose by.

**Fairness** (`Fairness`). Weak fairness of the engine's step: `main` loops, and
inside a command it waits for nothing but row locks, which API statements hold
only for a moment. Weak fairness of each started handler: the event loop runs a
handler to its end. No fairness for clients, administrators or faults. In
`Resolution` likewise: a call that has begun goes on when it can, and the database
breaks circles; that a call is made at all is not assumed.
In `Automation`: weak fairness of the steps of a request that was accepted, as the event
loop serves it; strong fairness of `StartCycle`, as the scheduler posts each payload
every minute for ever and a worker that is free again and again gets it; strong fairness
of `RequestRecorded`, that the oracle is not out of reach every single time. Nothing is assumed of
users, of the callback, of the chain or of the settlement run. The other new modules state
no liveness and no fairness.
`exchange_live` has no `engine` fault because a failure after the pop does lose
the command; `exchange_stuck` shows exactly that.

**Mutants.** Next to a definition stands, where a property needs one, a mutated
form of it (marked `Mutant`): a side that is ignored, an update that is
forgotten, an `order by` that is dropped. Each property is violated by its mutant
on the same instance, so each of them can fail.

## 5. What the runs find

1. *A balance can be reserved twice.* `create_market_order` reads the balance,
   then the reserved collateral, then inserts, each in a statement of its own
   and without a lock. Two overlapping requests pass the same check; the engine
   does not look at balances, so it charges both.
2. *A filled order can become cancelled.* `cancel_market_order` decides on a
   status it read without a lock and updates by id alone. The trades stay, so
   the ledger is right and the order's status is not.
3. *A popped command can be lost.* The engine pops before it processes, and logs
   errors without putting the command back. The order stays
   `pending_acceptance` and its collateral reserved until its owner cancels it.

4. *A dispute can be left open on a settled market.* `settle_market` looks for open
   disputes before it locks anything; a dispute that commits after that look is
   never reviewed in time, and the shares are paid.
5. *A settled market can leave `settled`.* `update_market_status`,
   `create_market_dispute` and `review_market_dispute` check a status and then write
   the market by its id or slug. A settlement in between is overwritten: the
   market is paid out and at the same time paused, cancelled, disputed or awaiting
   resolution.

6. *An undecided assertion is taken for NO.* The payload of `getAssertion` always holds
   `assertion_resolution`, which is false until the assertion is settled, and
   `_derive_oracle_winner_code` looks at it before it looks at the state. A settlement run that
   comes when the market is due and the assertion is still open, or disputed, settles
   the market for NO. Finding out costs one scheduled run after the liveness has passed.

What protects the money in spite of 4 and 5 is that `settle_market` reads the
positions only after it has locked the outcomes: a second settlement reads zeros.
Moving that read to the front is the mutant of `PaidOnceForOneWinner`. The second
settlement does overwrite the recorded winner; `OneWinner` says that outcomes
and resolution row then still agree with each other, not that they name the
winner that was paid.

`AcceptedOnlyWhileOpen` in `Exchange` states that no order enters the book of a
paused or cancelled market. The engine never reads the market's status, so that
does not hold either. The repository promises it nowhere, so no run checks it.

What the new models show besides, without a promise in the repository that it would break:

- The rolling cycle settles every due rolling market by its own symbol and interval, also
  one that belongs to another symbol (scenario `TwoSymbols`). `SettledByItsPrices` is therefore
  about cycles for the market's symbol.
- A request for publication that is interrupted while the in-memory repository waits for the
  reference price stays `converted` without a market. PostgreSQL does not have this:
  `PublishedWhole`.
- In memory a second settlement request that read the market before the first was answered
  writes its old copy over a dispute or a settlement; `ResolutionAgrees` and
  `SettledMarketIsQuiet` say what is left.
- In PostgreSQL a request can be rejected and published; overlapping calls can leave two
  primary wallets, without a wallet before them and beside an existing one; a user can pass the limit on pending requests by one for each overlapping
  call. `PrimaryWallets` and `PendingBounded` state the bounds that do hold.
- A cycle that opens the market it created and is late can write `open` over
  `awaiting_resolution`, and so can an administrator. The market then trades on: every later
  request for settlement is refused by the unique index on `market_resolutions.market_id`,
  and `settle_market` refuses a market that is open. `ElapsedMarketsRequested` is therefore
  about markets without a request.
- Settlements by the callback, the run and a cycle can overlap, and the last one to write
  names the winner. `CyclesSettleOnce` states what holds: among cycles, only the one whose
  own request was recorded goes on to settle.
- An assertion can be made and paid for with no row that knows of it (`SentButLost`).

## 6. What is proved

### Exchange

For every value of the constants that satisfies the assumptions of `Exchange`,
with any number of users, orders and outcomes, and all faults:
`TypeCorrect`, `OrdersAgree`, `Backing`, `DoubleEntry`, `Charges`, `Positions`,
`NoOverpayment`, `Uncrossed`, the action properties `Priority` and
`ClosedForGood`, the refinement `Atomic`, and `OnlyCrashesForget`. All rest on `Invariant`,
that `IInv` always holds.

**Assumptions.** At least two outcomes, natural numbers for the amounts, finitely
many users and orders, treasury and market account distinct from each other and
from users', well-formed requests. `Positions` assumes exactly two outcomes, since
with more a seller receives shares of one other outcome only.

**Why the properties are not inductive.** They speak of the committed tables; the
engine's next version is built elsewhere, and its taker row is written last, so
`tx` itself violates several of them in the middle of a match. `IInv` adds:

- `Pending`, the version that the engine would commit if it stopped now. `Pending` is
  `Consistent` at every moment, and the commit makes it the committed version.
- `MatchingInv`: the locked candidates are those the committed tables give *now*
  (nothing can join or leave while the locks are held); candidates not reached
  yet have the row they were locked with; those already passed are the taker's
  own, or exhausted, or the taker is; trades of this transaction respect priority
  among the locked orders.
- `IntakeInv`, `NamesInv`: orders exist once inserted and only valid ones are;
  `created_at` tells them apart; queue, engine and cancellations name orders that
  exist.

**The argument.** `ExchangeTables` shows for each statement what it does to
`Consistent`; the sums over trades, accounts and positions are handled by
`TallyTheorems`, where a change of a function at one or two arguments changes its
sum by the difference. Statements that run beside a transaction commute with the
pending write of the taker's row (`RejectionCommutes`, `FundingCommutes`), so
applying them to `db` and `tx` applies them to `Pending`. `Exchange_proofs` has one
step per action in `StepInvariant`. `BookUncrossed` needs that the taker's row is
written only when it is exhausted or all candidates have been visited, and
`Priority` that `Precedes` is total on orders with distinct `created_at`.

**The refinement.** `Atomic` says that `Exchange` implements `AtomicExchange`. What is
hard is the commit: it installs the work of many steps, done while others cancelled,
placed and were funded. `AtomicInv` says at each of these steps what the open transaction
has taken of each counterparty (`Taken`), that this accounts for everything in which `tx`
differs from `db`: the taker's remainder, the makers' rows, what each account was charged
and each position given, as sums over the counterparties; and that whoever is served
before one that something was taken of has nothing left (`TakenInOrder`). `IInv` alone
does not say this: it relates rows and trades to each other, and not the transaction to
the tables it started from. `BeginTaking` establishes it, `FillTaking` keeps it through a
fill (`ServedFirst`: the next candidate has everyone better behind it), `FundMoves` and
`QuietTaking` through what others do, since a statement beside the transaction changes both
versions alike. At the commit (`CommitMatches`) `Taken` is the witness for `take`,
`PositionOutcome` the one for `bet`, and the taker stops only when it is served or
everyone else is exhausted, which is why it has taken as much as there is. `Match` takes an
order that is pending, so an order takes once and then rests: `CommandsInv` says that an
order has one command, and does not rest before it is processed. An engine that fails takes
nothing, so every other engine step is a stutter; an insert is `Place`, a cancellation or
rejection `Close`, the first statement of a request `Send`.

**Forgotten orders.** `exchange_stuck` shows that a pending order can be forgotten.
`OnlyCrashesForget` shows that only a dying engine or API does it (`NoneForgotten`): otherwise
a pending order is with its request, in the queue or with the engine, also when the queue
fails with or without having stored the command. No run checks `NoneForgotten`, since the passing ones
have one of these two faults.

### Resolution

For any calls, holders, outcomes and (also negative) positions: `ResolutionTyped`,
`WinnerAgrees`, `ResolutionIsKept` and the refinement `SharesArePaidOnce`, from the
assumption that scenarios consist of well-formed calls and that `NoCall` and
`NoOutcome` are neither calls nor outcomes.

`OneWinner` and `PaidOnceForOneWinner` are not inductive: a settlement pays from the
positions it read several statements ago. `IInv` says why they are still true.
`Alone`: at most one running call is past its write of the outcomes, and at most one
past its write of the resolution row, since a write waits for the rows that others
hold (`WriteIsAlone`). `SettleInv`: a settlement that has read the positions is past
the outcomes, so nobody else can have paid since. `RequestInv`: a request past its
insert has seen the unique index accept it, and nobody else writes the row
meanwhile. `PositionsInv`: positions are the initial ones or zero, which makes the first
settlement a `Redeem` of `Claims` and every later one a stutter. `PlanOfCall`
collects what the proofs use of the six plans.

### Automation

For any payloads of cycles and runs, any windows, prices, page size, number of overlapping
requests, calls and crashes: `TypeCorrect`, `WindowsHaveOneMarket`, `CyclesWait`,
`CyclesSettleByPrices`, `SimulatedRunIsSilent` and `CyclesSettleAlone`.
The only assumption is `AutomationAssumption`: payloads and scenarios are well-formed,
intervals, lookaheads and the page size at least one.

**Why the properties are not inductive.** A cycle settles a market with a winner it
computed earlier, for a market it found due earlier still, in a list it read at the start;
between its check and its write others change the row as they like. `IInv` (in
`AutomationInvariant`) says what of this stays true all the same. `CreatedInv`: exactly the
slugs in `created` have a row, each once. `MarketInv` (`RowFacts` of every row): whatever late
writes made of the status, a row that is pending, disputed or settled has been requested;
with a simulated oracle its payload names no outcome. `TaskInv`: what a cycle found due is
over, the winner it holds is right for the market it is at, if that is one of its own, and
what a call past its check writes to has been requested. `CallInv`: likewise for the calls
of others. A request is never taken back, which is why a check that saw one is still right
at the write, although the status it saw is not.

**The argument.** Time only goes on and rows never go away, so the facts of the tasks
that a step does not touch stay true (a row inserted at the end does not
come before a market of an earlier list, so `Foremost` names the same market). Every step
but the insertion then leaves two questions: what becomes of its own task or call, and
whether each row it changes satisfies `RowFacts`. The step that computes the winner is by
then past the end of the window, so the candle closes there and not at the present price.
`CyclesSettleAlone` rests on the unique index: the second of two cycles that found a market
due finds a resolution when it comes to insert its own, and goes to the next market.

### MemoryMarkets

For any requests, users, slugs (shared or not), outcomes, prices, grants and bounds:
`TypeOK`, `SettledMarketIsQuiet`, `ResolutionAgrees`, `QuoteMatchesBook` and the action
properties `HistoryKept` and `AnswersFrozen`, and `OrdersCovered`, which says that reserves are
covered as long as no market was replaced (`NoneReplaced`: no two requests that became
markets share a slug).

**Assumptions.** `MemoryAssumption` (requesters are users, amounts are positive) and
`NoMarketAssumption`, that the mark of a free slug is no market. Nothing is assumed of slugs.
The code compares the slugs that requests name, not those that it derives from titles, and
publication looks for nobody's market: it overwrites. The orders of a market that was
replaced are no longer found and so not counted, other orders take their reserve, and a
settlement that was requested before writes its copy of the old market back. So the
condition is in the property, as one on the state: in a behaviour that will replace a market
reserves are covered until it does. The run has one request, so there the condition holds.

**Why the properties are not inductive.** A settlement request reads the market, waits for
the oracle, and writes its copy back over whatever is under the slug by then, also over a
settled market. `IInv` says what is true of the copies: `ConvertedOnce`, a request becomes a
market once, so no publication waits for a market that exists; `InPlace`, a copy goes
back to the slug of its own request; `IdsDistinct`, the candidate that a waiting call will
store is not stored and no other call's. `DisputesInv`: an open dispute is about a decision
that is pending, and what a pending decision names is stored. `StatusInv`: what the
market, its resolution and its only candidate say of each other; with a second candidate
the copy may disagree, which is why `ResolutionAgrees` speaks of the first. For
`OrdersCovered` the strengthening is `CoverInv`, under the same condition on the state: every order is in a market that is found and
of a user with a balance on its rail, so that the first funding, which takes the place
of the seed, replaces it under nobody's orders.

**The argument.** `FrameKeeps` and `MarketsStay` cover the steps that store nothing new,
`OneMarketKeeps` those that change one market and its rows; each of the others is a lemma of
its own. `CoverStays` is the argument for reserves: orders close, balances grow and markets
stay, so each term of the sum is what it was or zero (`SomeZeroed`); a new order adds one
term (`OneMore`), which was compared with what was available.
`QuotesAreOfBook` compares two computations on one state, so it needs only types of the
invariant. A level of the book is the price with so many better ones; no two prices have
as many, so every number below the number of prices is the rank of one (`SortedPrices`),
and the first has none better, which is the best price of the quote. The quantities of the
levels shown belong to disjoint parts of the resting orders, so together they are at most
the whole: `TallyOfParts`, by induction over the set of parts.

### Publication, Wallets, Community, OracleClient, Gateway

`Platform_proofs` shows, for any parts and any number of overlapping calls, rows,
candidates, transactions, websockets and events: `TypeOK`, `PublishedWhole`,
`PendingBounded`, `PrimaryWallets`, `RecordedOwnAssertion`,
`RecordedNotAhead` and `ClientsHear`. The only assumption is `PlatformAssumption`, which says
that each part's constants are of the right kind. One part runs in a behaviour, so
`PlatformInv` says for each of the six that its invariant holds if it is the one;
`queue` and `publication` are two instances of the same lemmas in `Publication_proofs`.

**Why the properties are not inductive, part by part.**

- *Publication.* `PublishedWhole` speaks of committed rows and needs little more than what
  each overlapping call has read (`CallsInv`), since the constraints refuse the rest. `PendingBounded` needs `BoundInv`: a check counts committed rows only, so the bound
  counts with them the calls past the check that may still insert (`Adding`), and the
  requests that a submission, having read the draft, will set to submitted again whatever
  has become of them (`Reviving`). `PassingIsBound` is the step that makes the bound hold:
  at the check, every other call accounts for at most one of these.
- *Wallets.* The limit is the number of calls at once (in memory one call is under way at a
  time, and the limit is one), but how many wallets are primary is not bounded by the
  calls under way now: those that wrote them are gone. `WalletCount` says of any primary
  wallets of a user that stand together: they and the calls that are coming and will clear
  none of them (`Missing`) are within the limit. They were all under way when the first of these
  wallets was committed, since a call that began later found it, and clears it before it writes.
- *Community.* `CommunityInv` adds that members are of communities that exist, and
  `CommunityCall`, what a call was given or has read.
- *OracleClient.* What a payload says of its assertion was read some calls ago. `OneAssertion`:
  at most one call that is under way, or transaction that was sent, asserts for a candidate.
  `ContractFacts`: what mined transactions and the contract say of each other.
  `Recorded`: a payload's hash is that of a transaction of its own candidate, its identifier
  the one the receipt gave, its state one the assertion has reached. `Advances` says
  that nothing of this goes back, so what a call holds stays true while blocks are mined,
  transactions replaced and other calls answered (`ChainKeeps`, `CallKeeps`). The nonce is
  the number of mined transactions, which is why the next one mined is another.
- *Gateway.* `ChannelsInv`: a market has one channel and a channel one market, and a channel
  holds numbers of dispatched events, in order. `Hears`: a listening websocket reads
  the channel that its market has in the map; what it got and what waits for it there are
  events of its market since it subscribed, in order, and all of them unless it lagged. `Receive`,
  `Lag` and `Dispatch` then are facts about prefixes and suffixes of sequences.

### Only model-checked

- Liveness under fairness (`QueuedOrdersAreDecided`, `CallsEnd`,
  `ElapsedMarketsRequested`): the prover does not handle fairness and `ENABLED`.
- All that the violated runs show.

The inductive invariants and `NoneForgotten`, on the other hand, are proved and in no run: the
runs check the properties that the invariants imply.

## 7. What is not modelled, and why

**Within the modelled components.** Average entry prices, totals and fees stored on
rows (they feed reports), the scale of the decimal columns, the content of events,
evidence texts, charts of holders and history, queries that only read, and who is an
administrator. `assert_truth`, `settle_assertion` and `check_assertion_status` of the oracle
client, which nothing calls.

**Components.** *Conditional orders*: `check_triggers` is called by nothing, so an order never
triggers. *AMM*: disabled by default, and its quotes are shown but never placed.
*Rate limiter*: one dictionary per process without a wait between read and write.
*Fees*: arithmetic, never posted to the ledger. *Transfers*: one insert each, processed by
nothing. *Notifications, push, e-mail*: output. *Profiles, social*: single statements under a
unique constraint. *Authentication*: external services. *Market data, KPIs, cache*: read
models. *`BeyulMarket.sol`*: no service of the repository calls it. *Web*: user interface.
*Price feed*: a stub.

## 8. The plan

Done so far: the exchange, the resolution, the automation, the in-memory repositories and
the platform, each with its runs and its proofs. Left, in order of importance:

1. `ExchangeSettlement`, the composition of `Exchange` with `settle_market`: positions read
   before and zeroed after concurrent fills, payouts against the market account,
   deadlock between the two lock orders.
2. Algorithms against reference definitions over bounded inputs: `LedgerRounding`,
   `AveragePrice`, `Amm`, `RateLimit`.
