------------------------------ MODULE Exchange ------------------------------
(***************************************************************************)
(* Order intake, cancellation and matching of one market.                  *)
(*                                                                         *)
(* Three kinds of process share one PostgreSQL database and one Redis list:*)
(*                                                                         *)
(*   - FastAPI requests (PostgresTradingRepository): create_market_order   *)
(*     reads the market, the caller's balance and the caller's reserved    *)
(*     collateral in separate READ COMMITTED statements, inserts the order *)
(*     as pending_acceptance, commits, and LPUSHes a command;              *)
(*     cancel_market_order reads the status and later overwrites it;       *)
(*     fund_balance and update_market_status commit in one go;             *)
(*   - the matching engine (Rust): pops one command at a time and matches  *)
(*     that order against the resting ones inside one transaction that     *)
(*     locks the taker, every candidate and the asset row (FOR UPDATE);    *)
(*   - faults: a process dies or a statement fails between two steps.      *)
(*                                                                         *)
(* Numbers.  A price is a whole number of ticks out of Unit, a quantity is *)
(* a whole number of shares and money is counted in ticks, so that every   *)
(* product is exact (rounding to numeric(20,8) is not modelled here).      *)
(***************************************************************************)
EXTENDS Integers, Sequences, FiniteSets, Tally

CONSTANTS
    Users,          \* profiles that trade
    OrderIds,       \* one HTTP order request each, and the order it creates
    NumOutcomes,    \* outcomes of the market, in outcome_index order
    Unit,           \* ticks in one unit of the settlement asset
    Requests,       \* the payloads an order request may carry
    Treasury,       \* ledger account TREASURY::...
    MarketAccount,  \* ledger account MARKET::...
    InitialFunds,   \* what every user was funded with before trading starts
    FundAmounts,    \* amounts an administrator may add later
    MaxFunding,     \* bound: total the treasury pays out
    Cancellable,    \* bound: orders that a cancel request may name
    AdminStatuses,  \* bound: market statuses an administrator may ask for
    Faults          \* which failures may happen: a subset of FaultKinds

Outcomes == 1 .. NumOutcomes
Accounts == Users \cup {Treasury, MarketAccount}
FaultKinds == {"engine", "api", "queue"}

ASSUME SizesAssumption ==
    /\ NumOutcomes \in Nat /\ NumOutcomes >= 2
    /\ Unit \in Nat /\ Unit >= 1
    /\ InitialFunds \in Nat /\ MaxFunding \in Nat /\ FundAmounts \subseteq Nat
ASSUME FiniteAssumption == IsFiniteSet(Users) /\ IsFiniteSet(OrderIds)
ASSUME AccountsAssumption ==
    Treasury \notin Users /\ MarketAccount \notin Users /\ Treasury # MarketAccount
ASSUME RequestsAssumption ==
    Requests \subseteq [user : Users, side : {"buy", "sell"}, order_type : {"limit", "market"},
                        outcome : Outcomes, price : 0 .. Unit, quantity : Nat]
ASSUME FaultsAssumption == Faults \subseteq FaultKinds

VARIABLES
    request,    \* payload of each order request, fixed when the client sends it
    born,       \* created_at of the order: the start of its transaction
    intake,     \* where each create_market_order call stands
    seen,       \* the balance that call read
    cancelling, \* orders a cancel_market_order call has checked but not yet updated
    market,     \* markets.status
    db,         \* the committed tables
    tx,         \* the tables as the engine's open transaction sees them (db when none is open)
    queue,      \* Redis list engine.orders.incoming, oldest command first
    eng         \* the engine: phase and the locals of process_order_command

vars == <<request, born, intake, seen, cancelling, market, db, tx, queue, eng>>

OrderStatuses == {"absent", "pending_acceptance", "open", "partially_filled",
                  "filled", "cancelled", "rejected"}
ActiveStatuses == {"pending_acceptance", "open", "partially_filled"}
RestingStatuses == {"open", "partially_filled"}
ClosedStatuses == {"cancelled", "rejected"}
MarketStatuses == {"pending_liquidity", "open", "trading_paused", "cancelled"}
IntakeSteps == {"idle", "market_read", "balance_read", "checked", "inserted", "failed", "done"}

OrderRow == [status : OrderStatuses, matched : Nat, remaining : Nat, max_total_cost : Nat]
Account == [debit : Nat, credit : Nat]
Trade == [taker : OrderIds, maker : OrderIds, quantity : Nat, price : 0 .. Unit]
Tables == [orders : [OrderIds -> OrderRow], accounts : [Accounts -> Account],
           positions : [Users -> [Outcomes -> Nat]], trades : Seq(Trade)]

-----------------------------------------------------------------------------
(* Orders *)

UnitCost(o) == IF request[o].side = "buy" THEN request[o].price ELSE Unit - request[o].price
Required(o) == request[o].quantity * UnitCost(o)

ValidRequest(o) ==
    /\ request[o].order_type = "limit"
    /\ request[o].quantity > 0
    /\ request[o].price > 0 /\ request[o].price < Unit

\* Mutant: the limits are not compared.
CrossesAtAnyPrice(o, m) ==
    request[o].outcome = request[m].outcome /\ request[o].side # request[m].side

\* Opposite sides of one outcome whose limits allow a trade.
Crosses(o, m) ==
    /\ request[o].outcome = request[m].outcome
    /\ \/ /\ request[o].side = "buy" /\ request[m].side = "sell"
          /\ request[m].price <= request[o].price
       \/ /\ request[o].side = "sell" /\ request[m].side = "buy"
          /\ request[m].price >= request[o].price

\* m is strictly better priced than n for an order of the opposite side.
BetterPrice(m, n) ==
    IF request[m].side = "sell" THEN request[m].price < request[n].price
                                ELSE request[m].price > request[n].price

\* Mutant: "order by created_at".
Older(m, n) == born[m] <= born[n]

\* "order by price, created_at": m is not after n.
Precedes(m, n) ==
    \/ BetterPrice(m, n)
    \/ request[m].price = request[n].price /\ born[m] <= born[n]

Resting(t, o) == t.orders[o].status \in RestingStatuses
Active(t, o) == t.orders[o].status \in ActiveStatuses

Balance(t, a) == t.accounts[a].debit - t.accounts[a].credit
Reserved(t, u) ==
    Tally([o \in OrderIds |->
             IF request[o].user = u /\ Active(t, o) THEN t.orders[o].remaining * UnitCost(o) ELSE 0])

-----------------------------------------------------------------------------
(* The statements that change the tables *)

WithRow(t, o, row) == [t EXCEPT !.orders[o] = row]

InsertOrder(t, o) ==
    WithRow(t, o, [status |-> "pending_acceptance", matched |-> 0,
                   remaining |-> request[o].quantity, max_total_cost |-> Required(o)])

SetStatus(t, o, s) == WithRow(t, o, [t.orders[o] EXCEPT !.status = s])

TakerStatus(matched, remaining) ==
    IF matched = 0 THEN "open" ELSE IF remaining = 0 THEN "filled" ELSE "partially_filled"

\* Mutant: the taker's quantities are not written back.
UpdateTakerStatus(t, o, matched, remaining) == SetStatus(t, o, TakerStatus(matched, remaining))

\* Mutant: an order that met no counterparty is not accepted.
UpdateTakerIfMatched(t, o, matched, remaining) ==
    IF matched = 0 THEN t ELSE UpdateTakerStatus(t, o, matched, remaining)

UpdateTaker(t, o, matched, remaining) ==
    WithRow(t, o, [t.orders[o] EXCEPT !.status = TakerStatus(matched, remaining),
                                      !.matched = matched, !.remaining = remaining])

MakerRow(row, q) ==
    [row EXCEPT !.status = IF row.remaining = q THEN "filled" ELSE "partially_filled",
                !.matched = @ + q, !.remaining = @ - q]

\* Ledger entries of one account; its balance is what was debited less what was credited.
Debit(accounts, a, amount) == [accounts EXCEPT ![a].debit = @ + amount]
Credit(accounts, a, amount) == [accounts EXCEPT ![a].credit = @ + amount]

Fund(t, u, amount) == [t EXCEPT !.accounts = Credit(Debit(@, u, amount), Treasury, amount)]

\* Mutant: the side is ignored.
PositionOutcomeTraded(o) == request[o].outcome

\* A seller is given the first other outcome in outcome_index order.
PositionOutcome(o) ==
    IF request[o].side = "buy" THEN request[o].outcome
    ELSE IF request[o].outcome = 1 THEN 2 ELSE 1

BuyerOf(taker, maker) == IF request[taker].side = "buy" THEN taker ELSE maker
SellerOf(taker, maker) == IF request[taker].side = "buy" THEN maker ELSE taker

\* Mutant: the seller pays the price as well.
PostTradeGrossTwice(accounts, buyer, seller, q, gross) ==
    Debit(Credit(Credit(accounts, buyer, gross), seller, gross), MarketAccount, q * Unit)

\* Mutant: buyer and seller are exchanged.
PostTradeSwapped(accounts, buyer, seller, q, gross) ==
    Debit(Credit(Credit(accounts, seller, gross), buyer, q * Unit - gross), MarketAccount, q * Unit)

\* record_trade_cash_ledger: both sides pay into the market account.
PostTrade(accounts, buyer, seller, q, gross) ==
    Debit(Credit(Credit(accounts, buyer, gross), seller, q * Unit - gross), MarketAccount, q * Unit)

\* Mutant: the quantity is replaced instead of added to.
UpsertPositionReplacing(positions, u, outcome, q) ==
    [positions EXCEPT ![u][outcome] = q]

UpsertPosition(positions, u, outcome, q) ==
    [positions EXCEPT ![u][outcome] = @ + q]

\* One iteration of the matching loop, at the maker's price.
Fill(t, taker, maker, q) ==
    LET b == BuyerOf(taker, maker)
        s == SellerOf(taker, maker)
    IN [orders    |-> [t.orders EXCEPT ![maker] = MakerRow(@, q)],
        accounts  |-> PostTrade(t.accounts, request[b].user, request[s].user, q,
                                q * request[maker].price),
        positions |-> UpsertPosition(
                        UpsertPosition(t.positions, request[taker].user, PositionOutcome(taker), q),
                        request[maker].user, PositionOutcome(maker), q),
        trades    |-> Append(t.trades, [taker |-> taker, maker |-> maker,
                                        quantity |-> q, price |-> request[maker].price])]

-----------------------------------------------------------------------------
Idle == [phase |-> "idle"]
Matching == eng.phase = "matching"

\* Rows the engine's transaction holds FOR UPDATE; a conflicting UPDATE waits.
Locked(o) == Matching /\ o \in eng.locked \cup {eng.taker}

Init ==
    /\ request \in [OrderIds -> Requests]
    /\ born = [o \in OrderIds |-> 0]
    /\ intake = [o \in OrderIds |-> "idle"]
    /\ seen = [o \in OrderIds |-> 0]
    /\ cancelling = {}
    /\ market = "open"
    /\ db = [orders    |-> [o \in OrderIds |-> [status |-> "absent", matched |-> 0,
                                                remaining |-> 0, max_total_cost |-> 0]],
             accounts  |-> [a \in Accounts |->
                              [debit  |-> IF a \in Users THEN InitialFunds ELSE 0,
                               credit |-> IF a = Treasury THEN Cardinality(Users) * InitialFunds
                                                          ELSE 0]],
             positions |-> [u \in Users |-> [x \in Outcomes |-> 0]],
             trades    |-> << >>]
    /\ tx = db
    /\ queue = << >>
    /\ eng = Idle

-----------------------------------------------------------------------------
(* create_market_order *)

AcceptsOrders == market \in {"pending_liquidity", "open"}

\* The transaction starts, which fixes created_at, and reads the market row.
CreateReadMarket(o) ==
    /\ intake[o] = "idle"
    /\ born' = [born EXCEPT ![o] = Cardinality({p \in OrderIds : intake[p] # "idle"})]
    /\ intake' = [intake EXCEPT ![o] =
                    IF AcceptsOrders /\ ValidRequest(o) THEN "market_read" ELSE "done"]
    /\ UNCHANGED <<request, seen, cancelling, market, db, tx, queue, eng>>

\* _get_available_cash_balance, first statement: the account_balances view.
CreateReadBalance(o) ==
    /\ intake[o] = "market_read"
    /\ intake' = [intake EXCEPT ![o] = "balance_read"]
    /\ seen' = [seen EXCEPT ![o] = Balance(db, request[o].user)]
    /\ UNCHANGED <<request, born, cancelling, market, db, tx, queue, eng>>

\* Second statement: the collateral of the active orders; then the comparison.
CreateReadReserved(o) ==
    /\ intake[o] = "balance_read"
    /\ intake' = [intake EXCEPT ![o] =
                    IF seen[o] - Reserved(db, request[o].user) >= Required(o)
                    THEN "checked" ELSE "done"]
    /\ seen' = [seen EXCEPT ![o] = 0]
    /\ UNCHANGED <<request, born, cancelling, market, db, tx, queue, eng>>

\* Insert and commit.  orders.asset_id references the asset row that the
\* engine's "for update" over orders join assets locks, so the insert waits.
CreateInsert(o) ==
    /\ intake[o] = "checked"
    /\ ~Matching
    /\ intake' = [intake EXCEPT ![o] = "inserted"]
    /\ db' = InsertOrder(db, o)
    /\ tx' = InsertOrder(tx, o)
    /\ UNCHANGED <<request, born, seen, cancelling, market, queue, eng>>

\* The LPUSH, and the response to the client.
Enqueue(o) ==
    /\ intake[o] = "inserted"
    /\ intake' = [intake EXCEPT ![o] = "done"]
    /\ queue' = Append(queue, o)
    /\ UNCHANGED <<request, born, seen, cancelling, market, db, tx, eng>>

\* The LPUSH raises: the command was not stored, or it was and the reply was lost.
EnqueueFails(o) ==
    /\ "queue" \in Faults
    /\ intake[o] = "inserted"
    /\ intake' = [intake EXCEPT ![o] = "failed"]
    /\ queue' \in {queue, Append(queue, o)}
    /\ UNCHANGED <<request, born, seen, cancelling, market, db, tx, eng>>

\* _mark_order_rejected: an update by id, whatever the status has become.
MarkOrderRejected(o) ==
    /\ intake[o] = "failed"
    /\ ~Locked(o)
    /\ intake' = [intake EXCEPT ![o] = "done"]
    /\ db' = SetStatus(db, o, "rejected")
    /\ tx' = SetStatus(tx, o, "rejected")
    /\ UNCHANGED <<request, born, seen, cancelling, market, queue, eng>>

\* The API process dies after the commit and before it could do the rest.
ApiCrash(o) ==
    /\ "api" \in Faults
    /\ intake[o] \in {"inserted", "failed"}
    /\ intake' = [intake EXCEPT ![o] = "done"]
    /\ UNCHANGED <<request, born, seen, cancelling, market, db, tx, queue, eng>>

-----------------------------------------------------------------------------
(* cancel_market_order *)

CancelRead(o) ==
    /\ o \in Cancellable \ cancelling
    /\ Active(db, o)
    /\ cancelling' = cancelling \cup {o}
    /\ UNCHANGED <<request, born, intake, seen, market, db, tx, queue, eng>>

CancelWrite(o) ==
    /\ o \in cancelling
    /\ ~Locked(o)
    /\ cancelling' = cancelling \ {o}
    /\ db' = SetStatus(db, o, "cancelled")
    /\ tx' = SetStatus(tx, o, "cancelled")
    /\ UNCHANGED <<request, born, intake, seen, market, queue, eng>>

-----------------------------------------------------------------------------
(* fund_balance and update_market_status, each one transaction *)

FundBalance(u) ==
    \E amount \in FundAmounts :
        /\ db.accounts[Treasury].credit + amount <= MaxFunding
        /\ db' = Fund(db, u, amount)
        /\ tx' = Fund(tx, u, amount)
        /\ UNCHANGED <<request, born, intake, seen, cancelling, market, queue, eng>>

AllowedNextStatuses ==
    [pending_liquidity |-> {"open", "cancelled"},
     open              |-> {"trading_paused", "cancelled"},
     trading_paused    |-> {"open", "cancelled"},
     cancelled         |-> {}]

UpdateMarketStatus ==
    /\ market' \in AllowedNextStatuses[market] \cap AdminStatuses
    /\ UNCHANGED <<request, born, intake, seen, cancelling, db, tx, queue, eng>>

-----------------------------------------------------------------------------
(* The matching engine *)

EnginePop ==
    /\ eng.phase = "idle"
    /\ queue # << >>
    /\ eng' = [phase |-> "popped", taker |-> Head(queue)]
    /\ queue' = Tail(queue)
    /\ UNCHANGED <<request, born, intake, seen, cancelling, market, db, tx>>

\* Mutant: only a filled order is final.
FilledOnly(o) == db.orders[o].status = "filled"

Final(o) == db.orders[o].status \in {"cancelled", "rejected", "filled"}

\* lock_order found the order already in a final state.
EngineSkip ==
    /\ eng.phase = "popped"
    /\ Final(eng.taker)
    /\ eng' = Idle
    /\ UNCHANGED <<request, born, intake, seen, cancelling, market, db, tx, queue>>

\* Mutant: a partially filled order no longer rests.
OpenCandidates(taker) ==
    {m \in OrderIds : db.orders[m].status = "open" /\ Crosses(taker, m)}

\* fetch_match_candidates
Candidates(taker) == {m \in OrderIds : Resting(db, m) /\ Crosses(taker, m)}

\* begin, lock_order and fetch_match_candidates.
EngineBegin ==
    /\ eng.phase = "popped"
    /\ ~Final(eng.taker)
    /\ eng' = [phase |-> "matching", taker |-> eng.taker,
               locked |-> Candidates(eng.taker), left |-> Candidates(eng.taker),
               matched |-> db.orders[eng.taker].matched,
               remaining |-> db.orders[eng.taker].remaining]
    /\ UNCHANGED <<request, born, intake, seen, cancelling, market, db, tx, queue>>

\* Mutant: no "order by".
IsCandidate(m) == m \in eng.left

\* The candidate the loop visits next.
IsNext(m) == m \in eng.left /\ \A n \in eng.left : Precedes(m, n)

SameOwner(o, m) == request[o].user = request[m].user

\* The two "continue"s: an own order, or nothing left to take.
EngineSkipCandidate ==
    /\ Matching /\ eng.remaining > 0
    /\ \E m \in OrderIds :
        /\ IsNext(m)
        /\ SameOwner(eng.taker, m) \/ tx.orders[m].remaining = 0
        /\ eng' = [eng EXCEPT !.left = @ \ {m}]
    /\ UNCHANGED <<request, born, intake, seen, cancelling, market, db, tx, queue>>

\* Mutant: the maker's size is not looked at.
First(a, b) == a

Lesser(a, b) == IF a < b THEN a ELSE b

EngineFill ==
    /\ Matching /\ eng.remaining > 0
    /\ \E m \in OrderIds :
        LET q == Lesser(eng.remaining, tx.orders[m].remaining) IN
        /\ IsNext(m)
        /\ ~SameOwner(eng.taker, m)
        /\ q > 0
        /\ tx' = Fill(tx, eng.taker, m, q)
        /\ eng' = [eng EXCEPT !.left = @ \ {m}, !.matched = @ + q, !.remaining = @ - q]
    /\ UNCHANGED <<request, born, intake, seen, cancelling, market, db, queue>>

\* The loop is over: the taker's row is written and the transaction commits.
EngineCommit ==
    /\ Matching
    /\ eng.remaining = 0 \/ eng.left = {}
    /\ db' = UpdateTaker(tx, eng.taker, eng.matched, eng.remaining)
    /\ tx' = db'
    /\ eng' = Idle
    /\ UNCHANGED <<request, born, intake, seen, cancelling, market, queue>>

\* The process dies, or a statement fails and main logs the error: the
\* transaction rolls back and the popped command is gone.
EngineFail ==
    /\ "engine" \in Faults
    /\ eng.phase # "idle"
    /\ tx' = db
    /\ eng' = Idle
    /\ UNCHANGED <<request, born, intake, seen, cancelling, market, db, queue>>

-----------------------------------------------------------------------------
\* What a create_market_order call does once it has started.
CreateContinues(o) ==
    \/ CreateReadBalance(o) \/ CreateReadReserved(o) \/ CreateInsert(o)
    \/ Enqueue(o) \/ EnqueueFails(o) \/ MarkOrderRejected(o)

EngineStep ==
    EnginePop \/ EngineSkip \/ EngineBegin \/ EngineSkipCandidate \/ EngineFill \/ EngineCommit

Next ==
    \/ \E o \in OrderIds : \/ CreateReadMarket(o) \/ CreateContinues(o) \/ ApiCrash(o)
                          \/ CancelRead(o) \/ CancelWrite(o)
    \/ \E u \in Users : FundBalance(u)
    \/ UpdateMarketStatus
    \/ EngineStep
    \/ EngineFail

Spec == Init /\ [][Next]_vars

\* Both loops keep running: the engine's loop never waits on anything but the
\* queue and the row locks, and a started handler runs to its end.
Fairness ==
    /\ WF_vars(EngineStep)
    /\ \A o \in OrderIds : WF_vars(CreateContinues(o)) /\ WF_vars(CancelWrite(o))

FairSpec == Spec /\ Fairness

-----------------------------------------------------------------------------
(* Type correctness *)

EngineStates ==
    {Idle}
    \cup [phase : {"popped"}, taker : OrderIds]
    \cup [phase : {"matching"}, taker : OrderIds, locked : SUBSET OrderIds,
          left : SUBSET OrderIds, matched : Nat, remaining : Nat]

\* Every variable stays within its type: in particular no quantity and no
\* ledger total ever becomes negative, in the committed tables or in the
\* engine's transaction.
TypeOK ==
    /\ request \in [OrderIds -> Requests]
    /\ born \in [OrderIds -> Nat]
    /\ intake \in [OrderIds -> IntakeSteps]
    /\ seen \in [OrderIds -> Int]
    /\ cancelling \subseteq OrderIds
    /\ market \in MarketStatuses
    /\ db \in Tables /\ tx \in Tables
    /\ queue \in Seq(OrderIds)
    /\ eng \in EngineStates

-----------------------------------------------------------------------------
(* Safety.  What relates the rows of one version t of the tables to each    *)
(* other is asked of the committed version; the proofs show it of the       *)
(* version the engine's open transaction would commit, too.                 *)

TradedBy(t, o) ==
    Tally([i \in DOMAIN t.trades |->
             IF o \in {t.trades[i].taker, t.trades[i].maker} THEN t.trades[i].quantity ELSE 0])

\* What one share of trade i costs the owner of order o, one of its two sides.
LegPrice(t, i, o) ==
    IF request[o].side = "buy" THEN t.trades[i].price ELSE Unit - t.trades[i].price

Paid(t, o) ==
    Tally([i \in DOMAIN t.trades |->
             IF o \in {t.trades[i].taker, t.trades[i].maker}
             THEN t.trades[i].quantity * LegPrice(t, i, o) ELSE 0])

PaidBy(t, u) == Tally([o \in OrderIds |-> IF request[o].user = u THEN Paid(t, o) ELSE 0])

\* The bet an order makes: to buy is to win with the outcome, to sell is to win
\* with any other.
Wins(o, x) == (request[o].side = "buy") <=> (request[o].outcome = x)

WonBy(t, u, x) ==
    Tally([o \in OrderIds |-> IF request[o].user = u /\ Wins(o, x) THEN TradedBy(t, o) ELSE 0])

Held(positions, x) == Tally([u \in Users |-> positions[u][x]])
Debits(accounts) == Tally([a \in Accounts |-> accounts[a].debit])
Credits(accounts) == Tally([a \in Accounts |-> accounts[a].credit])

OrderAgrees(t, o) ==
    LET row == t.orders[o] IN
    IF row.status = "absent" THEN TradedBy(t, o) = 0
    ELSE /\ row.matched = TradedBy(t, o)
         /\ row.matched + row.remaining = request[o].quantity
         /\ row.status = "filled" => row.remaining = 0
         /\ row.status \in ActiveStatuses => row.remaining > 0

Backed(t, x) ==
    /\ Unit * Held(t.positions, x) <= Balance(t, MarketAccount)
    /\ NumOutcomes = 2 => Unit * Held(t.positions, x) = Balance(t, MarketAccount)

WithinReserved(t, o) ==
    t.orders[o].status # "absent" =>
        Paid(t, o) + t.orders[o].remaining * UnitCost(o) <= t.orders[o].max_total_cost

\* An order row agrees with the trades table: what it says was matched is what
\* its trades add up to, the rest is still to be filled, it is filled exactly
\* when nothing is left, and a resting order always has something to sell or
\* buy (the two updates at the end of a match against the trade inserts).
OrdersAgreeWithTrades == \A o \in OrderIds : OrderAgrees(db, o)

\* Whichever outcome wins, the market account can pay one unit for every share
\* of it that was ever handed out; with two outcomes nothing is left over.
SharesBacked == \A x \in Outcomes : Backed(db, x)

\* Double entry: over all accounts, what was debited equals what was credited.
LedgerBalanced == Debits(db.accounts) = Credits(db.accounts)

\* A user's account was charged what the user's sides of the trades cost, and
\* nothing else: no charge lands on the counterparty or is lost.
AccountsAgreeWithTrades == \A u \in Users : db.accounts[u].credit = PaidBy(db, u)

\* A user holds one share of x for every share traded by the user's orders that
\* win with x.  (Only true of two outcomes, see PositionOutcome.)
PositionsAgreeWithTrades ==
    \A u \in Users, x \in Outcomes : db.positions[u][x] = WonBy(db, u, x)

\* No order pays more than the max_total_cost that was checked when it was
\* placed, even counting what its remainder may still cost: a match happens at
\* the maker's price, which is the taker's limit or better.
PaysAtMostReserved == \A o \in OrderIds : WithinReserved(db, o)

\* The committed book never shows two orders of different owners that should
\* have been matched with each other.
BookUncrossed ==
    \A o, m \in OrderIds :
        Resting(db, o) /\ Resting(db, m) /\ Crosses(o, m) => SameOwner(o, m)

-----------------------------------------------------------------------------
(* Action properties *)

NewTrades == Len(db.trades) + 1 .. Len(db'.trades)

\* A taker never trades with a maker while an order it should have traded with
\* first (better price, or same price and older) is left unfilled: whatever was
\* cancelled, rejected or placed while the engine was matching.
PriceTimePriority ==
    [][\A i \in NewTrades : \A n \in OrderIds :
         LET k == db'.trades[i].taker
             m == db'.trades[i].maker
         IN  /\ n # m
             /\ Resting(db', n) /\ Crosses(k, n) /\ ~SameOwner(k, n)
             => ~Precedes(n, m)]_vars

\* Once a cancellation or a rejection is committed the order is out for good:
\* no later commit trades it or puts it back in the book, even if its command
\* was already popped from the queue.
ClosedOrdersStayOut ==
    [][\A o \in OrderIds :
         db.orders[o].status \in ClosedStatuses =>
            /\ db'.orders[o].status \in ClosedStatuses
            /\ \A i \in NewTrades : o \notin {db'.trades[i].taker, db'.trades[i].maker}]_vars

\* "Only active orders can be cancelled" (cancel_market_order): an order that
\* has traded completely is not turned into a cancelled or a rejected one.
FilledStaysFilled ==
    [][\A o \in OrderIds :
         db.orders[o].status = "filled" => db'.orders[o].status = "filled"]_vars

\* "Orders are only accepted while the market is gathering liquidity or open
\* for trading": no order enters the book of a market in another status.
AcceptedOnlyWhileOpen ==
    [][\A o \in OrderIds :
         db.orders[o].status = "pending_acceptance"
         /\ db'.orders[o].status \in {"open", "partially_filled", "filled"} => AcceptsOrders]_vars

\* "Insufficient available balance for this order": the collateral of a user's
\* active orders never exceeds the user's balance.
Solvent == \A u \in Users : Reserved(db, u) <= Balance(db, u)

-----------------------------------------------------------------------------
(* Refinement *)

Book == [o \in OrderIds |-> [status |-> db.orders[o].status, remaining |-> db.orders[o].remaining]]
Cash == [u \in Users |-> Balance(db, u)]

AtOnce == INSTANCE AtomicExchange WITH orders <- Book, cash <- Cash, shares <- db.positions

\* Although the engine walks over the candidates while users cancel, place and
\* are funded, and may stop half-way, every order meets its counterparties once, as
\* if at one moment, and pays each of them at its price (the loop and the commit of
\* process_order_command against everything that runs beside it).
MatchesAtOnce == AtOnce!Spec

-----------------------------------------------------------------------------
(* Liveness *)

\* The engine decides every command that reaches its queue: the order does not
\* stay pending_acceptance, with its collateral reserved, for ever.
QueuedOrdersAreDecided ==
    \A o \in OrderIds :
        (\E i \in DOMAIN queue : queue[i] = o) ~> db.orders[o].status # "pending_acceptance"

\* An order that was inserted is some day accepted, cancelled or rejected.
PendingOrdersAreDecided ==
    \A o \in OrderIds :
        db.orders[o].status = "pending_acceptance" ~> db.orders[o].status # "pending_acceptance"
=============================================================================
