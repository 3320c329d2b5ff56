--------------------------- MODULE Exchange_proofs ---------------------------
(* Theorems about Exchange: type correctness, the safety properties, and    *)
(* that it implements AtomicExchange.                                       *)
EXTENDS ExchangeTables

USE SizesAssumption, FiniteAssumption, AccountsAssumption

-----------------------------------------------------------------------------
(* Type correctness *)

\* What the type of the engine says about its locals in each phase.
LEMMA EngineType ==
    ASSUME eng \in EngineStates
    PROVE  /\ eng.phase \in {"idle", "popped", "matching"}
           /\ eng.phase # "idle" => eng.taker \in OrderIds
           /\ Matching => /\ eng.locked \subseteq OrderIds /\ eng.left \subseteq OrderIds
                          /\ eng.matched \in Nat /\ eng.remaining \in Nat
BY DEF EngineStates, Idle, Matching

\* An engine that goes on matching keeps its type.
LEMMA MatchingType ==
    ASSUME eng \in EngineStates, Matching, NEW l \in SUBSET OrderIds, NEW m \in Nat, NEW r \in Nat
    PROVE  [eng EXCEPT !.left = l, !.matched = m, !.remaining = r] \in EngineStates
BY DEF EngineStates, Idle, Matching

\* How much of a maker a match takes.
LEMMA LesserBounds ==
    ASSUME NEW a \in Nat, NEW b \in Nat
    PROVE  Lesser(a, b) \in Nat /\ Lesser(a, b) <= a /\ Lesser(a, b) <= b
BY DEF Lesser

LEMMA InitType == Init => TypeOK
<1> SUFFICES ASSUME Init PROVE TypeOK
  OBVIOUS
<1> USE DEF Init
<1>1. Cardinality(Users) * InitialFunds \in Nat
  <2>1. Cardinality(Users) \in Nat
    BY FS_CardinalityType
  <2> QED BY <2>1, Product
<1>2. db.accounts \in [Accounts -> Account]
  BY <1>1 DEF Account
<1>3. db.orders \in [OrderIds -> OrderRow]
  BY DEF OrderRow, OrderStatuses
<1>4. db.positions \in [Users -> [Outcomes -> Nat]]
  OBVIOUS
<1>5. db.trades \in Seq(Trade)
  OBVIOUS
<1>6. db \in Tables
  BY <1>2, <1>3, <1>4, <1>5 DEF Tables
<1>7. eng \in EngineStates
  BY DEF EngineStates
<1> QED BY <1>6, <1>7 DEF TypeOK, IntakeSteps, MarketStatuses

\* Every step keeps the types.
LEMMA StepType == TypeOK /\ [Next]_vars => TypeOK'
<1> SUFFICES ASSUME TypeOK, [Next]_vars PROVE TypeOK'
  OBVIOUS
<1> USE DEF TypeOK
<1>1. ASSUME NEW o \in OrderIds, CreateReadMarket(o) PROVE TypeOK'
  <2>1. Cardinality({p \in OrderIds : intake[p] # "idle"}) \in Nat
    <3>1. IsFiniteSet({p \in OrderIds : intake[p] # "idle"})
      BY FS_Subset
    <3> QED BY <3>1, FS_CardinalityType
  <2> QED BY <1>1, <2>1 DEF CreateReadMarket, IntakeSteps
<1>2. ASSUME NEW o \in OrderIds, CreateReadBalance(o) PROVE TypeOK'
  <2>1. Balance(db, request[o].user) \in Int
    <3>1. request[o].user \in Accounts /\ db \in Tables
      BY RequestType DEF Accounts
    <3> QED BY ONLY <3>1 DEF Balance, Tables, Account
  <2> QED BY <1>2, <2>1 DEF CreateReadBalance, IntakeSteps
<1>3. ASSUME NEW o \in OrderIds, CreateReadReserved(o) PROVE TypeOK'
  BY <1>3 DEF CreateReadReserved, IntakeSteps
<1>4. ASSUME NEW o \in OrderIds, CreateInsert(o) PROVE TypeOK'
  BY <1>4, InsertOrderType DEF CreateInsert, IntakeSteps
<1>5. ASSUME NEW o \in OrderIds, Enqueue(o) PROVE TypeOK'
  BY <1>5, AppendProperties DEF Enqueue, IntakeSteps
<1>6. ASSUME NEW o \in OrderIds, EnqueueFails(o) PROVE TypeOK'
  <2>1. Append(queue, o) \in Seq(OrderIds)
    BY AppendProperties
  <2>2. queue' = queue \/ queue' = Append(queue, o)
    BY <1>6 DEF EnqueueFails
  <2> QED BY <1>6, <2>1, <2>2 DEF EnqueueFails, IntakeSteps
<1>7. ASSUME NEW o \in OrderIds, MarkOrderRejected(o) PROVE TypeOK'
  BY <1>7, SetStatusType DEF MarkOrderRejected, IntakeSteps, OrderStatuses
<1>8. ASSUME NEW o \in OrderIds, ApiCrash(o) PROVE TypeOK'
  BY <1>8 DEF ApiCrash, IntakeSteps
<1>9. ASSUME NEW o \in OrderIds, CancelRead(o) PROVE TypeOK'
  BY <1>9 DEF CancelRead
<1>10. ASSUME NEW o \in OrderIds, CancelWrite(o) PROVE TypeOK'
  BY <1>10, SetStatusType DEF CancelWrite, OrderStatuses
<1>11. ASSUME NEW u \in Users, FundBalance(u) PROVE TypeOK'
  BY <1>11, FundType DEF FundBalance
<1>12. ASSUME UpdateMarketStatus PROVE TypeOK'
  <2>1. AllowedNextStatuses[market] \subseteq MarketStatuses
    <3>1. CASE market = "pending_liquidity"
      BY <3>1 DEF AllowedNextStatuses, MarketStatuses
    <3>2. CASE market = "open"
      BY <3>2 DEF AllowedNextStatuses, MarketStatuses
    <3>3. CASE market = "trading_paused"
      BY <3>3 DEF AllowedNextStatuses, MarketStatuses
    <3>4. CASE market = "cancelled"
      BY <3>4 DEF AllowedNextStatuses, MarketStatuses
    <3> QED BY <3>1, <3>2, <3>3, <3>4 DEF MarketStatuses
  <2> QED BY <1>12, <2>1 DEF UpdateMarketStatus
<1>13. ASSUME EnginePop PROVE TypeOK'
  <2>1. Head(queue) \in OrderIds /\ Tail(queue) \in Seq(OrderIds)
    BY <1>13, HeadTailProperties DEF EnginePop
  <2> QED BY <1>13, <2>1 DEF EnginePop, EngineStates
<1>14. ASSUME EngineSkip PROVE TypeOK'
  BY <1>14 DEF EngineSkip, EngineStates
<1>15. ASSUME EngineBegin PROVE TypeOK'
  <2>1. /\ eng.taker \in OrderIds
        /\ db.orders[eng.taker].matched \in Nat /\ db.orders[eng.taker].remaining \in Nat
        /\ Candidates(eng.taker) \subseteq OrderIds
    BY <1>15, EngineType DEF EngineBegin, Tables, OrderRow, Candidates
  <2> QED BY <1>15, <2>1 DEF EngineBegin, EngineStates
<1>16. ASSUME EngineSkipCandidate PROVE TypeOK'
  <2>1. PICK m \in OrderIds : eng' = [eng EXCEPT !.left = @ \ {m}]
    BY <1>16 DEF EngineSkipCandidate
  <2>2. eng' \in EngineStates
    BY <1>16, <2>1 DEF EngineSkipCandidate, EngineStates, Idle, Matching
  <2> QED BY <1>16, <2>2 DEF EngineSkipCandidate
<1>17. ASSUME EngineFill PROVE TypeOK'
  <2> DEFINE q(m) == Lesser(eng.remaining, tx.orders[m].remaining)
  <2>1. PICK m \in OrderIds :
          /\ tx' = Fill(tx, eng.taker, m, q(m))
          /\ eng' = [eng EXCEPT !.left = @ \ {m}, !.matched = @ + q(m), !.remaining = @ - q(m)]
    BY <1>17 DEF EngineFill
  <2>2. /\ eng.taker \in OrderIds /\ eng.left \subseteq OrderIds
        /\ eng.matched \in Nat /\ eng.remaining \in Nat
    BY <1>17, EngineType DEF EngineFill, Matching
  <2>3. tx.orders[m].remaining \in Nat
    BY DEF Tables, OrderRow
  <2>4. q(m) \in Nat /\ q(m) <= eng.remaining /\ q(m) <= tx.orders[m].remaining
    BY <2>2, <2>3, LesserBounds
  <2> HIDE DEF q
  <2>5. tx' \in Tables
    BY <2>1, <2>2, <2>4, FillType
  <2>6. eng.left \ {m} \in SUBSET OrderIds /\ eng.matched + q(m) \in Nat
        /\ eng.remaining - q(m) \in Nat
    BY <2>2, <2>4
  <2>7. eng' \in EngineStates
    BY <1>17, <2>1, <2>6, MatchingType DEF EngineFill
  <2> QED BY <1>17, <2>5, <2>7 DEF EngineFill
<1>18. ASSUME EngineCommit PROVE TypeOK'
  <2>1. eng.taker \in OrderIds /\ eng.matched \in Nat /\ eng.remaining \in Nat
    BY <1>18, EngineType DEF EngineCommit, Matching
  <2> QED BY <1>18, <2>1, UpdateTakerType DEF EngineCommit, EngineStates
<1>19. ASSUME EngineFail PROVE TypeOK'
  BY <1>19 DEF EngineFail, EngineStates
<1>20. CASE UNCHANGED vars
  BY <1>20 DEF vars
<1> QED
  BY <1>1, <1>2, <1>3, <1>4, <1>5, <1>6, <1>7, <1>8, <1>9, <1>10, <1>11, <1>12, <1>13,
     <1>14, <1>15, <1>16, <1>17, <1>18, <1>19, <1>20
  DEF Next, CreateContinues, EngineStep

\* Every variable keeps its type, for any users, orders, prices and faults: no
\* quantity, price or ledger total becomes negative (Lesser, PostTrade, Fill).
THEOREM TypeCorrect == Spec => []TypeOK
BY InitType, StepType, PTL DEF Spec

-----------------------------------------------------------------------------
(* The inductive invariant: initial states *)

LEMMA InitInvariant == Init => IInv
<1> SUFFICES ASSUME Init PROVE IInv
  OBVIOUS
<1>1. TypeOK
  BY InitType
<1>2. ~Matching /\ Pending = tx /\ tx = db
  BY DEF Init, Matching, Idle, Pending
<1>3. DOMAIN db.trades = {}
  BY DEF Init
<1>4. \A o \in OrderIds : ~Inserted(db, o) /\ TradedBy(db, o) = 0 /\ Paid(db, o) = 0
  BY <1>1, <1>3, NoTrades DEF Init, Inserted, TypeOK
<1>5. Consistent(db)
  <2>1. \A o \in OrderIds : OrderAgrees(db, o) /\ WithinReserved(db, o)
    BY <1>4 DEF OrderAgrees, WithinReserved, Inserted
  <2>2. ASSUME NEW x \in Outcomes PROVE Backed(db, x)
    <3> DEFINE f == [u \in Users |-> db.positions[u][x]]
    <3>1. \A u \in DOMAIN f : f[u] = 0
      BY DEF Init
    <3> HIDE DEF f
    <3>2. Tally(f) = 0
      BY <3>1, TallyZero
    <3>3. Held(db.positions, x) = 0
      BY <3>2 DEF f, Held
    <3>4. db.accounts[MarketAccount].debit = 0 /\ db.accounts[MarketAccount].credit = 0
      BY DEF Init, Accounts
    <3> QED BY <3>3, <3>4 DEF Backed, Balance
  <2>3. Debits(db.accounts) = Credits(db.accounts)
    <3> DEFINE n == Cardinality(Users) * InitialFunds
               d == [a \in Accounts |-> db.accounts[a].debit]
               c == [a \in Accounts |-> db.accounts[a].credit]
               none == [a \in Accounts |-> 0]
    <3>1. d = [a \in Accounts |-> IF a \in Users THEN InitialFunds ELSE 0]
      BY DEF Init
    <3>2. c = [a \in Accounts |-> IF a = Treasury THEN n ELSE 0]
      BY DEF Init
    <3>3. Cardinality(Users) \in Nat /\ n \in Nat
      BY FS_CardinalityType, Product
    <3>4. Tally(d) = n
      BY <3>1, AccountsFinite, TallyConstant DEF Accounts
    <3>5. Tally(c) = n
      <4>1. none \in [Accounts -> Nat] /\ c \in [Accounts -> Nat]
        BY <3>2, <3>3
      <4>2. Treasury \in Accounts /\ c[Treasury] = n /\ none[Treasury] = 0
            /\ \A a \in Accounts \ {Treasury} : c[a] = none[a]
        BY <3>2 DEF Accounts
      <4>3. \A a \in DOMAIN none : none[a] = 0
        OBVIOUS
      <4> HIDE DEF none, c, n
      <4>4. Tally(none) = 0
        BY <4>3, TallyZero
      <4>5. Tally(c) = Tally(none) + c[Treasury] - none[Treasury]
        BY <4>1, <4>2, AccountsFinite, TallyChange
      <4> QED BY <3>3, <4>2, <4>4, <4>5
    <3> QED BY <3>4, <3>5 DEF Debits, Credits
  <2>4. \A u \in Users : db.accounts[u].credit = PaidBy(db, u)
    <3> SUFFICES ASSUME NEW u \in Users PROVE db.accounts[u].credit = PaidBy(db, u)
      OBVIOUS
    <3> DEFINE f == [o \in OrderIds |-> IF request[o].user = u THEN Paid(db, o) ELSE 0]
    <3>1. \A o \in DOMAIN f : f[o] = 0
      BY <1>4
    <3> HIDE DEF f
    <3>2. Tally(f) = 0
      BY <3>1, TallyZero
    <3>3. db.accounts[u].credit = 0
      BY DEF Init, Accounts
    <3> QED BY <3>2, <3>3 DEF f, PaidBy
  <2>5. \A u \in Users, x \in Outcomes : db.positions[u][x] = WonBy(db, u, x)
    <3> SUFFICES ASSUME NEW u \in Users, NEW x \in Outcomes
                 PROVE  db.positions[u][x] = WonBy(db, u, x)
      OBVIOUS
    <3> DEFINE f == [o \in OrderIds |->
                       IF request[o].user = u /\ Wins(o, x) THEN TradedBy(db, o) ELSE 0]
    <3>1. \A o \in DOMAIN f : f[o] = 0
      BY <1>4
    <3> HIDE DEF f
    <3>2. Tally(f) = 0
      BY <3>1, TallyZero
    <3>3. db.positions[u][x] = 0
      BY DEF Init
    <3> QED BY <3>2, <3>3 DEF f, WonBy
  <2> QED BY <1>3, <2>1, <2>2, <2>3, <2>4, <2>5 DEF Consistent
<1>6. IntakeInv
  BY <1>4 DEF Init, IntakeInv, Started
<1>7. NamesInv
  BY DEF Init, NamesInv, Idle
<1>8. BookUncrossed
  BY <1>4 DEF BookUncrossed, Resting, RestingStatuses, Inserted, Init
<1> QED BY <1>1, <1>2, <1>5, <1>6, <1>7, <1>8 DEF IInv, EngineInv

-----------------------------------------------------------------------------
(* What the invariant says of the open transaction *)

\* Requests never change, so consistency does not depend on when it is asked.
LEMMA SameRequests ==
    ASSUME request' = request
    PROVE  /\ Consistent(db') => Consistent(db)'
           /\ Consistent(Pending') => Consistent(Pending)'
<1>1. ASSUME Consistent(db') PROVE Consistent(db)'
  <2>1. (\A i \in DOMAIN db.trades :
           Inserted(db, db.trades[i].taker) /\ Inserted(db, db.trades[i].maker))'
    BY <1>1 DEF Consistent, Inserted
  <2>2. (\A o \in OrderIds : OrderAgrees(db, o) /\ WithinReserved(db, o))'
    BY <1>1 DEF Consistent, OrderAgrees, WithinReserved, Paid, TradedBy, LegPrice, UnitCost
  <2>3. (\A x \in Outcomes : Backed(db, x))'
        /\ (Debits(db.accounts) = Credits(db.accounts))'
    BY <1>1 DEF Consistent, Backed, Balance, Held, Debits, Credits
  <2>4. (\A u \in Users : db.accounts[u].credit = PaidBy(db, u))'
    BY <1>1 DEF Consistent, PaidBy, Paid, LegPrice
  <2>5. (NumOutcomes = 2 =>
           \A u \in Users, x \in Outcomes : db.positions[u][x] = WonBy(db, u, x))'
    BY <1>1 DEF Consistent, WonBy, TradedBy, Wins
  <2> QED BY <2>1, <2>2, <2>3, <2>4, <2>5 DEF Consistent
<1>2. ASSUME Consistent(Pending') PROVE Consistent(Pending)'
  <2>1. (\A i \in DOMAIN Pending.trades :
           Inserted(Pending, Pending.trades[i].taker) /\ Inserted(Pending, Pending.trades[i].maker))'
    BY <1>2 DEF Consistent, Inserted
  <2>2. (\A o \in OrderIds : OrderAgrees(Pending, o) /\ WithinReserved(Pending, o))'
    BY <1>2 DEF Consistent, OrderAgrees, WithinReserved, Paid, TradedBy, LegPrice, UnitCost
  <2>3. (\A x \in Outcomes : Backed(Pending, x))'
        /\ (Debits(Pending.accounts) = Credits(Pending.accounts))'
    BY <1>2 DEF Consistent, Backed, Balance, Held, Debits, Credits
  <2>4. (\A u \in Users : Pending.accounts[u].credit = PaidBy(Pending, u))'
    BY <1>2 DEF Consistent, PaidBy, Paid, LegPrice
  <2>5. (NumOutcomes = 2 =>
           \A u \in Users, x \in Outcomes : Pending.positions[u][x] = WonBy(Pending, u, x))'
    BY <1>2 DEF Consistent, WonBy, TradedBy, Wins
  <2> QED BY <2>1, <2>2, <2>3, <2>4, <2>5 DEF Consistent
<1> QED BY <1>1, <1>2

\* While the engine is matching: the names it holds, and the rows of Pending.
LEMMA MatchingFacts ==
    ASSUME IInv, Matching
    PROVE  /\ eng.taker \in OrderIds /\ eng.taker \notin eng.locked
           /\ eng.matched \in Nat /\ eng.remaining \in Nat
           /\ eng.locked \subseteq OrderIds /\ eng.left \subseteq eng.locked
           /\ \A m \in eng.locked : Resting(db, m) /\ Crosses(eng.taker, m)
           /\ Pending = UpdateTaker(tx, eng.taker, eng.matched, eng.remaining)
           /\ Pending \in Tables
           /\ Pending.orders[eng.taker].status = TakerStatus(eng.matched, eng.remaining)
           /\ Pending.orders[eng.taker].matched = eng.matched
           /\ Pending.orders[eng.taker].remaining = eng.remaining
           /\ \A p \in OrderIds \ {eng.taker} : Pending.orders[p] = tx.orders[p]
           /\ Pending.trades = tx.trades
<1>1. eng.taker \in OrderIds /\ eng.matched \in Nat /\ eng.remaining \in Nat
  BY EngineType DEF IInv, TypeOK, Matching
<1>2. tx \in Tables
  BY DEF IInv, TypeOK
<1>3. Pending = UpdateTaker(tx, eng.taker, eng.matched, eng.remaining)
  BY DEF Pending
<1>4. eng.locked = Candidates(eng.taker) /\ eng.left \subseteq eng.locked
  BY DEF IInv, EngineInv, MatchingInv
<1>5. ~Crosses(eng.taker, eng.taker)
  BY DEF Crosses
<1> DEFINE k == eng.taker
           a == eng.matched
           b == eng.remaining
<1> HIDE DEF k, a, b
<1>6. k \in OrderIds /\ a \in Nat /\ b \in Nat /\ Pending = UpdateTaker(tx, k, a, b)
  BY <1>1, <1>3 DEF k, a, b
<1>7. /\ Pending \in Tables
      /\ Pending.orders[k].status = TakerStatus(a, b)
      /\ Pending.orders[k].matched = a /\ Pending.orders[k].remaining = b
      /\ \A p \in OrderIds \ {k} : Pending.orders[p] = tx.orders[p]
      /\ Pending.trades = tx.trades
  BY ONLY <1>2, <1>6, UpdateTakerRows
<1> QED BY <1>1, <1>3, <1>4, <1>5, <1>7 DEF Candidates, k, a, b

\* When it is not, there is one version of the tables.
LEMMA NotMatchingFacts ==
    ASSUME IInv, ~Matching
    PROVE  tx = db /\ Pending = db
BY DEF IInv, EngineInv, Pending

\* An order that the transaction holds neither as taker nor as candidate is the
\* same in every version.
LEMMA UnlockedRows ==
    ASSUME IInv, NEW o \in OrderIds, ~Locked(o)
    PROVE  tx.orders[o] = db.orders[o] /\ Pending.orders[o] = db.orders[o]
<1>1. CASE ~Matching
  BY <1>1, NotMatchingFacts
<1>2. CASE Matching
  <2>1. o # eng.taker /\ o \notin eng.locked
    BY <1>2 DEF Locked
  <2>2. tx.orders[o] = db.orders[o]
    BY <1>2, <2>1 DEF IInv, EngineInv, MatchingInv
  <2> QED BY <1>2, <2>1, <2>2, MatchingFacts
<1> QED BY <1>1, <1>2

-----------------------------------------------------------------------------
(* The statements of the API processes, beside an open transaction or not    *)

\* What a step has to show of the tables, all but the types.
TablesInv == Consistent(db) /\ Consistent(Pending) /\ EngineInv /\ BookUncrossed

\* A cancellation or a rejection waits for the rows the engine has locked.
LEMMA CloseOrder ==
    ASSUME IInv, NEW o \in OrderIds, NEW s \in ClosedStatuses, ~Locked(o), Inserted(db, o),
           db' = SetStatus(db, o, s), tx' = SetStatus(tx, o, s),
           eng' = eng, request' = request, born' = born
    PROVE  TablesInv' /\ \A p \in OrderIds : Inserted(db, p) <=> Inserted(db, p)'
<1>1. /\ request \in [OrderIds -> Requests] /\ db \in Tables /\ tx \in Tables
      /\ s \in OrderStatuses /\ s \notin RestingStatuses /\ s # "absent"
  BY DEF IInv, TypeOK, ClosedStatuses, OrderStatuses, RestingStatuses
<1>2. /\ db'.orders[o].status = s /\ \A p \in OrderIds \ {o} : db'.orders[p] = db.orders[p]
      /\ db'.trades = db.trades
  BY <1>1, SetStatusRows
<1>3. /\ tx'.orders[o].status = s /\ \A p \in OrderIds \ {o} : tx'.orders[p] = tx.orders[p]
      /\ tx'.trades = tx.trades
  BY <1>1, SetStatusRows
<1>4. Consistent(db)'
  <2>1. Consistent(db')
    BY <1>1, SetStatusConsistent DEF IInv
  <2> QED BY <2>1, SameRequests
<1>5. Consistent(Pending)'
  <2>1. CASE ~Matching
    <3>1. Pending' = db'
      BY <2>1, NotMatchingFacts DEF Pending, Matching
    <3> QED BY <1>4, <3>1, SameRequests DEF Pending, Matching
  <2>2. CASE Matching
    <3>1. /\ eng.taker \in OrderIds /\ eng.matched \in Nat /\ eng.remaining \in Nat
          /\ o # eng.taker /\ Pending \in Tables
          /\ Pending = UpdateTaker(tx, eng.taker, eng.matched, eng.remaining)
      BY <2>2, MatchingFacts DEF Locked
    <3>2. Pending' = UpdateTaker(tx', eng.taker, eng.matched, eng.remaining)
      BY <2>2 DEF Pending, Matching, UpdateTaker, WithRow
    <3>3. Pending' = SetStatus(Pending, o, s)
      BY <1>1, <3>1, <3>2, RejectionCommutes
    <3>4. Inserted(Pending, o)
      BY UnlockedRows DEF Inserted
    <3>5. Consistent(Pending')
      BY <1>1, <3>1, <3>3, <3>4, SetStatusConsistent DEF IInv
    <3> QED BY <3>5, SameRequests
  <2> QED BY <2>1, <2>2
<1>6. EngineInv'
  <2>1. CASE ~Matching
    BY <2>1, NotMatchingFacts DEF EngineInv, Matching
  <2>2. CASE Matching
    <3> DEFINE k == eng.taker
    <3>1. MatchingInv /\ k \in OrderIds /\ o # k /\ o \notin eng.locked
          /\ eng.locked \subseteq OrderIds
      BY <2>2, MatchingFacts DEF IInv, EngineInv, Locked
    <3>2. Active(db, k)' /\ eng'.left \subseteq eng'.locked
      BY <1>2, <3>1 DEF MatchingInv, Active
    <3>3. Candidates(k)' = Candidates(k)
      <4>1. \A m \in OrderIds : Crosses(k, m)' <=> Crosses(k, m)
        BY DEF Crosses
      <4>2. o \notin Candidates(k)
        BY <3>1 DEF MatchingInv
      <4>3. \A m \in OrderIds : Crosses(k, m) => (Resting(db, m)' <=> Resting(db, m))
        BY <1>1, <1>2, <4>2 DEF Resting, Candidates
      <4> QED BY <4>1, <4>3 DEF Candidates
    <3>4. eng'.locked = Candidates(eng.taker)'
      BY <3>1, <3>3 DEF MatchingInv
    <3>5. \A p \in OrderIds : p \notin eng'.locked \ eng'.left => tx'.orders[p] = db'.orders[p]
      <4>1. tx'.orders[o] = db'.orders[o]
        BY <1>1, UnlockedRows DEF SetStatus, WithRow, Tables
      <4> QED BY <1>2, <1>3, <3>1, <4>1 DEF MatchingInv
    <3>6. \A m \in eng'.locked : Inserted(tx, m)'
      BY <1>3, <3>1 DEF MatchingInv, Inserted
    <3>7. \A m \in eng'.locked \ eng'.left :
            SameOwner(k, m)' \/ eng'.remaining = 0 \/ ~Resting(tx, m)'
      BY <1>3, <3>1 DEF MatchingInv, SameOwner, Resting
    <3>8. NewInTx' = NewInTx /\ Len(db'.trades) <= Len(tx'.trades)
      BY <1>2, <1>3, <3>1 DEF NewInTx, MatchingInv
    <3>9. \A i \in NewInTx' :
            /\ tx'.trades[i].taker = k /\ tx'.trades[i].maker \in eng'.locked
            /\ \A n \in eng'.locked :
                 /\ n # tx'.trades[i].maker
                 /\ ~SameOwner(k, n)'
                 /\ Resting(tx, n)'
                 => ~Precedes(n, tx.trades[i].maker)'
      BY <1>3, <3>1, <3>8 DEF MatchingInv, SameOwner, Resting, Precedes, BetterPrice
    <3>10. MatchingInv'
      BY <3>2, <3>4, <3>5, <3>6, <3>7, <3>8, <3>9 DEF MatchingInv
    <3> QED BY <2>2, <3>10 DEF EngineInv, Matching
  <2> QED BY <2>1, <2>2
<1>7. BookUncrossed'
  BY <1>1, <1>2 DEF IInv, BookUncrossed, Resting, Crosses, SameOwner
<1>8. \A p \in OrderIds : Inserted(db, p) <=> Inserted(db, p)'
  BY <1>1, <1>2 DEF Inserted
<1> QED BY <1>4, <1>5, <1>6, <1>7, <1>8 DEF TablesInv

\* The insert of an order waits for the end of the transaction.
LEMMA InsertNewOrder ==
    ASSUME IInv, NEW o \in OrderIds, ~Matching, ~Inserted(db, o), ValidRequest(o),
           db' = InsertOrder(db, o), tx' = InsertOrder(tx, o),
           eng' = eng, request' = request
    PROVE  /\ TablesInv'
           /\ Inserted(db, o)'
           /\ \A p \in OrderIds \ {o} : Inserted(db, p)' <=> Inserted(db, p)
<1>1. request \in [OrderIds -> Requests] /\ db \in Tables
  BY DEF IInv, TypeOK
<1>2. /\ db'.orders[o].status = "pending_acceptance"
      /\ \A p \in OrderIds \ {o} : db'.orders[p] = db.orders[p]
  BY <1>1, InsertOrderRows
<1>3. Consistent(db)'
  <2>1. Consistent(db')
    BY <1>1, InsertOrderConsistent DEF IInv
  <2> QED BY <2>1, SameRequests
<1>4. tx' = db' /\ ~Matching' /\ Pending' = db'
  BY NotMatchingFacts DEF Matching, Pending
<1>5. Consistent(Pending)' /\ EngineInv'
  BY <1>3, <1>4, SameRequests DEF EngineInv, Pending
<1>6. BookUncrossed'
  BY <1>2 DEF IInv, BookUncrossed, Resting, RestingStatuses, Crosses, SameOwner
<1> QED BY <1>2, <1>3, <1>5, <1>6 DEF TablesInv, Inserted

\* A step that leaves the order rows, the trades and the engine as they are,
\* and created_at of the orders that exist.
LEMMA SameRows ==
    ASSUME IInv, eng' = eng, request' = request,
           db'.orders = db.orders, db'.trades = db.trades,
           tx'.orders = tx.orders, tx'.trades = tx.trades,
           \A p \in OrderIds : Inserted(db, p) => born'[p] = born[p],
           ~Matching => tx' = db'
    PROVE  EngineInv' /\ BookUncrossed'
<1>1. BookUncrossed'
  BY DEF IInv, BookUncrossed, Resting, Crosses, SameOwner
<1>2. CASE ~Matching
  BY <1>1, <1>2 DEF EngineInv, Matching
<1>3. CASE Matching
  <2> DEFINE k == eng.taker
  <2>1. MatchingInv /\ k \in OrderIds /\ eng.locked \subseteq OrderIds
    BY <1>3, MatchingFacts DEF IInv, EngineInv
  <2>2. \A m \in eng.locked : Inserted(db, m)
    BY <1>3, MatchingFacts DEF Inserted, Resting, RestingStatuses
  <2>3. Candidates(k)' = Candidates(k)
    BY DEF Candidates, Resting, Crosses
  <2>4. NewInTx' = NewInTx
    BY DEF NewInTx
  <2>5. \A i \in NewInTx' :
          /\ tx'.trades[i].taker = k /\ tx'.trades[i].maker \in eng'.locked
          /\ \A n \in eng'.locked :
               /\ n # tx'.trades[i].maker
               /\ ~SameOwner(k, n)'
               /\ Resting(tx, n)'
               => ~Precedes(n, tx.trades[i].maker)'
    BY <2>1, <2>2, <2>4 DEF MatchingInv, SameOwner, Resting, Precedes, BetterPrice
  <2>6. MatchingInv'
    BY <2>1, <2>3, <2>5 DEF MatchingInv, Active, Inserted, SameOwner, Resting
  <2> QED BY <1>1, <1>3, <2>6 DEF EngineInv, Matching
<1> QED BY <1>2, <1>3

LEMMA SameTables ==
    ASSUME IInv, UNCHANGED <<request, db, tx, eng>>,
           \A p \in OrderIds : Inserted(db, p) => born'[p] = born[p]
    PROVE  TablesInv'
<1>1. EngineInv' /\ BookUncrossed'
  BY SameRows, NotMatchingFacts
<1>2. Consistent(db)'
  BY SameRequests DEF IInv
<1>3. Consistent(Pending)'
  <2>1. Pending' = Pending
    BY DEF Pending, Matching, UpdateTaker, WithRow
  <2>2. Consistent(Pending')
    BY <2>1 DEF IInv
  <2> QED BY <2>2, SameRequests
<1> QED BY <1>1, <1>2, <1>3 DEF TablesInv

\* Funding touches the ledger alone.
LEMMA FundAccount ==
    ASSUME IInv, NEW u \in Users, NEW amount \in Nat,
           db' = Fund(db, u, amount), tx' = Fund(tx, u, amount), UNCHANGED <<request, born, eng>>
    PROVE  TablesInv' /\ \A p \in OrderIds : Inserted(db, p)' <=> Inserted(db, p)
<1>1. db \in Tables /\ tx \in Tables
  BY DEF IInv, TypeOK
<1>2. /\ db'.orders = db.orders /\ db'.trades = db.trades
      /\ tx'.orders = tx.orders /\ tx'.trades = tx.trades
  BY <1>1, FundRows
<1>3. EngineInv' /\ BookUncrossed'
  BY <1>2, SameRows, NotMatchingFacts
<1>4. Consistent(db)'
  <2>1. Consistent(db')
    BY <1>1, FundConsistent DEF IInv
  <2> QED BY <2>1, SameRequests
<1>5. Consistent(Pending)'
  <2>1. CASE ~Matching
    <3>1. Pending' = db'
      BY <2>1, NotMatchingFacts DEF Pending, Matching
    <3> QED BY <1>4, <3>1, SameRequests DEF Pending, Matching
  <2>2. CASE Matching
    <3>1. /\ eng.taker \in OrderIds /\ eng.matched \in Nat /\ eng.remaining \in Nat
          /\ Pending \in Tables
          /\ Pending = UpdateTaker(tx, eng.taker, eng.matched, eng.remaining)
      BY <2>2, MatchingFacts
    <3>2. Pending' = UpdateTaker(tx', eng.taker, eng.matched, eng.remaining)
      BY <2>2 DEF Pending, Matching, UpdateTaker, WithRow
    <3>3. Pending' = Fund(Pending, u, amount)
      BY <1>1, <3>1, <3>2, FundingCommutes
    <3>4. Consistent(Pending')
      BY <3>1, <3>3, FundConsistent DEF IInv
    <3> QED BY <3>4, SameRequests
  <2> QED BY <2>1, <2>2
<1> QED BY <1>2, <1>3, <1>4, <1>5 DEF TablesInv, Inserted

-----------------------------------------------------------------------------
(* The steps of the engine *)

LEMMA BeginTables ==
    ASSUME IInv, TypeOK', EngineBegin
    PROVE  TablesInv'
<1> USE DEF EngineBegin
<1> DEFINE k == eng.taker
<1>1. /\ eng.phase = "popped" /\ ~Matching /\ tx = db /\ k \in OrderIds /\ Inserted(db, k)
      /\ request \in [OrderIds -> Requests] /\ db \in Tables
  BY NotMatchingFacts, EngineType DEF Matching, IInv, TypeOK, NamesInv
<1>2. Active(db, k)
  <2>1. db.orders[k].status \in OrderStatuses
    BY <1>1 DEF Tables, OrderRow
  <2> QED BY <1>1, <2>1 DEF Active, ActiveStatuses, OrderStatuses, Final, Inserted
<1>3. /\ eng'.phase = "matching" /\ eng'.taker = k /\ tx' = db /\ db' = db
      /\ eng'.locked = Candidates(k) /\ eng'.left = Candidates(k)
      /\ eng'.matched = db.orders[k].matched /\ eng'.remaining = db.orders[k].remaining
  BY <1>1
<1> HIDE DEF k, EngineBegin
<1>4. Pending' = UpdateTaker(db, k, db.orders[k].matched, db.orders[k].remaining)
  BY <1>3 DEF Pending, Matching, UpdateTaker, WithRow
<1>5. request' = request /\ born' = born
  BY DEF EngineBegin
<1>6. Consistent(Pending)'
  <2>1. Consistent(Pending')
    BY <1>1, <1>2, <1>4, AcceptConsistent DEF IInv
  <2> QED BY <1>5, <2>1, SameRequests
<1>7. Consistent(db)'
  BY <1>3, <1>5, SameRequests DEF IInv
<1>8. BookUncrossed'
  BY <1>3, <1>5 DEF IInv, BookUncrossed, Resting, Crosses, SameOwner
<1>9. EngineInv'
  <2>1. Candidates(eng.taker)' = Candidates(k)
    BY <1>3, <1>5 DEF Candidates, Resting, Crosses
  <2>2. \A m \in Candidates(k) : Inserted(db, m)
    BY DEF Candidates, Resting, RestingStatuses, Inserted
  <2>3. NewInTx' = {} /\ Len(db'.trades) <= Len(tx'.trades)
    <3>1. db.trades \in Seq(Trade)
      BY <1>1 DEF Tables
    <3>2. Len(db.trades) \in Nat
      BY <3>1, LenProperties
    <3> QED BY <1>3, <3>2 DEF NewInTx
  <2>4. MatchingInv'
    BY <1>2, <1>3, <2>1, <2>2, <2>3 DEF MatchingInv, Active, Inserted
  <2> QED BY <1>3, <2>4 DEF EngineInv
<1> QED BY <1>6, <1>7, <1>8, <1>9 DEF TablesInv

\* A candidate with something left to sell or buy is passed over only if it is
\* the taker's own.
LEMMA SkipCandidateTables ==
    ASSUME IInv, EngineSkipCandidate
    PROVE  TablesInv'
<1>1. Matching /\ UNCHANGED <<request, born, db, tx>>
  BY DEF EngineSkipCandidate
<1>2. PICK m \in OrderIds :
        /\ IsNext(m)
        /\ SameOwner(eng.taker, m) \/ tx.orders[m].remaining = 0
        /\ eng' = [eng EXCEPT !.left = @ \ {m}]
  BY DEF EngineSkipCandidate
<1>3. /\ eng'.phase = eng.phase /\ eng'.taker = eng.taker /\ eng'.locked = eng.locked
      /\ eng'.matched = eng.matched /\ eng'.remaining = eng.remaining
      /\ eng'.left = eng.left \ {m}
  BY <1>1, <1>2 DEF Matching, IInv, TypeOK, EngineStates, Idle
<1>4. MatchingInv /\ eng.left \subseteq eng.locked /\ eng.locked \subseteq OrderIds
  BY <1>1, MatchingFacts DEF IInv, EngineInv
<1>5. SameOwner(eng.taker, m)
  <2>1. m \in eng.left /\ Resting(db, m) /\ tx.orders[m] = db.orders[m]
    BY <1>1, <1>2, <1>4, MatchingFacts DEF IsNext, MatchingInv
  <2>2. OrderAgrees(db, m)
    BY DEF IInv, Consistent
  <2>3. db.orders[m].remaining > 0
    BY <2>1, <2>2 DEF OrderAgrees, Resting, RestingStatuses, ActiveStatuses
  <2> QED BY <1>2, <2>1, <2>3
<1>6. Consistent(db)' /\ BookUncrossed'
  BY <1>1, SameRequests DEF IInv, BookUncrossed, Resting, Crosses, SameOwner
<1>7. Consistent(Pending)'
  <2>1. Pending' = Pending
    BY <1>1, <1>3 DEF Pending, Matching, UpdateTaker, WithRow
  <2> QED BY <1>1, <2>1, SameRequests DEF IInv
<1>8. MatchingInv'
  <2>1. Candidates(eng.taker)' = Candidates(eng.taker)
    BY <1>1, <1>3 DEF Candidates, Resting, Crosses
  <2>2. NewInTx' = NewInTx
    BY <1>1 DEF NewInTx
  <2>3. \A n \in eng'.locked \ eng'.left :
          SameOwner(eng.taker, n)' \/ eng'.remaining = 0 \/ ~Resting(tx, n)'
    BY <1>1, <1>3, <1>4, <1>5 DEF MatchingInv, SameOwner, Resting
  <2>4. \A i \in NewInTx' :
          /\ tx'.trades[i].taker = eng'.taker /\ tx'.trades[i].maker \in eng'.locked
          /\ \A n \in eng'.locked :
               /\ n # tx'.trades[i].maker
               /\ ~SameOwner(eng.taker, n)'
               /\ Resting(tx, n)'
               => ~Precedes(n, tx.trades[i].maker)'
    BY <1>1, <1>3, <1>4, <2>2 DEF MatchingInv, SameOwner, Resting, Precedes, BetterPrice
  <2>5. \A o \in OrderIds : o \notin eng'.locked \ eng'.left => tx'.orders[o] = db'.orders[o]
    <3>1. m \in eng.left
      BY <1>2 DEF IsNext
    <3> QED BY <1>1, <1>3, <1>4, <3>1 DEF MatchingInv
  <2>6. \A n \in eng'.locked : Inserted(tx, n)'
    BY <1>1, <1>3, <1>4 DEF MatchingInv, Inserted
  <2>7. Active(db, eng.taker)' /\ eng'.left \subseteq eng'.locked
        /\ eng'.locked = Candidates(eng.taker)' /\ Len(db'.trades) <= Len(tx'.trades)
    BY <1>1, <1>3, <1>4, <2>1 DEF MatchingInv, Active
  <2> QED BY <2>3, <2>4, <2>5, <2>6, <2>7 DEF MatchingInv
<1> QED BY <1>1, <1>3, <1>6, <1>7, <1>8 DEF TablesInv, EngineInv, Matching

\* created_at tells apart any two orders that are in the tables, so no two
\* orders of one side precede each other.
LEMMA StrictOrder ==
    ASSUME IInv, NEW m \in OrderIds, NEW n \in OrderIds, m # n,
           Inserted(db, m), Inserted(db, n), request[m].side = request[n].side,
           Precedes(m, n)
    PROVE  ~Precedes(n, m)
<1>1. m \in Started /\ n \in Started
  BY DEF IInv, IntakeInv, Started
<1>2. born[m] # born[n] /\ born[m] \in Nat /\ born[n] \in Nat
  BY <1>1 DEF IInv, IntakeInv, TypeOK
<1>3. request[m].price \in 0 .. Unit /\ request[n].price \in 0 .. Unit
  BY RequestType DEF IInv, TypeOK
<1> QED BY <1>2, <1>3 DEF Precedes, BetterPrice

LEMMA FillTables ==
    ASSUME IInv, EngineFill
    PROVE  TablesInv'
<1> DEFINE k == eng.taker
           q(m) == Lesser(eng.remaining, tx.orders[m].remaining)
<1>1. Matching /\ eng.remaining > 0 /\ UNCHANGED <<request, born, db>>
  BY DEF EngineFill
<1>2. PICK m \in OrderIds :
        /\ IsNext(m) /\ ~SameOwner(k, m) /\ q(m) > 0
        /\ tx' = Fill(tx, k, m, q(m))
        /\ eng' = [eng EXCEPT !.left = @ \ {m}, !.matched = @ + q(m), !.remaining = @ - q(m)]
  BY DEF EngineFill
<1> DEFINE n == q(m)
<1>3. /\ k \in OrderIds /\ k \notin eng.locked /\ eng.matched \in Nat /\ eng.remaining \in Nat
      /\ eng.locked \subseteq OrderIds /\ eng.left \subseteq eng.locked
      /\ MatchingInv /\ m \in eng.left /\ m # k
      /\ request \in [OrderIds -> Requests] /\ db \in Tables /\ tx \in Tables
  BY <1>1, <1>2, MatchingFacts DEF IInv, EngineInv, IsNext, TypeOK
<1>4. /\ eng'.phase = eng.phase /\ eng'.taker = k /\ eng'.locked = eng.locked
      /\ eng'.left = eng.left \ {m}
      /\ eng'.matched = eng.matched + n /\ eng'.remaining = eng.remaining - n
  BY <1>1, <1>2 DEF Matching, IInv, TypeOK, EngineStates, Idle
<1>5. n \in Nat /\ n > 0 /\ n <= eng.remaining /\ n <= tx.orders[m].remaining
      /\ (n = eng.remaining \/ n = tx.orders[m].remaining)
  <2>1. tx.orders[m].remaining \in Nat
    BY <1>3 DEF Tables, OrderRow
  <2> QED BY <1>2, <1>3, <2>1, LesserBounds DEF Lesser
<1>6. tx' = Fill(tx, k, m, n)
  BY <1>2
<1>7. Resting(db, m) /\ Crosses(k, m) /\ tx.orders[m] = db.orders[m]
  BY <1>1, <1>3, MatchingFacts DEF MatchingInv
<1> HIDE DEF q, n
<1>8. /\ \A p \in OrderIds \ {m} : tx'.orders[p] = tx.orders[p]
      /\ tx'.orders[m].status = IF tx.orders[m].remaining = n THEN "filled" ELSE "partially_filled"
      /\ tx'.trades = Append(tx.trades, NewTrade(k, m, n))
  BY ONLY <1>3, <1>5, <1>6, FillRows
<1>9. Consistent(db)' /\ BookUncrossed'
  BY <1>1, SameRequests DEF IInv, BookUncrossed, Resting, Crosses, SameOwner
<1>10. Consistent(Pending)'
  <2>1. /\ Pending \in Tables /\ Pending = UpdateTaker(tx, k, eng.matched, eng.remaining)
        /\ Pending.orders[k].status = TakerStatus(eng.matched, eng.remaining)
        /\ Pending.orders[k].remaining = eng.remaining
        /\ Pending.orders[m] = tx.orders[m]
    BY <1>1, <1>3, MatchingFacts
  <2>2. Inserted(Pending, k) /\ Inserted(Pending, m)
    BY <1>7, <2>1 DEF Inserted, TakerStatus, Resting, RestingStatuses
  <2>3. n <= Pending.orders[k].remaining /\ n <= Pending.orders[m].remaining
    BY <1>5, <2>1
  <2>4. Consistent(AfterMatch(Pending, k, m, n))
    <3>1. Consistent(Pending) /\ ~SameOwner(k, m)
      BY <1>2 DEF IInv
    <3> QED BY <1>3, <1>5, <1>7, <2>1, <2>2, <2>3, <3>1, MatchConsistent
  <2>5. AfterMatch(Pending, k, m, n)
          = UpdateTaker(Fill(tx, k, m, n), k, eng.matched + n, eng.remaining - n)
    BY <1>3, <1>5, <2>1, LastWriteCounts
  <2>6. Pending' = UpdateTaker(tx', k, eng.matched + n, eng.remaining - n)
    BY <1>1, <1>4 DEF Pending, Matching, UpdateTaker, WithRow
  <2>7. Consistent(Pending')
    BY <1>6, <2>4, <2>5, <2>6
  <2> QED BY <1>1, <2>7, SameRequests
<1>11. MatchingInv'
  <2>1. Active(db, eng.taker)' /\ eng'.left \subseteq eng'.locked
    BY <1>1, <1>3, <1>4 DEF MatchingInv, Active
  <2>2. eng'.locked = Candidates(eng.taker)'
    <3>1. Candidates(eng.taker)' = Candidates(eng.taker)
      BY <1>1, <1>4 DEF Candidates, Resting, Crosses
    <3> QED BY <1>3, <1>4, <3>1 DEF MatchingInv
  <2>3. \A o \in OrderIds : o \notin eng'.locked \ eng'.left => tx'.orders[o] = db'.orders[o]
    BY <1>1, <1>3, <1>4, <1>8 DEF MatchingInv
  <2>4. \A p \in eng'.locked : Inserted(tx, p)'
    BY <1>3, <1>4, <1>8 DEF MatchingInv, Inserted
  <2>5. Resting(tx, m)' => eng'.remaining = 0
    BY <1>4, <1>5, <1>8 DEF Resting, RestingStatuses
  <2>6. \A p \in eng'.locked \ eng'.left :
          SameOwner(eng.taker, p)' \/ eng'.remaining = 0 \/ ~Resting(tx, p)'
    <3> SUFFICES ASSUME NEW p \in eng'.locked \ eng'.left
                 PROVE  SameOwner(eng.taker, p)' \/ eng'.remaining = 0 \/ ~Resting(tx, p)'
      OBVIOUS
    <3>1. CASE p = m
      BY <2>5, <3>1
    <3>2. CASE p # m
      <4>1. SameOwner(eng.taker, p) \/ ~Resting(tx, p)
        BY <1>1, <1>3, <1>4, <3>2 DEF MatchingInv
      <4>2. tx'.orders[p] = tx.orders[p]
        BY <1>3, <1>4, <1>8, <3>2
      <4> QED BY <1>1, <1>4, <4>1, <4>2 DEF SameOwner, Resting
    <3> QED BY <3>1, <3>2
  <2>7. /\ Len(db'.trades) <= Len(tx'.trades)
        /\ NewInTx' = NewInTx \cup {Len(tx.trades) + 1}
        /\ \A i \in NewInTx : tx'.trades[i] = tx.trades[i]
        /\ tx'.trades[Len(tx.trades) + 1] = NewTrade(k, m, n)
    <3>1. tx.trades \in Seq(Trade) /\ NewTrade(k, m, n) \in Trade
      BY <1>3, <1>5, RequestType DEF Tables, Trade, NewTrade
    <3>2. Len(tx.trades) \in Nat /\ Len(db.trades) \in Nat
      BY <1>3, TradesFinite
    <3>3. /\ Len(tx'.trades) = Len(tx.trades) + 1
          /\ \A i \in 1 .. Len(tx.trades) : tx'.trades[i] = tx.trades[i]
          /\ tx'.trades[Len(tx.trades) + 1] = NewTrade(k, m, n)
      BY <1>8, <3>1, AppendProperties
    <3>4. Len(db.trades) <= Len(tx.trades)
      BY <1>3 DEF MatchingInv
    <3> QED BY <1>1, <3>2, <3>3, <3>4 DEF NewInTx
  <2>8. \A i \in NewInTx' :
          /\ tx'.trades[i].taker = eng'.taker /\ tx'.trades[i].maker \in eng'.locked
          /\ \A p \in eng'.locked :
               /\ p # tx'.trades[i].maker
               /\ ~SameOwner(eng.taker, p)'
               /\ Resting(tx, p)'
               => ~Precedes(p, tx.trades[i].maker)'
    <3> SUFFICES ASSUME NEW i \in NewInTx'
                 PROVE  /\ tx'.trades[i].taker = k /\ tx'.trades[i].maker \in eng.locked
                        /\ \A p \in eng.locked :
                             /\ p # tx'.trades[i].maker /\ ~SameOwner(k, p) /\ Resting(tx', p)
                             => ~Precedes(p, tx'.trades[i].maker)
      BY <1>1, <1>4 DEF SameOwner, Resting, Precedes, BetterPrice
    <3>1. ASSUME NEW p \in eng.locked, Resting(tx', p) PROVE Resting(tx, p)
      <4>1. CASE p = m
        BY <1>7, <4>1 DEF Resting
      <4>2. CASE p # m
        BY <1>3, <1>8, <3>1, <4>2 DEF Resting
      <4> QED BY <4>1, <4>2
    <3>2. CASE i \in NewInTx
      BY <1>3, <2>7, <3>1, <3>2 DEF MatchingInv
    <3>3. CASE i = Len(tx.trades) + 1
      <4>1. tx'.trades[i].taker = k /\ tx'.trades[i].maker = m /\ m \in eng.locked
        BY <1>3, <2>7, <3>3 DEF NewTrade
      <4>2. ASSUME NEW p \in eng.locked, p # m, ~SameOwner(k, p), Resting(tx', p)
            PROVE  ~Precedes(p, m)
        <5>1. p \in eng.left
          BY <1>1, <1>3, <3>1, <4>2 DEF MatchingInv
        <5>2. Precedes(m, p)
          BY <1>2, <5>1 DEF IsNext
        <5>3. Resting(db, p) /\ Crosses(k, p)
          BY <1>1, MatchingFacts
        <5>4. /\ request[k].side \in {"buy", "sell"} /\ request[m].side \in {"buy", "sell"}
              /\ request[p].side \in {"buy", "sell"}
          BY <1>3, RequestType
        <5>5. request[m].side = request[p].side
          BY <1>7, <5>3, <5>4 DEF Crosses
        <5>6. Inserted(db, m) /\ Inserted(db, p)
          BY <1>7, <5>3 DEF Inserted, Resting, RestingStatuses
        <5>7. p \in OrderIds
          BY <1>3
        <5> QED BY <4>2, <5>2, <5>5, <5>6, <5>7, StrictOrder
      <4> QED BY <4>1, <4>2
    <3> QED BY <2>7, <3>2, <3>3
  <2> QED BY <2>1, <2>2, <2>3, <2>4, <2>6, <2>7, <2>8 DEF MatchingInv
<1> QED BY <1>1, <1>4, <1>9, <1>10, <1>11 DEF TablesInv, EngineInv, Matching

\* What a commit makes of an order: the taker's row is written, a candidate's
\* row may have changed, every other row is as it was.
LEMMA CommittedRows ==
    ASSUME IInv, EngineCommit
    PROVE  /\ UNCHANGED <<request, born>> /\ db' = Pending /\ tx' = db' /\ ~Matching'
           /\ \A o \in OrderIds : ~Locked(o) => db'.orders[o] = db.orders[o]
           /\ \A o \in OrderIds : Inserted(db', o) <=> Inserted(db, o)
           /\ \A o \in OrderIds : Resting(db', o) /\ o # eng.taker => Resting(db, o) /\ Resting(tx, o)
<1>1. /\ Matching /\ UNCHANGED <<request, born>> /\ db' = Pending /\ tx' = db' /\ ~Matching'
  BY DEF EngineCommit, Pending, Idle, Matching
<1>2. \A o \in OrderIds : ~Locked(o) => db'.orders[o] = db.orders[o]
  BY <1>1, UnlockedRows
<1>3. MatchingInv
  BY <1>1 DEF IInv, EngineInv
<1>4. ASSUME NEW o \in OrderIds PROVE Inserted(db', o) <=> Inserted(db, o)
  <2>1. CASE ~Locked(o)
    BY <1>2, <2>1 DEF Inserted
  <2>2. CASE o = eng.taker
    <3>1. Inserted(db, o)
      BY <1>3, <2>2 DEF MatchingInv, Active, ActiveStatuses, Inserted
    <3>2. Inserted(db', o)
      BY <1>1, <2>2, MatchingFacts DEF Inserted, TakerStatus
    <3> QED BY <3>1, <3>2
  <2>3. CASE o \in eng.locked
    <3>1. Inserted(db, o)
      BY <1>1, <2>3, MatchingFacts DEF Inserted, Resting, RestingStatuses
    <3>2. Inserted(tx, o)
      BY <1>3, <2>3 DEF MatchingInv
    <3>3. Inserted(db', o)
      BY <1>1, <2>3, <3>2, MatchingFacts DEF Inserted
    <3> QED BY <3>1, <3>3
  <2> QED BY <1>1, <2>1, <2>2, <2>3 DEF Locked
<1>5. ASSUME NEW o \in OrderIds, Resting(db', o), o # eng.taker
      PROVE  Resting(db, o) /\ Resting(tx, o)
  <2>1. db'.orders[o] = tx.orders[o]
    BY <1>1, <1>5, MatchingFacts
  <2>2. CASE o \in eng.locked
    BY <1>1, <1>5, <2>1, <2>2, MatchingFacts DEF Resting
  <2>3. CASE o \notin eng.locked
    BY <1>3, <1>5, <2>1, <2>3 DEF MatchingInv, Resting
  <2> QED BY <2>2, <2>3
<1> QED BY <1>1, <1>2, <1>4, <1>5

LEMMA CommitTables ==
    ASSUME IInv, EngineCommit
    PROVE  TablesInv' /\ \A o \in OrderIds : Inserted(db, o)' <=> Inserted(db, o)
<1> DEFINE k == eng.taker
<1>1. /\ UNCHANGED <<request, born>> /\ db' = Pending /\ tx' = db' /\ ~Matching'
      /\ \A o \in OrderIds : Inserted(db', o) <=> Inserted(db, o)
      /\ \A o \in OrderIds : Resting(db', o) /\ o # k => Resting(db, o) /\ Resting(tx, o)
  BY CommittedRows
<1>2. Matching /\ (eng.remaining = 0 \/ eng.left = {}) /\ MatchingInv /\ k \in OrderIds
  BY MatchingFacts DEF EngineCommit, IInv, EngineInv
<1>3. Consistent(db') /\ Pending' = db'
  BY <1>1 DEF IInv, Pending
<1>4. Consistent(db)' /\ Consistent(Pending)'
  BY <1>1, <1>3, SameRequests
<1>5. ASSUME NEW m \in OrderIds, m # k, Resting(db', k), Resting(db', m), Crosses(k, m)
      PROVE  SameOwner(k, m)
  <2>1. eng.remaining > 0
    <3>1. db'.orders[k].remaining = eng.remaining
      BY <1>1, <1>2, MatchingFacts
    <3>2. OrderAgrees(db', k)
      BY <1>2, <1>3 DEF Consistent
    <3> QED BY <1>5, <3>1, <3>2 DEF OrderAgrees, Resting, RestingStatuses, ActiveStatuses
  <2>2. m \in eng.locked \ eng.left
    BY <1>1, <1>2, <1>5, <2>1 DEF MatchingInv, Candidates
  <2> QED BY <1>1, <1>2, <1>5, <2>1, <2>2 DEF MatchingInv
<1>6. ASSUME NEW o \in OrderIds, NEW m \in OrderIds,
             Resting(db', o), Resting(db', m), Crosses(o, m)
      PROVE  SameOwner(o, m)
  <2>1. o # m
    BY <1>6 DEF Crosses
  <2>2. CASE o = k
    BY <1>5, <1>6, <2>1, <2>2
  <2>3. CASE m = k
    <3>1. Crosses(m, o)
      <4>1. /\ request[o].price \in 0 .. Unit /\ request[m].price \in 0 .. Unit
        BY RequestType DEF IInv, TypeOK
      <4> QED BY <1>6, <4>1 DEF Crosses
    <3>2. SameOwner(m, o)
      BY <1>5, <1>6, <2>1, <2>3, <3>1
    <3> QED BY <3>2 DEF SameOwner
  <2>4. CASE o # k /\ m # k
    BY <1>1, <1>6, <2>4 DEF IInv, BookUncrossed
  <2> QED BY <2>2, <2>3, <2>4
<1>7. BookUncrossed'
  BY <1>1, <1>6 DEF BookUncrossed, Resting, Crosses, SameOwner
<1>8. EngineInv'
  BY <1>1 DEF EngineInv
<1> QED BY <1>1, <1>4, <1>7, <1>8 DEF TablesInv, Inserted

\* The engine drops its transaction, or never had one.
LEMMA IdleTables ==
    ASSUME IInv, UNCHANGED <<request, born, db>>, tx' = db, ~Matching'
    PROVE  TablesInv'
<1>1. Pending' = db'
  BY DEF Pending
<1>2. Consistent(db)' /\ Consistent(Pending)'
  BY <1>1, SameRequests DEF IInv
<1> QED BY <1>2 DEF TablesInv, EngineInv, IInv, BookUncrossed, Resting, Crosses, SameOwner

-----------------------------------------------------------------------------
(* Order intake *)

\* What an order's place in create_market_order says about the order.
PlaceAgrees(o) ==
    /\ intake[o] \in {"idle", "market_read", "balance_read", "checked"} => ~Inserted(db, o)
    /\ intake[o] \in {"inserted", "failed"} => Inserted(db, o)
    /\ intake[o] \in {"market_read", "balance_read", "checked"} => ValidRequest(o)

\* A step that starts no request.
LEMMA NoneStarts ==
    ASSUME IInv, UNCHANGED <<request, born>>,
           \A o \in OrderIds : (intake'[o] = "idle") <=> (intake[o] = "idle"),
           \A o \in OrderIds : PlaceAgrees(o)'
    PROVE  IntakeInv'
<1>1. Started' = Started
  BY DEF Started
<1> QED BY <1>1 DEF IInv, IntakeInv, PlaceAgrees

\* A step that moves no request and inserts no order.
LEMMA NoneMoves ==
    ASSUME IInv, UNCHANGED <<request, born, intake>>,
           \A o \in OrderIds : Inserted(db, o)' <=> Inserted(db, o)
    PROVE  IntakeInv'
<1>1. \A o \in OrderIds : PlaceAgrees(o)'
  BY DEF IInv, IntakeInv, PlaceAgrees, ValidRequest
<1> QED BY <1>1, NoneStarts

\* A step that moves one request that has started, and inserts no order.
LEMMA OneMoves ==
    ASSUME IInv, UNCHANGED <<request, born>>,
           NEW o \in OrderIds, intake[o] # "idle", NEW s, s # "idle",
           intake' = [intake EXCEPT ![o] = s],
           \A p \in OrderIds : Inserted(db, p)' <=> Inserted(db, p),
           s \in {"market_read", "balance_read", "checked"} =>
              intake[o] \in {"market_read", "balance_read", "checked"},
           s \in {"inserted", "failed"} => Inserted(db, o)
    PROVE  IntakeInv'
<1>1. intake \in [OrderIds -> IntakeSteps]
  BY DEF IInv, TypeOK
<1>2. intake'[o] = s /\ \A p \in OrderIds \ {o} : intake'[p] = intake[p]
  BY <1>1
<1>3. ASSUME NEW p \in OrderIds PROVE PlaceAgrees(p)'
  BY <1>2 DEF IInv, IntakeInv, PlaceAgrees, ValidRequest
<1> QED BY <1>2, <1>3, NoneStarts

\* A request starts: its created_at is later than that of all that did before.
LEMMA OneStarts ==
    ASSUME IInv, NEW o \in OrderIds, CreateReadMarket(o)
    PROVE  IntakeInv' /\ \A p \in OrderIds : Inserted(db, p) => born'[p] = born[p]
<1>1. /\ intake \in [OrderIds -> IntakeSteps] /\ born \in [OrderIds -> Nat]
      /\ UNCHANGED <<request, db>> /\ intake[o] = "idle"
      /\ born' = [born EXCEPT ![o] = Cardinality(Started)]
  BY DEF IInv, TypeOK, CreateReadMarket, Started
<1>2. /\ born'[o] = Cardinality(Started)
      /\ \A p \in OrderIds \ {o} : born'[p] = born[p] /\ intake'[p] = intake[p]
      /\ intake'[o] \in {"market_read", "done"}
      /\ intake'[o] = "market_read" => ValidRequest(o)
  BY <1>1 DEF CreateReadMarket
<1>3. Started' = Started \cup {o} /\ o \notin Started
  BY <1>1, <1>2 DEF Started
<1>4. IsFiniteSet(Started)
  BY FS_Subset DEF Started
<1>5. Cardinality(Started) \in Nat /\ Cardinality(Started') = Cardinality(Started) + 1
  BY <1>3, <1>4, FS_AddElement, FS_CardinalityType
<1> DEFINE c == Cardinality(Started)
           d == Cardinality(Started')
<1> HIDE DEF c, d
<1>6. c \in Nat /\ d = c + 1 /\ born'[o] = c
  BY <1>2, <1>5 DEF c, d
<1>7. \A p \in Started : born[p] < c /\ born[p] \in Nat /\ born'[p] = born[p]
  BY <1>1, <1>2, <1>3 DEF IInv, IntakeInv, Started, c
<1>8. \A p \in Started' : born'[p] < d
  BY <1>3, <1>6, <1>7
<1>9. \A p, r \in Started' : p # r => born'[p] # born'[r]
  BY <1>3, <1>6, <1>7 DEF IInv, IntakeInv
<1>10. ASSUME NEW p \in OrderIds PROVE PlaceAgrees(p)'
  BY <1>1, <1>2 DEF IInv, IntakeInv, PlaceAgrees, ValidRequest, Inserted
<1>11. ~Inserted(db, o)
  BY <1>1 DEF IInv, IntakeInv
<1> QED BY <1>2, <1>8, <1>9, <1>10, <1>11 DEF IntakeInv, PlaceAgrees, d

\* What is in the tables stays there, so whatever names it may go on naming it.
LEMMA NamesStay ==
    ASSUME IInv, \A o \in OrderIds : Inserted(db, o) => Inserted(db, o)',
           \A o \in cancelling' : o \in OrderIds /\ (o \in cancelling \/ Inserted(db, o)),
           \A i \in DOMAIN queue' :
              queue'[i] \in OrderIds /\ (Inserted(db, queue'[i]) \/ \E j \in DOMAIN queue : queue'[i] = queue[j]),
           eng'.phase # "idle" => eng'.taker \in OrderIds
                                  /\ (Inserted(db, eng'.taker) \/ (eng.phase # "idle" /\ eng'.taker = eng.taker))
    PROVE  NamesInv'
<1>1. NamesInv
  BY DEF IInv
<1> QED BY <1>1 DEF NamesInv

-----------------------------------------------------------------------------
(* The inductive invariant: every step *)

RestInv == TablesInv /\ IntakeInv /\ NamesInv

LEMMA StepInvariant == IInv /\ [Next]_vars => IInv'
<1> SUFFICES ASSUME IInv, [Next]_vars PROVE IInv'
  OBVIOUS
<1>1. TypeOK /\ TypeOK' /\ NamesInv /\ IntakeInv
  BY StepType DEF IInv
<1>2. /\ \A o \in cancelling : o \in OrderIds
      /\ queue \in Seq(OrderIds) /\ \A i \in DOMAIN queue : queue[i] \in OrderIds
      /\ eng.phase # "idle" => eng.taker \in OrderIds
  BY <1>1, EngineType DEF TypeOK
<1>3. ASSUME NEW o \in OrderIds, CreateReadMarket(o) PROVE RestInv'
  <2>1. IntakeInv' /\ \A p \in OrderIds : Inserted(db, p) => born'[p] = born[p]
    BY <1>3, OneStarts
  <2>2. TablesInv'
    BY <1>3, <2>1, SameTables DEF CreateReadMarket
  <2>3. NamesInv'
    BY <1>1, <1>3 DEF CreateReadMarket, NamesInv, Inserted
  <2> QED BY <2>1, <2>2, <2>3 DEF RestInv
<1>4. ASSUME NEW o \in OrderIds, CreateReadBalance(o) PROVE RestInv'
  <2>1. TablesInv'
    BY <1>4, SameTables DEF CreateReadBalance
  <2>2. IntakeInv'
    BY <1>4, OneMoves DEF CreateReadBalance, Inserted
  <2>3. NamesInv'
    BY <1>1, <1>4 DEF CreateReadBalance, NamesInv, Inserted
  <2> QED BY <2>1, <2>2, <2>3 DEF RestInv
<1>5. ASSUME NEW o \in OrderIds, CreateReadReserved(o) PROVE RestInv'
  <2>1. TablesInv'
    BY <1>5, SameTables DEF CreateReadReserved
  <2>2. IntakeInv'
    BY <1>5, OneMoves DEF CreateReadReserved, Inserted
  <2>3. NamesInv'
    BY <1>1, <1>5 DEF CreateReadReserved, NamesInv, Inserted
  <2> QED BY <2>1, <2>2, <2>3 DEF RestInv
<1>6. ASSUME NEW o \in OrderIds, CreateInsert(o) PROVE RestInv'
  <2>1. intake[o] = "checked" /\ ~Matching /\ ~Inserted(db, o) /\ ValidRequest(o)
    BY <1>1, <1>6 DEF CreateInsert, IntakeInv
  <2>2. /\ TablesInv' /\ Inserted(db, o)'
        /\ \A p \in OrderIds \ {o} : Inserted(db, p)' <=> Inserted(db, p)
    BY <1>6, <2>1, InsertNewOrder DEF CreateInsert
  <2>3. IntakeInv'
    <3>1. /\ intake'[o] = "inserted" /\ \A p \in OrderIds \ {o} : intake'[p] = intake[p]
          /\ UNCHANGED <<request, born>>
      BY <1>1, <1>6 DEF CreateInsert, TypeOK
    <3>2. ASSUME NEW p \in OrderIds PROVE PlaceAgrees(p)'
      BY <1>1, <2>2, <3>1 DEF IntakeInv, PlaceAgrees, ValidRequest
    <3> QED BY <2>1, <3>1, <3>2, NoneStarts
  <2>4. NamesInv'
    BY <1>2, <1>6, <2>2, NamesStay DEF CreateInsert
  <2> QED BY <2>2, <2>3, <2>4 DEF RestInv
<1>7. ASSUME NEW o \in OrderIds, Enqueue(o) PROVE RestInv'
  <2>1. TablesInv'
    BY <1>7, SameTables DEF Enqueue
  <2>2. IntakeInv'
    BY <1>7, OneMoves DEF Enqueue, Inserted
  <2>3. Inserted(db, o)
    BY <1>1, <1>7 DEF Enqueue, IntakeInv
  <2>4. NamesInv'
    BY <1>1, <1>2, <1>7, <2>3, AppendProperties DEF Enqueue, NamesInv, Inserted
  <2> QED BY <2>1, <2>2, <2>4 DEF RestInv
<1>8. ASSUME NEW o \in OrderIds, EnqueueFails(o) PROVE RestInv'
  <2>1. TablesInv'
    BY <1>8, SameTables DEF EnqueueFails
  <2>2. Inserted(db, o)
    BY <1>1, <1>8 DEF EnqueueFails, IntakeInv
  <2>3. IntakeInv'
    BY <1>8, <2>2, OneMoves DEF EnqueueFails, Inserted
  <2>4. NamesInv'
    BY <1>1, <1>2, <1>8, <2>2, AppendProperties DEF EnqueueFails, NamesInv, Inserted
  <2> QED BY <2>1, <2>3, <2>4 DEF RestInv
<1>9. ASSUME NEW o \in OrderIds, MarkOrderRejected(o) PROVE RestInv'
  <2>1. Inserted(db, o) /\ ~Locked(o) /\ "rejected" \in ClosedStatuses
    BY <1>1, <1>9 DEF MarkOrderRejected, IntakeInv, ClosedStatuses
  <2>2. TablesInv' /\ \A p \in OrderIds : Inserted(db, p) <=> Inserted(db, p)'
    BY <1>9, <2>1, CloseOrder DEF MarkOrderRejected
  <2>3. IntakeInv'
    BY <1>9, <2>2, OneMoves DEF MarkOrderRejected
  <2>4. NamesInv'
    BY <1>2, <1>9, <2>2, NamesStay DEF MarkOrderRejected
  <2> QED BY <2>2, <2>3, <2>4 DEF RestInv
<1>10. ASSUME NEW o \in OrderIds, ApiCrash(o) PROVE RestInv'
  <2>1. TablesInv'
    BY <1>10, SameTables DEF ApiCrash
  <2>2. IntakeInv'
    BY <1>10, OneMoves DEF ApiCrash, Inserted
  <2>3. NamesInv'
    BY <1>1, <1>10 DEF ApiCrash, NamesInv, Inserted
  <2> QED BY <2>1, <2>2, <2>3 DEF RestInv
<1>11. ASSUME NEW o \in OrderIds, CancelRead(o) PROVE RestInv'
  <2>1. TablesInv'
    BY <1>11, SameTables DEF CancelRead
  <2>2. IntakeInv'
    BY <1>11, NoneMoves DEF CancelRead, Inserted
  <2>3. Inserted(db, o)
    BY <1>11 DEF CancelRead, Active, ActiveStatuses, Inserted
  <2>4. NamesInv'
    BY <1>1, <1>11, <2>3 DEF CancelRead, NamesInv, Inserted
  <2> QED BY <2>1, <2>2, <2>4 DEF RestInv
<1>12. ASSUME NEW o \in OrderIds, CancelWrite(o) PROVE RestInv'
  <2>1. Inserted(db, o) /\ ~Locked(o) /\ "cancelled" \in ClosedStatuses
    BY <1>1, <1>12 DEF CancelWrite, NamesInv, ClosedStatuses
  <2>2. TablesInv' /\ \A p \in OrderIds : Inserted(db, p) <=> Inserted(db, p)'
    BY <1>12, <2>1, CloseOrder DEF CancelWrite
  <2>3. IntakeInv'
    BY <1>12, <2>2, NoneMoves DEF CancelWrite
  <2>4. NamesInv'
    BY <1>2, <1>12, <2>2, NamesStay DEF CancelWrite
  <2> QED BY <2>2, <2>3, <2>4 DEF RestInv
<1>13. ASSUME NEW u \in Users, FundBalance(u) PROVE RestInv'
  <2>1. PICK amount \in FundAmounts :
          /\ db' = Fund(db, u, amount) /\ tx' = Fund(tx, u, amount)
          /\ UNCHANGED <<request, born, intake, seen, cancelling, market, queue, eng>>
    BY <1>13 DEF FundBalance
  <2>2. amount \in Nat
    OBVIOUS
  <2>3. TablesInv' /\ \A p \in OrderIds : Inserted(db, p)' <=> Inserted(db, p)
    BY <2>1, <2>2, FundAccount
  <2>4. IntakeInv'
    BY <2>1, <2>3, NoneMoves
  <2>5. NamesInv'
    BY <1>2, <2>1, <2>3, NamesStay
  <2> QED BY <2>3, <2>4, <2>5 DEF RestInv
<1>14. ASSUME UpdateMarketStatus PROVE RestInv'
  <2>1. TablesInv'
    BY <1>14, SameTables DEF UpdateMarketStatus
  <2>2. IntakeInv'
    BY <1>14, NoneMoves DEF UpdateMarketStatus, Inserted
  <2>3. NamesInv'
    BY <1>1, <1>14 DEF UpdateMarketStatus, NamesInv, Inserted
  <2> QED BY <2>1, <2>2, <2>3 DEF RestInv
<1>15. ASSUME EnginePop PROVE RestInv'
  <2>1. /\ eng'.phase = "popped" /\ eng'.taker = Head(queue) /\ queue # << >>
        /\ UNCHANGED <<request, born, intake, db, tx, cancelling>> /\ queue' = Tail(queue)
        /\ ~Matching /\ ~Matching'
    BY <1>15 DEF EnginePop, Matching
  <2>2. TablesInv'
    BY <2>1, NotMatchingFacts, IdleTables
  <2>3. IntakeInv'
    BY <2>1, NoneMoves DEF Inserted
  <2>4. /\ Head(queue) = queue[1] /\ 1 \in DOMAIN queue
        /\ \A i \in DOMAIN Tail(queue) : i + 1 \in DOMAIN queue /\ Tail(queue)[i] = queue[i + 1]
    BY <1>2, <2>1, HeadTailProperties, LenProperties
  <2>5. NamesInv'
    BY <1>1, <2>1, <2>4 DEF NamesInv, Inserted
  <2> QED BY <2>2, <2>3, <2>5 DEF RestInv
<1>16. ASSUME EngineSkip PROVE RestInv'
  <2>1. /\ UNCHANGED <<request, born, intake, db, tx, cancelling, queue>>
        /\ eng'.phase = "idle" /\ ~Matching /\ ~Matching'
    BY <1>16 DEF EngineSkip, Matching, Idle
  <2>2. TablesInv'
    BY <2>1, NotMatchingFacts, IdleTables
  <2>3. IntakeInv'
    BY <2>1, NoneMoves DEF Inserted
  <2>4. NamesInv'
    BY <1>1, <2>1 DEF NamesInv, Inserted
  <2> QED BY <2>2, <2>3, <2>4 DEF RestInv
<1>17. ASSUME EngineBegin PROVE RestInv'
  <2>1. TablesInv'
    BY <1>1, <1>17, BeginTables
  <2>2. /\ UNCHANGED <<request, born, intake, db, cancelling, queue>>
        /\ eng.phase # "idle" /\ eng'.taker = eng.taker
    BY <1>17 DEF EngineBegin
  <2>3. IntakeInv'
    BY <2>2, NoneMoves DEF Inserted
  <2>4. NamesInv'
    BY <1>1, <2>2 DEF NamesInv, Inserted
  <2> QED BY <2>1, <2>3, <2>4 DEF RestInv
<1>18. ASSUME EngineSkipCandidate \/ EngineFill PROVE RestInv'
  <2>1. TablesInv'
    BY <1>18, SkipCandidateTables, FillTables
  <2>2. /\ UNCHANGED <<request, born, intake, db, cancelling, queue>> /\ eng.phase = "matching"
    BY <1>18 DEF EngineSkipCandidate, EngineFill, Matching
  <2>3. eng'.taker = eng.taker
    BY <1>1, <1>18, <2>2 DEF EngineSkipCandidate, EngineFill, TypeOK, EngineStates, Idle
  <2>4. IntakeInv'
    BY <2>2, NoneMoves DEF Inserted
  <2>5. NamesInv'
    BY <1>1, <2>2, <2>3 DEF NamesInv, Inserted
  <2> QED BY <2>1, <2>4, <2>5 DEF RestInv
<1>19. ASSUME EngineCommit PROVE RestInv'
  <2>1. TablesInv' /\ \A p \in OrderIds : Inserted(db, p)' <=> Inserted(db, p)
    BY <1>19, CommitTables
  <2>2. UNCHANGED <<request, born, intake, cancelling, queue>> /\ eng'.phase = "idle"
    BY <1>19 DEF EngineCommit, Idle
  <2>3. IntakeInv'
    BY <2>1, <2>2, NoneMoves
  <2>4. NamesInv'
    BY <1>2, <2>1, <2>2, NamesStay
  <2> QED BY <2>1, <2>3, <2>4 DEF RestInv
<1>20. ASSUME EngineFail PROVE RestInv'
  <2>1. /\ UNCHANGED <<request, born, intake, db, cancelling, queue>>
        /\ tx' = db /\ eng'.phase = "idle" /\ ~Matching'
    BY <1>20 DEF EngineFail, Idle, Matching
  <2>2. TablesInv'
    BY <2>1, IdleTables
  <2>3. IntakeInv'
    BY <2>1, NoneMoves DEF Inserted
  <2>4. NamesInv'
    BY <1>1, <2>1 DEF NamesInv, Inserted
  <2> QED BY <2>2, <2>3, <2>4 DEF RestInv
<1>21. CASE UNCHANGED vars
  <2>1. TablesInv'
    BY <1>21, SameTables DEF vars
  <2>2. IntakeInv'
    BY <1>21, NoneMoves DEF vars, Inserted
  <2>3. NamesInv'
    BY <1>1, <1>21 DEF vars, NamesInv, Inserted
  <2> QED BY <1>1, <2>1, <2>2, <2>3 DEF IInv, TablesInv
<1>22. ASSUME RestInv' PROVE IInv'
  BY <1>1, <1>22 DEF IInv, RestInv, TablesInv
<1> QED
  BY <1>3, <1>4, <1>5, <1>6, <1>7, <1>8, <1>9, <1>10, <1>11, <1>12, <1>13, <1>14, <1>15,
     <1>16, <1>17, <1>18, <1>19, <1>20, <1>21, <1>22
  DEF Next, CreateContinues, EngineStep

\* The invariant that the safety properties follow from holds in every
\* behaviour: whatever the requests, faults and interleavings.
THEOREM Invariant == Spec => []IInv
BY InitInvariant, StepInvariant, PTL DEF Spec

-----------------------------------------------------------------------------
(* The safety properties                                                    *)

\* What a client is told of the order (matched, remaining, status) is what the
\* trades say, and a resting order always has something left.
THEOREM OrdersAgree == Spec => []OrdersAgreeWithTrades
<1>1. IInv => OrdersAgreeWithTrades
  BY DEF IInv, Consistent, OrdersAgreeWithTrades
<1> QED BY <1>1, Invariant, PTL

\* The market account can pay every share of whichever outcome wins, with any
\* number of outcomes; with two, to the last tick.
THEOREM Backing == Spec => []SharesBacked
<1>1. IInv => SharesBacked
  BY DEF IInv, Consistent, SharesBacked
<1> QED BY <1>1, Invariant, PTL

\* Debits equal credits over all the accounts, after every commit.
THEOREM DoubleEntry == Spec => []LedgerBalanced
<1>1. IInv => LedgerBalanced
  BY DEF IInv, Consistent, LedgerBalanced
<1> QED BY <1>1, Invariant, PTL

\* A user is charged for the user's own sides of the trades and nothing else.
THEOREM Charges == Spec => []AccountsAgreeWithTrades
<1>1. IInv => AccountsAgreeWithTrades
  BY DEF IInv, Consistent, AccountsAgreeWithTrades
<1> QED BY <1>1, Invariant, PTL

\* In a market with two outcomes a user holds exactly the shares that the
\* user's orders traded for.
THEOREM Positions == ASSUME NumOutcomes = 2 PROVE Spec => []PositionsAgreeWithTrades
<1>1. IInv => PositionsAgreeWithTrades
  BY DEF IInv, Consistent, PositionsAgreeWithTrades
<1> QED BY <1>1, Invariant, PTL

\* An order never costs more than what was checked when it was placed.
THEOREM NoOverpayment == Spec => []PaysAtMostReserved
<1>1. IInv => PaysAtMostReserved
  BY DEF IInv, Consistent, PaysAtMostReserved
<1> QED BY <1>1, Invariant, PTL

\* No two orders of different owners that should have met rest beside each
\* other, whatever was placed, cancelled or lost meanwhile.
THEOREM Uncrossed == Spec => []BookUncrossed
<1>1. IInv => BookUncrossed
  BY DEF IInv
<1> QED BY <1>1, Invariant, PTL

-----------------------------------------------------------------------------
(* The action properties                                                    *)

\* Every step but a commit leaves the trades alone, and of the orders that
\* exist it does no more than close one.
LEMMA OnlyCommitsTrade ==
    ASSUME IInv, [Next]_vars, ~EngineCommit
    PROVE  /\ db'.trades = db.trades
           /\ \A o \in OrderIds :
                Inserted(db, o) /\ db'.orders[o] # db.orders[o] => db'.orders[o].status \in ClosedStatuses
<1>1. request \in [OrderIds -> Requests] /\ db \in Tables
  BY DEF IInv, TypeOK
<1>2. CASE UNCHANGED db
  BY <1>2
<1>3. ASSUME NEW o \in OrderIds, CreateInsert(o)
      PROVE  /\ db'.trades = db.trades /\ ~Inserted(db, o)
             /\ \A p \in OrderIds \ {o} : db'.orders[p] = db.orders[p]
  BY <1>1, <1>3, InsertOrderRows DEF CreateInsert, IInv, IntakeInv
<1>4. ASSUME NEW o \in OrderIds, MarkOrderRejected(o) \/ CancelWrite(o)
      PROVE  /\ db'.trades = db.trades
             /\ \A p \in OrderIds \ {o} : db'.orders[p] = db.orders[p]
             /\ db'.orders[o].status \in ClosedStatuses
  BY <1>1, <1>4, SetStatusRows DEF MarkOrderRejected, CancelWrite, ClosedStatuses, OrderStatuses
<1>5. ASSUME NEW u \in Users, FundBalance(u)
      PROVE  db'.trades = db.trades /\ db'.orders = db.orders
  <2>1. PICK amount \in FundAmounts : db' = Fund(db, u, amount)
    BY <1>5 DEF FundBalance
  <2> QED BY ONLY <1>1, <2>1, FundRows
<1>6. \/ UNCHANGED db
      \/ \E o \in OrderIds : CreateInsert(o) \/ MarkOrderRejected(o) \/ CancelWrite(o)
      \/ \E u \in Users : FundBalance(u)
  BY DEF Next, vars, CreateContinues, EngineStep, CreateReadMarket, CreateReadBalance,
         CreateReadReserved, Enqueue, EnqueueFails, ApiCrash, CancelRead, UpdateMarketStatus,
         EnginePop, EngineSkip, EngineBegin, EngineSkipCandidate, EngineFill, EngineFail
<1> QED BY <1>2, <1>3, <1>4, <1>5, <1>6

\* What a commit adds: trades of the taker with locked candidates.
LEMMA CommittedTrades ==
    ASSUME IInv, EngineCommit, NEW i \in NewTrades
    PROVE  /\ db'.trades = tx.trades /\ i \in NewInTx
           /\ db'.trades[i].taker = eng.taker /\ db'.trades[i].maker \in eng.locked
<1>1. Matching /\ MatchingInv /\ db'.trades = tx.trades
  BY CommittedRows, MatchingFacts DEF EngineCommit, IInv, EngineInv
<1>2. i \in NewInTx
  BY <1>1 DEF NewTrades, NewInTx
<1> QED BY <1>1, <1>2 DEF MatchingInv

\* An order that could have been taken first is not passed over: of the orders
\* left resting none was due before the maker that traded.
THEOREM Priority == Spec => PriceTimePriority
<1> DEFINE Step ==
      \A i \in NewTrades : \A n \in OrderIds :
         LET k == db'.trades[i].taker
             m == db'.trades[i].maker
         IN  /\ n # m
             /\ Resting(db', n) /\ Crosses(k, n) /\ ~SameOwner(k, n)
             => ~Precedes(n, m)
<1>1. ASSUME IInv, [Next]_vars PROVE Step
  <2>1. CASE ~EngineCommit
    <3>1. Len(db.trades) \in Nat
      BY LenProperties DEF IInv, TypeOK, Tables
    <3>2. NewTrades = {}
      BY <1>1, <2>1, <3>1, OnlyCommitsTrade DEF NewTrades
    <3> QED BY <3>2
  <2>2. CASE EngineCommit
    <3> SUFFICES ASSUME NEW i \in NewTrades, NEW n \in OrderIds, n # db'.trades[i].maker,
                        Resting(db', n), Crosses(db'.trades[i].taker, n),
                        ~SameOwner(db'.trades[i].taker, n)
                 PROVE  ~Precedes(n, db'.trades[i].maker)
      BY DEF Step
    <3>1. /\ db'.trades = tx.trades /\ i \in NewInTx /\ db'.trades[i].taker = eng.taker
      BY <1>1, <2>2, CommittedTrades
    <3>2. MatchingInv
      BY <1>1, <2>2 DEF EngineCommit, IInv, EngineInv
    <3>3. n # eng.taker
      BY <3>1 DEF Crosses
    <3>4. Resting(db, n) /\ Resting(tx, n)
      BY <1>1, <2>2, <3>3, CommittedRows
    <3>5. n \in eng.locked
      BY <3>1, <3>2, <3>4 DEF MatchingInv, Candidates
    <3> QED BY <3>1, <3>2, <3>4, <3>5 DEF MatchingInv
  <2> QED BY <2>1, <2>2
<1> QED BY <1>1, Invariant, PTL DEF Spec, PriceTimePriority

\* A closed order stays closed and never trades again, although commands that
\* name it may still be queued or just popped.
THEOREM ClosedForGood == Spec => ClosedOrdersStayOut
<1> DEFINE Step ==
      \A o \in OrderIds :
         db.orders[o].status \in ClosedStatuses =>
            /\ db'.orders[o].status \in ClosedStatuses
            /\ \A i \in NewTrades : o \notin {db'.trades[i].taker, db'.trades[i].maker}
<1>1. ASSUME IInv, [Next]_vars PROVE Step
  <2> SUFFICES ASSUME NEW o \in OrderIds, db.orders[o].status \in ClosedStatuses
               PROVE  /\ db'.orders[o].status \in ClosedStatuses
                      /\ \A i \in NewTrades : o \notin {db'.trades[i].taker, db'.trades[i].maker}
    BY DEF Step
  <2>1. CASE ~EngineCommit
    <3>1. Inserted(db, o)
      BY DEF ClosedStatuses, Inserted
    <3>2. db'.trades = db.trades /\ db'.orders[o].status \in ClosedStatuses
      BY <1>1, <2>1, <3>1, OnlyCommitsTrade
    <3>3. Len(db.trades) \in Nat
      BY <1>1, LenProperties DEF IInv, TypeOK, Tables
    <3>4. NewTrades = {}
      BY <3>2, <3>3 DEF NewTrades
    <3> QED BY <3>2, <3>4
  <2>2. CASE EngineCommit
    <3>1. Matching /\ MatchingInv
      BY <1>1, <2>2 DEF EngineCommit, IInv, EngineInv
    <3>2. o # eng.taker
      BY <3>1 DEF MatchingInv, Active, ActiveStatuses, ClosedStatuses
    <3>3. o \notin eng.locked
      BY <1>1, <3>1, MatchingFacts DEF Resting, RestingStatuses, ClosedStatuses
    <3>4. db'.orders[o] = db.orders[o]
      BY <1>1, <2>2, <3>2, <3>3, CommittedRows DEF Locked
    <3> QED BY <1>1, <2>2, <3>2, <3>3, <3>4, CommittedTrades
  <2> QED BY <2>1, <2>2
<1> QED BY <1>1, Invariant, PTL DEF Spec, ClosedOrdersStayOut

-----------------------------------------------------------------------------
(* Matching at once: what one fill moves                                    *)

\* A share of a trade costs its two owners something, and gives them at most one.
LEMMA LegsOfShare ==
    ASSUME request \in [OrderIds -> Requests],
           NEW k \in OrderIds, NEW m \in OrderIds, NEW u \in Users, NEW x \in Outcomes
    PROVE  AtOnce!Pays(k, m, u) \in Nat /\ AtOnce!Wins(Bet, k, m, u, x) \in Nat
BY RequestType DEF AtOnce!Pays, AtOnce!Wins

\* A fill takes its quantity from the maker's row and charges and rewards both
\* owners by the share.
LEMMA FillMoves ==
    ASSUME request \in [OrderIds -> Requests], NEW t \in Tables,
           NEW k \in OrderIds, NEW m \in OrderIds, Crosses(k, m), ~SameOwner(k, m),
           NEW q \in Nat, q <= t.orders[m].remaining, NEW n, n = Fill(t, k, m, q)
    PROVE  /\ n.orders[m].remaining = t.orders[m].remaining - q
           /\ \A u \in Users :
                /\ n.accounts[u].debit = t.accounts[u].debit
                /\ n.accounts[u].credit = t.accounts[u].credit + q * AtOnce!Pays(k, m, u)
                /\ \A x \in Outcomes :
                     n.positions[u][x] = t.positions[u][x] + q * AtOnce!Wins(Bet, k, m, u, x)
<1> DEFINE a == request[k].user
           b == request[m].user
           price == request[m].price
           buyer == request[BuyerOf(k, m)].user
           seller == request[SellerOf(k, m)].user
           gross == q * price
<1>1. /\ a \in Users /\ b \in Users /\ a # b /\ price \in 0 .. Unit
      /\ request[k].side \in {"buy", "sell"} /\ request[m].side \in {"buy", "sell"}
      /\ request[k].side # request[m].side
  BY RequestType DEF SameOwner, Crosses
<1>2. /\ buyer \in Users /\ seller \in Users /\ buyer # seller
      /\ {buyer, seller} = {a, b} /\ (buyer = a <=> request[k].side = "buy")
  BY <1>1 DEF BuyerOf, SellerOf
<1>3. gross \in Nat /\ q * Unit \in Nat /\ q * Unit - gross \in Nat /\ q * (Unit - price) = q * Unit - gross
  BY <1>1, Product, ProductMonotonic, Distributive
<1>4. n.orders[m].remaining = t.orders[m].remaining - q
  <2> DEFINE old == t.orders[m]
  <2>1. old \in OrderRow /\ t.orders \in [OrderIds -> OrderRow]
    BY DEF Tables
  <2>2. n.orders = [t.orders EXCEPT ![m] = MakerRow(old, q)]
    BY DEF Fill
  <2>3. n.orders[m] = MakerRow(old, q)
    BY <2>1, <2>2
  <2> HIDE DEF old
  <2>4. MakerRow(old, q).remaining = old.remaining - q
    BY <2>1 DEF MakerRow, OrderRow
  <2> QED BY <2>3, <2>4 DEF old
<1>5. n.accounts = PostTrade(t.accounts, buyer, seller, q, gross)
  BY DEF Fill
<1>6. t.accounts \in [Accounts -> Account]
  BY DEF Tables
<1> HIDE DEF gross, buyer, seller
<1>7. /\ n.accounts[buyer].credit = t.accounts[buyer].credit + gross
      /\ n.accounts[seller].credit = t.accounts[seller].credit + (q * Unit - gross)
      /\ \A u \in Users \ {buyer, seller} : n.accounts[u].credit = t.accounts[u].credit
  BY ONLY <1>2, <1>3, <1>5, <1>6, PostTradeEffect, q \in Nat
<1>8. ASSUME NEW u \in Users PROVE n.accounts[u].debit = t.accounts[u].debit
  <2> DEFINE one == Credit(t.accounts, buyer, gross)
             two == Credit(one, seller, q * Unit - gross)
  <2>1. /\ u \in Accounts /\ buyer \in Accounts /\ seller \in Accounts /\ MarketAccount \in Accounts
        /\ u # MarketAccount
    BY <1>2 DEF Accounts
  <2>2. one \in [Accounts -> Account] /\ one[u].debit = t.accounts[u].debit
    BY <1>3, <1>6, <2>1, CreditType
  <2> HIDE DEF one
  <2>3. two \in [Accounts -> Account] /\ two[u].debit = one[u].debit
    BY <1>3, <2>1, <2>2, CreditType
  <2> HIDE DEF two
  <2>4. Debit(two, MarketAccount, q * Unit)[u] = two[u]
    BY <1>3, <2>1, <2>3, DebitType
  <2> QED BY <1>5, <2>2, <2>3, <2>4 DEF PostTrade, one, two
<1>9. ASSUME NEW u \in Users
      PROVE  n.accounts[u].credit = t.accounts[u].credit + q * AtOnce!Pays(k, m, u)
  <2>0. t.accounts[u].credit \in Nat
    BY <1>6 DEF Accounts, Account
  <2>1. CASE u = buyer
    <3>1. AtOnce!Pays(k, m, u) = price
      BY <1>1, <1>2, <2>1 DEF AtOnce!Pays, AtOnce!Owner, AtOnce!Buys
    <3> QED BY <1>7, <2>1, <3>1 DEF gross
  <2>2. CASE u = seller
    <3>1. AtOnce!Pays(k, m, u) = Unit - price
      BY <1>1, <1>2, <2>2 DEF AtOnce!Pays, AtOnce!Owner, AtOnce!Buys
    <3> QED BY <1>3, <1>7, <2>2, <3>1
  <2>3. CASE u \notin {buyer, seller}
    <3>1. AtOnce!Pays(k, m, u) = 0
      BY <1>2, <2>3 DEF AtOnce!Pays, AtOnce!Owner
    <3> QED BY <1>7, <2>0, <2>3, <3>1
  <2> QED BY <2>1, <2>2, <2>3
<1>10. ASSUME NEW u \in Users, NEW x \in Outcomes
       PROVE  n.positions[u][x] = t.positions[u][x] + q * AtOnce!Wins(Bet, k, m, u, x)
  <2>1. /\ \A o \in {k, m} :
             n.positions[request[o].user][x] = t.positions[request[o].user][x]
               + (IF PositionOutcome(o) = x THEN q ELSE 0)
        /\ \A v \in Users \ {a, b} : n.positions[v][x] = t.positions[v][x]
    BY MatchPositions
  <2>2. t.positions[u][x] \in Nat
    BY DEF Tables
  <2>3. Bet[k] = PositionOutcome(k) /\ Bet[m] = PositionOutcome(m)
    BY DEF Bet
  <2>4. CASE u = a
    <3>1. AtOnce!Wins(Bet, k, m, u, x) = IF PositionOutcome(k) = x THEN 1 ELSE 0
      BY <1>1, <2>3, <2>4 DEF AtOnce!Wins, AtOnce!Owner
    <3> QED BY <2>1, <2>2, <2>4, <3>1
  <2>5. CASE u = b
    <3>1. AtOnce!Wins(Bet, k, m, u, x) = IF PositionOutcome(m) = x THEN 1 ELSE 0
      BY <1>1, <2>3, <2>5 DEF AtOnce!Wins, AtOnce!Owner
    <3> QED BY <2>1, <2>2, <2>5, <3>1
  <2>6. CASE u \notin {a, b}
    <3>1. AtOnce!Wins(Bet, k, m, u, x) = 0
      BY <2>6 DEF AtOnce!Wins, AtOnce!Owner
    <3> QED BY <2>1, <2>2, <2>6, <3>1
  <2> QED BY <2>4, <2>5, <2>6
<1> QED BY <1>4, <1>8, <1>9, <1>10

-----------------------------------------------------------------------------
(* Matching at once: the open transaction                                   *)

\* The candidates that are not the taker's own are its counterparties.
LEMMA MetFacts ==
    ASSUME IInv, Matching
    PROVE  /\ Met \subseteq eng.locked /\ Met \subseteq OrderIds /\ IsFiniteSet(Met)
           /\ eng.taker \in OrderIds /\ eng.taker \notin eng.locked
           /\ Met = AtOnce!Counterparties(eng.taker)
           /\ \A m \in Met : /\ Crosses(eng.taker, m) /\ ~SameOwner(eng.taker, m)
                             /\ Resting(db, m) /\ Inserted(db, m)
                             /\ db.orders[m].remaining \in Nat /\ tx.orders[m].remaining \in Nat
<1>1. /\ request \in [OrderIds -> Requests] /\ db \in Tables /\ tx \in Tables
      /\ eng.locked \subseteq OrderIds /\ eng.taker \in OrderIds /\ eng.taker \notin eng.locked
      /\ \A m \in eng.locked : Resting(db, m) /\ Crosses(eng.taker, m)
      /\ eng.locked = Candidates(eng.taker)
  BY MatchingFacts DEF IInv, TypeOK, EngineInv, MatchingInv
<1>2. Met \subseteq eng.locked
  BY DEF Met
<1>3. IsFiniteSet(Met)
  BY <1>1, <1>2, FS_Subset
<1>4. ASSUME NEW m \in OrderIds PROVE m \in Met <=> m \in AtOnce!Counterparties(eng.taker)
  <2>1. /\ request[m].side \in {"buy", "sell"} /\ request[eng.taker].side \in {"buy", "sell"}
        /\ request[m].price \in 0 .. Unit /\ request[eng.taker].price \in 0 .. Unit
    BY <1>1, RequestType
  <2>2. AtOnce!Resting(m) <=> Resting(db, m)
    BY DEF AtOnce!Resting, Book, Resting, RestingStatuses
  <2> QED BY <1>1, <2>1, <2>2 DEF Met, Candidates, Crosses, SameOwner,
                                  AtOnce!Counterparties, AtOnce!Owner, AtOnce!Buys
<1>5. Met = AtOnce!Counterparties(eng.taker)
  BY <1>1, <1>2, <1>4 DEF AtOnce!Counterparties
<1>6. ASSUME NEW m \in Met
      PROVE  /\ Crosses(eng.taker, m) /\ ~SameOwner(eng.taker, m)
             /\ Resting(db, m) /\ Inserted(db, m)
             /\ db.orders[m].remaining \in Nat /\ tx.orders[m].remaining \in Nat
  BY <1>1, <1>2 DEF Met, Resting, RestingStatuses, Inserted, Tables, OrderRow
<1> QED BY <1>1, <1>2, <1>3, <1>5, <1>6

\* Sums over what was taken are sums of naturals.
LEMMA TakenType ==
    ASSUME IInv, Matching, \A m \in Met : Taken[m] \in Nat
    PROVE  /\ Taken \in [Met -> Nat] /\ Tally(Taken) \in Nat
           /\ \A u \in Users :
                /\ Owed(u) \in [Met -> Nat] /\ Tally(Owed(u)) \in Nat
                /\ \A x \in Outcomes : Gains(u, x) \in [Met -> Nat] /\ Tally(Gains(u, x)) \in Nat
<1>1. /\ request \in [OrderIds -> Requests] /\ eng.taker \in OrderIds
      /\ Met \subseteq OrderIds /\ IsFiniteSet(Met)
  BY MetFacts DEF IInv, TypeOK
<1>2. Taken \in [Met -> Nat]
  BY DEF Taken
<1>3. ASSUME NEW u \in Users, NEW x \in Outcomes
      PROVE  Owed(u) \in [Met -> Nat] /\ Gains(u, x) \in [Met -> Nat]
  <2>1. \A m \in Met : /\ AtOnce!Pays(eng.taker, m, u) \in Nat
                       /\ AtOnce!Wins(Bet, eng.taker, m, u, x) \in Nat
    BY <1>1, LegsOfShare
  <2>2. \A m \in Met : /\ Taken[m] * AtOnce!Pays(eng.taker, m, u) \in Nat
                       /\ Taken[m] * AtOnce!Wins(Bet, eng.taker, m, u, x) \in Nat
    BY <1>2, <2>1, Product
  <2> QED BY <2>2 DEF Owed, Gains
<1>4. ASSUME NEW f \in [Met -> Nat] PROVE Tally(f) \in Nat
  BY <1>1, TallyType
<1>5. Outcomes # {}
  BY DEF Outcomes
<1> QED BY <1>2, <1>3, <1>4, <1>5

\* Requests never change, so neither does what a share between two orders moves.
LEMMA SameLegs ==
    ASSUME request' = request, eng'.taker = eng.taker, eng.taker \in OrderIds,
           NEW m \in OrderIds, NEW u \in Users, NEW x \in Outcomes
    PROVE  /\ AtOnce!Pays(eng.taker, m, u)' = AtOnce!Pays(eng.taker, m, u)
           /\ AtOnce!Wins(Bet, eng.taker, m, u, x)' = AtOnce!Wins(Bet, eng.taker, m, u, x)
<1>1. Bet' = Bet
  BY DEF Bet, PositionOutcome
<1> QED BY <1>1 DEF AtOnce!Pays, AtOnce!Wins, AtOnce!Owner, AtOnce!Buys

\* A transaction that has just begun has taken nothing.
LEMMA BeginTaking ==
    ASSUME IInv, IInv', EngineBegin
    PROVE  TakingInv'
<1> DEFINE k == eng.taker
<1>1. ~Matching /\ tx = db /\ Matching'
  BY NotMatchingFacts DEF EngineBegin, Matching
<1>2. /\ UNCHANGED <<request, born, db, tx>> /\ eng'.taker = k
      /\ eng'.remaining = db.orders[k].remaining /\ k \in OrderIds
      /\ eng'.locked = Candidates(k)
      /\ db \in Tables /\ request \in [OrderIds -> Requests]
  BY <1>1, EngineType DEF EngineBegin, IInv, TypeOK
<1>3. Met' \subseteq OrderIds
  BY <1>2 DEF Met, Candidates
<1>4. /\ Taken' = [m \in Met' |-> 0]
      /\ \A m \in Met' : tx'.orders[m].status = db'.orders[m].status
  <2>1. \A m \in Met' : db.orders[m].remaining \in Nat
    BY <1>2, <1>3 DEF Tables, OrderRow
  <2> QED BY <1>1, <1>2, <2>1 DEF Taken
<1>5. Tally(Taken') = 0
  BY <1>4, TallyZero
<1>6. ASSUME NEW u \in Users, NEW x \in Outcomes
      PROVE  Tally(Owed(u)') = 0 /\ Tally(Gains(u, x)') = 0
  <2>1. \A m \in Met' : /\ AtOnce!Pays(eng.taker, m, u)' \in Nat
                        /\ AtOnce!Wins(Bet, eng.taker, m, u, x)' \in Nat
    BY <1>2, <1>3, LegsOfShare, SameLegs
  <2>2. /\ DOMAIN Owed(u)' = Met' /\ \A m \in Met' : Owed(u)'[m] = 0
        /\ DOMAIN Gains(u, x)' = Met' /\ \A m \in Met' : Gains(u, x)'[m] = 0
    BY <1>4, <2>1 DEF Owed, Gains
  <2> QED BY <2>2, TallyZero
<1>7. (\A m \in Met : TakenRow(m))' /\ TakenInOrder'
  BY <1>4 DEF TakenRow, TakenInOrder
<1>8. (\A u \in Users :
         /\ tx.accounts[u].debit = db.accounts[u].debit
         /\ tx.accounts[u].credit = db.accounts[u].credit + Tally(Owed(u))
         /\ \A x \in Outcomes : tx.positions[u][x] = db.positions[u][x] + Tally(Gains(u, x)))'
  <2>1. \A u \in Users : db.accounts[u].credit \in Nat /\ \A x \in Outcomes : db.positions[u][x] \in Nat
    BY <1>2 DEF Tables, Accounts, Account
  <2>2. Outcomes # {}
    BY DEF Outcomes
  <2> QED BY <1>1, <1>2, <1>6, <2>1, <2>2
<1>9. eng'.remaining + Tally(Taken') = db'.orders[eng'.taker].remaining
  BY <1>2, <1>5 DEF Tables, OrderRow
<1> QED BY <1>1, <1>2, <1>7, <1>8, <1>9 DEF TakingInv

\* created_at and price put any two counterparties in one order.
LEMMA ServedFirst ==
    ASSUME IInv, Matching, NEW m \in Met, NEW n \in Met, m # n
    PROVE  AtOnce!Before(eng.taker, m, n) <=> ~Precedes(n, m)
<1>1. /\ request \in [OrderIds -> Requests] /\ born \in [OrderIds -> Nat] /\ eng.taker \in OrderIds
      /\ m \in OrderIds /\ n \in OrderIds /\ Inserted(db, m) /\ Inserted(db, n)
      /\ Crosses(eng.taker, m) /\ Crosses(eng.taker, n)
  BY MetFacts DEF IInv, TypeOK
<1>2. /\ request[m].side \in {"buy", "sell"} /\ request[n].side \in {"buy", "sell"}
      /\ request[eng.taker].side \in {"buy", "sell"}
      /\ request[m].price \in 0 .. Unit /\ request[n].price \in 0 .. Unit
  BY <1>1, RequestType
<1>3. /\ request[m].side = request[n].side
      /\ request[m].side = "sell" <=> request[eng.taker].side = "buy"
  BY <1>1, <1>2 DEF Crosses
<1>4. born[m] \in Nat /\ born[n] \in Nat /\ born[m] # born[n]
  BY <1>1 DEF IInv, IntakeInv, Started, Inserted
<1> QED BY <1>2, <1>3, <1>4 DEF Precedes, BetterPrice, AtOnce!Before, AtOnce!Buys

\* What a fill takes of a candidate accounts for what it changes.
LEMMA FillTaking ==
    ASSUME IInv, TakingInv, EngineFill
    PROVE  TakingInv'
<1> DEFINE k == eng.taker
           q(m) == Lesser(eng.remaining, tx.orders[m].remaining)
<1>1. Matching /\ eng.remaining > 0 /\ UNCHANGED <<request, born, db>>
  BY DEF EngineFill
<1>2. PICK m \in OrderIds :
        /\ IsNext(m) /\ ~SameOwner(k, m) /\ q(m) > 0
        /\ tx' = Fill(tx, k, m, q(m))
        /\ eng' = [eng EXCEPT !.left = @ \ {m}, !.matched = @ + q(m), !.remaining = @ - q(m)]
  BY DEF EngineFill
<1> DEFINE n == q(m)
<1>3. /\ k \in OrderIds /\ eng.remaining \in Nat
      /\ eng.locked \subseteq OrderIds /\ eng.left \subseteq eng.locked
      /\ MatchingInv /\ m \in eng.left
      /\ request \in [OrderIds -> Requests] /\ db \in Tables /\ tx \in Tables
  BY <1>1, <1>2, MatchingFacts DEF IInv, EngineInv, IsNext, TypeOK
<1>4. /\ eng'.taker = k /\ eng'.locked = eng.locked /\ eng'.left = eng.left \ {m}
      /\ eng'.remaining = eng.remaining - n
  BY <1>1, <1>2 DEF Matching, IInv, TypeOK, EngineStates, Idle
<1>5. n \in Nat /\ n > 0 /\ n <= eng.remaining /\ n <= tx.orders[m].remaining
  <2>1. tx.orders[m].remaining \in Nat
    BY <1>3 DEF Tables, OrderRow
  <2> QED BY <1>2, <1>3, <2>1, LesserBounds
<1>6. tx' = Fill(tx, k, m, n)
  BY <1>2
<1>7. m \in Met /\ Met' = Met /\ tx.orders[m] = db.orders[m]
  BY <1>1, <1>2, <1>3, <1>4 DEF Met, MatchingInv, SameOwner
<1>8. /\ Met \subseteq OrderIds /\ IsFiniteSet(Met) /\ Crosses(k, m) /\ ~SameOwner(k, m)
      /\ \A p \in Met : db.orders[p].remaining \in Nat /\ tx.orders[p].remaining \in Nat
  BY <1>1, <1>7, MetFacts
<1> HIDE DEF q, n
<1>9. /\ \A p \in OrderIds \ {m} : tx'.orders[p] = tx.orders[p]
      /\ tx'.orders[m].status = IF tx.orders[m].remaining = n THEN "filled" ELSE "partially_filled"
  BY ONLY <1>3, <1>5, <1>6, FillRows
<1>10. /\ tx'.orders[m].remaining = tx.orders[m].remaining - n
       /\ \A u \in Users :
            /\ tx'.accounts[u].debit = tx.accounts[u].debit
            /\ tx'.accounts[u].credit = tx.accounts[u].credit + n * AtOnce!Pays(k, m, u)
            /\ \A x \in Outcomes :
                 tx'.positions[u][x] = tx.positions[u][x] + n * AtOnce!Wins(Bet, k, m, u, x)
  BY <1>3, <1>5, <1>6, <1>8, FillMoves
<1>11. /\ \A p \in Met : Taken[p] \in Nat
       /\ Taken[m] = 0
  BY <1>7, <1>8 DEF TakingInv, TakenRow, Taken
<1>12. /\ \A p \in Met \ {m} : Taken'[p] = Taken[p]
       /\ Taken'[m] = n /\ Taken' \in [Met -> Nat]
  <2>1. Taken' = [p \in Met |-> db.orders[p].remaining - tx'.orders[p].remaining]
    BY <1>1, <1>7 DEF Taken
  <2>2. \A p \in Met \ {m} : Taken'[p] = Taken[p]
    BY <1>8, <1>9, <2>1 DEF Taken
  <2>3. Taken'[m] = n
    BY <1>5, <1>7, <1>8, <1>10, <2>1
  <2> QED BY <1>5, <1>11, <2>1, <2>2, <2>3
<1>13. (\A p \in eng.locked \ Met : tx.orders[p] = db.orders[p])'
  BY <1>1, <1>3, <1>4, <1>7, <1>9 DEF TakingInv
<1>14. ASSUME NEW p \in Met PROVE TakenRow(p)'
  <2>1. CASE p = m
    <3>1. tx'.orders[m].status = IF tx'.orders[m].remaining = 0 THEN "filled" ELSE "partially_filled"
      BY <1>5, <1>7, <1>8, <1>9, <1>10
    <3> QED BY <1>5, <1>12, <2>1, <3>1 DEF TakenRow
  <2>2. CASE p # m
    BY <1>1, <1>8, <1>9, <1>11, <1>12, <2>2 DEF TakingInv, TakenRow
  <2> QED BY <2>1, <2>2
<1>15. TakenInOrder'
  <2> SUFFICES ASSUME NEW p \in Met, NEW r \in Met, AtOnce!Before(k, p, r), Taken'[r] > 0
               PROVE  tx'.orders[p].remaining = 0
    BY <1>1, <1>4, <1>7 DEF TakenInOrder, AtOnce!Before, AtOnce!Buys
  <2>1. p # r
    <3>1. request[p].price \in 0 .. Unit /\ born[p] \in Nat
      BY <1>3, <1>8, RequestType DEF IInv, TypeOK
    <3> QED BY <3>1 DEF AtOnce!Before
  <2>2. CASE r = m
    <3>1. ~Precedes(m, p)
      BY <1>1, <1>7, <2>1, <2>2, ServedFirst
    <3>2. p \in eng.locked \ eng.left
      BY <1>2, <3>1 DEF IsNext, Met
    <3>3. ~Resting(tx, p)
      BY <1>1, <1>3, <3>2 DEF MatchingInv, Met
    <3>4. tx.orders[p].remaining = 0
      <4>1. TakenRow(p) /\ Resting(db, p)
        BY <1>1, MetFacts DEF TakingInv
      <4> QED BY <3>3, <4>1 DEF TakenRow, Resting, RestingStatuses
    <3> QED BY <1>8, <1>9, <2>1, <2>2, <3>4
  <2>3. CASE r # m
    <3>1. tx.orders[p].remaining = 0
      BY <1>12, <2>3 DEF TakingInv, TakenInOrder
    <3>2. p # m
      BY <1>5, <3>1
    <3> QED BY <1>8, <1>9, <3>1, <3>2
  <2> QED BY <2>2, <2>3
<1>16. eng'.remaining + Tally(Taken') = db'.orders[eng'.taker].remaining
  <2>1. Taken \in [Met -> Nat] /\ Tally(Taken) \in Nat
    BY <1>1, <1>11, TakenType
  <2>2. Tally(Taken') = Tally(Taken) + Taken'[m] - Taken[m]
    BY <1>7, <1>8, <1>12, <2>1, TallyChange
  <2>3. eng.remaining + Tally(Taken) = db.orders[k].remaining
    BY DEF TakingInv
  <2> QED BY <1>1, <1>3, <1>4, <1>5, <1>11, <1>12, <2>1, <2>2, <2>3
<1>17. ASSUME NEW u \in Users, NEW x \in Outcomes
       PROVE  /\ tx'.accounts[u].debit = db'.accounts[u].debit
              /\ tx'.accounts[u].credit = db'.accounts[u].credit + Tally(Owed(u)')
              /\ tx'.positions[u][x] = db'.positions[u][x] + Tally(Gains(u, x)')
  <2> DEFINE pays(p) == AtOnce!Pays(k, p, u)
             wins(p) == AtOnce!Wins(Bet, k, p, u, x)
  <2>1. \A p \in Met : /\ pays(p) \in Nat /\ AtOnce!Pays(eng.taker, p, u)' = pays(p)
                       /\ wins(p) \in Nat /\ AtOnce!Wins(Bet, eng.taker, p, u, x)' = wins(p)
    BY <1>1, <1>3, <1>4, <1>8, LegsOfShare, SameLegs
  <2> HIDE DEF pays, wins
  <2>2. /\ Owed(u) = [p \in Met |-> Taken[p] * pays(p)]
        /\ Owed(u)' = [p \in Met |-> Taken'[p] * pays(p)]
        /\ Gains(u, x) = [p \in Met |-> Taken[p] * wins(p)]
        /\ Gains(u, x)' = [p \in Met |-> Taken'[p] * wins(p)]
    BY <1>7, <2>1 DEF Owed, Gains, pays, wins
  <2>3. /\ Owed(u) \in [Met -> Nat] /\ Tally(Owed(u)) \in Nat
        /\ Gains(u, x) \in [Met -> Nat] /\ Tally(Gains(u, x)) \in Nat
    BY <1>1, <1>11, TakenType
  <2>4. Owed(u)' \in [Met -> Nat] /\ Gains(u, x)' \in [Met -> Nat]
    BY <1>12, <2>1, <2>2, Product
  <2>5. /\ Owed(u)[m] = 0 /\ Owed(u)'[m] = n * pays(m)
        /\ Gains(u, x)[m] = 0 /\ Gains(u, x)'[m] = n * wins(m)
        /\ \A p \in Met \ {m} : Owed(u)'[p] = Owed(u)[p] /\ Gains(u, x)'[p] = Gains(u, x)[p]
    BY <1>7, <1>11, <1>12, <2>1, <2>2
  <2>6. /\ Tally(Owed(u)') = Tally(Owed(u)) + n * pays(m)
        /\ Tally(Gains(u, x)') = Tally(Gains(u, x)) + n * wins(m)
    <3>1. /\ Tally(Owed(u)') = Tally(Owed(u)) + Owed(u)'[m] - Owed(u)[m]
          /\ Tally(Gains(u, x)') = Tally(Gains(u, x)) + Gains(u, x)'[m] - Gains(u, x)[m]
      BY <1>7, <1>8, <2>3, <2>4, <2>5, TallyChange
    <3>2. n * pays(m) \in Nat /\ n * wins(m) \in Nat
      BY <1>5, <1>7, <2>1, Product
    <3> QED BY <2>3, <2>5, <3>1, <3>2
  <2>7. /\ tx.accounts[u].debit = db.accounts[u].debit
        /\ tx.accounts[u].credit = db.accounts[u].credit + Tally(Owed(u))
        /\ tx.positions[u][x] = db.positions[u][x] + Tally(Gains(u, x))
    BY DEF TakingInv
  <2>8. /\ db.accounts[u].credit \in Nat /\ db.positions[u][x] \in Nat
    BY <1>3 DEF Tables, Accounts, Account
  <2>9. n * pays(m) \in Nat /\ n * wins(m) \in Nat
    BY <1>5, <1>7, <2>1, Product
  <2>10. /\ tx'.accounts[u].debit = tx.accounts[u].debit
         /\ tx'.accounts[u].credit = tx.accounts[u].credit + n * pays(m)
         /\ tx'.positions[u][x] = tx.positions[u][x] + n * wins(m)
    BY <1>10 DEF pays, wins
  <2> QED BY <1>1, <2>3, <2>6, <2>7, <2>8, <2>9, <2>10
<1>18. Outcomes # {}
  BY DEF Outcomes
<1> QED BY <1>7, <1>13, <1>14, <1>15, <1>16, <1>17, <1>18 DEF TakingInv

\* Funding adds to what the user was debited and to nothing else of any user.
LEMMA FundMoves ==
    ASSUME NEW t \in Tables, NEW u \in Users, NEW amount \in Nat, NEW n, n = Fund(t, u, amount)
    PROVE  /\ n.orders = t.orders /\ n.positions = t.positions
           /\ \A v \in Users :
                /\ n.accounts[v].credit = t.accounts[v].credit
                /\ n.accounts[v].debit = t.accounts[v].debit + (IF v = u THEN amount ELSE 0)
<1> DEFINE one == Debit(t.accounts, u, amount)
<1>1. /\ t.accounts \in [Accounts -> Account] /\ u \in Accounts /\ Treasury \in Accounts
      /\ \A v \in Users : v \in Accounts /\ v # Treasury
  BY DEF Tables, Accounts
<1>2. /\ one \in [Accounts -> Account] /\ one[u].debit = t.accounts[u].debit + amount
      /\ \A c \in Accounts : one[c].credit = t.accounts[c].credit
      /\ \A c \in Accounts \ {u} : one[c] = t.accounts[c]
  BY <1>1, DebitType
<1> HIDE DEF one
<1>3. \A v \in Users : Credit(one, Treasury, amount)[v] = one[v]
  BY <1>1, <1>2, CreditType
<1>4. \A v \in Users : t.accounts[v].debit \in Nat
  BY <1>1 DEF Account
<1>5. /\ n.accounts = Credit(one, Treasury, amount)
      /\ n.orders = t.orders /\ n.positions = t.positions
  BY DEF Fund, Tables, one
<1> QED BY <1>1, <1>2, <1>3, <1>4, <1>5

\* A step beside the open transaction that leaves what it holds as it is.
LEMMA QuietTaking ==
    ASSUME IInv, Matching, TakingInv, request' = request,
           eng'.taker = eng.taker, eng'.locked = eng.locked, eng'.remaining = eng.remaining,
           \A p \in OrderIds : Locked(p) => db'.orders[p] = db.orders[p] /\ tx'.orders[p] = tx.orders[p],
           \A p \in OrderIds : Inserted(db, p) => born'[p] = born[p],
           db'.positions = db.positions, tx'.positions = tx.positions,
           \A u \in Users : /\ tx'.accounts[u].debit = db'.accounts[u].debit
                            /\ tx'.accounts[u].credit = tx.accounts[u].credit
                            /\ db'.accounts[u].credit = db.accounts[u].credit
    PROVE  TakingInv'
<1>1. /\ Met \subseteq eng.locked /\ Met \subseteq OrderIds /\ eng.taker \in OrderIds
      /\ eng.locked \subseteq OrderIds /\ \A m \in Met : Inserted(db, m)
      /\ Locked(eng.taker) /\ \A m \in eng.locked : Locked(m)
  BY MetFacts, MatchingFacts DEF Locked
<1>2. Met' = Met
  BY <1>1 DEF Met, SameOwner
<1>3. Taken' = Taken
  BY <1>1, <1>2 DEF Taken
<1>4. ASSUME NEW u \in Users, NEW x \in Outcomes
      PROVE  Owed(u)' = Owed(u) /\ Gains(u, x)' = Gains(u, x)
  <2>1. \A m \in Met : /\ AtOnce!Pays(eng.taker, m, u)' = AtOnce!Pays(eng.taker, m, u)
                       /\ AtOnce!Wins(Bet, eng.taker, m, u, x)' = AtOnce!Wins(Bet, eng.taker, m, u, x)
    BY <1>1, SameLegs
  <2> QED BY <1>2, <1>3, <2>1 DEF Owed, Gains
<1>5. (\A m \in eng.locked \ Met : tx.orders[m] = db.orders[m])' /\ (\A m \in Met : TakenRow(m))'
  BY <1>1, <1>2, <1>3 DEF TakingInv, TakenRow
<1>6. TakenInOrder'
  <2>1. \A m, n \in Met : AtOnce!Before(eng.taker, m, n)' <=> AtOnce!Before(eng.taker, m, n)
    BY <1>1 DEF AtOnce!Before, AtOnce!Buys
  <2> QED BY <1>1, <1>2, <1>3, <2>1 DEF TakingInv, TakenInOrder
<1>7. eng'.remaining + Tally(Taken') = db'.orders[eng'.taker].remaining
  BY <1>1, <1>3 DEF TakingInv
<1>8. (\A u \in Users :
         /\ tx.accounts[u].debit = db.accounts[u].debit
         /\ tx.accounts[u].credit = db.accounts[u].credit + Tally(Owed(u))
         /\ \A x \in Outcomes : tx.positions[u][x] = db.positions[u][x] + Tally(Gains(u, x)))'
  <2>1. Outcomes # {}
    BY DEF Outcomes
  <2> QED BY <1>4, <2>1 DEF TakingInv
<1> QED BY <1>5, <1>6, <1>7, <1>8 DEF TakingInv

\* The open transaction goes on accounting for what it has changed.
LEMMA TakingStep == IInv /\ IInv' /\ AtomicInv /\ [Next]_vars => AtomicInv'
<1> SUFFICES ASSUME IInv, IInv', AtomicInv, [Next]_vars, Matching' PROVE TakingInv'
  BY DEF AtomicInv
<1>1. CASE ~Matching
  <2>1. ASSUME EnginePop \/ EngineSkip \/ EngineFail \/ UNCHANGED eng PROVE ~Matching'
    BY <1>1, <2>1 DEF EnginePop, EngineSkip, EngineFail, Matching, Idle
  <2>2. \/ EnginePop \/ EngineSkip \/ EngineFail \/ UNCHANGED eng
        \/ EngineBegin
    BY <1>1 DEF Next, vars, CreateContinues, EngineStep, CreateReadMarket, CreateReadBalance,
         CreateReadReserved, CreateInsert, Enqueue, EnqueueFails, MarkOrderRejected, ApiCrash,
         CancelRead, CancelWrite, FundBalance, UpdateMarketStatus,
         EngineSkipCandidate, EngineFill, EngineCommit
  <2> QED BY <2>1, <2>2, BeginTaking
<1>2. CASE Matching
  <2>1. TakingInv /\ db \in Tables /\ tx \in Tables
    BY <1>2 DEF AtomicInv, IInv, TypeOK
  <2>2. CASE EngineFill
    BY <2>1, <2>2, FillTaking
  <2>3. CASE EngineSkipCandidate
    <3>1. eng'.taker = eng.taker /\ eng'.locked = eng.locked /\ eng'.remaining = eng.remaining
          /\ UNCHANGED <<request, born, db, tx>>
      BY <1>2, <2>3 DEF EngineSkipCandidate, Matching, IInv, TypeOK, EngineStates, Idle
    <3> QED BY <1>2, <2>1, <3>1, QuietTaking DEF TakingInv
  <2>4. CASE UNCHANGED <<request, born, db, tx, eng>>
    BY <1>2, <2>1, <2>4, QuietTaking DEF TakingInv
  <2>5. ASSUME NEW o \in OrderIds, CreateReadMarket(o) PROVE TakingInv'
    <3>1. \A p \in OrderIds : Inserted(db, p) => born'[p] = born[p]
      BY <2>5, OneStarts
    <3> QED BY <1>2, <2>1, <2>5, <3>1, QuietTaking DEF TakingInv, CreateReadMarket
  <2>6. ASSUME NEW o \in OrderIds, MarkOrderRejected(o) \/ CancelWrite(o) PROVE TakingInv'
    <3>1. /\ ~Locked(o) /\ UNCHANGED <<request, born, eng>>
          /\ \E s \in OrderStatuses : db' = SetStatus(db, o, s) /\ tx' = SetStatus(tx, o, s)
      BY <2>6 DEF MarkOrderRejected, CancelWrite, OrderStatuses
    <3>2. /\ \A p \in OrderIds \ {o} : db'.orders[p] = db.orders[p] /\ tx'.orders[p] = tx.orders[p]
          /\ db'.accounts = db.accounts /\ tx'.accounts = tx.accounts
          /\ db'.positions = db.positions /\ tx'.positions = tx.positions
      BY <2>1, <3>1 DEF SetStatus, WithRow, Tables
    <3> QED BY <1>2, <2>1, <3>1, <3>2, QuietTaking DEF TakingInv
  <2>7. ASSUME NEW u \in Users, FundBalance(u) PROVE TakingInv'
    <3>1. PICK amount \in FundAmounts :
            /\ db' = Fund(db, u, amount) /\ tx' = Fund(tx, u, amount)
            /\ UNCHANGED <<request, born, eng>>
      BY <2>7 DEF FundBalance
    <3>2. amount \in Nat
      OBVIOUS
    <3>3. /\ db'.orders = db.orders /\ tx'.orders = tx.orders
          /\ db'.positions = db.positions /\ tx'.positions = tx.positions
          /\ \A v \in Users :
               /\ db'.accounts[v].credit = db.accounts[v].credit
               /\ tx'.accounts[v].credit = tx.accounts[v].credit
               /\ db'.accounts[v].debit = db.accounts[v].debit + (IF v = u THEN amount ELSE 0)
               /\ tx'.accounts[v].debit = tx.accounts[v].debit + (IF v = u THEN amount ELSE 0)
      BY ONLY <2>1, <3>1, <3>2, FundMoves, u \in Users
    <3> QED BY <1>2, <2>1, <3>1, <3>3, QuietTaking DEF TakingInv
  <2>8. \/ EngineFill \/ EngineSkipCandidate \/ UNCHANGED <<request, born, db, tx, eng>>
        \/ \E o \in OrderIds : CreateReadMarket(o) \/ MarkOrderRejected(o) \/ CancelWrite(o)
        \/ \E u \in Users : FundBalance(u)
    BY <1>2 DEF Next, vars, CreateContinues, EngineStep, CreateReadBalance,
         CreateReadReserved, CreateInsert, Enqueue, EnqueueFails, ApiCrash,
         CancelRead, UpdateMarketStatus, EnginePop, EngineSkip, EngineBegin,
         EngineCommit, EngineFail, Matching, Idle
  <2> QED BY <2>2, <2>3, <2>4, <2>5, <2>6, <2>7, <2>8
<1> QED BY <1>1, <1>2

-----------------------------------------------------------------------------
(* Commands                                                                 *)

\* No step but the commit makes an order rest, and that one only its taker.
LEMMA StartsResting ==
    ASSUME IInv, [Next]_vars, NEW o \in OrderIds, Resting(db', o), ~Resting(db, o)
    PROVE  EngineCommit /\ o = eng.taker
<1>1. db \in Tables /\ request \in [OrderIds -> Requests]
  BY DEF IInv, TypeOK
<1>2. ASSUME NEW p \in OrderIds, CreateInsert(p) PROVE FALSE
  <2>1. db'.orders[p].status = "pending_acceptance" /\ \A n \in OrderIds \ {p} : db'.orders[n] = db.orders[n]
    BY <1>1, <1>2, InsertOrderRows DEF CreateInsert
  <2> QED BY <2>1 DEF Resting, RestingStatuses
<1>3. ASSUME NEW p \in OrderIds, NEW s \in ClosedStatuses, db' = SetStatus(db, p, s) PROVE FALSE
  <2>1. db.orders[p] \in OrderRow
    BY <1>1 DEF Tables
  <2>2. [db.orders[p] EXCEPT !.status = s].status = s
    BY <2>1 DEF OrderRow
  <2>3. db'.orders[p].status = s /\ \A n \in OrderIds \ {p} : db'.orders[n] = db.orders[n]
    BY <1>1, <1>3, <2>2 DEF SetStatus, WithRow, Tables
  <2> QED BY <2>3 DEF Resting, RestingStatuses, ClosedStatuses
<1>4. ASSUME NEW u \in Users, FundBalance(u) PROVE FALSE
  <2>1. PICK amount \in FundAmounts : db' = Fund(db, u, amount)
    BY <1>4 DEF FundBalance
  <2>2. db'.orders = db.orders
    BY <1>1, <2>1 DEF Fund, Tables
  <2> QED BY <2>2 DEF Resting
<1>5. db' # db
  BY DEF Resting
<1>6. CASE EngineCommit
  BY <1>6, CommittedRows
<1> QED BY <1>2, <1>3, <1>4, <1>5, <1>6 DEF Next, vars, CreateContinues, EngineStep,
       CreateReadMarket, CreateReadBalance, CreateReadReserved, Enqueue, EnqueueFails,
       MarkOrderRejected, ApiCrash, CancelRead, CancelWrite, UpdateMarketStatus, EnginePop,
       EngineSkip, EngineBegin, EngineSkipCandidate, EngineFill, EngineFail, ClosedStatuses

\* A command that is in hand after a step was so before, or its order had just
\* been inserted; so no order rests whose command is still to come.
LEMMA HandsKeep ==
    ASSUME IInv, CommandsInv, [Next]_vars, InHand' \subseteq OrderIds,
           \A o \in InHand' : o \in InHand \/ intake[o] = "inserted",
           \A o \in OrderIds : intake'[o] = "inserted" =>
               intake[o] = "inserted" \/ db'.orders[o].status = "pending_acceptance",
           EngineCommit => eng.taker \notin InHand' /\ intake'[eng.taker] # "inserted"
    PROVE  \A o \in OrderIds : o \in InHand' \/ intake'[o] = "inserted" => ~Resting(db', o)
<1> SUFFICES ASSUME NEW o \in OrderIds, o \in InHand' \/ intake'[o] = "inserted", Resting(db', o)
             PROVE  FALSE
  OBVIOUS
<1>1. o \in InHand \/ intake[o] = "inserted"
  BY DEF Resting, RestingStatuses
<1>2. ~Resting(db, o)
  BY <1>1 DEF CommandsInv
<1> QED BY <1>2, StartsResting

\* The queue grows by the command of an order that was inserted and not queued yet.
LEMMA HandsGrow ==
    ASSUME IInv, CommandsInv, [Next]_vars, NEW o \in OrderIds, intake[o] = "inserted",
           queue' = Append(queue, o), UNCHANGED <<eng, db>>,
           NEW s \in {"failed", "done"}, intake' = [intake EXCEPT ![o] = s]
    PROVE  CommandsInv'
<1>1. queue \in Seq(OrderIds) /\ intake \in [OrderIds -> IntakeSteps]
      /\ (eng.phase # "idle" => eng.taker \in OrderIds)
  BY EngineType DEF IInv, TypeOK
<1>2. /\ Len(queue) \in Nat /\ DOMAIN queue = 1 .. Len(queue) /\ DOMAIN queue' = 1 .. Len(queue) + 1
      /\ queue'[Len(queue) + 1] = o /\ \A i \in 1 .. Len(queue) : queue'[i] = queue[i]
  BY <1>1, AppendProperties
<1>3. o \notin InHand
  BY DEF CommandsInv
<1>4. /\ \A i \in 1 .. Len(queue) : queue[i] # o /\ queue[i] \in InHand
      /\ eng.phase # "idle" => eng.taker # o /\ eng.taker \in InHand
  BY <1>2, <1>3 DEF InHand
<1>5. InHand' = InHand \cup {o}
  <2>1. {queue'[i] : i \in DOMAIN queue'} = {queue[i] : i \in DOMAIN queue} \cup {o}
    BY <1>2
  <2> QED BY <2>1 DEF InHand
<1>6. InHand \subseteq OrderIds
  BY <1>1, <1>2 DEF InHand
<1>7. \A p \in OrderIds : p \in InHand' \/ intake'[p] = "inserted" => ~Resting(db', p)
  BY <1>1, <1>5 DEF CommandsInv, Resting
<1>8. \A i, j \in DOMAIN queue' : queue'[i] = queue'[j] => i = j
  BY <1>2, <1>4 DEF CommandsInv
<1>9. eng'.phase # "idle" => \A i \in DOMAIN queue' : queue'[i] # eng'.taker
  BY <1>2, <1>4 DEF CommandsInv
<1>10. \A p \in InHand' : intake'[p] \in {"failed", "done"}
  BY <1>1, <1>5, <1>6 DEF CommandsInv
<1> QED BY <1>7, <1>8, <1>9, <1>10 DEF CommandsInv

\* The engine takes the oldest command.
LEMMA HandsPass ==
    ASSUME IInv, CommandsInv, EnginePop
    PROVE  CommandsInv'
<1>1. queue \in Seq(OrderIds) /\ queue # << >> /\ eng.phase = "idle" /\ UNCHANGED <<intake, db>>
      /\ eng' = [phase |-> "popped", taker |-> Head(queue)] /\ queue' = Tail(queue)
  BY DEF IInv, TypeOK, EnginePop
<1>2. /\ Len(queue) \in Nat \ {0} /\ DOMAIN queue = 1 .. Len(queue) /\ queue[1] = Head(queue)
      /\ DOMAIN queue' = 1 .. Len(queue) - 1 /\ \A i \in 1 .. Len(queue) - 1 : queue'[i] = queue[i + 1]
  BY <1>1, HeadTailProperties
<1>3. eng'.phase = "popped" /\ eng'.taker = queue[1]
  BY <1>1, <1>2
<1>4. InHand' = InHand
  <2>1. {queue[i] : i \in DOMAIN queue} = {queue'[i] : i \in DOMAIN queue'} \cup {queue[1]}
    <3>1. \A i \in 1 .. Len(queue) : i # 1 => i - 1 \in 1 .. Len(queue) - 1 /\ queue[i] = queue'[i - 1]
      BY <1>2
    <3>2. 1 \in 1 .. Len(queue) /\ \A i \in 1 .. Len(queue) - 1 : i + 1 \in 1 .. Len(queue)
      BY <1>2
    <3>3. \A i \in 1 .. Len(queue) : queue[i] \in {queue'[j] : j \in DOMAIN queue'} \cup {queue[1]}
      BY <1>2, <3>1
    <3>4. \A i \in DOMAIN queue' : queue'[i] \in {queue[j] : j \in DOMAIN queue}
      BY <1>2, <3>2
    <3>5. queue[1] \in {queue[j] : j \in DOMAIN queue}
      BY <1>2, <3>2
    <3> QED BY <1>2, <3>3, <3>4, <3>5
  <2> QED BY <1>1, <1>3, <2>1 DEF InHand
<1>5. \A i, j \in 1 .. Len(queue) : queue[i] = queue[j] => i = j
  BY <1>2 DEF CommandsInv
<1>6. \A i, j \in DOMAIN queue' : queue'[i] = queue'[j] => i = j
  BY <1>2, <1>5
<1>7. \A i \in DOMAIN queue' : queue'[i] # eng'.taker
  BY <1>2, <1>3, <1>5
<1> QED BY <1>1, <1>4, <1>6, <1>7 DEF CommandsInv, Resting

LEMMA CommandsStep == IInv /\ CommandsInv /\ [Next]_vars => CommandsInv'
<1> SUFFICES ASSUME IInv, CommandsInv, [Next]_vars PROVE CommandsInv'
  OBVIOUS
<1>1. queue \in Seq(OrderIds) /\ intake \in [OrderIds -> IntakeSteps] /\ db \in Tables
      /\ (eng.phase # "idle" => eng.taker \in OrderIds) /\ request \in [OrderIds -> Requests]
  BY EngineType DEF IInv, TypeOK
<1>2. InHand \subseteq OrderIds
  BY <1>1 DEF InHand
\* Neither queue nor engine moves.
<1>3. ASSUME UNCHANGED <<queue, eng>>, NEW o \in OrderIds, NEW s \in IntakeSteps,
             intake' = [intake EXCEPT ![o] = s],
             intake' = intake \/ intake[o] \notin {"failed", "done"} \/ s = "done",
             s = "inserted" => db'.orders[o].status = "pending_acceptance"
      PROVE  CommandsInv'
  <2>1. InHand' = InHand
    BY <1>3 DEF InHand
  <2>2. ~EngineCommit
    BY <1>3 DEF EngineCommit, Matching, Idle
  <2>3. \A p \in OrderIds : p \in InHand' \/ intake'[p] = "inserted" => ~Resting(db', p)
    BY <1>1, <1>2, <1>3, <2>1, <2>2, HandsKeep
  <2>4. \A p \in InHand' : intake'[p] \in {"failed", "done"}
    BY <1>1, <1>2, <1>3, <2>1 DEF CommandsInv
  <2> QED BY <1>3, <2>3, <2>4 DEF CommandsInv
<1>4. ASSUME UNCHANGED <<queue, eng, intake>> PROVE CommandsInv'
  <2>1. InHand' = InHand
    BY <1>4 DEF InHand
  <2>2. ~EngineCommit
    BY <1>4 DEF EngineCommit, Matching, Idle
  <2>3. \A p \in OrderIds : p \in InHand' \/ intake'[p] = "inserted" => ~Resting(db', p)
    BY <1>2, <1>4, <2>1, <2>2, HandsKeep
  <2> QED BY <1>4, <2>1, <2>3 DEF CommandsInv
\* The engine keeps its command or is done with it.
<1>5. ASSUME UNCHANGED <<queue, intake>>, eng.phase # "idle",
             eng'.phase # "idle" => eng'.taker = eng.taker /\ ~EngineCommit
      PROVE  CommandsInv'
  <2>1. InHand' = {queue[i] : i \in DOMAIN queue} \cup (IF eng'.phase = "idle" THEN {} ELSE {eng.taker})
    BY <1>5 DEF InHand
  <2>2. InHand' \subseteq InHand
    BY <1>5, <2>1 DEF InHand
  <2>3. EngineCommit => eng.taker \notin InHand' /\ intake'[eng.taker] # "inserted"
    <3>1. intake[eng.taker] \in {"failed", "done"} /\ \A i \in DOMAIN queue : queue[i] # eng.taker
      BY <1>5 DEF CommandsInv, InHand
    <3> QED BY <1>5, <2>1, <3>1
  <2>4. \A p \in OrderIds : p \in InHand' \/ intake'[p] = "inserted" => ~Resting(db', p)
    BY <1>2, <1>5, <2>2, <2>3, HandsKeep
  <2> QED BY <1>5, <2>2, <2>4 DEF CommandsInv
<1>6. ASSUME NEW o \in OrderIds, CreateReadMarket(o) \/ CreateReadBalance(o) \/ CreateReadReserved(o)
      PROVE  CommandsInv'
  <2>1. PICK s \in {"market_read", "balance_read", "checked", "done"} : intake' = [intake EXCEPT ![o] = s]
    BY <1>6 DEF CreateReadMarket, CreateReadBalance, CreateReadReserved
  <2>2. UNCHANGED <<queue, eng>> /\ intake[o] \notin {"failed", "done"}
    BY <1>6 DEF CreateReadMarket, CreateReadBalance, CreateReadReserved
  <2> QED BY <1>3, <2>1, <2>2 DEF IntakeSteps
<1>7. ASSUME NEW o \in OrderIds, CreateInsert(o) PROVE CommandsInv'
  <2>1. db'.orders[o].status = "pending_acceptance"
    BY <1>1, <1>7, InsertOrderRows DEF CreateInsert
  <2> QED BY <1>3, <1>7, <2>1 DEF CreateInsert, IntakeSteps
<1>8. ASSUME NEW o \in OrderIds, MarkOrderRejected(o) \/ ApiCrash(o) PROVE CommandsInv'
  <2>1. intake' = [intake EXCEPT ![o] = "done"] /\ UNCHANGED <<queue, eng>>
    BY <1>8 DEF MarkOrderRejected, ApiCrash
  <2> QED BY <1>3, <2>1 DEF IntakeSteps
<1>9. ASSUME NEW o \in OrderIds, Enqueue(o) \/ EnqueueFails(o) PROVE CommandsInv'
  <2>1. PICK s \in {"failed", "done"} : intake' = [intake EXCEPT ![o] = s]
    BY <1>9 DEF Enqueue, EnqueueFails
  <2>2. /\ intake[o] = "inserted" /\ UNCHANGED <<eng, db>>
        /\ queue' = queue \/ queue' = Append(queue, o)
    BY <1>9 DEF Enqueue, EnqueueFails
  <2>3. CASE queue' = queue
    BY <1>3, <2>1, <2>2, <2>3 DEF IntakeSteps
  <2>4. CASE queue' = Append(queue, o)
    BY <2>1, <2>2, <2>4, HandsGrow
  <2> QED BY <2>2, <2>3, <2>4
<1>10. CASE EnginePop
  BY <1>10, HandsPass
<1>11. CASE EngineSkip \/ EngineCommit \/ EngineFail
  <2>1. UNCHANGED <<queue, intake>> /\ eng.phase # "idle" /\ eng'.phase = "idle"
    BY <1>11 DEF EngineSkip, EngineCommit, EngineFail, Matching, Idle
  <2> QED BY <1>5, <2>1
<1>12. CASE EngineBegin \/ EngineSkipCandidate \/ EngineFill
  <2>1. eng \in EngineStates
    BY DEF IInv, TypeOK
  <2>2. UNCHANGED <<queue, intake>> /\ eng.phase # "idle"
    BY <1>12 DEF EngineBegin, EngineSkipCandidate, EngineFill, Matching
  <2>3. eng'.taker = eng.taker /\ eng'.phase = "matching"
    <3>1. CASE EngineBegin
      BY <3>1 DEF EngineBegin
    <3>2. CASE EngineSkipCandidate
      BY <2>1, <3>2 DEF EngineSkipCandidate, Matching, EngineStates, Idle
    <3>3. CASE EngineFill
      BY <2>1, <3>3 DEF EngineFill, Matching, EngineStates, Idle
    <3> QED BY <1>12, <3>1, <3>2, <3>3
  <2>4. ~EngineCommit
    BY <2>3 DEF EngineCommit, Idle
  <2> QED BY <1>5, <2>2, <2>3, <2>4
<1>13. \/ UNCHANGED <<queue, eng, intake>>
       \/ \E o \in OrderIds : \/ CreateReadMarket(o) \/ CreateReadBalance(o) \/ CreateReadReserved(o)
                              \/ CreateInsert(o) \/ MarkOrderRejected(o) \/ ApiCrash(o)
                              \/ Enqueue(o) \/ EnqueueFails(o)
       \/ EngineStep \/ EngineFail
  BY DEF Next, vars, CreateContinues, CancelRead, CancelWrite, FundBalance, UpdateMarketStatus
<1> QED BY <1>4, <1>6, <1>7, <1>8, <1>9, <1>10, <1>11, <1>12, <1>13 DEF EngineStep

LEMMA CommandsAreKept == Spec => []CommandsInv
<1>1. Init => CommandsInv
  <2> SUFFICES ASSUME Init PROVE CommandsInv
    OBVIOUS
  <2>1. queue = << >> /\ eng.phase = "idle" /\ InHand = {}
    BY DEF Init, Idle, InHand
  <2>2. \A o \in OrderIds : intake[o] = "idle"
    BY DEF Init
  <2> QED BY <2>1, <2>2 DEF CommandsInv
<1> QED BY <1>1, CommandsStep, Invariant, PTL DEF Spec

-----------------------------------------------------------------------------
(* Matching at once: every step                                             *)

\* The instance has the module of sums to itself.
LEMMA SameTally ==
    ASSUME NEW f
    PROVE  AtOnce!Tally(f) = Tally(f)
BY Zenon DEF Tally, Units, AtOnce!Tally, AtOnce!Units, AtOnce!Cardinality, Cardinality

\* What a commit makes of the tables is one match of its taker.
LEMMA CommitMatches ==
    ASSUME IInv, CommandsInv, TakingInv, EngineCommit
    PROVE  AtOnce!Match(eng.taker)
<1> DEFINE k == eng.taker
<1>1. /\ Matching /\ k \in OrderIds /\ MatchingInv /\ UNCHANGED <<request, born>>
      /\ request \in [OrderIds -> Requests] /\ db \in Tables /\ tx \in Tables /\ Pending \in Tables
      /\ eng.matched \in Nat /\ eng.remaining \in Nat
      /\ db' = Pending /\ Pending = UpdateTaker(tx, k, eng.matched, eng.remaining)
      /\ db'.orders[k].status = TakerStatus(eng.matched, eng.remaining)
      /\ db'.orders[k].remaining = eng.remaining /\ db'.orders[k].matched = eng.matched
      /\ \A p \in OrderIds \ {k} : db'.orders[p] = tx.orders[p]
  BY CommittedRows, MatchingFacts DEF EngineCommit, IInv, EngineInv, TypeOK
<1>2. /\ Met = AtOnce!Counterparties(k) /\ Met \subseteq OrderIds /\ IsFiniteSet(Met) /\ k \notin Met
      /\ \A m \in Met : /\ m \in eng.locked /\ ~SameOwner(k, m) /\ Resting(db, m)
                        /\ db.orders[m].remaining \in Nat /\ tx.orders[m].remaining \in Nat
  BY <1>1, MetFacts
<1>3. Taken \in [Met -> Nat] /\ Tally(Taken) \in Nat
  BY <1>1, TakenType DEF TakingInv, TakenRow
<1>4. \A o \in OrderIds : Book[o].status = db.orders[o].status /\ Book[o].remaining = db.orders[o].remaining
  BY DEF Book
<1>5. /\ \A m \in Met : Taken[m] = db.orders[m].remaining - tx.orders[m].remaining
      /\ eng.remaining + Tally(Taken) = db.orders[k].remaining
      /\ db.orders[k].remaining \in Nat
  BY <1>1 DEF Taken, TakingInv, Tables, OrderRow
<1>6. Taken \in AtOnce!Takings(k)
  <2>1. Taken \in [Met -> 0 .. db.orders[k].remaining]
    <3>1. ASSUME NEW m \in Met PROVE Taken[m] <= Tally(Taken)
      <4> DEFINE rest == Cardinality(Units(Taken, Met \ {m}))
      <4>1. rest \in Nat /\ Tally(Taken) = rest + Taken[m]
        BY <1>2, <1>3, TallySplit
      <4> HIDE DEF rest
      <4> QED BY <1>3, <4>1
    <3>2. \A m \in Met : Taken[m] \in 0 .. db.orders[k].remaining
      BY <1>1, <1>3, <1>5, <3>1
    <3> QED BY <1>3, <3>2
  <2>2. \A m \in Met : Taken[m] <= db.orders[m].remaining
    BY <1>2, <1>5
  <2>3. \A m, n \in Met : AtOnce!Before(k, m, n) /\ Taken[n] > 0 => Taken[m] = db.orders[m].remaining
    BY <1>2, <1>5 DEF TakingInv, TakenInOrder
  <2>4. Tally(Taken) <= db.orders[k].remaining
    BY <1>1, <1>3, <1>5
  <2>5. Tally(Taken) = db.orders[k].remaining \/ \A m \in Met : Taken[m] = db.orders[m].remaining
    <3>1. CASE eng.remaining = 0
      BY <1>3, <1>5, <3>1
    <3>2. CASE eng.remaining # 0
      <4> SUFFICES ASSUME NEW m \in Met PROVE Taken[m] = db.orders[m].remaining
        OBVIOUS
      <4>1. ~Resting(tx, m)
        BY <1>1, <1>2, <3>2 DEF MatchingInv, EngineCommit
      <4>2. tx.orders[m].remaining = 0
        BY <1>2, <4>1 DEF TakingInv, TakenRow, Resting, RestingStatuses
      <4> QED BY <1>2, <1>5, <4>2
    <3> QED BY <3>1, <3>2
  <2>6. Book[k].remaining = db.orders[k].remaining /\ \A m \in Met : Book[m].remaining = db.orders[m].remaining
    BY <1>1, <1>2, <1>4
  <2> HIDE DEF k
  <2> QED BY <1>2, <2>1, <2>2, <2>3, <2>4, <2>5, <2>6, SameTally DEF AtOnce!Takings
<1>7. Book' = [o \in OrderIds |->
                 IF o = k THEN AtOnce!Traded(k, AtOnce!Tally(Taken))
                 ELSE IF o \in DOMAIN Taken /\ Taken[o] > 0 THEN AtOnce!Traded(o, Taken[o])
                 ELSE Book[o]]
  <2>1. \A o \in OrderIds :
          Book'[o] = [status |-> db'.orders[o].status, remaining |-> db'.orders[o].remaining]
    BY DEF Book
  <2>2. Book'[k] = AtOnce!Traded(k, AtOnce!Tally(Taken))
    <3>1. db.orders[k].remaining - Tally(Taken) = eng.remaining
      BY <1>1, <1>3, <1>5
    <3>2. OrderAgrees(Pending, k) /\ request[k].quantity \in Nat
      BY <1>1, RequestType DEF IInv, Consistent
    <3>3. eng.matched + eng.remaining = request[k].quantity
      BY <1>1, <3>2 DEF OrderAgrees, TakerStatus
    <3>4. eng.remaining = request[k].quantity <=> eng.matched = 0
      BY <1>1, <3>2, <3>3
    <3>5. Book[k].remaining - Tally(Taken) = eng.remaining
      BY <1>1, <1>4, <3>1
    <3>6. AtOnce!Traded(k, AtOnce!Tally(Taken))
            = [status    |-> IF eng.remaining = request[k].quantity THEN "open"
                             ELSE IF eng.remaining = 0 THEN "filled" ELSE "partially_filled",
               remaining |-> eng.remaining]
      BY <3>5, SameTally DEF AtOnce!Traded
    <3>7. Book'[k] = [status |-> TakerStatus(eng.matched, eng.remaining), remaining |-> eng.remaining]
      BY <1>1, <2>1
    <3> QED BY <3>4, <3>6, <3>7 DEF TakerStatus
  <2>3. ASSUME NEW o \in Met, Taken[o] > 0 PROVE Book'[o] = AtOnce!Traded(o, Taken[o])
    <3>1. db.orders[o].remaining - Taken[o] = tx.orders[o].remaining
      BY <1>2, <1>5
    <3>2. OrderAgrees(db, o) /\ request[o].quantity \in Nat /\ db.orders[o].matched \in Nat
      BY <1>1, <1>2, RequestType DEF IInv, Consistent, Tables, OrderRow
    <3>3. tx.orders[o].remaining # request[o].quantity
      BY <1>2, <1>5, <2>3, <3>2 DEF OrderAgrees, Resting, RestingStatuses
    <3>4. tx.orders[o].status = IF tx.orders[o].remaining = 0 THEN "filled" ELSE "partially_filled"
      BY <2>3 DEF TakingInv, TakenRow
    <3>5. Book[o].remaining - Taken[o] = tx.orders[o].remaining
      BY <1>2, <1>4, <3>1
    <3>6. AtOnce!Traded(o, Taken[o])
            = [status    |-> IF tx.orders[o].remaining = 0 THEN "filled" ELSE "partially_filled",
               remaining |-> tx.orders[o].remaining]
      BY <3>3, <3>5 DEF AtOnce!Traded
    <3>7. Book'[o] = [status |-> tx.orders[o].status, remaining |-> tx.orders[o].remaining]
      BY <1>1, <1>2, <2>1
    <3> QED BY <3>4, <3>6, <3>7
  <2>4. ASSUME NEW o \in OrderIds, o # k, ~(o \in Met /\ Taken[o] > 0) PROVE Book'[o] = Book[o]
    <3>1. CASE o \in Met
      <4>1. Taken[o] = 0
        BY <1>3, <2>4, <3>1
      <4> QED BY <1>1, <1>2, <1>5, <2>1, <2>4, <3>1, <4>1 DEF TakingInv, TakenRow, Book
    <3>2. CASE o \notin Met
      <4>1. tx.orders[o] = db.orders[o]
        BY <1>1, <3>2 DEF TakingInv, MatchingInv
      <4> QED BY <1>1, <2>1, <2>4, <4>1 DEF Book
    <3> QED BY <3>1, <3>2
  <2> DEFINE new == [o \in OrderIds |->
                       IF o = k THEN AtOnce!Traded(k, AtOnce!Tally(Taken))
                       ELSE IF o \in DOMAIN Taken /\ Taken[o] > 0 THEN AtOnce!Traded(o, Taken[o])
                       ELSE Book[o]]
  <2>5. DOMAIN Taken = Met
    BY <1>3
  <2>6. \A o \in OrderIds : Book'[o] = new[o]
    BY <1>1, <1>2, <2>2, <2>3, <2>4, <2>5
  <2>7. Book' = [o \in OrderIds |-> Book'[o]]
    BY DEF Book
  <2> QED BY <2>6, <2>7
<1>8. tx.accounts = db'.accounts /\ tx.positions = db'.positions
  BY <1>1 DEF UpdateTaker, WithRow, Tables
<1>9. Cash' = [u \in Users |->
                 Cash[u] - AtOnce!Tally([m \in DOMAIN Taken |-> Taken[m] * AtOnce!Pays(k, m, u)])]
  <2>1. ASSUME NEW u \in Users
        PROVE  Balance(db, u)' = Balance(db, u) - Tally(Owed(u))
    <3>1. /\ tx.accounts[u].debit = db.accounts[u].debit
          /\ tx.accounts[u].credit = db.accounts[u].credit + Tally(Owed(u))
      BY DEF TakingInv
    <3>2. Tally(Owed(u)) \in Nat /\ db.accounts[u].credit \in Nat /\ db.accounts[u].debit \in Nat
      BY <1>1, TakenType DEF TakingInv, TakenRow, Tables, Accounts, Account
    <3> QED BY <1>8, <3>1, <3>2 DEF Balance
  <2>2. ASSUME NEW u \in Users
        PROVE  Tally(Owed(u)) = AtOnce!Tally([m \in DOMAIN Taken |-> Taken[m] * AtOnce!Pays(k, m, u)])
    <3>1. Owed(u) = [m \in DOMAIN Taken |-> Taken[m] * AtOnce!Pays(k, m, u)]
      BY <1>3 DEF Owed
    <3> QED BY <3>1, SameTally
  <2> QED BY <2>1, <2>2 DEF Cash
<1>10. db'.positions = [u \in Users |-> [x \in Outcomes |-> db.positions[u][x]
                          + AtOnce!Tally([m \in DOMAIN Taken |-> Taken[m] * AtOnce!Wins(Bet, k, m, u, x)])]]
  <2>1. \A u \in Users, x \in Outcomes : db'.positions[u][x] = db.positions[u][x] + Tally(Gains(u, x))
    BY <1>8 DEF TakingInv
  <2>2. ASSUME NEW u \in Users, NEW x \in Outcomes
        PROVE  Tally(Gains(u, x))
                 = AtOnce!Tally([m \in DOMAIN Taken |-> Taken[m] * AtOnce!Wins(Bet, k, m, u, x)])
    <3>1. Gains(u, x) = [m \in DOMAIN Taken |-> Taken[m] * AtOnce!Wins(Bet, k, m, u, x)]
      BY <1>3 DEF Gains
    <3> QED BY <3>1, SameTally
  <2>3. db'.positions \in [Users -> [Outcomes -> Nat]]
    BY <1>1 DEF Tables
  <2>4. ASSUME NEW u \in Users
        PROVE  db'.positions[u] = [x \in Outcomes |-> db.positions[u][x]
                 + AtOnce!Tally([m \in DOMAIN Taken |-> Taken[m] * AtOnce!Wins(Bet, k, m, u, x)])]
    <3>1. db'.positions[u] = [x \in Outcomes |-> db'.positions[u][x]]
      BY <2>3
    <3> QED BY <2>1, <2>2, <3>1
  <2>5. db'.positions = [u \in Users |-> db'.positions[u]]
    BY <2>3
  <2> QED BY <2>4, <2>5
<1>11. Bet \in AtOnce!Bets
  <2>1. \A o \in OrderIds : request[o].side \in {"buy", "sell"} /\ request[o].outcome \in Outcomes
    BY <1>1, RequestType
  <2> QED BY <2>1 DEF AtOnce!Bets, AtOnce!Buys, Bet, PositionOutcome, Outcomes
<1>12. Book[k].status = "pending_acceptance"
  <2>1. k \in InHand
    BY <1>1 DEF InHand, Matching
  <2>2. ~Resting(db, k)
    BY <1>1, <2>1 DEF CommandsInv
  <2> QED BY <1>1, <1>4, <2>2 DEF MatchingInv, Active, ActiveStatuses, Resting, RestingStatuses
<1> HIDE DEF k
<1> QED BY <1>1, <1>6, <1>7, <1>9, <1>10, <1>11, <1>12 DEF AtOnce!Match, k

LEMMA SendStep ==
    ASSUME IInv, NEW o \in OrderIds, CreateReadMarket(o)
    PROVE  AtOnce!Send(o)
<1>1. /\ born \in [OrderIds -> Nat] /\ intake[o] = "idle" /\ UNCHANGED <<request, db>>
      /\ born' = [born EXCEPT ![o] = Cardinality(Started)]
  BY DEF IInv, TypeOK, CreateReadMarket, Started
<1> DEFINE last == Cardinality(Started)
<1>2. ~Inserted(db, o) /\ \A p \in OrderIds : Inserted(db, p) => born[p] < last
  BY <1>1 DEF IInv, IntakeInv, Started
<1> HIDE DEF last
<1>3. born'[o] = last /\ born' = [born EXCEPT ![o] = born'[o]]
  BY <1>1 DEF last
<1>4. UNCHANGED <<Book, Cash>>
  BY <1>1 DEF Book, Cash, Balance
<1>5. \A p \in OrderIds : AtOnce!Listed(p) <=> Inserted(db, p)
  BY DEF AtOnce!Listed, Book, Inserted
<1> QED BY <1>1, <1>2, <1>3, <1>4, <1>5 DEF AtOnce!Send

LEMMA PlaceStep ==
    ASSUME IInv, NEW o \in OrderIds, CreateInsert(o)
    PROVE  AtOnce!Place(o)
<1>1. /\ ~Inserted(db, o) /\ ValidRequest(o) /\ UNCHANGED <<request, born>>
      /\ db' = InsertOrder(db, o) /\ db \in Tables /\ request \in [OrderIds -> Requests]
  BY DEF CreateInsert, IInv, TypeOK, IntakeInv
<1>2. Required(o) \in Nat
  BY <1>1, RequestType, Product DEF Required
<1>3. /\ db'.orders[o].status = "pending_acceptance" /\ db'.orders[o].remaining = request[o].quantity
      /\ \A p \in OrderIds \ {o} : db'.orders[p] = db.orders[p]
      /\ db'.accounts = db.accounts /\ db'.positions = db.positions
  BY <1>1 DEF InsertOrder, WithRow, Tables
<1>4. Book' = [Book EXCEPT ![o] = [status |-> "pending_acceptance", remaining |-> request[o].quantity]]
  BY <1>3 DEF Book
<1>5. Cash' = Cash
  BY <1>3 DEF Cash, Balance
<1>6. ~AtOnce!Listed(o) /\ AtOnce!Valid(o)
  BY <1>1 DEF AtOnce!Listed, AtOnce!Valid, Book, Inserted, ValidRequest
<1> QED BY <1>1, <1>3, <1>4, <1>5, <1>6 DEF AtOnce!Place

LEMMA CloseStep ==
    ASSUME IInv, NEW o \in OrderIds, MarkOrderRejected(o) \/ CancelWrite(o)
    PROVE  AtOnce!Close(o)
<1>1. PICK s \in {"cancelled", "rejected"} : db' = SetStatus(db, o, s)
  BY DEF MarkOrderRejected, CancelWrite
<1>2. Inserted(db, o) /\ db \in Tables /\ UNCHANGED <<request, born>>
  BY DEF IInv, TypeOK, IntakeInv, NamesInv, MarkOrderRejected, CancelWrite
<1>3. /\ db'.orders[o].status = s /\ db'.orders[o].remaining = db.orders[o].remaining
      /\ \A p \in OrderIds \ {o} : db'.orders[p] = db.orders[p]
      /\ db'.accounts = db.accounts /\ db'.positions = db.positions
  <2>1. db.orders[o] \in OrderRow
    BY <1>2 DEF Tables
  <2>2. [db.orders[o] EXCEPT !.status = s].status = s
        /\ [db.orders[o] EXCEPT !.status = s].remaining = db.orders[o].remaining
    BY <2>1 DEF OrderRow
  <2> QED BY <1>1, <1>2, <2>2 DEF SetStatus, WithRow, Tables
<1>4. Book' = [Book EXCEPT ![o].status = s]
  BY <1>3 DEF Book
<1>5. Cash' = Cash
  BY <1>3 DEF Cash, Balance
<1>6. AtOnce!Listed(o)
  BY <1>2 DEF AtOnce!Listed, Book, Inserted
<1> QED BY <1>1, <1>2, <1>3, <1>4, <1>5, <1>6 DEF AtOnce!Close

LEMMA FundStep ==
    ASSUME IInv, NEW u \in Users, FundBalance(u)
    PROVE  AtOnce!Fund(u)
<1>1. PICK amount \in FundAmounts : db' = Fund(db, u, amount)
  BY DEF FundBalance
<1>2. amount \in Nat /\ db \in Tables /\ UNCHANGED <<request, born>>
  BY DEF FundBalance, IInv, TypeOK
<1>3. /\ db'.orders = db.orders /\ db'.positions = db.positions
      /\ \A v \in Users :
           /\ db'.accounts[v].credit = db.accounts[v].credit
           /\ db'.accounts[v].debit = db.accounts[v].debit + (IF v = u THEN amount ELSE 0)
  BY ONLY <1>1, <1>2, FundMoves, u \in Users
<1>4. \A v \in Users : db.accounts[v].credit \in Nat /\ db.accounts[v].debit \in Nat
  BY <1>2 DEF Tables, Accounts, Account
<1>5. \A v \in Users : Cash'[v] = Cash[v] + (IF v = u THEN amount ELSE 0)
  BY <1>3, <1>4 DEF Cash, Balance
<1>6. Cash[u] \in Int /\ Cash' \in [Users -> Int] /\ Cash \in [Users -> Int]
  <2>1. \A v \in Users : Cash[v] = db.accounts[v].debit - db.accounts[v].credit
    BY DEF Cash, Balance
  <2>2. \A v \in Users : Cash[v] \in Int /\ Cash'[v] \in Int
    BY <1>2, <1>4, <1>5, <2>1
  <2>3. Cash = [v \in Users |-> Cash[v]] /\ Cash' = [v \in Users |-> Cash'[v]]
    BY DEF Cash
  <2> QED BY <2>2, <2>3
<1>7. Cash' = [Cash EXCEPT ![u] = Cash'[u]] /\ Cash'[u] >= Cash[u]
  BY <1>2, <1>5, <1>6
<1>8. Book' = Book
  BY <1>3 DEF Book
<1> QED BY <1>2, <1>3, <1>7, <1>8 DEF AtOnce!Fund

\* The exchange implements AtomicExchange: whatever the requests, faults and
\* interleavings, each order meets its counterparties at one moment, in price
\* and time order, at their prices, and takes as much as there is.
THEOREM Atomic == Spec => MatchesAtOnce
<1>1. Init => AtOnce!Init /\ AtomicInv
  <2> SUFFICES ASSUME Init PROVE AtOnce!Init /\ AtomicInv
    OBVIOUS
  <2>1. Book = [o \in OrderIds |-> [status |-> "absent", remaining |-> 0]]
    BY DEF Init, Book
  <2>2. Cash = [u \in Users |-> InitialFunds]
    <3>1. \A u \in Users : u \in Accounts /\ u # Treasury
      BY DEF Accounts
    <3>2. \A u \in Users : Balance(db, u) = InitialFunds
      BY <3>1 DEF Init, Balance
    <3> QED BY <3>2 DEF Cash
  <2> QED BY <2>1, <2>2 DEF Init, AtOnce!Init, AtomicInv, Matching, Idle
<1>2. IInv /\ CommandsInv /\ AtomicInv /\ [Next]_vars => [AtOnce!Next]_AtOnce!vars
  <2> SUFFICES ASSUME IInv, CommandsInv, AtomicInv, [Next]_vars PROVE [AtOnce!Next]_AtOnce!vars
    OBVIOUS
  <2>1. CASE UNCHANGED <<request, born, db>>
    BY <2>1 DEF AtOnce!vars, Book, Cash, Balance
  <2>2. CASE EngineCommit
    <3>1. eng.taker \in OrderIds /\ TakingInv
      BY <2>2, MatchingFacts DEF EngineCommit, AtomicInv
    <3> QED BY <2>2, <3>1, CommitMatches DEF AtOnce!Next
  <2>3. CASE \E o \in OrderIds : CreateReadMarket(o) \/ CreateInsert(o)
                                 \/ MarkOrderRejected(o) \/ CancelWrite(o)
    BY <2>3, SendStep, PlaceStep, CloseStep DEF AtOnce!Next
  <2>4. CASE \E u \in Users : FundBalance(u)
    BY <2>4, FundStep DEF AtOnce!Next
  <2> QED BY <2>1, <2>2, <2>3, <2>4 DEF Next, vars, CreateContinues, EngineStep,
         CreateReadBalance, CreateReadReserved, Enqueue, EnqueueFails, ApiCrash, CancelRead,
         UpdateMarketStatus, EnginePop, EngineSkip, EngineBegin, EngineSkipCandidate, EngineFill,
         EngineFail
<1> QED BY <1>1, <1>2, TakingStep, Invariant, CommandsAreKept, PTL DEF Spec, MatchesAtOnce, AtOnce!Spec

-----------------------------------------------------------------------------
(* No order is forgotten                                                    *)

\* Only the insert makes an order pending.
LEMMA StartsPending ==
    ASSUME IInv, AtomicInv, [Next]_vars, NEW o \in OrderIds,
           db'.orders[o].status = "pending_acceptance", db.orders[o].status # "pending_acceptance"
    PROVE  intake'[o] = "inserted"
<1>1. db \in Tables /\ request \in [OrderIds -> Requests] /\ intake \in [OrderIds -> IntakeSteps]
  BY DEF IInv, TypeOK
<1>2. ASSUME NEW p \in OrderIds, CreateInsert(p) PROVE intake'[o] = "inserted"
  <2>1. \A n \in OrderIds \ {p} : db'.orders[n] = db.orders[n]
    BY <1>1, <1>2, InsertOrderRows DEF CreateInsert
  <2> QED BY <1>1, <1>2, <2>1 DEF CreateInsert
<1>3. ASSUME NEW p \in OrderIds, NEW s \in ClosedStatuses, db' = SetStatus(db, p, s) PROVE FALSE
  <2>1. db.orders[p] \in OrderRow
    BY <1>1 DEF Tables
  <2>2. [db.orders[p] EXCEPT !.status = s].status = s
    BY <2>1 DEF OrderRow
  <2>3. db'.orders[p].status = s /\ \A n \in OrderIds \ {p} : db'.orders[n] = db.orders[n]
    BY <1>1, <1>3, <2>2 DEF SetStatus, WithRow, Tables
  <2> QED BY <2>3 DEF ClosedStatuses
<1>4. ASSUME NEW u \in Users, FundBalance(u) PROVE FALSE
  <2>1. PICK amount \in FundAmounts : db' = Fund(db, u, amount)
    BY <1>4 DEF FundBalance
  <2>2. db'.orders = db.orders
    BY <1>1, <2>1 DEF Fund, Tables
  <2> QED BY <2>2
<1>5. db' # db
  OBVIOUS
<1>6. CASE EngineCommit
  <2>1. /\ Matching /\ db' = Pending /\ TakingInv
        /\ \A p \in OrderIds : ~Locked(p) => db'.orders[p] = db.orders[p]
    BY <1>6, CommittedRows DEF EngineCommit, AtomicInv
  <2>2. o # eng.taker
    BY <2>1, MatchingFacts DEF TakerStatus
  <2>3. o \in eng.locked /\ db'.orders[o] = tx.orders[o]
    BY <2>1, <2>2, MatchingFacts DEF Locked
  <2> QED BY <2>1, <2>3 DEF TakingInv, TakenRow, Met
<1> QED BY <1>2, <1>3, <1>4, <1>5, <1>6 DEF Next, vars, CreateContinues, EngineStep,
       CreateReadMarket, CreateReadBalance, CreateReadReserved, Enqueue, EnqueueFails,
       MarkOrderRejected, ApiCrash, CancelRead, CancelWrite, UpdateMarketStatus, EnginePop,
       EngineSkip, EngineBegin, EngineSkipCandidate, EngineFill, EngineFail, ClosedStatuses

\* What leaves the hands of request, queue and engine is no longer pending.
LEMMA LeavesHandsDecided ==
    ASSUME IInv, [Next]_vars, {"api", "engine"} \cap Faults = {}, NEW o \in OrderIds,
           o \in InHand \/ intake[o] \in {"inserted", "failed"},
           db'.orders[o].status = "pending_acceptance"
    PROVE  o \in InHand' \/ intake'[o] \in {"inserted", "failed"}
<1>1. /\ queue \in Seq(OrderIds) /\ intake \in [OrderIds -> IntakeSteps] /\ db \in Tables
      /\ eng \in EngineStates
  BY DEF IInv, TypeOK
<1>2. CASE intake[o] \in {"inserted", "failed"}
  <2>1. CASE Enqueue(o)
    <3>1. DOMAIN queue' = 1 .. Len(queue) + 1 /\ queue'[Len(queue) + 1] = o /\ Len(queue) \in Nat
      BY <1>1, <2>1, AppendProperties DEF Enqueue
    <3> QED BY <3>1 DEF InHand
  <2>2. CASE MarkOrderRejected(o)
    <3>1. db.orders[o] \in OrderRow
      BY <1>1 DEF Tables
    <3>2. [db.orders[o] EXCEPT !.status = "rejected"].status = "rejected"
      BY <3>1 DEF OrderRow
    <3>3. db'.orders[o].status = "rejected"
      BY <1>1, <2>2, <3>2 DEF MarkOrderRejected, SetStatus, WithRow, Tables
    <3> QED BY <3>3
  <2>3. CASE ~Enqueue(o) /\ ~MarkOrderRejected(o)
    <3>1. ASSUME NEW p \in OrderIds,
                 CreateReadMarket(p) \/ CreateReadBalance(p) \/ CreateReadReserved(p) \/ CreateInsert(p)
          PROVE  intake'[o] = intake[o]
      BY <1>1, <1>2, <3>1 DEF CreateReadMarket, CreateReadBalance, CreateReadReserved, CreateInsert
    <3>2. ASSUME NEW p \in OrderIds, Enqueue(p) \/ MarkOrderRejected(p)
          PROVE  intake'[o] = intake[o]
      BY <1>1, <2>3, <3>2 DEF Enqueue, MarkOrderRejected
    <3>3. ASSUME NEW p \in OrderIds, EnqueueFails(p)
          PROVE  intake'[o] \in {"inserted", "failed"}
      BY <1>1, <1>2, <3>3 DEF EnqueueFails
    <3>4. ASSUME NEW p \in OrderIds, ApiCrash(p)
          PROVE  FALSE
      BY <3>4 DEF ApiCrash
    <3>5. \/ UNCHANGED intake
          \/ \E p \in OrderIds :
               \/ CreateReadMarket(p) \/ CreateReadBalance(p) \/ CreateReadReserved(p) \/ CreateInsert(p)
               \/ Enqueue(p) \/ MarkOrderRejected(p) \/ EnqueueFails(p) \/ ApiCrash(p)
      BY DEF Next, vars, CreateContinues, EngineStep, CancelRead, CancelWrite, FundBalance,
         UpdateMarketStatus, EnginePop, EngineSkip, EngineBegin, EngineSkipCandidate, EngineFill,
         EngineCommit, EngineFail
    <3> QED BY <1>2, <3>1, <3>2, <3>3, <3>4, <3>5
  <2> QED BY <2>1, <2>2, <2>3
<1>3. CASE o \in InHand
  <2>1. CASE UNCHANGED <<queue, eng>>
    BY <1>3, <2>1 DEF InHand
  <2>2. ASSUME NEW p \in OrderIds, Enqueue(p) \/ EnqueueFails(p) PROVE o \in InHand'
    <3>1. UNCHANGED eng /\ (queue' = queue \/ queue' = Append(queue, p))
      BY <2>2 DEF Enqueue, EnqueueFails
    <3>2. \A i \in DOMAIN queue : i \in DOMAIN queue' /\ queue'[i] = queue[i]
      BY <1>1, <3>1, AppendProperties
    <3> QED BY <1>3, <3>1, <3>2 DEF InHand
  <2>3. CASE EnginePop
    <3>1. eng'.phase = "popped" /\ eng'.taker = Head(queue) /\ queue' = Tail(queue)
          /\ queue # << >> /\ eng.phase = "idle"
      BY <2>3 DEF EnginePop
    <3>2. PICK i \in 1 .. Len(queue) : queue[i] = o
      BY <1>1, <1>3, <3>1 DEF InHand
    <3>3. CASE i = 1
      BY <1>1, <3>1, <3>2, <3>3 DEF InHand
    <3>4. CASE i # 1
      <4>1. i - 1 \in DOMAIN queue' /\ queue'[i - 1] = o
        BY <1>1, <3>1, <3>2, <3>4, HeadTailProperties
      <4> QED BY <4>1 DEF InHand
    <3> QED BY <3>3, <3>4
  <2>4. CASE EngineSkip \/ EngineCommit
    <3>1. UNCHANGED queue
      BY <2>4 DEF EngineSkip, EngineCommit
    <3>2. eng.taker # o
      <4>1. CASE EngineSkip
        BY <4>1 DEF EngineSkip, Final
      <4>2. CASE EngineCommit
        BY <4>2, CommittedRows, MatchingFacts DEF EngineCommit, TakerStatus
      <4> QED BY <2>4, <4>1, <4>2
    <3> QED BY <1>3, <3>1, <3>2 DEF InHand
  <2>5. CASE EngineBegin \/ EngineSkipCandidate \/ EngineFill
    <3>1. UNCHANGED queue /\ eng.phase # "idle"
      BY <2>5 DEF EngineBegin, EngineSkipCandidate, EngineFill, Matching
    <3>2. eng'.taker = eng.taker /\ eng'.phase = "matching"
      <4>1. CASE EngineBegin
        BY <4>1 DEF EngineBegin
      <4>2. CASE EngineSkipCandidate
        BY <1>1, <4>2 DEF EngineSkipCandidate, Matching, EngineStates, Idle
      <4>3. CASE EngineFill
        BY <1>1, <4>3 DEF EngineFill, Matching, EngineStates, Idle
      <4> QED BY <2>5, <4>1, <4>2, <4>3
    <3> QED BY <1>3, <3>1, <3>2 DEF InHand
  <2>6. ~EngineFail
    BY DEF EngineFail
  <2>7. \/ UNCHANGED <<queue, eng>> \/ EngineStep
        \/ \E p \in OrderIds : Enqueue(p) \/ EnqueueFails(p)
    BY <2>6 DEF Next, vars, CreateContinues, CreateReadMarket, CreateReadBalance, CreateReadReserved,
         CreateInsert, MarkOrderRejected, ApiCrash, CancelRead, CancelWrite, FundBalance, UpdateMarketStatus
  <2> QED BY <2>1, <2>2, <2>3, <2>4, <2>5, <2>7 DEF EngineStep
<1> QED BY <1>2, <1>3

\* An order is left pending for ever only if the API or the engine dies: the
\* queue's failures alone, with or without effect, lose none.
THEOREM OnlyCrashesForget == Spec => []NoneForgotten
<1>1. Init => NoneForgotten /\ AtomicInv
  BY DEF Init, NoneForgotten, AtomicInv, Matching, Idle
<1>2. IInv /\ AtomicInv /\ NoneForgotten /\ [Next]_vars => NoneForgotten'
  <2> SUFFICES ASSUME IInv, AtomicInv, NoneForgotten, [Next]_vars,
                      {"api", "engine"} \cap Faults = {}, NEW o \in OrderIds,
                      db'.orders[o].status = "pending_acceptance"
               PROVE  o \in InHand' \/ intake'[o] \in {"inserted", "failed"}
    BY DEF NoneForgotten
  <2>1. CASE db.orders[o].status = "pending_acceptance"
    <3>1. o \in InHand \/ intake[o] \in {"inserted", "failed"}
      BY <2>1 DEF NoneForgotten
    <3> QED BY <3>1, LeavesHandsDecided
  <2>2. CASE db.orders[o].status # "pending_acceptance"
    BY <2>2, StartsPending
  <2> QED BY <2>1, <2>2
<1> QED BY <1>1, <1>2, TakingStep, Invariant, PTL DEF Spec
=============================================================================
