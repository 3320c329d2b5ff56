--------------------------- MODULE ExchangeTables ---------------------------
(***************************************************************************)
(* What each statement that changes the tables preserves: their types, and *)
(* the agreement of orders, trades, positions and ledger (Consistent).     *)
(* Every lemma is about an arbitrary version t of the tables.              *)
(***************************************************************************)
EXTENDS ExchangeInvariant, TallyTheorems, SequenceTheorems

USE SizesAssumption, FiniteAssumption, AccountsAssumption

-----------------------------------------------------------------------------
(* Types *)

\* The fields of a request, and what a share of it costs.
LEMMA RequestType ==
    ASSUME request \in [OrderIds -> Requests], NEW o \in OrderIds
    PROVE  /\ request[o].user \in Users
           /\ request[o].side \in {"buy", "sell"}
           /\ request[o].outcome \in Outcomes
           /\ request[o].price \in 0 .. Unit
           /\ request[o].quantity \in Nat
           /\ UnitCost(o) \in Nat
BY RequestsAssumption DEF UnitCost

\* A product of naturals is a natural, and monotonic.
LEMMA Product ==
    ASSUME NEW a \in Nat, NEW b \in Nat
    PROVE  a * b \in Nat
OBVIOUS

LEMMA ProductMonotonic ==
    ASSUME NEW a \in Nat, NEW b \in Nat, NEW c \in Nat, b <= c
    PROVE  a * b <= a * c
OBVIOUS

\* Replacing a row of the orders table leaves the rest alone.
LEMMA WithRowType ==
    ASSUME NEW t \in Tables, NEW o \in OrderIds, NEW row \in OrderRow
    PROVE  /\ WithRow(t, o, row) \in Tables
           /\ WithRow(t, o, row).orders[o] = row
           /\ \A p \in OrderIds \ {o} : WithRow(t, o, row).orders[p] = t.orders[p]
           /\ WithRow(t, o, row).accounts = t.accounts
           /\ WithRow(t, o, row).positions = t.positions
           /\ WithRow(t, o, row).trades = t.trades
<1> DEFINE orders == [t.orders EXCEPT ![o] = row]
<1>1. t.orders \in [OrderIds -> OrderRow]
  BY DEF Tables
<1>2. orders \in [OrderIds -> OrderRow]
  BY <1>1
<1>3. orders[o] = row /\ \A p \in OrderIds \ {o} : orders[p] = t.orders[p]
  BY <1>1
<1> HIDE DEF orders
<1>4. WithRow(t, o, row) = [t EXCEPT !.orders = orders]
  BY DEF WithRow, orders, Tables
<1> QED BY <1>2, <1>3, <1>4 DEF Tables

LEMMA InsertOrderType ==
    ASSUME request \in [OrderIds -> Requests], NEW t \in Tables, NEW o \in OrderIds
    PROVE  InsertOrder(t, o) \in Tables
<1>1. Required(o) \in Nat
  BY RequestType, Product DEF Required
<1> QED BY <1>1, RequestType, WithRowType DEF InsertOrder, OrderRow, OrderStatuses

LEMMA SetStatusType ==
    ASSUME NEW t \in Tables, NEW o \in OrderIds, NEW s \in OrderStatuses
    PROVE  SetStatus(t, o, s) \in Tables
<1>1. t.orders[o] \in OrderRow
  BY DEF Tables
<1>2. [t.orders[o] EXCEPT !.status = s] \in OrderRow
  BY <1>1 DEF OrderRow
<1> QED BY <1>2, WithRowType DEF SetStatus

LEMMA UpdateTakerType ==
    ASSUME NEW t \in Tables, NEW o \in OrderIds, NEW m \in Nat, NEW r \in Nat
    PROVE  UpdateTaker(t, o, m, r) \in Tables
<1>1. t.orders[o] \in OrderRow
  BY DEF Tables
<1>2. TakerStatus(m, r) \in OrderStatuses
  BY DEF TakerStatus, OrderStatuses
<1>3. [t.orders[o] EXCEPT !.status = TakerStatus(m, r), !.matched = m, !.remaining = r]
        \in OrderRow
  BY <1>1, <1>2 DEF OrderRow
<1> QED BY <1>3, WithRowType DEF UpdateTaker

LEMMA DebitType ==
    ASSUME NEW accounts \in [Accounts -> Account], NEW a \in Accounts, NEW n \in Nat
    PROVE  /\ Debit(accounts, a, n) \in [Accounts -> Account]
           /\ Debit(accounts, a, n)[a].debit = accounts[a].debit + n
           /\ \A c \in Accounts : Debit(accounts, a, n)[c].credit = accounts[c].credit
           /\ \A c \in Accounts \ {a} : Debit(accounts, a, n)[c] = accounts[c]
<1> DEFINE new == [accounts[a] EXCEPT !.debit = @ + n]
<1>1. new \in Account /\ new.debit = accounts[a].debit + n /\ new.credit = accounts[a].credit
  BY DEF Account
<1>2. Debit(accounts, a, n) = [accounts EXCEPT ![a] = new]
  BY DEF Debit
<1> HIDE DEF new
<1> QED BY <1>1, <1>2

LEMMA CreditType ==
    ASSUME NEW accounts \in [Accounts -> Account], NEW a \in Accounts, NEW n \in Nat
    PROVE  /\ Credit(accounts, a, n) \in [Accounts -> Account]
           /\ Credit(accounts, a, n)[a].credit = accounts[a].credit + n
           /\ \A c \in Accounts : Credit(accounts, a, n)[c].debit = accounts[c].debit
           /\ \A c \in Accounts \ {a} : Credit(accounts, a, n)[c] = accounts[c]
<1> DEFINE new == [accounts[a] EXCEPT !.credit = @ + n]
<1>1. new \in Account /\ new.credit = accounts[a].credit + n /\ new.debit = accounts[a].debit
  BY DEF Account
<1>2. Credit(accounts, a, n) = [accounts EXCEPT ![a] = new]
  BY DEF Credit
<1> HIDE DEF new
<1> QED BY <1>1, <1>2

LEMMA UpsertPositionType ==
    ASSUME NEW positions \in [Users -> [Outcomes -> Nat]],
           NEW u \in Users, NEW x \in Outcomes, NEW q \in Nat
    PROVE  UpsertPosition(positions, u, x, q) \in [Users -> [Outcomes -> Nat]]
BY DEF UpsertPosition

LEMMA FundType ==
    ASSUME NEW t \in Tables, NEW u \in Users, NEW amount \in Nat
    PROVE  Fund(t, u, amount) \in Tables
<1> DEFINE accounts == Credit(Debit(t.accounts, u, amount), Treasury, amount)
<1>1. t.accounts \in [Accounts -> Account] /\ u \in Accounts /\ Treasury \in Accounts
  BY DEF Tables, Accounts
<1>2. accounts \in [Accounts -> Account]
  BY <1>1, DebitType, CreditType
<1> HIDE DEF accounts
<1>3. Fund(t, u, amount) = [t EXCEPT !.accounts = accounts]
  BY DEF Fund, accounts, Tables
<1> QED BY <1>2, <1>3 DEF Tables

LEMMA FillType ==
    ASSUME request \in [OrderIds -> Requests], NEW t \in Tables,
           NEW taker \in OrderIds, NEW maker \in OrderIds,
           NEW q \in Nat, q <= t.orders[maker].remaining
    PROVE  Fill(t, taker, maker, q) \in Tables
<1> DEFINE b == BuyerOf(taker, maker)
           s == SellerOf(taker, maker)
           gross == q * request[maker].price
           new == MakerRow(t.orders[maker], q)
           accounts == PostTrade(t.accounts, request[b].user, request[s].user, q, gross)
           once == UpsertPosition(t.positions, request[taker].user, PositionOutcome(taker), q)
           positions == UpsertPosition(once, request[maker].user, PositionOutcome(maker), q)
           trade == [taker |-> taker, maker |-> maker, quantity |-> q,
                     price |-> request[maker].price]
<1>1. /\ b \in OrderIds /\ s \in OrderIds
      /\ request[b].user \in Users /\ request[s].user \in Users
  BY RequestType DEF BuyerOf, SellerOf
<1>2. gross \in Nat /\ q * Unit \in Nat /\ q * Unit - gross \in Nat
  BY RequestType, Product, ProductMonotonic
<1>3. [t.orders EXCEPT ![maker] = new] \in [OrderIds -> OrderRow]
  <2>1. t.orders \in [OrderIds -> OrderRow] /\ t.orders[maker] \in OrderRow
    BY DEF Tables
  <2>2. /\ t.orders[maker].remaining - q \in Nat
        /\ t.orders[maker].matched + q \in Nat
    BY <2>1 DEF OrderRow
  <2>3. new \in OrderRow
    BY <2>1, <2>2 DEF MakerRow, OrderRow, OrderStatuses
  <2> HIDE DEF new
  <2> QED BY <2>1, <2>3
<1>4. accounts \in [Accounts -> Account]
  <2>1. /\ t.accounts \in [Accounts -> Account] /\ MarketAccount \in Accounts
        /\ request[b].user \in Accounts /\ request[s].user \in Accounts
    BY <1>1 DEF Tables, Accounts
  <2> HIDE DEF gross, b, s
  <2>2. Credit(t.accounts, request[b].user, gross) \in [Accounts -> Account]
    BY <1>2, <2>1, CreditType
  <2>3. Credit(Credit(t.accounts, request[b].user, gross), request[s].user, q * Unit - gross)
          \in [Accounts -> Account]
    BY <1>2, <2>1, <2>2, CreditType
  <2> QED BY <1>2, <2>1, <2>3, DebitType DEF PostTrade
<1>5. positions \in [Users -> [Outcomes -> Nat]]
  <2>1. PositionOutcome(taker) \in Outcomes /\ PositionOutcome(maker) \in Outcomes
    BY RequestType DEF PositionOutcome, Outcomes
  <2>2. t.positions \in [Users -> [Outcomes -> Nat]]
    BY DEF Tables
  <2>3. once \in [Users -> [Outcomes -> Nat]]
    BY <2>1, <2>2, RequestType, UpsertPositionType
  <2> HIDE DEF once
  <2> QED BY <2>1, <2>3, RequestType, UpsertPositionType
<1>6. Append(t.trades, trade) \in Seq(Trade)
  <2>1. trade \in Trade
    BY RequestType DEF Trade
  <2>2. t.trades \in Seq(Trade)
    BY DEF Tables
  <2> HIDE DEF trade
  <2> QED BY <2>1, <2>2, AppendProperties
<1> QED BY <1>3, <1>4, <1>5, <1>6 DEF Fill, Tables

-----------------------------------------------------------------------------
(* Sums over the trades *)

\* A leg of a trade costs between nothing and one unit a share.
LEMMA LegType ==
    ASSUME NEW t \in Tables, NEW i \in DOMAIN t.trades, NEW o \in OrderIds
    PROVE  /\ LegPrice(t, i, o) \in Nat
           /\ t.trades[i].quantity \in Nat
           /\ t.trades[i].quantity * LegPrice(t, i, o) \in Nat
<1>1. t.trades[i] \in Trade
  BY DEF Tables
<1>2. LegPrice(t, i, o) \in Nat /\ t.trades[i].quantity \in Nat
  BY <1>1 DEF LegPrice, Trade
<1> QED BY <1>2, Product

\* The trades of a version of the tables are finitely many.
LEMMA TradesFinite ==
    ASSUME NEW t \in Tables
    PROVE  /\ Len(t.trades) \in Nat /\ DOMAIN t.trades = 1 .. Len(t.trades)
           /\ IsFiniteSet(DOMAIN t.trades)
<1>1. t.trades \in Seq(Trade)
  BY DEF Tables
<1>2. Len(t.trades) \in Nat /\ DOMAIN t.trades = 1 .. Len(t.trades)
  BY <1>1, LenProperties
<1> QED BY <1>2, FS_Interval

LEMMA TradeSums ==
    ASSUME NEW t \in Tables, NEW o \in OrderIds
    PROVE  TradedBy(t, o) \in Nat /\ Paid(t, o) \in Nat
<1> DEFINE shares == [i \in DOMAIN t.trades |->
                        IF o \in {t.trades[i].taker, t.trades[i].maker}
                        THEN t.trades[i].quantity ELSE 0]
           costs == [i \in DOMAIN t.trades |->
                        IF o \in {t.trades[i].taker, t.trades[i].maker}
                        THEN t.trades[i].quantity * LegPrice(t, i, o) ELSE 0]
<1>1. shares \in [DOMAIN t.trades -> Nat] /\ costs \in [DOMAIN t.trades -> Nat]
  BY LegType
<1> HIDE DEF shares, costs
<1>2. Tally(shares) \in Nat /\ Tally(costs) \in Nat
  BY <1>1, TradesFinite, TallyType
<1> QED BY <1>2 DEF shares, costs, TradedBy, Paid

\* An order that is on no side of any trade has traded and paid nothing.
LEMMA NoTrades ==
    ASSUME NEW t \in Tables, NEW o \in OrderIds,
           \A i \in DOMAIN t.trades : o \notin {t.trades[i].taker, t.trades[i].maker}
    PROVE  TradedBy(t, o) = 0 /\ Paid(t, o) = 0
<1> DEFINE shares == [i \in DOMAIN t.trades |->
                        IF o \in {t.trades[i].taker, t.trades[i].maker}
                        THEN t.trades[i].quantity ELSE 0]
           costs == [i \in DOMAIN t.trades |->
                        IF o \in {t.trades[i].taker, t.trades[i].maker}
                        THEN t.trades[i].quantity * LegPrice(t, i, o) ELSE 0]
<1>1. /\ \A i \in DOMAIN shares : shares[i] = 0
      /\ \A i \in DOMAIN costs : costs[i] = 0
  OBVIOUS
<1> HIDE DEF shares, costs
<1>2. Tally(shares) = 0 /\ Tally(costs) = 0
  BY <1>1, TallyZero
<1> QED BY <1>2 DEF shares, costs, TradedBy, Paid

\* The sums only look at the trades.
LEMMA SameTrades ==
    ASSUME NEW t, NEW n, n.trades = t.trades
    PROVE  /\ \A o \in OrderIds : TradedBy(n, o) = TradedBy(t, o) /\ Paid(n, o) = Paid(t, o)
           /\ \A u \in Users : PaidBy(n, u) = PaidBy(t, u)
           /\ \A u \in Users, x \in Outcomes : WonBy(n, u, x) = WonBy(t, u, x)
<1>1. \A o \in OrderIds : TradedBy(n, o) = TradedBy(t, o) /\ Paid(n, o) = Paid(t, o)
  BY DEF TradedBy, Paid, LegPrice
<1> QED BY <1>1 DEF PaidBy, WonBy

\* What one share at price p costs the side of order o.
Leg(o, p) == IF request[o].side = "buy" THEN p ELSE Unit - p

\* Appending a trade keeps the earlier ones and adds an index.
LEMMA AppendTrade ==
    ASSUME NEW t \in Tables, NEW n \in Tables, NEW trade \in Trade,
           n.trades = Append(t.trades, trade)
    PROVE  /\ Len(t.trades) + 1 \notin DOMAIN t.trades
           /\ DOMAIN n.trades = DOMAIN t.trades \cup {Len(t.trades) + 1}
           /\ n.trades[Len(t.trades) + 1] = trade
           /\ \A i \in DOMAIN t.trades : n.trades[i] = t.trades[i]
<1>1. t.trades \in Seq(Trade)
  BY DEF Tables
<1>2. Len(t.trades) \in Nat /\ DOMAIN t.trades = 1 .. Len(t.trades)
  BY TradesFinite
<1>3. /\ Len(n.trades) = Len(t.trades) + 1
      /\ \A i \in 1 .. Len(t.trades) : n.trades[i] = t.trades[i]
      /\ n.trades[Len(t.trades) + 1] = trade
  BY <1>1, AppendProperties
<1>4. DOMAIN n.trades = 1 .. Len(t.trades) + 1
  BY <1>3, TradesFinite
<1> QED BY <1>2, <1>3, <1>4

\* One more trade adds to the sums of its two orders.
LEMMA OneMoreTrade ==
    ASSUME NEW t \in Tables, NEW n \in Tables, NEW last,
           last \notin DOMAIN t.trades, DOMAIN n.trades = DOMAIN t.trades \cup {last},
           \A i \in DOMAIN t.trades : n.trades[i] = t.trades[i],
           NEW o \in OrderIds
    PROVE  LET trade == n.trades[last] IN
           /\ o \in {trade.taker, trade.maker} =>
                /\ TradedBy(n, o) = TradedBy(t, o) + trade.quantity
                /\ Paid(n, o) = Paid(t, o) + trade.quantity * Leg(o, trade.price)
           /\ o \notin {trade.taker, trade.maker} =>
                TradedBy(n, o) = TradedBy(t, o) /\ Paid(n, o) = Paid(t, o)
<1> DEFINE S == DOMAIN t.trades
           trade == n.trades[last]
           sharesT == [i \in DOMAIN t.trades |->
                        IF o \in {t.trades[i].taker, t.trades[i].maker}
                        THEN t.trades[i].quantity ELSE 0]
           sharesN == [i \in DOMAIN n.trades |->
                        IF o \in {n.trades[i].taker, n.trades[i].maker}
                        THEN n.trades[i].quantity ELSE 0]
           costsT == [i \in DOMAIN t.trades |->
                        IF o \in {t.trades[i].taker, t.trades[i].maker}
                        THEN t.trades[i].quantity * LegPrice(t, i, o) ELSE 0]
           costsN == [i \in DOMAIN n.trades |->
                        IF o \in {n.trades[i].taker, n.trades[i].maker}
                        THEN n.trades[i].quantity * LegPrice(n, i, o) ELSE 0]
<1>1. IsFiniteSet(S) /\ last \notin S
  BY TradesFinite
<1>2. /\ sharesT \in [S -> Nat] /\ sharesN \in [S \cup {last} -> Nat]
      /\ costsT \in [S -> Nat] /\ costsN \in [S \cup {last} -> Nat]
  BY LegType
<1>3. /\ \A i \in S : sharesN[i] = sharesT[i]
      /\ \A i \in S : costsN[i] = costsT[i]
  BY DEF LegPrice
<1>4. /\ sharesN[last] = IF o \in {trade.taker, trade.maker} THEN trade.quantity ELSE 0
      /\ costsN[last] = IF o \in {trade.taker, trade.maker}
                          THEN trade.quantity * Leg(o, trade.price) ELSE 0
  BY DEF LegPrice, Leg
<1>5. TradedBy(n, o) = Tally(sharesN) /\ TradedBy(t, o) = Tally(sharesT)
  BY DEF TradedBy
<1>6. Paid(n, o) = Tally(costsN) /\ Paid(t, o) = Tally(costsT)
  BY DEF Paid
<1> HIDE DEF sharesT, sharesN, costsT, costsN, S, trade
<1>7. Tally(sharesN) = Tally(sharesT) + sharesN[last]
  BY <1>1, <1>2, <1>3, TallyExtend
<1>8. Tally(costsN) = Tally(costsT) + costsN[last]
  BY <1>1, <1>2, <1>3, TallyExtend
<1>9. TradedBy(t, o) \in Nat /\ Paid(t, o) \in Nat
  BY TradeSums
<1> QED BY <1>4, <1>5, <1>6, <1>7, <1>8, <1>9 DEF trade

-----------------------------------------------------------------------------
(* Sums over the ledger and the positions *)

LEMMA AccountsFinite == IsFiniteSet(Accounts)
<1>1. IsFiniteSet(Users \cup {Treasury})
  BY FS_AddElement
<1>2. Accounts = (Users \cup {Treasury}) \cup {MarketAccount}
  BY DEF Accounts
<1> QED BY <1>1, <1>2, FS_AddElement

\* A ledger entry changes the total of its own side and not that of the other.
LEMMA DebitSums ==
    ASSUME NEW accounts \in [Accounts -> Account], NEW a \in Accounts, NEW n \in Nat
    PROVE  /\ Debits(accounts) \in Nat /\ Credits(accounts) \in Nat
           /\ Debits(Debit(accounts, a, n)) = Debits(accounts) + n
           /\ Credits(Debit(accounts, a, n)) = Credits(accounts)
<1> DEFINE new == Debit(accounts, a, n)
           f == [c \in Accounts |-> accounts[c].debit]
           g == [c \in Accounts |-> new[c].debit]
           h == [c \in Accounts |-> accounts[c].credit]
<1>1. /\ new \in [Accounts -> Account]
      /\ new[a].debit = accounts[a].debit + n
      /\ \A c \in Accounts : new[c].credit = accounts[c].credit
      /\ \A c \in Accounts \ {a} : new[c] = accounts[c]
  BY DebitType
<1> HIDE DEF new
<1>2. /\ f \in [Accounts -> Nat] /\ g \in [Accounts -> Nat] /\ h \in [Accounts -> Nat]
      /\ g[a] = f[a] + n /\ \A c \in Accounts \ {a} : g[c] = f[c]
      /\ accounts[a].debit \in Nat
  BY <1>1 DEF Account
<1>3. Debits(accounts) = Tally(f) /\ Debits(new) = Tally(g) /\ Credits(accounts) = Tally(h)
  BY DEF Debits, Credits
<1>4. Credits(new) = Credits(accounts)
  BY <1>1 DEF Credits
<1> HIDE DEF f, g, h
<1>5. Tally(g) = Tally(f) + g[a] - f[a]
  BY <1>2, AccountsFinite, TallyChange
<1>6. Tally(f) \in Nat /\ Tally(h) \in Nat /\ f[a] \in Nat
  BY <1>2, AccountsFinite, TallyType
<1> QED BY <1>2, <1>3, <1>4, <1>5, <1>6 DEF new

LEMMA CreditSums ==
    ASSUME NEW accounts \in [Accounts -> Account], NEW a \in Accounts, NEW n \in Nat
    PROVE  /\ Credits(Credit(accounts, a, n)) = Credits(accounts) + n
           /\ Debits(Credit(accounts, a, n)) = Debits(accounts)
<1> DEFINE new == Credit(accounts, a, n)
           f == [c \in Accounts |-> accounts[c].credit]
           g == [c \in Accounts |-> new[c].credit]
<1>1. /\ new \in [Accounts -> Account]
      /\ new[a].credit = accounts[a].credit + n
      /\ \A c \in Accounts : new[c].debit = accounts[c].debit
      /\ \A c \in Accounts \ {a} : new[c] = accounts[c]
  BY CreditType
<1> HIDE DEF new
<1>2. /\ f \in [Accounts -> Nat] /\ g \in [Accounts -> Nat]
      /\ g[a] = f[a] + n /\ \A c \in Accounts \ {a} : g[c] = f[c]
  BY <1>1 DEF Account
<1>3. Credits(accounts) = Tally(f) /\ Credits(new) = Tally(g)
  BY DEF Credits
<1>4. Debits(new) = Debits(accounts)
  BY <1>1 DEF Debits
<1> HIDE DEF f, g
<1>5. Tally(g) = Tally(f) + g[a] - f[a]
  BY <1>2, AccountsFinite, TallyChange
<1>6. Tally(f) \in Nat /\ f[a] \in Nat
  BY <1>2, AccountsFinite, TallyType
<1> QED BY <1>2, <1>3, <1>4, <1>5, <1>6 DEF new

\* Shares given to a user are added to those held of their outcome.
LEMMA HeldSums ==
    ASSUME NEW positions \in [Users -> [Outcomes -> Nat]],
           NEW u \in Users, NEW y \in Outcomes, NEW q \in Nat, NEW x \in Outcomes
    PROVE  /\ Held(positions, x) \in Nat
           /\ Held(UpsertPosition(positions, u, y, q), x) =
                Held(positions, x) + (IF x = y THEN q ELSE 0)
<1> DEFINE new == UpsertPosition(positions, u, y, q)
           f == [v \in Users |-> positions[v][x]]
           g == [v \in Users |-> new[v][x]]
<1>6. IsFiniteSet(Users)
  OBVIOUS
<1> HIDE SizesAssumption, FiniteAssumption, AccountsAssumption
<1>1. new \in [Users -> [Outcomes -> Nat]]
  BY UpsertPositionType
<1>7. \A v \in Users : new[v][x] = positions[v][x] + (IF v = u /\ x = y THEN q ELSE 0)
  BY DEF UpsertPosition
<1> HIDE DEF new
<1>2. /\ f \in [Users -> Nat] /\ g \in [Users -> Nat]
      /\ g[u] = f[u] + (IF x = y THEN q ELSE 0) /\ \A v \in Users \ {u} : g[v] = f[v]
  BY <1>1, <1>7
<1>3. Held(positions, x) = Tally(f) /\ Held(new, x) = Tally(g)
  BY DEF Held
<1> HIDE DEF f, g
<1>4. Tally(g) = Tally(f) + g[u] - f[u]
  BY <1>2, <1>6, TallyChange
<1>5. Tally(f) \in Nat /\ f[u] \in Nat
  BY <1>2, <1>6, TallyType
<1> QED BY <1>2, <1>3, <1>4, <1>5 DEF new

-----------------------------------------------------------------------------
(* What a match adds, user by user *)

\* If the two orders of a new trade belong to different users, each of the two
\* has paid for one order more and holds the shares of one order more.
LEMMA TwoOrdersChange ==
    ASSUME request \in [OrderIds -> Requests],
           NEW t \in Tables, NEW n \in Tables,
           NEW k \in OrderIds, NEW m \in OrderIds, request[k].user # request[m].user,
           \A o \in OrderIds \ {k, m} :
              TradedBy(n, o) = TradedBy(t, o) /\ Paid(n, o) = Paid(t, o),
           NEW u \in Users, NEW x \in Outcomes
    PROVE  /\ PaidBy(t, u) \in Nat /\ WonBy(t, u, x) \in Nat
           /\ PaidBy(n, u) = PaidBy(t, u)
                + (IF request[k].user = u THEN Paid(n, k) - Paid(t, k) ELSE 0)
                + (IF request[m].user = u THEN Paid(n, m) - Paid(t, m) ELSE 0)
           /\ WonBy(n, u, x) = WonBy(t, u, x)
                + (IF request[k].user = u /\ Wins(k, x) THEN TradedBy(n, k) - TradedBy(t, k) ELSE 0)
                + (IF request[m].user = u /\ Wins(m, x) THEN TradedBy(n, m) - TradedBy(t, m) ELSE 0)
<1> DEFINE f == [o \in OrderIds |-> IF request[o].user = u THEN Paid(t, o) ELSE 0]
           g == [o \in OrderIds |-> IF request[o].user = u THEN Paid(n, o) ELSE 0]
           v == [o \in OrderIds |-> IF request[o].user = u /\ Wins(o, x)
                                    THEN TradedBy(t, o) ELSE 0]
           w == [o \in OrderIds |-> IF request[o].user = u /\ Wins(o, x)
                                    THEN TradedBy(n, o) ELSE 0]
<1>1. \A o \in OrderIds : /\ TradedBy(t, o) \in Nat /\ TradedBy(n, o) \in Nat
                          /\ Paid(t, o) \in Nat /\ Paid(n, o) \in Nat
  BY TradeSums
<1>2. /\ f \in [OrderIds -> Nat] /\ g \in [OrderIds -> Nat]
      /\ v \in [OrderIds -> Nat] /\ w \in [OrderIds -> Nat]
  BY <1>1
<1>3. /\ \A o \in OrderIds \ {k, m} : g[o] = f[o]
      /\ \A o \in OrderIds \ {k, m} : w[o] = v[o]
  OBVIOUS
<1>4. /\ g[k] - f[k] = IF request[k].user = u THEN Paid(n, k) - Paid(t, k) ELSE 0
      /\ g[m] - f[m] = IF request[m].user = u THEN Paid(n, m) - Paid(t, m) ELSE 0
  BY <1>1
<1>5. /\ w[k] - v[k] = IF request[k].user = u /\ Wins(k, x)
                       THEN TradedBy(n, k) - TradedBy(t, k) ELSE 0
      /\ w[m] - v[m] = IF request[m].user = u /\ Wins(m, x)
                       THEN TradedBy(n, m) - TradedBy(t, m) ELSE 0
  BY <1>1
<1>6. /\ PaidBy(t, u) = Tally(f) /\ PaidBy(n, u) = Tally(g)
      /\ WonBy(t, u, x) = Tally(v) /\ WonBy(n, u, x) = Tally(w)
  BY DEF PaidBy, WonBy
<1>7. k # m /\ IsFiniteSet(OrderIds)
  OBVIOUS
<1> HIDE SizesAssumption, FiniteAssumption, AccountsAssumption DEF f, g, v, w
<1>8. Tally(f) \in Nat /\ Tally(v) \in Nat
  BY <1>2, <1>7, TallyType
<1>9. Tally(g) = Tally(f) + (g[k] - f[k]) + (g[m] - f[m])
  <2>1. f \in [OrderIds -> Nat] /\ g \in [OrderIds -> Nat]
    BY <1>2
  <2>2. \A o \in OrderIds \ {k, m} : g[o] = f[o]
    BY <1>3
  <2> QED BY <2>1, <2>2, <1>7, TallyChangeTwo
<1>10. Tally(w) = Tally(v) + (w[k] - v[k]) + (w[m] - v[m])
  <2>1. v \in [OrderIds -> Nat] /\ w \in [OrderIds -> Nat]
    BY <1>2
  <2>2. \A o \in OrderIds \ {k, m} : w[o] = v[o]
    BY <1>3
  <2> QED BY <2>1, <2>2, <1>7, TallyChangeTwo
<1> QED BY <1>4, <1>5, <1>6, <1>8, <1>9, <1>10

-----------------------------------------------------------------------------
(* Consistency *)

\* A row that agrees with the trades can be put in place of any other.
LEMMA WithRowConsistent ==
    ASSUME request \in [OrderIds -> Requests],
           NEW t \in Tables, Consistent(t), NEW o \in OrderIds, NEW row \in OrderRow,
           row.status # "absent", row.matched = TradedBy(t, o),
           row.matched + row.remaining = request[o].quantity,
           row.status = "filled" => row.remaining = 0,
           row.status \in ActiveStatuses => row.remaining > 0,
           Paid(t, o) + row.remaining * UnitCost(o) <= row.max_total_cost
    PROVE  Consistent(WithRow(t, o, row))
<1> DEFINE n == WithRow(t, o, row)
<1>1. /\ n \in Tables /\ n.orders[o] = row
      /\ \A p \in OrderIds \ {o} : n.orders[p] = t.orders[p]
      /\ n.accounts = t.accounts /\ n.positions = t.positions /\ n.trades = t.trades
  BY WithRowType
<1> HIDE DEF n
<1>2. /\ \A p \in OrderIds : TradedBy(n, p) = TradedBy(t, p) /\ Paid(n, p) = Paid(t, p)
      /\ \A u \in Users : PaidBy(n, u) = PaidBy(t, u)
      /\ \A u \in Users, x \in Outcomes : WonBy(n, u, x) = WonBy(t, u, x)
  BY <1>1, SameTrades
<1>3. ASSUME NEW i \in DOMAIN n.trades
      PROVE  Inserted(n, n.trades[i].taker) /\ Inserted(n, n.trades[i].maker)
  <2>1. t.trades[i] \in Trade
    BY <1>1 DEF Tables
  <2>2. Inserted(t, t.trades[i].taker) /\ Inserted(t, t.trades[i].maker)
    BY <1>1 DEF Consistent
  <2> QED BY <1>1, <2>1, <2>2 DEF Inserted, Trade
<1>4. ASSUME NEW p \in OrderIds PROVE OrderAgrees(n, p) /\ WithinReserved(n, p)
  <2>1. OrderAgrees(t, p) /\ WithinReserved(t, p)
    BY DEF Consistent
  <2> QED BY <1>1, <1>2, <2>1 DEF OrderAgrees, WithinReserved
<1>5. ASSUME NEW x \in Outcomes PROVE Backed(n, x)
  <2>1. Backed(t, x)
    BY DEF Consistent
  <2> QED BY <1>1, <2>1 DEF Backed, Balance
<1>6. /\ Debits(n.accounts) = Credits(n.accounts)
      /\ \A u \in Users : n.accounts[u].credit = PaidBy(n, u)
      /\ NumOutcomes = 2 =>
           \A u \in Users, x \in Outcomes : n.positions[u][x] = WonBy(n, u, x)
  BY <1>1, <1>2 DEF Consistent
<1>7. Consistent(n)
  BY <1>3, <1>4, <1>5, <1>6 DEF Consistent
<1> QED BY <1>7 DEF n

LEMMA InsertOrderConsistent ==
    ASSUME request \in [OrderIds -> Requests], NEW t \in Tables, Consistent(t),
           NEW o \in OrderIds, ~Inserted(t, o), ValidRequest(o)
    PROVE  Consistent(InsertOrder(t, o))
<1> DEFINE row == [status |-> "pending_acceptance", matched |-> 0,
                   remaining |-> request[o].quantity, max_total_cost |-> Required(o)]
<1>1. Required(o) \in Nat /\ Required(o) = request[o].quantity * UnitCost(o)
  BY RequestType, Product DEF Required
<1>2. row \in OrderRow
  BY <1>1, RequestType DEF OrderRow, OrderStatuses
<1>3. \A i \in DOMAIN t.trades : o \notin {t.trades[i].taker, t.trades[i].maker}
  BY DEF Consistent
<1>4. TradedBy(t, o) = 0 /\ Paid(t, o) = 0
  BY <1>3, NoTrades
<1>5. /\ row.status = "pending_acceptance" /\ row.matched = 0
      /\ row.remaining = request[o].quantity /\ row.max_total_cost = Required(o)
      /\ request[o].quantity \in Nat /\ request[o].quantity > 0
  BY RequestType DEF ValidRequest
<1>6. InsertOrder(t, o) = WithRow(t, o, row)
  BY DEF InsertOrder
<1> HIDE DEF row
<1> QED BY <1>1, <1>2, <1>4, <1>5, <1>6, WithRowConsistent

LEMMA SetStatusConsistent ==
    ASSUME request \in [OrderIds -> Requests], NEW t \in Tables, Consistent(t),
           NEW o \in OrderIds, Inserted(t, o), NEW s \in ClosedStatuses
    PROVE  Consistent(SetStatus(t, o, s))
<1> DEFINE row == [t.orders[o] EXCEPT !.status = s]
<1>1. t.orders[o] \in OrderRow
  BY DEF Tables
<1>2. /\ row \in OrderRow /\ row.status = s /\ row.matched = t.orders[o].matched
      /\ row.remaining = t.orders[o].remaining
      /\ row.max_total_cost = t.orders[o].max_total_cost
  BY <1>1 DEF OrderRow, ClosedStatuses, OrderStatuses
<1>3. OrderAgrees(t, o) /\ WithinReserved(t, o) /\ t.orders[o].status # "absent"
  BY DEF Consistent, Inserted
<1>4. s # "filled" /\ s \notin ActiveStatuses /\ s # "absent"
  BY DEF ClosedStatuses, ActiveStatuses
<1>5. SetStatus(t, o, s) = WithRow(t, o, row)
  BY DEF SetStatus
<1> HIDE DEF row
<1> QED BY <1>2, <1>3, <1>4, <1>5, WithRowConsistent DEF OrderAgrees, WithinReserved

\* The engine takes up an active order: its row is written back as it is, with
\* the status that its quantities call for.
LEMMA AcceptConsistent ==
    ASSUME request \in [OrderIds -> Requests], NEW t \in Tables, Consistent(t),
           NEW o \in OrderIds, Active(t, o)
    PROVE  Consistent(UpdateTaker(t, o, t.orders[o].matched, t.orders[o].remaining))
<1> DEFINE s == TakerStatus(t.orders[o].matched, t.orders[o].remaining)
           row == [t.orders[o] EXCEPT !.status = s, !.matched = t.orders[o].matched,
                                      !.remaining = t.orders[o].remaining]
<1>1. t.orders[o] \in OrderRow
  BY DEF Tables
<1>2. s \in OrderStatuses
  BY DEF TakerStatus, OrderStatuses
<1>3. /\ row \in OrderRow /\ row.status = s /\ row.matched = t.orders[o].matched
      /\ row.remaining = t.orders[o].remaining
      /\ row.max_total_cost = t.orders[o].max_total_cost
  BY <1>1, <1>2 DEF OrderRow
<1>4. OrderAgrees(t, o) /\ WithinReserved(t, o) /\ t.orders[o].status # "absent"
  BY DEF Consistent, Active, ActiveStatuses
<1>5. t.orders[o].remaining > 0
  BY <1>4 DEF OrderAgrees, Active
<1>6. s # "absent" /\ s # "filled"
  BY <1>5 DEF TakerStatus
<1>7. UpdateTaker(t, o, t.orders[o].matched, t.orders[o].remaining) = WithRow(t, o, row)
  BY DEF UpdateTaker
<1> HIDE DEF row, s
<1> QED BY <1>3, <1>4, <1>5, <1>6, <1>7, WithRowConsistent DEF OrderAgrees, WithinReserved

LEMMA FundConsistent ==
    ASSUME NEW t \in Tables, Consistent(t), NEW u \in Users, NEW amount \in Nat
    PROVE  Consistent(Fund(t, u, amount))
<1> DEFINE once == Debit(t.accounts, u, amount)
           accounts == Credit(once, Treasury, amount)
           n == Fund(t, u, amount)
<1>1. /\ t.accounts \in [Accounts -> Account]
      /\ u \in Accounts /\ Treasury \in Accounts /\ MarketAccount \in Accounts
      /\ u # Treasury /\ u # MarketAccount /\ Treasury # MarketAccount
      /\ \A v \in Users : v \in Accounts /\ v # Treasury
  BY DEF Tables, Accounts
<1>2. /\ once \in [Accounts -> Account]
      /\ \A c \in Accounts : once[c].credit = t.accounts[c].credit
      /\ once[MarketAccount] = t.accounts[MarketAccount]
      /\ Debits(once) = Debits(t.accounts) + amount /\ Credits(once) = Credits(t.accounts)
  BY <1>1, DebitType, DebitSums
<1> HIDE DEF once
<1>3. /\ \A v \in Users : accounts[v].credit = t.accounts[v].credit
      /\ accounts[MarketAccount] = t.accounts[MarketAccount]
  <2>1. \A c \in Accounts \ {Treasury} : accounts[c] = once[c]
    BY <1>1, <1>2, CreditType
  <2> QED BY <1>1, <1>2, <2>1
<1>4. Debits(accounts) = Credits(accounts)
  <2>1. Credits(accounts) = Credits(once) + amount /\ Debits(accounts) = Debits(once)
    BY <1>1, <1>2, CreditSums
  <2> QED BY <1>2, <2>1 DEF Consistent
<1> HIDE DEF accounts
<1>5. /\ n.orders = t.orders /\ n.positions = t.positions /\ n.trades = t.trades
      /\ n.accounts = accounts
  BY DEF Fund, accounts, once, Tables
<1> HIDE DEF n
<1>6. /\ \A p \in OrderIds : TradedBy(n, p) = TradedBy(t, p) /\ Paid(n, p) = Paid(t, p)
      /\ \A v \in Users : PaidBy(n, v) = PaidBy(t, v)
      /\ \A v \in Users, x \in Outcomes : WonBy(n, v, x) = WonBy(t, v, x)
  BY <1>5, SameTrades
<1>7. ASSUME NEW p \in OrderIds PROVE OrderAgrees(n, p) /\ WithinReserved(n, p)
  <2>1. OrderAgrees(t, p) /\ WithinReserved(t, p)
    BY DEF Consistent
  <2> QED BY <1>5, <1>6, <2>1 DEF OrderAgrees, WithinReserved
<1>8. ASSUME NEW x \in Outcomes PROVE Backed(n, x)
  <2>1. Backed(t, x)
    BY DEF Consistent
  <2> QED BY <1>3, <1>5, <2>1 DEF Backed, Balance
<1>9. \A v \in Users : n.accounts[v].credit = PaidBy(n, v)
  BY <1>3, <1>5, <1>6 DEF Consistent
<1>10. Consistent(n)
  BY <1>4, <1>5, <1>6, <1>7, <1>8, <1>9 DEF Consistent, Inserted
<1> QED BY <1>10 DEF n

-----------------------------------------------------------------------------
(* One match: the maker's row, the ledger, the positions, the trade and, at *)
(* the end of the transaction, the taker's row.                             *)

LEMMA Distributive ==
    ASSUME NEW a \in Int, NEW b \in Int, NEW c \in Int
    PROVE  /\ a * (b + c) = a * b + a * c /\ a * (b - c) = a * b - a * c
           /\ (b + c) * a = b * a + c * a /\ (b - c) * a = b * a - c * a
           /\ a * b = b * a
OBVIOUS

\* Buyer and seller pay what their legs cost, the market account gets a unit a share.
LEMMA PostTradeEffect ==
    ASSUME NEW accounts \in [Accounts -> Account], NEW b \in Users, NEW s \in Users, b # s,
           NEW q \in Nat, NEW gross \in Nat, q * Unit - gross \in Nat
    PROVE  LET new == PostTrade(accounts, b, s, q, gross) IN
           /\ new[b].credit = accounts[b].credit + gross
           /\ new[s].credit = accounts[s].credit + (q * Unit - gross)
           /\ \A u \in Users \ {b, s} : new[u].credit = accounts[u].credit
           /\ new[MarketAccount].debit = accounts[MarketAccount].debit + q * Unit
           /\ new[MarketAccount].credit = accounts[MarketAccount].credit
           /\ Debits(new) = Debits(accounts) + q * Unit
           /\ Credits(new) = Credits(accounts) + q * Unit
<1> DEFINE rest == q * Unit - gross
           one == Credit(accounts, b, gross)
           two == Credit(one, s, rest)
           new == Debit(two, MarketAccount, q * Unit)
<1>1. /\ b \in Accounts /\ s \in Accounts /\ MarketAccount \in Accounts
      /\ b # MarketAccount /\ s # MarketAccount
      /\ \A u \in Users : u \in Accounts /\ u # MarketAccount
      /\ q * Unit \in Nat /\ rest \in Nat /\ gross + rest = q * Unit
  BY Product DEF Accounts
<1> HIDE SizesAssumption, FiniteAssumption, AccountsAssumption
<1> HIDE DEF rest
<1>2. /\ one \in [Accounts -> Account]
      /\ one[b].credit = accounts[b].credit + gross
      /\ \A c \in Accounts : one[c].debit = accounts[c].debit
      /\ \A c \in Accounts \ {b} : one[c] = accounts[c]
      /\ Credits(one) = Credits(accounts) + gross /\ Debits(one) = Debits(accounts)
  BY <1>1, CreditType, CreditSums
<1> HIDE DEF one
<1>3. /\ two \in [Accounts -> Account]
      /\ two[s].credit = one[s].credit + rest
      /\ \A c \in Accounts : two[c].debit = one[c].debit
      /\ \A c \in Accounts \ {s} : two[c] = one[c]
      /\ Credits(two) = Credits(one) + rest /\ Debits(two) = Debits(one)
  <2>1. one \in [Accounts -> Account] /\ s \in Accounts /\ rest \in Nat
    BY <1>1, <1>2
  <2> QED BY ONLY <2>1, CreditType, CreditSums DEF two
<1> HIDE DEF two
<1>4. /\ new[MarketAccount].debit = two[MarketAccount].debit + q * Unit
      /\ \A c \in Accounts : new[c].credit = two[c].credit
      /\ Credits(new) = Credits(two) /\ Debits(new) = Debits(two) + q * Unit
  BY <1>1, <1>3, DebitType, DebitSums, Z3
<1>5. Credits(accounts) \in Nat
  BY <1>1, DebitSums
<1> HIDE DEF new
<1>6. /\ new[b].credit = accounts[b].credit + gross
      /\ new[s].credit = accounts[s].credit + rest
      /\ \A u \in Users \ {b, s} : new[u].credit = accounts[u].credit
  BY <1>1, <1>2, <1>3, <1>4
<1>7. /\ new[MarketAccount].debit = accounts[MarketAccount].debit + q * Unit
      /\ new[MarketAccount].credit = accounts[MarketAccount].credit
  BY <1>1, <1>2, <1>3, <1>4
<1>8. Debits(new) = Debits(accounts) + q * Unit /\ Credits(new) = Credits(accounts) + q * Unit
  BY <1>1, <1>2, <1>3, <1>4, <1>5
<1>9. new = PostTrade(accounts, b, s, q, gross)
  BY DEF PostTrade, new, two, one, rest
<1> QED BY <1>6, <1>7, <1>8, <1>9 DEF rest

\* The shares of a match go to two different outcomes, and with two outcomes
\* to the two that the two orders win with.
LEMMA PositionOutcomes ==
    ASSUME request \in [OrderIds -> Requests],
           NEW k \in OrderIds, NEW m \in OrderIds, Crosses(k, m)
    PROVE  /\ PositionOutcome(k) \in Outcomes /\ PositionOutcome(m) \in Outcomes
           /\ PositionOutcome(k) # PositionOutcome(m)
           /\ NumOutcomes = 2 => \A x \in Outcomes : /\ Wins(k, x) <=> PositionOutcome(k) = x
                                                     /\ Wins(m, x) <=> PositionOutcome(m) = x
<1>1. /\ request[k].side \in {"buy", "sell"} /\ request[m].side \in {"buy", "sell"}
      /\ request[k].outcome \in Outcomes /\ request[m].outcome \in Outcomes
  BY RequestType
<1>2. request[k].outcome = request[m].outcome /\ request[k].side # request[m].side
  BY DEF Crosses
<1> QED BY <1>1, <1>2 DEF PositionOutcome, Outcomes, Wins

\* The tables after one match, with the taker's row written back.
AfterMatch(t, k, m, q) ==
    UpdateTaker(Fill(t, k, m, q), k, t.orders[k].matched + q, t.orders[k].remaining - q)

\* A match moves its quantity from what remains of its two orders to what was
\* matched; the other tables are those of Fill.
LEMMA MatchRows ==
    ASSUME request \in [OrderIds -> Requests], NEW t \in Tables,
           NEW k \in OrderIds, NEW m \in OrderIds, k # m,
           NEW q \in Nat, q > 0, q <= t.orders[m].remaining, q <= t.orders[k].remaining,
           NEW n, n = AfterMatch(t, k, m, q), NEW f, f = Fill(t, k, m, q)
    PROVE  /\ n \in Tables
           /\ \A p \in OrderIds \ {k, m} : n.orders[p] = t.orders[p]
           /\ \A p \in {k, m} :
                /\ n.orders[p].matched = t.orders[p].matched + q
                /\ n.orders[p].remaining = t.orders[p].remaining - q
                /\ n.orders[p].max_total_cost = t.orders[p].max_total_cost
                /\ n.orders[p].status \in {"filled", "partially_filled"}
                /\ (n.orders[p].status = "filled") <=> (n.orders[p].remaining = 0)
           /\ n.accounts = f.accounts /\ n.positions = f.positions /\ n.trades = f.trades
<1> DEFINE matched == t.orders[k].matched + q
           remaining == t.orders[k].remaining - q
           row == [f.orders[k] EXCEPT !.status = TakerStatus(matched, remaining),
                                      !.matched = matched, !.remaining = remaining]
<1>1. f \in Tables
  BY FillType
<1>2. /\ matched \in Nat /\ matched # 0 /\ remaining \in Nat
      /\ t.orders[k] \in OrderRow /\ t.orders[m] \in OrderRow
  BY DEF Tables, OrderRow
<1>3. /\ f.orders[m] = MakerRow(t.orders[m], q)
      /\ \A p \in OrderIds \ {m} : f.orders[p] = t.orders[p]
  BY DEF Fill, Tables
<1>4. /\ f.orders[m].matched = t.orders[m].matched + q
      /\ f.orders[m].remaining = t.orders[m].remaining - q
      /\ f.orders[m].max_total_cost = t.orders[m].max_total_cost
      /\ f.orders[m].status \in {"filled", "partially_filled"}
      /\ (f.orders[m].status = "filled") <=> (f.orders[m].remaining = 0)
  <2> DEFINE old == t.orders[m]
             new == MakerRow(old, q)
  <2>1. old \in OrderRow /\ q <= old.remaining
    BY <1>2
  <2> HIDE DEF old
  <2>2. /\ new.matched = old.matched + q /\ new.remaining = old.remaining - q
        /\ new.max_total_cost = old.max_total_cost
        /\ new.status = IF old.remaining = q THEN "filled" ELSE "partially_filled"
    BY <2>1 DEF MakerRow, OrderRow
  <2>3. old.remaining \in Nat
    BY <2>1 DEF OrderRow
  <2> HIDE DEF new
  <2> QED BY <1>3, <2>2, <2>3 DEF old, new
<1> HIDE DEF matched, remaining
<1>5. row \in OrderRow
  <2>1. f.orders[k] \in OrderRow
    BY <1>1 DEF Tables
  <2>2. TakerStatus(matched, remaining) \in OrderStatuses
    BY DEF TakerStatus, OrderStatuses
  <2> QED BY <1>2, <2>1, <2>2 DEF OrderRow
<1>6. /\ row.matched = matched /\ row.remaining = remaining
      /\ row.max_total_cost = t.orders[k].max_total_cost
      /\ row.status \in {"filled", "partially_filled"}
      /\ (row.status = "filled") <=> (row.remaining = 0)
  BY <1>2, <1>3 DEF TakerStatus, OrderRow
<1>7. n = WithRow(f, k, row)
  BY DEF AfterMatch, UpdateTaker, matched, remaining
<1> HIDE DEF row
<1>8. /\ n \in Tables /\ n.orders[k] = row
      /\ \A p \in OrderIds \ {k} : n.orders[p] = f.orders[p]
      /\ n.accounts = f.accounts /\ n.positions = f.positions /\ n.trades = f.trades
  BY <1>1, <1>5, <1>7, WithRowType
<1>9. n.orders[m] = f.orders[m] /\ \A p \in OrderIds \ {k, m} : n.orders[p] = t.orders[p]
  BY <1>3, <1>8
<1> QED BY <1>4, <1>6, <1>8, <1>9 DEF matched, remaining

\* The trade that a match records.
NewTrade(k, m, q) == [taker |-> k, maker |-> m, quantity |-> q, price |-> request[m].price]

\* A match adds its quantity and its price to the sums of its two orders.
LEMMA MatchSums ==
    ASSUME request \in [OrderIds -> Requests], NEW t \in Tables,
           NEW k \in OrderIds, NEW m \in OrderIds, k # m,
           NEW q \in Nat, q > 0, q <= t.orders[m].remaining, q <= t.orders[k].remaining
    PROVE  LET n == AfterMatch(t, k, m, q) IN
           /\ Len(t.trades) + 1 \notin DOMAIN t.trades
           /\ DOMAIN n.trades = DOMAIN t.trades \cup {Len(t.trades) + 1}
           /\ n.trades[Len(t.trades) + 1] = NewTrade(k, m, q)
           /\ \A i \in DOMAIN t.trades : n.trades[i] = t.trades[i]
           /\ \A o \in {k, m} :
                /\ TradedBy(n, o) = TradedBy(t, o) + q
                /\ Paid(n, o) = Paid(t, o) + q * Leg(o, request[m].price)
           /\ \A o \in OrderIds \ {k, m} :
                TradedBy(n, o) = TradedBy(t, o) /\ Paid(n, o) = Paid(t, o)
<1> DEFINE n == AfterMatch(t, k, m, q)
           last == Len(t.trades) + 1
           trade == NewTrade(k, m, q)
<1>1. n \in Tables /\ n.trades = Fill(t, k, m, q).trades
  BY MatchRows
<1>2. n.trades = Append(t.trades, trade)
  BY <1>1 DEF Fill, NewTrade
<1>3. /\ trade \in Trade /\ trade.taker = k /\ trade.maker = m /\ trade.quantity = q
      /\ trade.price = request[m].price
  BY RequestType DEF Trade, NewTrade
<1> HIDE DEF n, trade
<1>4. /\ last \notin DOMAIN t.trades
      /\ DOMAIN n.trades = DOMAIN t.trades \cup {last}
      /\ n.trades[last] = trade
      /\ \A i \in DOMAIN t.trades : n.trades[i] = t.trades[i]
  BY <1>1, <1>2, <1>3, AppendTrade
<1> HIDE DEF last
<1>5. ASSUME NEW o \in OrderIds
      PROVE  /\ o \in {k, m} => /\ TradedBy(n, o) = TradedBy(t, o) + q
                                /\ Paid(n, o) = Paid(t, o) + q * Leg(o, request[m].price)
             /\ o \notin {k, m} => TradedBy(n, o) = TradedBy(t, o) /\ Paid(n, o) = Paid(t, o)
  BY <1>1, <1>3, <1>4, OneMoreTrade
<1> QED BY <1>4, <1>5 DEF n, last, trade

\* What a leg costs: at most what was reserved for the taker, exactly that for
\* the maker, and together one unit.
LEMMA MatchLegs ==
    ASSUME request \in [OrderIds -> Requests],
           NEW k \in OrderIds, NEW m \in OrderIds, Crosses(k, m)
    PROVE  /\ Leg(k, request[m].price) \in Nat /\ Leg(m, request[m].price) \in Nat
           /\ Leg(k, request[m].price) <= UnitCost(k)
           /\ Leg(m, request[m].price) = UnitCost(m)
           /\ Leg(k, request[m].price) + Leg(m, request[m].price) = Unit
BY RequestType DEF Leg, UnitCost, Crosses

\* The rows of the two orders agree with the trades after a match.
LEMMA MatchOrdersAgree ==
    ASSUME request \in [OrderIds -> Requests], NEW t \in Tables, Consistent(t),
           NEW k \in OrderIds, NEW m \in OrderIds, k # m, Crosses(k, m),
           Inserted(t, k), Inserted(t, m),
           NEW q \in Nat, q > 0, q <= t.orders[m].remaining, q <= t.orders[k].remaining,
           NEW o \in OrderIds
    PROVE  OrderAgrees(AfterMatch(t, k, m, q), o) /\ WithinReserved(AfterMatch(t, k, m, q), o)
<1> DEFINE n == AfterMatch(t, k, m, q)
           leg == Leg(o, request[m].price)
<1>1. OrderAgrees(t, o) /\ WithinReserved(t, o) /\ t.orders[o] \in OrderRow
  BY DEF Consistent, Tables
<1>2. /\ o \in {k, m} => /\ TradedBy(n, o) = TradedBy(t, o) + q
                         /\ Paid(n, o) = Paid(t, o) + q * leg
      /\ o \notin {k, m} => TradedBy(n, o) = TradedBy(t, o) /\ Paid(n, o) = Paid(t, o)
  BY MatchSums
<1>3. /\ \A p \in OrderIds \ {k, m} : n.orders[p] = t.orders[p]
      /\ \A p \in {k, m} :
           /\ n.orders[p].matched = t.orders[p].matched + q
           /\ n.orders[p].remaining = t.orders[p].remaining - q
           /\ n.orders[p].max_total_cost = t.orders[p].max_total_cost
           /\ n.orders[p].status \in {"filled", "partially_filled"}
           /\ (n.orders[p].status = "filled") <=> (n.orders[p].remaining = 0)
  BY MatchRows
<1> HIDE DEF n, leg
<1>4. ASSUME o \notin {k, m} PROVE OrderAgrees(n, o) /\ WithinReserved(n, o)
  BY <1>1, <1>2, <1>3, <1>4 DEF OrderAgrees, WithinReserved
<1>5. ASSUME o \in {k, m} PROVE OrderAgrees(n, o) /\ WithinReserved(n, o)
  <2>1. /\ n.orders[o].matched = t.orders[o].matched + q
        /\ n.orders[o].remaining = t.orders[o].remaining - q
        /\ n.orders[o].max_total_cost = t.orders[o].max_total_cost
        /\ n.orders[o].status \in {"filled", "partially_filled"}
        /\ (n.orders[o].status = "filled") <=> (n.orders[o].remaining = 0)
    BY <1>3, <1>5
  <2>2. t.orders[o].status # "absent"
    BY <1>5 DEF Inserted
  <2>3. t.orders[o].matched \in Nat /\ t.orders[o].remaining \in Nat
        /\ t.orders[o].max_total_cost \in Nat
    BY <1>1 DEF OrderRow
  <2>4. q <= t.orders[o].remaining
    BY <1>5
  <2>5. OrderAgrees(n, o)
    BY <1>1, <1>2, <1>5, <2>1, <2>2, <2>3, <2>4, RequestType DEF OrderAgrees, ActiveStatuses
  <2>6. WithinReserved(n, o)
    <3>1. leg \in Nat /\ leg <= UnitCost(o) /\ UnitCost(o) \in Nat
      BY <1>5, MatchLegs, RequestType DEF leg
    <3> DEFINE r == t.orders[o].remaining
               c == UnitCost(o)
    <3>2. (r - q) * c = r * c - q * c
      BY <2>3, <3>1, Distributive
    <3>3. q * leg <= q * c
      BY <3>1, ProductMonotonic
    <3>4. q * leg \in Nat /\ q * c \in Nat /\ r * c \in Nat /\ Paid(t, o) \in Nat
      BY <2>3, <3>1, Product, TradeSums
    <3>5. Paid(t, o) + r * c <= t.orders[o].max_total_cost
      BY <1>1, <2>2 DEF WithinReserved
    <3>6. Paid(n, o) = Paid(t, o) + q * leg /\ n.orders[o].remaining = r - q
      BY <1>2, <1>5, <2>1
    <3> HIDE DEF r, c
    <3>7. Paid(n, o) + (r - q) * c <= t.orders[o].max_total_cost
      BY <2>3, <3>2, <3>3, <3>4, <3>5, <3>6
    <3> QED BY <2>1, <3>6, <3>7 DEF WithinReserved, r, c
  <2> QED BY <2>5, <2>6
<1> QED BY <1>4, <1>5 DEF n

\* What a match does to the ledger: each owner is credited the cost of the
\* owner's leg, and the market account is debited one unit a share.
LEMMA MatchLedger ==
    ASSUME request \in [OrderIds -> Requests], NEW t \in Tables,
           NEW k \in OrderIds, NEW m \in OrderIds, Crosses(k, m), ~SameOwner(k, m),
           NEW q \in Nat, NEW new, new = Fill(t, k, m, q).accounts
    PROVE  /\ \A o \in {k, m} :
                new[request[o].user].credit =
                  t.accounts[request[o].user].credit + q * Leg(o, request[m].price)
           /\ \A u \in Users \ {request[k].user, request[m].user} :
                new[u].credit = t.accounts[u].credit
           /\ new[MarketAccount].debit = t.accounts[MarketAccount].debit + q * Unit
           /\ new[MarketAccount].credit = t.accounts[MarketAccount].credit
           /\ Debits(new) = Debits(t.accounts) + q * Unit
           /\ Credits(new) = Credits(t.accounts) + q * Unit
<1> DEFINE b == BuyerOf(k, m)
           s == SellerOf(k, m)
           price == request[m].price
<1>1. /\ b \in OrderIds /\ s \in OrderIds /\ {b, s} = {k, m}
      /\ request[b].side = "buy" /\ request[s].side = "sell"
      /\ request[b].user # request[s].user
      /\ request[b].user \in Users /\ request[s].user \in Users
  BY RequestType DEF Crosses, SameOwner, BuyerOf, SellerOf
<1>2. price \in Nat /\ price <= Unit /\ Unit - price \in Nat
  BY RequestType
<1>3. new = PostTrade(t.accounts, request[b].user, request[s].user, q, q * price)
  BY DEF Fill
<1> HIDE DEF b, s
<1>4. Leg(b, price) = price /\ Leg(s, price) = Unit - price
  BY <1>1 DEF Leg
<1> HIDE DEF price
<1>5. /\ q * price \in Nat /\ q * Unit - q * price \in Nat
      /\ q * (Unit - price) = q * Unit - q * price
  BY <1>2, Product, ProductMonotonic, Distributive
<1>6. t.accounts \in [Accounts -> Account]
  BY DEF Tables
<1> DEFINE gross == q * price
           buyer == request[b].user
           seller == request[s].user
<1> HIDE DEF gross, buyer, seller
<1>7. /\ new[buyer].credit = t.accounts[buyer].credit + gross
      /\ new[seller].credit = t.accounts[seller].credit + (q * Unit - gross)
      /\ \A u \in Users \ {buyer, seller} : new[u].credit = t.accounts[u].credit
      /\ new[MarketAccount].debit = t.accounts[MarketAccount].debit + q * Unit
      /\ new[MarketAccount].credit = t.accounts[MarketAccount].credit
      /\ Debits(new) = Debits(t.accounts) + q * Unit
      /\ Credits(new) = Credits(t.accounts) + q * Unit
  <2>1. buyer \in Users /\ seller \in Users /\ buyer # seller
    BY <1>1 DEF buyer, seller
  <2>2. gross \in Nat /\ q * Unit - gross \in Nat
    BY <1>5 DEF gross
  <2>3. new = PostTrade(t.accounts, buyer, seller, q, gross)
    BY <1>3 DEF gross, buyer, seller
  <2> QED BY <1>6, <2>1, <2>2, <2>3, PostTradeEffect
<1>8. \A o \in {b, s} : new[request[o].user].credit =
                          t.accounts[request[o].user].credit + q * Leg(o, price)
  BY <1>4, <1>5, <1>7 DEF gross, buyer, seller
<1>9. {buyer, seller} = {request[k].user, request[m].user}
  BY <1>1 DEF buyer, seller
<1> QED BY <1>1, <1>7, <1>8, <1>9 DEF price

\* What a match does to the positions.
LEMMA MatchPositions ==
    ASSUME request \in [OrderIds -> Requests], NEW t \in Tables,
           NEW k \in OrderIds, NEW m \in OrderIds, Crosses(k, m), ~SameOwner(k, m),
           NEW q \in Nat, NEW new, new = Fill(t, k, m, q).positions, NEW x \in Outcomes
    PROVE  /\ Held(t.positions, x) \in Nat
           /\ Held(new, x) = Held(t.positions, x)
                + (IF PositionOutcome(k) = x \/ PositionOutcome(m) = x THEN q ELSE 0)
           /\ \A o \in {k, m} :
                new[request[o].user][x] = t.positions[request[o].user][x]
                  + (IF PositionOutcome(o) = x THEN q ELSE 0)
           /\ \A u \in Users \ {request[k].user, request[m].user} :
                new[u][x] = t.positions[u][x]
<1> DEFINE a == request[k].user
           b == request[m].user
           y == PositionOutcome(k)
           z == PositionOutcome(m)
           start == t.positions
<1>1. /\ a \in Users /\ b \in Users /\ a # b /\ y \in Outcomes /\ z \in Outcomes /\ y # z
      /\ start \in [Users -> [Outcomes -> Nat]]
  BY RequestType, PositionOutcomes DEF SameOwner, Tables
<1>2. new = UpsertPosition(UpsertPosition(start, a, y, q), b, z, q)
  BY DEF Fill
<1> HIDE SizesAssumption, FiniteAssumption, AccountsAssumption DEF y, z, a, b, start
<1> DEFINE once == UpsertPosition(start, a, y, q)
<1>3. once \in [Users -> [Outcomes -> Nat]]
  BY <1>1, UpsertPositionType
<1>4. \A v \in Users : once[v][x] = start[v][x] + (IF v = a /\ x = y THEN q ELSE 0)
  BY <1>1 DEF UpsertPosition
<1>5. Held(start, x) \in Nat /\ Held(once, x) = Held(start, x) + (IF x = y THEN q ELSE 0)
  BY <1>1, HeldSums
<1> HIDE DEF once
<1>6. \A v \in Users : new[v][x] = once[v][x] + (IF v = b /\ x = z THEN q ELSE 0)
  BY <1>1, <1>2, <1>3 DEF UpsertPosition, once
<1>7. Held(new, x) = Held(once, x) + (IF x = z THEN q ELSE 0)
  <2>1. b \in Users
    BY <1>1
  <2>2. \A w \in Outcomes : Held(UpsertPosition(once, b, w, q), x) =
                              Held(once, x) + (IF x = w THEN q ELSE 0)
    BY ONLY <1>3, <2>1, HeldSums, q \in Nat, x \in Outcomes
  <2> QED BY <1>1, <1>2, <2>2 DEF once
<1>8. \A v \in Users : start[v][x] \in Nat
  BY <1>1
<1>9. Held(new, x) = Held(start, x) + (IF y = x \/ z = x THEN q ELSE 0)
  BY <1>1, <1>5, <1>7
<1>10. /\ new[a][x] = start[a][x] + (IF y = x THEN q ELSE 0)
       /\ new[b][x] = start[b][x] + (IF z = x THEN q ELSE 0)
       /\ \A u \in Users \ {a, b} : new[u][x] = start[u][x]
  BY <1>1, <1>4, <1>6, <1>8
<1> QED BY <1>5, <1>9, <1>10 DEF a, b, y, z, start

\* The market account still backs every outcome: it got one unit a share, and
\* at most that many shares of any outcome were handed out.
LEMMA MatchBacked ==
    ASSUME request \in [OrderIds -> Requests], NEW t \in Tables,
           NEW k \in OrderIds, NEW m \in OrderIds, Crosses(k, m), ~SameOwner(k, m),
           NEW q \in Nat, NEW n, n.accounts = Fill(t, k, m, q).accounts,
           n.positions = Fill(t, k, m, q).positions, NEW x \in Outcomes, Backed(t, x)
    PROVE  Backed(n, x)
<1> DEFINE d == t.accounts[MarketAccount].debit
           c == t.accounts[MarketAccount].credit
           h == Held(t.positions, x)
           given == IF PositionOutcome(k) = x \/ PositionOutcome(m) = x THEN q ELSE 0
<1>1. /\ n.accounts[MarketAccount].debit = d + q * Unit
      /\ n.accounts[MarketAccount].credit = c
  BY MatchLedger
<1>2. h \in Nat /\ Held(n.positions, x) = h + given
  BY MatchPositions
<1>3. given \in Nat /\ given <= q /\ (NumOutcomes = 2 => given = q)
  <2>1. PositionOutcome(k) # PositionOutcome(m)
        /\ PositionOutcome(k) \in Outcomes /\ PositionOutcome(m) \in Outcomes
    BY PositionOutcomes
  <2> QED BY <2>1 DEF Outcomes
<1>4. d \in Nat /\ c \in Nat
  BY DEF Tables, Accounts, Account
<1>5. Unit * h <= d - c /\ (NumOutcomes = 2 => Unit * h = d - c)
  BY DEF Backed, Balance
<1> HIDE DEF d, c, h, given
<1>6. /\ Unit * (h + given) = Unit * h + Unit * given
      /\ Unit * given <= Unit * q /\ Unit * q = q * Unit
      /\ Unit * h \in Nat /\ Unit * given \in Nat /\ Unit * q \in Nat
  BY <1>2, <1>3, Distributive, ProductMonotonic, Product
<1>7. /\ Unit * (h + given) <= (d + q * Unit) - c
      /\ NumOutcomes = 2 => Unit * (h + given) = (d + q * Unit) - c
  BY <1>3, <1>4, <1>5, <1>6
<1> QED BY <1>1, <1>2, <1>7 DEF Backed, Balance

\* Both owners' accounts were charged what their orders' trades cost.
LEMMA MatchPaid ==
    ASSUME request \in [OrderIds -> Requests], NEW t \in Tables,
           NEW k \in OrderIds, NEW m \in OrderIds, k # m, Crosses(k, m), ~SameOwner(k, m),
           NEW q \in Nat, q > 0, q <= t.orders[m].remaining, q <= t.orders[k].remaining,
           NEW u \in Users, t.accounts[u].credit = PaidBy(t, u)
    PROVE  Fill(t, k, m, q).accounts[u].credit = PaidBy(AfterMatch(t, k, m, q), u)
<1> DEFINE n == AfterMatch(t, k, m, q)
           new == Fill(t, k, m, q).accounts
           a == q * Leg(k, request[m].price)
           b == q * Leg(m, request[m].price)
<1>1. n \in Tables
  BY MatchRows
<1>2. /\ Paid(n, k) = Paid(t, k) + a /\ Paid(n, m) = Paid(t, m) + b
      /\ \A o \in OrderIds \ {k, m} :
           TradedBy(n, o) = TradedBy(t, o) /\ Paid(n, o) = Paid(t, o)
  BY MatchSums
<1>3. /\ new[request[k].user].credit = t.accounts[request[k].user].credit + a
      /\ new[request[m].user].credit = t.accounts[request[m].user].credit + b
      /\ \A v \in Users \ {request[k].user, request[m].user} :
           new[v].credit = t.accounts[v].credit
  BY MatchLedger
<1>4. request[k].user # request[m].user
  BY DEF SameOwner
<1>5. a \in Nat /\ b \in Nat /\ Paid(t, k) \in Nat /\ Paid(t, m) \in Nat
  BY MatchLegs, Product, TradeSums
<1> HIDE DEF n, new, a, b
<1>6. 1 \in Outcomes
  BY DEF Outcomes
<1>7. /\ PaidBy(t, u) \in Nat
      /\ PaidBy(n, u) = PaidBy(t, u)
           + (IF request[k].user = u THEN Paid(n, k) - Paid(t, k) ELSE 0)
           + (IF request[m].user = u THEN Paid(n, m) - Paid(t, m) ELSE 0)
  BY <1>1, <1>2, <1>4, <1>6, TwoOrdersChange
<1>8. PaidBy(n, u) = PaidBy(t, u) + (IF request[k].user = u THEN a ELSE 0)
                                  + (IF request[m].user = u THEN b ELSE 0)
  BY <1>2, <1>5, <1>7
<1>9. new[u].credit = PaidBy(n, u)
  BY <1>3, <1>4, <1>5, <1>7, <1>8
<1> QED BY <1>9 DEF n, new

\* With two outcomes both owners hold what their orders' trades won.
LEMMA MatchWon ==
    ASSUME request \in [OrderIds -> Requests], NEW t \in Tables,
           NEW k \in OrderIds, NEW m \in OrderIds, k # m, Crosses(k, m), ~SameOwner(k, m),
           NEW q \in Nat, q > 0, q <= t.orders[m].remaining, q <= t.orders[k].remaining,
           NEW u \in Users, NEW x \in Outcomes, t.positions[u][x] = WonBy(t, u, x),
           NumOutcomes = 2
    PROVE  Fill(t, k, m, q).positions[u][x] = WonBy(AfterMatch(t, k, m, q), u, x)
<1> DEFINE n == AfterMatch(t, k, m, q)
           new == Fill(t, k, m, q).positions
<1>1. n \in Tables
  BY MatchRows
<1>2. /\ TradedBy(n, k) = TradedBy(t, k) + q /\ TradedBy(n, m) = TradedBy(t, m) + q
      /\ \A o \in OrderIds \ {k, m} :
           TradedBy(n, o) = TradedBy(t, o) /\ Paid(n, o) = Paid(t, o)
  BY MatchSums
<1>3. /\ new[request[k].user][x] = t.positions[request[k].user][x]
                                     + (IF PositionOutcome(k) = x THEN q ELSE 0)
      /\ new[request[m].user][x] = t.positions[request[m].user][x]
                                     + (IF PositionOutcome(m) = x THEN q ELSE 0)
      /\ \A v \in Users \ {request[k].user, request[m].user} : new[v][x] = t.positions[v][x]
  BY MatchPositions
<1>4. request[k].user # request[m].user
  BY DEF SameOwner
<1>5. TradedBy(t, k) \in Nat /\ TradedBy(t, m) \in Nat
  BY TradeSums
<1>6. (Wins(k, x) <=> PositionOutcome(k) = x) /\ (Wins(m, x) <=> PositionOutcome(m) = x)
  BY PositionOutcomes
<1> HIDE DEF n, new
<1>7. /\ WonBy(t, u, x) \in Nat
      /\ WonBy(n, u, x) = WonBy(t, u, x)
           + (IF request[k].user = u /\ Wins(k, x) THEN TradedBy(n, k) - TradedBy(t, k) ELSE 0)
           + (IF request[m].user = u /\ Wins(m, x) THEN TradedBy(n, m) - TradedBy(t, m) ELSE 0)
  BY <1>1, <1>2, <1>4, TwoOrdersChange
<1>8. WonBy(n, u, x) = WonBy(t, u, x)
           + (IF request[k].user = u /\ PositionOutcome(k) = x THEN q ELSE 0)
           + (IF request[m].user = u /\ PositionOutcome(m) = x THEN q ELSE 0)
  BY <1>2, <1>5, <1>6, <1>7
<1>9. new[u][x] = WonBy(n, u, x)
  BY <1>3, <1>4, <1>7, <1>8
<1> QED BY <1>9 DEF n, new

\* A match keeps the tables consistent, once the taker's row is written.
LEMMA MatchConsistent ==
    ASSUME request \in [OrderIds -> Requests], NEW t \in Tables, Consistent(t),
           NEW k \in OrderIds, NEW m \in OrderIds, Crosses(k, m), ~SameOwner(k, m),
           Inserted(t, k), Inserted(t, m),
           NEW q \in Nat, q > 0, q <= t.orders[m].remaining, q <= t.orders[k].remaining
    PROVE  Consistent(AfterMatch(t, k, m, q))
<1> DEFINE n == AfterMatch(t, k, m, q)
           f == Fill(t, k, m, q)
<1>1. k # m
  BY DEF SameOwner
<1>2. n \in Tables /\ n.accounts = f.accounts /\ n.positions = f.positions
  BY <1>1, MatchRows
<1>3. \A p \in OrderIds : Inserted(t, p) => Inserted(n, p)
  <2>1. /\ \A p \in OrderIds \ {k, m} : n.orders[p] = t.orders[p]
        /\ \A p \in {k, m} : n.orders[p].status \in {"filled", "partially_filled"}
    BY <1>1, MatchRows
  <2> QED BY <2>1 DEF Inserted
<1>4. ASSUME NEW i \in DOMAIN n.trades
      PROVE  Inserted(n, n.trades[i].taker) /\ Inserted(n, n.trades[i].maker)
  <2>1. /\ DOMAIN n.trades = DOMAIN t.trades \cup {Len(t.trades) + 1}
        /\ n.trades[Len(t.trades) + 1] = NewTrade(k, m, q)
        /\ \A j \in DOMAIN t.trades : n.trades[j] = t.trades[j]
    BY <1>1, MatchSums
  <2>2. CASE i \in DOMAIN t.trades
    <3>1. Inserted(t, t.trades[i].taker) /\ Inserted(t, t.trades[i].maker)
      BY <2>2 DEF Consistent
    <3>2. t.trades[i] \in Trade
      BY <2>2 DEF Tables
    <3>3. t.trades[i].taker \in OrderIds /\ t.trades[i].maker \in OrderIds
      BY <3>2 DEF Trade
    <3> QED BY <1>3, <2>1, <2>2, <3>1, <3>3
  <2>3. CASE i = Len(t.trades) + 1
    BY <1>3, <2>1, <2>3 DEF NewTrade
  <2> QED BY <2>1, <2>2, <2>3
<1>5. \A o \in OrderIds : OrderAgrees(n, o) /\ WithinReserved(n, o)
  BY <1>1, MatchOrdersAgree
<1>6. \A x \in Outcomes : Backed(n, x)
  <2>1. \A x \in Outcomes : Backed(t, x)
    BY DEF Consistent
  <2> HIDE DEF n
  <2> QED BY <1>2, <2>1, MatchBacked
<1>7. Debits(n.accounts) = Credits(n.accounts)
  <2>1. /\ Debits(f.accounts) = Debits(t.accounts) + q * Unit
        /\ Credits(f.accounts) = Credits(t.accounts) + q * Unit
    BY MatchLedger
  <2> QED BY <1>2, <2>1 DEF Consistent
<1>8. \A u \in Users : n.accounts[u].credit = PaidBy(n, u)
  <2>1. \A u \in Users : t.accounts[u].credit = PaidBy(t, u)
    BY DEF Consistent
  <2> QED BY <1>1, <1>2, <2>1, MatchPaid
<1>9. NumOutcomes = 2 => \A u \in Users, x \in Outcomes : n.positions[u][x] = WonBy(n, u, x)
  <2>1. NumOutcomes = 2 => \A u \in Users, x \in Outcomes : t.positions[u][x] = WonBy(t, u, x)
    BY DEF Consistent
  <2> QED BY <1>1, <1>2, <2>1, MatchWon
<1> HIDE DEF n
<1>10. Consistent(n)
  BY <1>4, <1>5, <1>6, <1>7, <1>8, <1>9 DEF Consistent
<1> QED BY <1>10 DEF n

-----------------------------------------------------------------------------
(* Rows after one statement, and statements that commute with the write of  *)
(* the taker's row at the end of the transaction                            *)

LEMMA UpdateTakerRows ==
    ASSUME NEW t \in Tables, NEW k \in OrderIds, NEW a \in Nat, NEW b \in Nat,
           NEW n, n = UpdateTaker(t, k, a, b)
    PROVE  /\ n \in Tables
           /\ n.orders[k].status = TakerStatus(a, b)
           /\ n.orders[k].matched = a /\ n.orders[k].remaining = b
           /\ \A p \in OrderIds \ {k} : n.orders[p] = t.orders[p]
           /\ n.trades = t.trades
<1> DEFINE row == [t.orders[k] EXCEPT !.status = TakerStatus(a, b), !.matched = a, !.remaining = b]
<1>1. t.orders[k] \in OrderRow /\ TakerStatus(a, b) \in OrderStatuses
  BY DEF Tables, TakerStatus, OrderStatuses
<1>2. /\ row \in OrderRow /\ row.status = TakerStatus(a, b)
      /\ row.matched = a /\ row.remaining = b
  BY <1>1 DEF OrderRow
<1>3. n = WithRow(t, k, row)
  BY DEF UpdateTaker
<1> HIDE DEF row
<1> QED BY <1>2, <1>3, WithRowType

LEMMA SetStatusRows ==
    ASSUME NEW t \in Tables, NEW o \in OrderIds, NEW s \in OrderStatuses,
           NEW n, n = SetStatus(t, o, s)
    PROVE  /\ n.orders[o].status = s
           /\ \A p \in OrderIds \ {o} : n.orders[p] = t.orders[p]
           /\ n.trades = t.trades
<1> DEFINE row == [t.orders[o] EXCEPT !.status = s]
<1>1. t.orders[o] \in OrderRow
  BY DEF Tables
<1>2. row \in OrderRow /\ row.status = s
  BY <1>1 DEF OrderRow
<1>3. n = WithRow(t, o, row)
  BY DEF SetStatus
<1> HIDE DEF row
<1> QED BY <1>2, <1>3, WithRowType

LEMMA InsertOrderRows ==
    ASSUME request \in [OrderIds -> Requests], NEW t \in Tables, NEW o \in OrderIds,
           NEW n, n = InsertOrder(t, o)
    PROVE  /\ n.orders[o].status = "pending_acceptance"
           /\ \A p \in OrderIds \ {o} : n.orders[p] = t.orders[p]
           /\ n.trades = t.trades
<1> DEFINE row == [status |-> "pending_acceptance", matched |-> 0,
                   remaining |-> request[o].quantity, max_total_cost |-> Required(o)]
<1>1. Required(o) \in Nat
  BY RequestType, Product DEF Required
<1>2. row \in OrderRow /\ row.status = "pending_acceptance"
  BY <1>1, RequestType DEF OrderRow, OrderStatuses
<1>3. n = WithRow(t, o, row)
  BY DEF InsertOrder
<1> HIDE DEF row
<1> QED BY <1>2, <1>3, WithRowType

LEMMA FundRows ==
    ASSUME NEW t \in Tables, NEW u, NEW amount, NEW n, n = Fund(t, u, amount)
    PROVE  n.orders = t.orders /\ n.trades = t.trades
BY DEF Fund, Tables

LEMMA FillRows ==
    ASSUME request \in [OrderIds -> Requests], NEW t \in Tables,
           NEW k \in OrderIds, NEW m \in OrderIds,
           NEW q \in Nat, q <= t.orders[m].remaining, NEW n, n = Fill(t, k, m, q)
    PROVE  /\ \A p \in OrderIds \ {m} : n.orders[p] = t.orders[p]
           /\ n.orders[m].status =
                IF t.orders[m].remaining = q THEN "filled" ELSE "partially_filled"
           /\ n.trades = Append(t.trades, NewTrade(k, m, q))
<1> DEFINE old == t.orders[m]
           new == MakerRow(old, q)
<1>1. old \in OrderRow /\ t.orders \in [OrderIds -> OrderRow]
  BY DEF Tables
<1>2. n.orders = [t.orders EXCEPT ![m] = new] /\ n.trades = Append(t.trades, NewTrade(k, m, q))
  BY DEF Fill, NewTrade
<1>3. new.status = IF old.remaining = q THEN "filled" ELSE "partially_filled"
  <2> HIDE DEF old
  <2> QED BY <1>1 DEF MakerRow, OrderRow
<1> HIDE DEF new
<1>4. n.orders[m] = new /\ \A p \in OrderIds \ {m} : n.orders[p] = t.orders[p]
  BY <1>1, <1>2
<1> QED BY <1>2, <1>3, <1>4

\* Versions of the tables with the same rows are the same.
LEMMA TablesEqual ==
    ASSUME NEW s \in Tables, NEW t \in Tables, \A p \in OrderIds : s.orders[p] = t.orders[p],
           s.accounts = t.accounts, s.positions = t.positions, s.trades = t.trades
    PROVE  s = t
<1>1. s.orders \in [OrderIds -> OrderRow] /\ t.orders \in [OrderIds -> OrderRow]
  BY DEF Tables
<1>2. s.orders = t.orders
  BY <1>1
<1> QED BY <1>2 DEF Tables

LEMMA RejectionCommutes ==
    ASSUME NEW t \in Tables, NEW k \in OrderIds, NEW a \in Nat, NEW b \in Nat,
           NEW o \in OrderIds, o # k, NEW s \in OrderStatuses
    PROVE  UpdateTaker(SetStatus(t, o, s), k, a, b) = SetStatus(UpdateTaker(t, k, a, b), o, s)
<1> DEFINE taken == [t.orders[k] EXCEPT !.status = TakerStatus(a, b), !.matched = a, !.remaining = b]
           closed == [t.orders[o] EXCEPT !.status = s]
<1>1. /\ t.orders[k] \in OrderRow /\ t.orders[o] \in OrderRow
      /\ TakerStatus(a, b) \in OrderStatuses
  BY DEF Tables, TakerStatus, OrderStatuses
<1>2. taken \in OrderRow /\ closed \in OrderRow
  BY <1>1 DEF OrderRow
<1>3. SetStatus(t, o, s) = WithRow(t, o, closed) /\ UpdateTaker(t, k, a, b) = WithRow(t, k, taken)
  BY DEF SetStatus, UpdateTaker
<1>4. /\ WithRow(t, o, closed).orders[k] = t.orders[k]
      /\ WithRow(t, k, taken).orders[o] = t.orders[o]
  BY <1>2, WithRowType
<1>5. /\ UpdateTaker(WithRow(t, o, closed), k, a, b) = WithRow(WithRow(t, o, closed), k, taken)
      /\ SetStatus(WithRow(t, k, taken), o, s) = WithRow(WithRow(t, k, taken), o, closed)
  BY <1>4 DEF SetStatus, UpdateTaker
<1> HIDE DEF taken, closed
<1> DEFINE left == WithRow(WithRow(t, o, closed), k, taken)
           right == WithRow(WithRow(t, k, taken), o, closed)
<1>6. /\ WithRow(t, o, closed) \in Tables /\ WithRow(t, o, closed).orders[o] = closed
      /\ \A p \in OrderIds \ {o} : WithRow(t, o, closed).orders[p] = t.orders[p]
      /\ WithRow(t, o, closed).accounts = t.accounts
      /\ WithRow(t, o, closed).positions = t.positions /\ WithRow(t, o, closed).trades = t.trades
  BY <1>2, WithRowType
<1>7. /\ WithRow(t, k, taken) \in Tables /\ WithRow(t, k, taken).orders[k] = taken
      /\ \A p \in OrderIds \ {k} : WithRow(t, k, taken).orders[p] = t.orders[p]
      /\ WithRow(t, k, taken).accounts = t.accounts
      /\ WithRow(t, k, taken).positions = t.positions /\ WithRow(t, k, taken).trades = t.trades
  BY <1>2, WithRowType
<1>8. /\ left \in Tables /\ left.orders[k] = taken /\ left.orders[o] = closed
      /\ \A p \in OrderIds \ {o, k} : left.orders[p] = t.orders[p]
      /\ left.accounts = t.accounts /\ left.positions = t.positions /\ left.trades = t.trades
  BY <1>2, <1>6, WithRowType
<1>9. /\ right \in Tables /\ right.orders[k] = taken /\ right.orders[o] = closed
      /\ \A p \in OrderIds \ {o, k} : right.orders[p] = t.orders[p]
      /\ right.accounts = t.accounts /\ right.positions = t.positions /\ right.trades = t.trades
  BY <1>2, <1>7, WithRowType
<1> HIDE DEF left, right
<1>10. \A p \in OrderIds : left.orders[p] = right.orders[p]
  BY <1>8, <1>9
<1>11. left = right
  BY <1>8, <1>9, <1>10, TablesEqual
<1> QED BY <1>3, <1>5, <1>11 DEF left, right

LEMMA FundingCommutes ==
    ASSUME NEW t \in Tables, NEW k \in OrderIds, NEW a \in Nat, NEW b \in Nat,
           NEW u, NEW amount
    PROVE  UpdateTaker(Fund(t, u, amount), k, a, b) = Fund(UpdateTaker(t, k, a, b), u, amount)
BY DEF UpdateTaker, Fund, WithRow, Tables

\* What the taker's row said before its last write does not matter.
LEMMA LastWriteCounts ==
    ASSUME request \in [OrderIds -> Requests], NEW t \in Tables,
           NEW k \in OrderIds, NEW m \in OrderIds, k # m,
           NEW a \in Nat, NEW b \in Nat, NEW q \in Nat, q <= b, q <= t.orders[m].remaining
    PROVE  AfterMatch(UpdateTaker(t, k, a, b), k, m, q)
             = UpdateTaker(Fill(t, k, m, q), k, a + q, b - q)
<1> DEFINE u == UpdateTaker(t, k, a, b)
           row == u.orders[k]
           f == Fill(u, k, m, q)
           g == Fill(t, k, m, q)
           next == [row EXCEPT !.status = TakerStatus(a + q, b - q), !.matched = a + q,
                               !.remaining = b - q]
           direct == [t.orders[k] EXCEPT !.status = TakerStatus(a + q, b - q), !.matched = a + q,
                                         !.remaining = b - q]
<1>1. t.orders[k] \in OrderRow
  BY DEF Tables
<1>2. /\ u \in Tables /\ row.matched = a /\ row.remaining = b
      /\ \A p \in OrderIds \ {k} : u.orders[p] = t.orders[p]
      /\ u.trades = t.trades
  <2> DEFINE written == [t.orders[k] EXCEPT !.status = TakerStatus(a, b), !.matched = a, !.remaining = b]
  <2>1. written \in OrderRow /\ written.matched = a /\ written.remaining = b
    BY <1>1 DEF OrderRow, TakerStatus, OrderStatuses
  <2>2. u = WithRow(t, k, written)
    BY DEF UpdateTaker
  <2> HIDE DEF written
  <2> QED BY <2>1, <2>2, WithRowType
<1>3. row = [t.orders[k] EXCEPT !.status = TakerStatus(a, b), !.matched = a, !.remaining = b]
      /\ u.accounts = t.accounts /\ u.positions = t.positions
  BY DEF UpdateTaker, WithRow, Tables
<1>4. next = direct
  BY <1>1, <1>3 DEF OrderRow
<1>5. next \in OrderRow
  <2>1. TakerStatus(a + q, b - q) \in OrderStatuses
    BY DEF TakerStatus, OrderStatuses
  <2>2. a + q \in Nat /\ b - q \in Nat
    OBVIOUS
  <2>3. row \in OrderRow
    BY <1>2 DEF Tables
  <2> HIDE DEF row
  <2> QED BY <2>1, <2>2, <2>3 DEF OrderRow
<1> HIDE DEF u
<1>6. /\ f.accounts = g.accounts /\ f.positions = g.positions /\ f.trades = g.trades
      /\ f \in Tables /\ g \in Tables
  <2>1. u.orders[m] = t.orders[m]
    BY <1>2
  <2>2. f \in Tables /\ g \in Tables
    BY <1>2, <2>1, FillType
  <2>3. f.accounts = g.accounts /\ f.positions = g.positions /\ f.trades = g.trades
    BY <1>2, <1>3 DEF Fill
  <2> QED BY <2>2, <2>3
<1>7. /\ f.orders[k] = row /\ g.orders[k] = t.orders[k]
      /\ \A p \in OrderIds \ {k} : f.orders[p] = g.orders[p]
  <2>1. /\ f.orders = [u.orders EXCEPT ![m] = MakerRow(u.orders[m], q)]
        /\ g.orders = [t.orders EXCEPT ![m] = MakerRow(t.orders[m], q)]
    BY DEF Fill
  <2>2. u.orders \in [OrderIds -> OrderRow] /\ t.orders \in [OrderIds -> OrderRow]
    BY <1>2 DEF Tables
  <2> QED BY <1>2, <2>1, <2>2
<1>8. row.matched + q = a + q /\ row.remaining - q = b - q
  BY <1>2
<1>9. /\ AfterMatch(u, k, m, q) = WithRow(f, k, next)
      /\ UpdateTaker(g, k, a + q, b - q) = WithRow(g, k, direct)
  BY <1>7, <1>8 DEF AfterMatch, UpdateTaker
<1> HIDE DEF row, f, g, next, direct
<1>10. /\ WithRow(f, k, next) \in Tables /\ WithRow(f, k, next).orders[k] = next
       /\ \A p \in OrderIds \ {k} : WithRow(f, k, next).orders[p] = f.orders[p]
       /\ WithRow(f, k, next).accounts = f.accounts
       /\ WithRow(f, k, next).positions = f.positions /\ WithRow(f, k, next).trades = f.trades
  BY <1>5, <1>6, WithRowType
<1>11. /\ WithRow(g, k, next) \in Tables /\ WithRow(g, k, next).orders[k] = next
       /\ \A p \in OrderIds \ {k} : WithRow(g, k, next).orders[p] = g.orders[p]
       /\ WithRow(g, k, next).accounts = g.accounts
       /\ WithRow(g, k, next).positions = g.positions /\ WithRow(g, k, next).trades = g.trades
  BY <1>5, <1>6, WithRowType
<1>12. WithRow(f, k, next) = WithRow(g, k, next)
  BY <1>6, <1>7, <1>10, <1>11, TablesEqual
<1> QED BY <1>4, <1>9, <1>12 DEF u, g
=============================================================================
