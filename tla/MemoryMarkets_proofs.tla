-------------------------- MODULE MemoryMarkets_proofs --------------------------
(***************************************************************************)
(* Proofs that what the in-memory repositories keep of markets, resolutions, *)
(* candidates and disputes agrees, that settled markets are quiet, and that  *)
(* histories and reviewed answers stay, for any requests, slugs and users.   *)
(***************************************************************************)
EXTENDS MemoryMarkets, TallyTheorems, SequenceTheorems

-----------------------------------------------------------------------------
(* The inductive invariant *)

\* A request that is no market yet.
Unpublished(r) ==
    /\ \A s \in Slugs : HasMarket(s) => markets[s].id # r
    /\ \A w \in awaiting : w.op = "settlement" => w.market.id # r
    /\ candidates[r] = <<>>

\* A request becomes a market once, so no later publication takes away the
\* market while its settlement goes on.
ConvertedOnce ==
    /\ \A r \in Requests : requests[r].status # "converted" =>
           Unpublished(r) /\ \A w \in awaiting : w.op = "publish" => w.request # r
    /\ \A w \in awaiting : w.op = "publish" => Unpublished(w.request)

\* A market, or a copy that will be written back, is under the slug of its request.
InPlace ==
    /\ \A s \in Slugs : HasMarket(s) => Slug[markets[s].id] = s
    /\ \A w \in awaiting : w.op = "settlement" => Slug[w.market.id] = w.slug

\* The candidate of a call that waits for the oracle is not stored before.
IdsDistinct ==
    /\ \A r \in Requests : \A i, j \in DOMAIN candidates[r] : candidates[r][i].id = candidates[r][j].id => i = j
    /\ \A w \in awaiting : w.op = "settlement" =>
           /\ \A r \in Requests : \A i \in DOMAIN candidates[r] : candidates[r][i].id # w.candidate
           /\ \A v \in awaiting : v.op = "settlement" /\ v.candidate = w.candidate => v = w

Deciding(m) == resolutions[m].status \in {"pending_oracle", "disputed"}

\* A dispute is about a candidate that is stored.
DisputesOf(m) ==
    /\ \A i, j \in DOMAIN disputes[m] :
           disputes[m][i].status \in OpenDispute /\ disputes[m][j].status \in OpenDispute => i = j
    /\ SomeDisputeOpen(m) => Deciding(m)
    /\ Deciding(m) => \E i \in DOMAIN candidates[m] : candidates[m][i].id = resolutions[m].candidate
    /\ resolutions[m].status = "none" => resolutions[m].candidate = NoCandidate

DisputesInv == \A m \in Requests : DisputesOf(m)

\* What the only candidate of a market has come to.
StatusOf(s) ==
    LET m == markets[s].id
        status == markets[s].status
    IN /\ status \in PendingStatuses => Deciding(m)
       /\ Len(candidates[m]) = 1 =>
             /\ SomeDisputeOpen(m) => status = "disputed"
             /\ resolutions[m].status = "disputed" <=> status = "disputed"
             /\ resolutions[m].status = "disputed" => candidates[m][1].status = "rejected"
             /\ resolutions[m].status = "pending_oracle" => candidates[m][1].status = "proposed"

StatusInv == \A s \in Slugs : HasMarket(s) => StatusOf(s)

Quiet(m) ==
    /\ ~SomeDisputeOpen(m)
    /\ \A i \in DOMAIN orders : orders[i].market = m => orders[i].status \notin Active

IInv == TypeOK /\ ConvertedOnce /\ InPlace /\ IdsDistinct /\ DisputesInv /\ StatusInv /\ SettledMarketIsQuiet

-----------------------------------------------------------------------------
(* Sequences and types *)

LEMMA Prepend ==
    ASSUME NEW S, NEW s \in Seq(S), NEW x \in S
    PROVE  /\ <<x>> \o s \in Seq(S) /\ Len(<<x>> \o s) = Len(s) + 1 /\ DOMAIN (<<x>> \o s) = 1..Len(s) + 1
           /\ (<<x>> \o s)[1] = x /\ \A i \in 1..Len(s) : (<<x>> \o s)[i + 1] = s[i]
           /\ \A j \in DOMAIN (<<x>> \o s) : j = 1 \/ \E i \in 1..Len(s) : j = i + 1
<1> DEFINE t == <<x>> \o s
<1>1. <<x>> \in Seq(S) /\ Len(<<x>>) = 1 /\ <<x>>[1] = x
  OBVIOUS
<1>2. Len(s) \in Nat
  OBVIOUS
<1>3. t \in Seq(S) /\ Len(t) = 1 + Len(s) /\ \A i \in 1..Len(t) : t[i] = IF i <= 1 THEN <<x>>[i] ELSE s[i - 1]
  BY <1>1, <1>2, ConcatProperties
<1>4. DOMAIN t = 1..Len(s) + 1 /\ Len(t) = Len(s) + 1
  BY <1>2, <1>3
<1>5. \A i \in 1..Len(s) : i + 1 \in 1..Len(t) /\ ~(i + 1 <= 1) /\ i + 1 - 1 = i
  BY <1>2, <1>4
<1>6. \A i \in 1..Len(s) : t[i + 1] = s[i]
  BY <1>3, <1>5
<1>7. \A j \in 1..Len(s) + 1 : j = 1 \/ (j - 1 \in 1..Len(s) /\ j = (j - 1) + 1)
  BY <1>2
<1>8. t[1] = x
  BY <1>1, <1>2, <1>3, <1>4
<1> QED
  BY <1>3, <1>4, <1>6, <1>7, <1>8

LEMMA Rewritten ==
    ASSUME NEW S, NEW s \in Seq(S), NEW t \in [DOMAIN s -> S]
    PROVE  t \in Seq(S) /\ Len(t) = Len(s) /\ DOMAIN t = DOMAIN s
<1>1. Len(s) \in Nat /\ DOMAIN s = 1..Len(s)
  BY LenProperties
<1>2. t \in [1..Len(s) -> S]
  BY <1>1
<1> QED
  BY <1>1, <1>2, IsASeq, LenProperties

LEMMA MarketTypes ==
    ASSUME TypeOK
    PROVE  /\ \A s \in Slugs : HasMarket(s) => markets[s] \in Market /\ markets[s].id \in Requests
           /\ \A r \in Requests :
                  /\ Slug[r] \in Slugs
                  /\ candidates[r] \in Seq(Candidate) /\ Len(candidates[r]) \in Nat
                  /\ DOMAIN candidates[r] = 1..Len(candidates[r])
                  /\ \A i \in DOMAIN candidates[r] : candidates[r][i] \in Candidate
                  /\ disputes[r] \in Seq(Dispute) /\ Len(disputes[r]) \in Nat
                  /\ DOMAIN disputes[r] = 1..Len(disputes[r])
                  /\ \A i \in DOMAIN disputes[r] : disputes[r][i] \in Dispute
           /\ \A w \in awaiting :
                  /\ w.op = "publish" => w.request \in Requests
                  /\ w.op = "settlement" => w.slug \in Slugs /\ w.market \in Market /\ w.candidate \in Candidates
                  /\ w.op = "reconcile" => w.slug \in Slugs /\ w.market \in Requests /\ w.row \in Candidate
<1>1. \A s \in Slugs : HasMarket(s) => markets[s] \in Market /\ markets[s].id \in Requests
  BY DEF TypeOK, HasMarket, Market
<1>2. ASSUME NEW r \in Requests
      PROVE  /\ Slug[r] \in Slugs
             /\ candidates[r] \in Seq(Candidate) /\ disputes[r] \in Seq(Dispute)
  BY DEF TypeOK, Slugs
<1>3. ASSUME NEW S, NEW s \in Seq(S)
      PROVE  Len(s) \in Nat /\ DOMAIN s = 1..Len(s) /\ \A i \in DOMAIN s : s[i] \in S
  BY LenProperties, ElementOfSeq
<1>4. ASSUME NEW w \in awaiting
      PROVE  /\ w.op = "publish" => w.request \in Requests
             /\ w.op = "settlement" => w.slug \in Slugs /\ w.market \in Market /\ w.candidate \in Candidates
             /\ w.op = "reconcile" => w.slug \in Slugs /\ w.market \in Requests /\ w.row \in Candidate
  <2>1. w \in Waiting
    BY DEF TypeOK
  <2> QED
    BY <2>1 DEF Waiting
<1> QED
  BY <1>1, <1>2, <1>3, <1>4

-----------------------------------------------------------------------------
(* What a step leaves as it was *)

\* A step that stores no candidate, market or request that was not there.
Frame ==
    /\ \A s \in Slugs : HasMarket(s)' => HasMarket(s) /\ markets'[s].id = markets[s].id
    /\ \A w \in awaiting' : w.op \in {"publish", "settlement"} => w \in awaiting
    /\ \A r \in Requests :
           /\ requests'[r].status # "converted" => requests[r].status # "converted"
           /\ Len(candidates'[r]) = Len(candidates[r])
           /\ \A i \in DOMAIN candidates[r] : candidates'[r][i].id = candidates[r][i].id

LEMMA FrameKeeps ==
    ASSUME IInv, TypeOK', Frame
    PROVE  /\ ConvertedOnce' /\ InPlace' /\ IdsDistinct'
           /\ \A r \in Requests : DOMAIN candidates'[r] = DOMAIN candidates[r]
<1> USE DEF IInv
<1>1. \A r \in Requests : DOMAIN candidates'[r] = DOMAIN candidates[r] /\ (candidates[r] = <<>> => candidates'[r] = <<>>)
  <2>1. ASSUME NEW r \in Requests
        PROVE  DOMAIN candidates'[r] = DOMAIN candidates[r] /\ (candidates[r] = <<>> => candidates'[r] = <<>>)
    <3>1. candidates'[r] \in Seq(Candidate) /\ Len(candidates'[r]) = Len(candidates[r])
      BY DEF TypeOK, Frame
    <3> QED
      BY <3>1, MarketTypes, EmptySeq
  <2> QED
    BY <2>1
<1>2. ASSUME NEW r \in Requests, Unpublished(r)
      PROVE  Unpublished(r)'
  BY <1>1, <1>2 DEF Unpublished, Frame
<1>3. ConvertedOnce'
  <2>1. \A r \in Requests : requests'[r].status # "converted" =>
            Unpublished(r)' /\ \A w \in awaiting' : w.op = "publish" => w.request # r
    BY <1>2 DEF ConvertedOnce, Frame
  <2>2. ASSUME NEW w \in awaiting', w.op = "publish"
        PROVE  Unpublished(w.request)'
    <3>1. w \in awaiting
      BY <2>2 DEF Frame
    <3>2. w.request \in Requests /\ Unpublished(w.request)
      BY <2>2, <3>1, MarketTypes DEF ConvertedOnce
    <3> QED
      BY <3>2, <1>2
  <2> QED
    BY <2>1, <2>2 DEF ConvertedOnce
<1>4. InPlace'
  BY DEF InPlace, Frame
<1>5. IdsDistinct'
  BY <1>1 DEF IdsDistinct, Frame
<1> QED
  BY <1>1, <1>3, <1>4, <1>5

LEMMA DisputesStay ==
    ASSUME IInv, TypeOK', Frame, UNCHANGED <<disputes, resolutions>>
    PROVE  DisputesInv'
<1>1. \A r \in Requests : DOMAIN candidates'[r] = DOMAIN candidates[r]
  BY FrameKeeps
<1> QED
  BY <1>1 DEF IInv, DisputesInv, DisputesOf, SomeDisputeOpen, Deciding, Frame

\* A step that leaves markets and their decisions alone.
LEMMA MarketsStay ==
    ASSUME IInv, TypeOK', Frame, UNCHANGED <<markets, disputes, resolutions>>,
           \A r \in Requests : \A i \in DOMAIN candidates[r] : candidates'[r][i].status = candidates[r][i].status,
           \A i \in DOMAIN orders' : orders'[i].status \in Active =>
               \/ i \in DOMAIN orders /\ orders[i].status \in Active /\ orders'[i].market = orders[i].market
               \/ \A s \in Slugs : HasMarket(s) /\ markets[s].id = orders'[i].market => markets[s].status # "settled"
    PROVE  IInv'
<1> USE DEF IInv
<1>1. ConvertedOnce' /\ InPlace' /\ IdsDistinct' /\ DisputesInv'
  BY FrameKeeps, DisputesStay
<1>2. StatusInv'
  <2>1. ASSUME NEW r \in Requests, Len(candidates'[r]) = 1
        PROVE  Len(candidates[r]) = 1 /\ candidates'[r][1].status = candidates[r][1].status
    <3>1. Len(candidates[r]) = 1 /\ DOMAIN candidates[r] = 1..Len(candidates[r])
      BY <2>1, MarketTypes DEF Frame
    <3> QED
      BY <3>1
  <2>2. ASSUME NEW s \in Slugs, HasMarket(s)
        PROVE  markets[s].id \in Requests
    BY <2>2, MarketTypes
  <2> QED
    BY <2>1, <2>2 DEF StatusInv, StatusOf, SomeDisputeOpen, Deciding, HasMarket
<1>3. SettledMarketIsQuiet'
  BY DEF SettledMarketIsQuiet, SomeDisputeOpen, HasMarket
<1> QED
  BY <1>1, <1>2, <1>3

-----------------------------------------------------------------------------
(* The history of a market *)

\* What a step may do to candidates, disputes and evidence.
HistoryGrows ==
    /\ \A r \in Requests :
           /\ \A i \in DOMAIN candidates[r] : \E j \in DOMAIN candidates'[r] : candidates'[r][j].id = candidates[r][i].id
           /\ \A i \in DOMAIN disputes[r] : \E j \in DOMAIN disputes'[r] :
                  /\ disputes'[r][j].id = disputes[r][i].id
                  /\ disputes[r][i].status \in ClosedDispute => disputes'[r][j].status = disputes[r][i].status
    /\ \A d \in Disputes : evidence[d] \in Nat /\ evidence'[d] \in Nat /\ evidence[d] <= evidence'[d]

LEMMA EvidenceTyped ==
    ASSUME TypeOK
    PROVE  \A d \in Disputes : evidence[d] \in Nat
BY MemoryAssumption DEF TypeOK

LEMMA HistoryStays ==
    ASSUME TypeOK, UNCHANGED <<candidates, disputes, evidence>>
    PROVE  HistoryGrows
BY EvidenceTyped DEF HistoryGrows

-----------------------------------------------------------------------------
(* Requests and trading *)

LEMMA RequestTyped ==
    ASSUME TypeOK, NEW r \in Requests
    PROVE  requests[r] \in [status : RequestStatuses, text : Texts \cup {NoText},
                            answers : [Questions -> Texts \cup {NoText}]]
BY DEF TypeOK

\* A step of a request alone, which does not convert it.
LEMMA RequestKeeps ==
    ASSUME IInv, NEW r \in Requests,
           NEW row \in [status : RequestStatuses, text : Texts \cup {NoText}, answers : [Questions -> Texts \cup {NoText}]],
           requests' = [requests EXCEPT ![r] = row], requests[r].status # "converted",
           UNCHANGED <<marketVars, tradingVars, awaiting>>
    PROVE  IInv'
<1> USE DEF IInv
<1>1. TypeOK'
  BY DEF TypeOK, marketVars, tradingVars
<1>2. \A q \in Requests : q # r => requests'[q] = requests[q]
  BY DEF TypeOK
<1>3. Frame
  BY <1>2 DEF Frame, HasMarket, marketVars
<1> QED
  BY <1>1, <1>3, MarketsStay DEF marketVars, tradingVars

LEMMA RequestNextKeeps ==
    ASSUME IInv, NEW r \in Requests,
           \/ \E text \in Texts : CreateRequest(r, text)
           \/ \E u \in Users, text \in Texts : UpdateRequest(r, u, text)
           \/ \E u \in Users : SubmitRequest(r, u)
           \/ \E u \in Users, q \in Questions, text \in Texts : UpsertAnswer(r, u, q, text)
           \/ \E approved \in BOOLEAN : ReviewRequest(r, approved)
    PROVE  IInv'
<1>1. PICK old \in [status : RequestStatuses, text : Texts \cup {NoText}, answers : [Questions -> Texts \cup {NoText}]] :
          old = requests[r]
  BY RequestTyped DEF IInv
<1>2. ASSUME NEW text \in Texts, CreateRequest(r, text)
      PROVE  IInv'
  <2> DEFINE row == [old EXCEPT !.status = "draft", !.text = text]
  <2>1. row \in [status : RequestStatuses, text : Texts \cup {NoText}, answers : [Questions -> Texts \cup {NoText}]]
    BY DEF RequestStatuses
  <2>2. requests' = [requests EXCEPT ![r] = row]
    BY <1>1, <1>2 DEF CreateRequest, IInv, TypeOK
  <2> HIDE DEF row
  <2> QED
    BY <1>2, <2>1, <2>2, RequestKeeps DEF CreateRequest
<1>3. ASSUME NEW u \in Users, NEW text \in Texts, UpdateRequest(r, u, text)
      PROVE  IInv'
  <2> DEFINE row == [old EXCEPT !.text = text]
  <2>1. row \in [status : RequestStatuses, text : Texts \cup {NoText}, answers : [Questions -> Texts \cup {NoText}]]
    OBVIOUS
  <2>2. requests' = [requests EXCEPT ![r] = row]
    BY <1>1, <1>3 DEF UpdateRequest, IInv, TypeOK
  <2> HIDE DEF row
  <2> QED
    BY <1>3, <2>1, <2>2, RequestKeeps DEF UpdateRequest
<1>4. ASSUME NEW u \in Users, NEW q \in Questions, NEW text \in Texts, UpsertAnswer(r, u, q, text)
      PROVE  IInv'
  <2> DEFINE answers == [old.answers EXCEPT ![q] = text]
             row == [old EXCEPT !.answers = answers]
  <2>1. answers \in [Questions -> Texts \cup {NoText}]
    OBVIOUS
  <2>2. requests' = [requests EXCEPT ![r] = [requests[r] EXCEPT !.answers = [requests[r].answers EXCEPT ![q] = text]]]
    BY <1>4 DEF UpsertAnswer
  <2>3. requests' = [requests EXCEPT ![r] = row]
    BY <1>1, <2>2
  <2> HIDE DEF answers
  <2>4. row \in [status : RequestStatuses, text : Texts \cup {NoText}, answers : [Questions -> Texts \cup {NoText}]]
    BY <2>1
  <2> HIDE DEF row
  <2> QED
    BY <1>4, <2>3, <2>4, RequestKeeps DEF UpsertAnswer
<1>5. ASSUME NEW u \in Users, SubmitRequest(r, u)
      PROVE  IInv'
  <2> DEFINE row == [old EXCEPT !.status = "submitted"]
  <2>1. row \in [status : RequestStatuses, text : Texts \cup {NoText}, answers : [Questions -> Texts \cup {NoText}]]
    BY DEF RequestStatuses
  <2>2. requests' = [requests EXCEPT ![r] = row]
    BY <1>1, <1>5 DEF SubmitRequest, IInv, TypeOK
  <2> HIDE DEF row
  <2> QED
    BY <1>5, <2>1, <2>2, RequestKeeps DEF SubmitRequest
<1>6. ASSUME NEW approved \in BOOLEAN, ReviewRequest(r, approved)
      PROVE  IInv'
  <2> DEFINE row == [old EXCEPT !.status = IF approved THEN "approved" ELSE "rejected"]
  <2>1. row \in [status : RequestStatuses, text : Texts \cup {NoText}, answers : [Questions -> Texts \cup {NoText}]]
    BY DEF RequestStatuses
  <2>2. requests' = [requests EXCEPT ![r] = row]
    BY <1>1, <1>6 DEF ReviewRequest, IInv, TypeOK
  <2> HIDE DEF row
  <2> QED
    BY <1>6, <2>1, <2>2, RequestKeeps DEF ReviewRequest
<1> QED
  BY <1>2, <1>3, <1>4, <1>5, <1>6

\* A step of the orders of the markets that are not settled, or of balances.
LEMMA TradingKeeps ==
    ASSUME IInv, orders' \in Seq(Order), balances' \in [Users \X Rails -> Nat \cup {Unset}],
           UNCHANGED <<requests, marketVars, awaiting>>,
           \A i \in DOMAIN orders' : orders'[i].status \in Active =>
               \/ i \in DOMAIN orders /\ orders[i].status \in Active /\ orders'[i].market = orders[i].market
               \/ \A s \in Slugs : HasMarket(s) /\ markets[s].id = orders'[i].market => markets[s].status # "settled"
    PROVE  IInv'
<1>1. TypeOK'
  BY DEF IInv, TypeOK, marketVars
<1>2. Frame
  BY DEF Frame, HasMarket, marketVars
<1> QED
  BY <1>1, <1>2, MarketsStay DEF marketVars

LEMMA SeedTyped ==
    ASSUME TypeOK, NEW u \in Users, NEW rail \in Rails
    PROVE  SeedBalance(u, rail) \in Nat /\ Seed \in Nat
BY MemoryAssumption DEF TypeOK, SeedBalance, Unset

LEMMA OrdersTyped ==
    ASSUME TypeOK
    PROVE  /\ Len(orders) \in Nat /\ DOMAIN orders = 1..Len(orders) /\ orders \in Seq(Order)
           /\ \A i \in DOMAIN orders : orders[i] \in Order
BY LenProperties, ElementOfSeq DEF TypeOK

LEMMA CreateMarketOrderKeeps ==
    ASSUME IInv, NEW s \in Slugs, NEW u \in Users, NEW o \in Outcomes, NEW side \in {"buy", "sell"},
           NEW q \in Quantities, NEW p \in Prices, CreateMarketOrder(s, u, o, side, q, p)
    PROVE  IInv'
<1> USE DEF IInv
<1> DEFINE m == markets[s].id
           order == [market |-> m, owner |-> u, outcome |-> o, side |-> side, price |-> p,
                     quantity |-> q, remaining |-> q, status |-> "open"]
<1>1. /\ HasMarket(s) /\ markets[s].status \in {"pending_liquidity", "open"} /\ ValidPrice(p)
      /\ UNCHANGED <<requests, marketVars, awaiting>>
      /\ balances' = [balances EXCEPT ![<<u, Rail[m]>>] = SeedBalance(u, Rail[m])]
      /\ orders' = orders \/ orders' = Append(orders, order)
  BY DEF CreateMarketOrder
<1>2. m \in Requests /\ Rail[m] \in Rails
  BY <1>1, MarketTypes, MemoryAssumption
<1>3. balances' \in [Users \X Rails -> Nat \cup {Unset}]
  BY <1>1, <1>2, SeedTyped DEF TypeOK
<1>4. p \in 1..Scale - 1
  BY <1>1, MemoryAssumption DEF ValidPrice
<1>5. order \in Order /\ order.market = m
  BY <1>2, <1>4 DEF Order
<1>6. \A t \in Slugs : HasMarket(t) /\ markets[t].id = m => markets[t].status # "settled"
  BY <1>1 DEF InPlace
<1>7. CASE orders' = orders
  BY <1>1, <1>3, <1>7, TradingKeeps DEF TypeOK
<1>8. CASE orders' = Append(orders, order)
  <2> HIDE DEF order, m
  <2>1. /\ orders' \in Seq(Order) /\ Len(orders') = Len(orders) + 1 /\ orders'[Len(orders) + 1] = order
        /\ \A i \in 1..Len(orders) : orders'[i] = orders[i]
    BY <1>5, <1>8, OrdersTyped, AppendProperties
  <2>2. DOMAIN orders' = 1..Len(orders) + 1 /\ Len(orders) \in Nat /\ DOMAIN orders = 1..Len(orders)
    BY <2>1, OrdersTyped
  <2>3. \A i \in DOMAIN orders' : (i \in DOMAIN orders /\ orders'[i] = orders[i]) \/ orders'[i].market = m
    BY <1>5, <2>1, <2>2
  <2> QED
    BY <1>1, <1>3, <1>6, <2>1, <2>3, TradingKeeps
<1> QED
  BY <1>1, <1>7, <1>8

LEMMA CancelMarketOrderKeeps ==
    ASSUME IInv, NEW s \in Slugs, NEW i \in DOMAIN orders, CancelMarketOrder(s, i)
    PROVE  IInv'
<1> USE DEF IInv
<1>1. PICK order \in Order : order = orders[i]
  BY OrdersTyped
<1> DEFINE cancelled == [order EXCEPT !.status = "cancelled"]
<1>2. cancelled \in Order /\ cancelled.status = "cancelled"
  BY DEF Order
<1>3. orders' = [orders EXCEPT ![i] = cancelled] /\ UNCHANGED <<requests, marketVars, balances, awaiting>>
  BY <1>1 DEF CancelMarketOrder
<1> HIDE DEF cancelled
<1>4. orders' \in Seq(Order) /\ DOMAIN orders' = DOMAIN orders /\ \A j \in DOMAIN orders : j # i => orders'[j] = orders[j]
  <2>1. orders' \in [DOMAIN orders -> Order] /\ \A j \in DOMAIN orders : j # i => orders'[j] = orders[j]
    BY <1>2, <1>3, OrdersTyped
  <2> QED
    BY <2>1, Rewritten, OrdersTyped
<1>5. orders'[i].status \notin Active
  BY <1>2, <1>3 DEF Active
<1>6. balances' \in [Users \X Rails -> Nat \cup {Unset}]
  BY <1>3 DEF TypeOK
<1> QED
  BY <1>3, <1>4, <1>5, <1>6, TradingKeeps

LEMMA BalancesKeep ==
    ASSUME IInv, NEW u \in Users, NEW rail \in Rails,
           GetPortfolioSummary(u, rail) \/ \E amount \in Grants : FundBalance(u, rail, amount)
    PROVE  IInv'
<1> USE DEF IInv
<1>1. /\ Seed \in Nat /\ Grants \subseteq Nat /\ balances \in [Users \X Rails -> Nat \cup {Unset}]
      /\ <<u, rail>> \in Users \X Rails
  BY MemoryAssumption DEF TypeOK
<1>2. CASE GetPortfolioSummary(u, rail)
  <2>1. balances' = [balances EXCEPT ![<<u, rail>>] = Seed]
    BY <1>2 DEF GetPortfolioSummary
  <2>2. balances' \in [Users \X Rails -> Nat \cup {Unset}]
    BY <1>1, <2>1
  <2> QED
    BY <1>2, <2>2, TradingKeeps DEF GetPortfolioSummary, TypeOK
<1>3. ASSUME NEW amount \in Grants, FundBalance(u, rail, amount)
      PROVE  IInv'
  <2>1. PICK b \in Nat \cup {Unset} : b = balances[<<u, rail>>]
    BY <1>1
  <2>2. balances' = [balances EXCEPT ![<<u, rail>>] = amount + (IF b = Unset THEN 0 ELSE b)]
    BY <1>3, <2>1 DEF FundBalance
  <2>3. amount + (IF b = Unset THEN 0 ELSE b) \in Nat
    BY <1>1, <2>1
  <2>4. balances' \in [Users \X Rails -> Nat \cup {Unset}]
    BY <1>1, <2>2, <2>3
  <2> QED
    BY <1>3, <2>4, TradingKeeps DEF FundBalance, TypeOK
<1> QED
  BY <1>2, <1>3

-----------------------------------------------------------------------------
(* Publication and answers *)

LEMMA PublishFromRequestKeeps ==
    ASSUME IInv, NEW r \in Requests, PublishFromRequest(r)
    PROVE  IInv'
<1> USE DEF IInv
<1>1. PICK old \in [status : RequestStatuses, text : Texts \cup {NoText}, answers : [Questions -> Texts \cup {NoText}]] :
          old = requests[r]
  BY RequestTyped
<1> DEFINE row == [old EXCEPT !.status = "converted"]
           w == [op |-> "publish", request |-> r]
<1>2. row \in [status : RequestStatuses, text : Texts \cup {NoText}, answers : [Questions -> Texts \cup {NoText}]]
  BY DEF RequestStatuses
<1>3. w \in Waiting /\ w.op = "publish" /\ w.request = r
  BY DEF Waiting
<1>4. requests' = [requests EXCEPT ![r] = row] /\ awaiting' = awaiting \cup {w} /\ UNCHANGED <<marketVars, tradingVars>>
  BY <1>1 DEF PublishFromRequest, TypeOK
<1>5. requests[r].status # "converted" /\ \A q \in Requests : q # r => requests'[q] = requests[q]
  BY <1>4 DEF PublishFromRequest, TypeOK
<1>6. requests'[r].status = "converted"
  BY <1>4 DEF TypeOK
<1> HIDE DEF row, w
<1>7. TypeOK'
  BY <1>2, <1>3, <1>4 DEF TypeOK, marketVars, tradingVars
<1>8. \A v \in awaiting' : v \in awaiting \/ v = w
  BY <1>4
<1>9. \A q : Unpublished(q)' <=> Unpublished(q)
  BY <1>3, <1>4, <1>8 DEF Unpublished, HasMarket, marketVars
<1>10. ConvertedOnce'
  BY <1>3, <1>5, <1>6, <1>8, <1>9 DEF ConvertedOnce
<1>11. InPlace' /\ IdsDistinct'
  BY <1>3, <1>4, <1>8 DEF InPlace, IdsDistinct, HasMarket, marketVars
<1>12. DisputesInv' /\ StatusInv' /\ SettledMarketIsQuiet'
  BY <1>4 DEF DisputesInv, DisputesOf, StatusInv, StatusOf, SettledMarketIsQuiet, SomeDisputeOpen, Deciding,
     HasMarket, marketVars, tradingVars
<1> QED
  BY <1>7, <1>10, <1>11, <1>12

LEMMA InterruptedKeeps ==
    ASSUME IInv, NEW w \in awaiting, Interrupted(w)
    PROVE  IInv'
<1>1. awaiting' \subseteq awaiting /\ UNCHANGED <<requests, marketVars, tradingVars>>
  BY DEF Interrupted
<1>2. TypeOK'
  BY <1>1 DEF IInv, TypeOK, marketVars, tradingVars
<1>3. Frame
  BY <1>1 DEF Frame, HasMarket, marketVars
<1> QED
  BY <1>1, <1>2, <1>3, MarketsStay DEF marketVars, tradingVars

\* No market that was published before is published again.
LEMMA PublishAnsweredKeeps ==
    ASSUME IInv, NEW w \in awaiting, PublishAnswered(w)
    PROVE  IInv'
<1> USE DEF IInv
<1>1. PICK r \in Requests : r = w.request
  BY MarketTypes DEF PublishAnswered
<1> DEFINE s == Slug[r]
           new == [id |-> r, status |-> "pending_liquidity", winner |-> NoOutcome]
<1>2. s \in Slugs /\ new \in Market /\ new.id = r /\ new.status = "pending_liquidity"
  BY MarketTypes DEF Market, MarketStatuses
<1>3. /\ w.op = "publish" /\ markets' = [markets EXCEPT ![s] = new] /\ awaiting' = awaiting \ {w}
      /\ UNCHANGED <<requests, resolutions, candidates, disputes, evidence, tradingVars>>
  BY <1>1 DEF PublishAnswered
<1> HIDE DEF s, new
<1>4. TypeOK'
  BY <1>2, <1>3 DEF TypeOK, tradingVars
<1>5. markets'[s] = new /\ \A t \in Slugs : t # s => markets'[t] = markets[t]
  BY <1>2, <1>3 DEF TypeOK
<1>6. Unpublished(r)
  BY <1>1, <1>3 DEF ConvertedOnce
<1>7. \A q \in Requests : q # r /\ Unpublished(q) => Unpublished(q)'
  BY <1>2, <1>3, <1>5 DEF Unpublished, HasMarket
<1>8. ConvertedOnce'
  <2>1. requests[r].status = "converted"
    BY <1>1, <1>3 DEF ConvertedOnce
  <2>2. \A v \in awaiting : v.op = "publish" /\ v # w => v.request \in Requests /\ v.request # r
    <3>1. ASSUME NEW v \in awaiting, v.op = "publish", v.request = r
          PROVE  v = w
      <4>1. v \in Waiting /\ w \in Waiting
        BY DEF TypeOK
      <4>2. v \in [op : {"publish"}, request : Requests] /\ w \in [op : {"publish"}, request : Requests]
        BY <1>3, <3>1, <4>1 DEF Waiting
      <4> QED
        BY <1>1, <3>1, <4>2
    <3> QED
      BY <3>1, MarketTypes
  <2> QED
    BY <1>3, <1>7, <2>1, <2>2 DEF ConvertedOnce
<1>9. InPlace'
  BY <1>2, <1>3, <1>5 DEF InPlace, HasMarket, s
<1>10. IdsDistinct' /\ DisputesInv'
  BY <1>3 DEF IdsDistinct, DisputesInv, DisputesOf, SomeDisputeOpen, Deciding
<1>11. candidates'[r] = <<>> /\ Len(candidates'[r]) # 1
  BY <1>3, <1>6 DEF Unpublished
<1>12. StatusInv'
  <2>1. ASSUME NEW t \in Slugs, t = s
        PROVE  markets'[t].id = r /\ markets'[t].status \notin PendingStatuses
    BY <1>2, <1>5, <2>1 DEF PendingStatuses
  <2>2. ASSUME NEW t \in Slugs, t # s, HasMarket(t)'
        PROVE  HasMarket(t) /\ markets'[t] = markets[t]
    BY <1>5, <2>2 DEF HasMarket
  <2> QED
    BY <1>3, <1>11, <2>1, <2>2 DEF StatusInv, StatusOf, SomeDisputeOpen, Deciding
<1>13. SettledMarketIsQuiet'
  <2>1. ASSUME NEW t \in Slugs, HasMarket(t)', markets'[t].status = "settled"
        PROVE  HasMarket(t) /\ markets'[t] = markets[t]
    BY <1>2, <1>5, <2>1 DEF HasMarket
  <2> QED
    BY <1>3, <2>1 DEF SettledMarketIsQuiet, SomeDisputeOpen, tradingVars
<1> QED
  BY <1>4, <1>8, <1>9, <1>10, <1>12, <1>13

LEMMA RequestSettlementKeeps ==
    ASSUME IInv, NEW s \in Slugs, NEW c \in Candidates, NewCandidate(c), RequestSettlement(s, c)
    PROVE  IInv'
<1> USE DEF IInv
<1>1. PICK market \in Market : market = markets[s]
  BY MarketTypes DEF RequestSettlement
<1> DEFINE w == [op |-> "settlement", slug |-> s, market |-> market, candidate |-> c]
<1>2. /\ HasMarket(s) /\ awaiting' = awaiting \cup {w} /\ UNCHANGED <<requests, marketVars, tradingVars>>
  BY <1>1 DEF RequestSettlement
<1>3. w \in Waiting /\ w.op = "settlement" /\ w.slug = s /\ w.market = market /\ w.candidate = c
  BY DEF Waiting
<1> HIDE DEF w
<1>4. TypeOK'
  BY <1>2, <1>3 DEF TypeOK, marketVars, tradingVars
<1>5. \A v \in awaiting' : v \in awaiting \/ v = w
  BY <1>2
<1>6. \A q \in Requests : Unpublished(q) => Unpublished(q)'
  BY <1>1, <1>2, <1>3, <1>5 DEF Unpublished, HasMarket, marketVars
<1>7. ConvertedOnce'
  BY <1>2, <1>3, <1>5, <1>6, MarketTypes DEF ConvertedOnce
<1>8. InPlace'
  BY <1>1, <1>2, <1>3, <1>5 DEF InPlace, HasMarket, marketVars
<1>9. /\ \A r \in Requests : \A i \in DOMAIN candidates[r] : candidates[r][i].id # c
      /\ \A v \in awaiting : v.op = "settlement" => v.candidate # c
  BY DEF NewCandidate
<1>10. IdsDistinct'
  BY <1>2, <1>3, <1>5, <1>9 DEF IdsDistinct, marketVars
<1>11. DisputesInv' /\ StatusInv' /\ SettledMarketIsQuiet'
  BY <1>2 DEF DisputesInv, DisputesOf, StatusInv, StatusOf, SettledMarketIsQuiet, SomeDisputeOpen, Deciding,
     HasMarket, marketVars, tradingVars
<1> QED
  BY <1>4, <1>7, <1>8, <1>10, <1>11

LEMMA ReconcileKeeps ==
    ASSUME IInv, NEW s \in Slugs, ReconcileOracleResolution(s)
    PROVE  IInv'
<1> USE DEF IInv
<1>1. PICK m \in Requests : m = markets[s].id
  BY MarketTypes DEF ReconcileOracleResolution
<1>2. PICK i \in DOMAIN candidates[m] :
          /\ candidates[m][i].id = resolutions[m].candidate
          /\ awaiting' = awaiting \cup {[op |-> "reconcile", slug |-> s, market |-> m,
                row |-> [candidates[m][i] EXCEPT !.payload = resolutions[m].status]]}
  BY <1>1 DEF ReconcileOracleResolution
<1>3. PICK old \in Candidate : old = candidates[m][i]
  BY MarketTypes
<1>4. resolutions[m].status \in {"pending_oracle", "disputed", "finalized"}
  <2>1. resolutions[m] \in Resolution /\ old.id # NoCandidate
    BY DEF TypeOK, Candidate, Candidates, NoCandidate
  <2> QED
    BY <1>2, <1>3, <2>1 DEF Resolution, DisputesInv, DisputesOf
<1>5. PICK status \in {"pending_oracle", "disputed", "finalized"} : status = resolutions[m].status
  BY <1>4
<1> DEFINE w == [op |-> "reconcile", slug |-> s, market |-> m, row |-> [old EXCEPT !.payload = status]]
<1>6. awaiting' = awaiting \cup {w} /\ UNCHANGED <<requests, marketVars, tradingVars>>
  BY <1>1, <1>2, <1>3, <1>5 DEF ReconcileOracleResolution
<1>7. w \in Waiting /\ w.op = "reconcile"
  BY DEF Waiting, Candidate
<1> HIDE DEF w
<1>8. TypeOK'
  BY <1>6, <1>7 DEF TypeOK, marketVars, tradingVars
<1>9. Frame
  BY <1>6, <1>7 DEF Frame, HasMarket, marketVars
<1> QED
  BY <1>6, <1>8, <1>9, MarketsStay DEF marketVars, tradingVars

LEMMA ReconciledKeeps ==
    ASSUME IInv, NEW w \in awaiting, Reconciled(w)
    PROVE  IInv' /\ HistoryGrows
<1> USE DEF IInv
<1>1. PICK m \in Requests, row \in Candidate : m = w.market /\ row = w.row
  BY MarketTypes DEF Reconciled
<1> DEFINE old == candidates[m]
           New(i) == IF old[i].id = row.id THEN [old[i] EXCEPT !.payload = row.payload] ELSE old[i]
           new == [i \in DOMAIN old |-> New(i)]
<1>2. /\ candidates' = [candidates EXCEPT ![m] = new] /\ awaiting' \subseteq awaiting
      /\ UNCHANGED <<requests, markets, resolutions, disputes, evidence, tradingVars>>
  BY <1>1 DEF Reconciled, TypeOK
<1>3. \A i \in DOMAIN old : New(i) \in Candidate /\ New(i).id = old[i].id /\ New(i).status = old[i].status
  BY MarketTypes DEF Candidate
<1> HIDE DEF New
<1>4. new \in Seq(Candidate) /\ Len(new) = Len(old) /\ \A i \in DOMAIN old : new[i] = New(i)
  BY <1>3, Rewritten, MarketTypes
<1> HIDE DEF new
<1>5. candidates' \in [Requests -> Seq(Candidate)] /\ \A r \in Requests : candidates'[r] = IF r = m THEN new ELSE candidates[r]
  BY <1>2, <1>4 DEF TypeOK
<1>6. TypeOK'
  BY <1>2, <1>5 DEF TypeOK, tradingVars
<1>7. \A r \in Requests :
          /\ Len(candidates'[r]) = Len(candidates[r])
          /\ \A i \in DOMAIN candidates[r] : /\ candidates'[r][i].id = candidates[r][i].id
                                             /\ candidates'[r][i].status = candidates[r][i].status
  BY <1>3, <1>4, <1>5
<1>8. Frame
  BY <1>2, <1>7 DEF Frame, HasMarket
<1>9. HistoryGrows
  BY <1>2, <1>4, <1>5, <1>7, EvidenceTyped, MarketTypes DEF HistoryGrows
<1> QED
  BY <1>9, <1>2, <1>6, <1>7, <1>8, MarketsStay DEF tradingVars

-----------------------------------------------------------------------------
(* Status, disputes and settlement *)

\* A step of the market m under slug s: the other slugs hold other markets.
LEMMA OneMarketKeeps ==
    ASSUME IInv, TypeOK', ConvertedOnce', InPlace', IdsDistinct',
           NEW s \in Slugs, NEW m \in Requests, Slug[m] = s,
           \A t \in Slugs : t # s => markets'[t] = markets[t],
           \A r \in Requests : r # m => /\ resolutions'[r] = resolutions[r] /\ disputes'[r] = disputes[r]
                                        /\ candidates'[r] = candidates[r],
           \A i \in DOMAIN orders' : orders'[i].status \in Active =>
               i \in DOMAIN orders /\ orders[i].status \in Active /\ orders'[i].market = orders[i].market,
           DisputesOf(m)', StatusOf(s)', markets'[s].id = m, markets'[s].status = "settled" => Quiet(m)'
    PROVE  IInv'
<1>1. ASSUME NEW t \in Slugs, t # s, HasMarket(t)'
      PROVE  HasMarket(t) /\ markets'[t] = markets[t] /\ markets[t].id \in Requests /\ markets[t].id # m
  BY <1>1, MarketTypes DEF IInv, InPlace, HasMarket
<1>2. DisputesInv'
  BY DEF IInv, DisputesInv, DisputesOf, SomeDisputeOpen, Deciding
<1>3. StatusInv'
  <2>1. ASSUME NEW t \in Slugs, HasMarket(t)', t # s
        PROVE  StatusOf(t)'
    BY <1>1, <2>1 DEF IInv, StatusInv, StatusOf, SomeDisputeOpen, Deciding
  <2> QED
    BY <2>1 DEF StatusInv
<1>4. SettledMarketIsQuiet'
  <2>1. ASSUME NEW t \in Slugs, HasMarket(t)', t # s, markets'[t].status = "settled"
        PROVE  Quiet(markets[t].id)'
    BY <1>1, <2>1 DEF IInv, SettledMarketIsQuiet, Quiet, SomeDisputeOpen
  <2> QED
    BY <1>1, <2>1 DEF SettledMarketIsQuiet, Quiet
<1> QED
  BY <1>2, <1>3, <1>4 DEF IInv

LEMMA UpdateMarketStatusKeeps ==
    ASSUME IInv, NEW s \in Slugs, NEW status \in MarketStatuses, UpdateMarketStatus(s, status)
    PROVE  IInv'
<1> USE DEF IInv
<1>1. PICK old \in Market : old = markets[s]
  BY MarketTypes DEF UpdateMarketStatus
<1>2. PICK m \in Requests : m = old.id
  BY DEF Market
<1> DEFINE new == [old EXCEPT !.status = status]
<1>3. new \in Market /\ new.id = m /\ new.status = status
  BY <1>2 DEF Market
<1>4. /\ HasMarket(s) /\ status \in AllowedNextStatuses(old.status) /\ markets' = [markets EXCEPT ![s] = new]
      /\ UNCHANGED <<requests, resolutions, candidates, disputes, evidence, tradingVars, awaiting>>
  BY <1>1 DEF UpdateMarketStatus
<1>5. old.status \notin PendingStatuses \cup {"settled"} /\ status \notin PendingStatuses \cup {"settled"}
  BY <1>4 DEF AllowedNextStatuses, PendingStatuses
<1> HIDE DEF new
<1>6. TypeOK'
  BY <1>3, <1>4 DEF TypeOK, tradingVars
<1>7. markets'[s] = new /\ \A t \in Slugs : t # s => markets'[t] = markets[t]
  BY <1>4 DEF TypeOK
<1>8. Frame
  BY <1>1, <1>2, <1>3, <1>4, <1>7 DEF Frame, HasMarket
<1>9. ConvertedOnce' /\ InPlace' /\ IdsDistinct'
  BY <1>6, <1>8, FrameKeeps
<1>10. DisputesOf(m)'
  BY <1>4 DEF DisputesInv, DisputesOf, SomeDisputeOpen, Deciding
<1>11. StatusOf(s)'
  <2>1. StatusOf(s)
    BY <1>4 DEF StatusInv
  <2> QED
    BY <1>1, <1>2, <1>3, <1>4, <1>5, <1>7, <2>1 DEF StatusOf, SomeDisputeOpen, Deciding, PendingStatuses
<1>12. Slug[m] = s
  BY <1>1, <1>2, <1>4 DEF InPlace
<1> QED
  BY <1>3, <1>4, <1>5, <1>6, <1>7, <1>9, <1>10, <1>11, <1>12, OneMarketKeeps DEF tradingVars

LEMMA WithStatusTyped ==
    ASSUME TypeOK, NEW m \in Requests, NEW status \in {"proposed", "rejected", "confirmed"},
           NEW new, new = WithCandidateStatus(m, status)
    PROVE  /\ new \in Seq(Candidate) /\ Len(new) = Len(candidates[m]) /\ DOMAIN new = DOMAIN candidates[m]
           /\ \A i \in DOMAIN candidates[m] :
                  /\ new[i].id = candidates[m][i].id
                  /\ candidates[m][i].id = resolutions[m].candidate => new[i].status = status
<1> DEFINE Row(i) == IF candidates[m][i].id = resolutions[m].candidate
                     THEN [candidates[m][i] EXCEPT !.status = status] ELSE candidates[m][i]
<1>1. \A i \in DOMAIN candidates[m] :
          /\ Row(i) \in Candidate /\ Row(i).id = candidates[m][i].id
          /\ candidates[m][i].id = resolutions[m].candidate => Row(i).status = status
  BY MarketTypes DEF Candidate
<1>2. new = [i \in DOMAIN candidates[m] |-> Row(i)]
  BY DEF WithCandidateStatus
<1> HIDE DEF Row
<1>3. new \in [DOMAIN candidates[m] -> Candidate] /\ \A i \in DOMAIN candidates[m] : new[i] = Row(i)
  BY <1>1, <1>2
<1> QED
  BY <1>1, <1>3, Rewritten, MarketTypes

LEMMA CreateMarketDisputeKeeps ==
    ASSUME IInv, NEW s \in Slugs, NEW d \in Disputes, CreateMarketDispute(s, d)
    PROVE  IInv' /\ HistoryGrows
<1> USE DEF IInv
<1>1. PICK old \in Market : old = markets[s]
  BY MarketTypes DEF CreateMarketDispute
<1>2. PICK m \in Requests : m = old.id
  BY DEF Market
<1> DEFINE market == [old EXCEPT !.status = "disputed"]
           raised == [id |-> d, status |-> "open"]
           raisedAll == <<raised>> \o disputes[m]
           rejected == WithCandidateStatus(m, "rejected")
           decided == [resolutions[m] EXCEPT !.status = "disputed"]
<1>3. /\ HasMarket(s) /\ MayDispute(s)
      /\ markets' = [markets EXCEPT ![s] = market]
      /\ disputes' = [disputes EXCEPT ![m] = raisedAll]
      /\ resolutions' = [resolutions EXCEPT ![m] = decided]
      /\ candidates' = [candidates EXCEPT ![m] = rejected]
      /\ UNCHANGED <<requests, evidence, tradingVars, awaiting>>
  BY <1>1, <1>2 DEF CreateMarketDispute
<1>4. market \in Market /\ market.id = m /\ market.status = "disputed"
  BY <1>2 DEF Market, MarketStatuses, PendingStatuses
<1>5. raised \in Dispute /\ raised.status = "open"
  BY DEF Dispute, OpenDispute
<1>6. decided \in Resolution /\ decided.status = "disputed" /\ decided.candidate = resolutions[m].candidate
  BY DEF TypeOK, Resolution
<1>7. /\ rejected \in Seq(Candidate) /\ Len(rejected) = Len(candidates[m]) /\ DOMAIN rejected = DOMAIN candidates[m]
      /\ \A i \in DOMAIN candidates[m] :
             /\ rejected[i].id = candidates[m][i].id
             /\ candidates[m][i].id = resolutions[m].candidate => rejected[i].status = "rejected"
  BY WithStatusTyped
<1> HIDE DEF market, rejected, decided
<1>8. /\ raisedAll \in Seq(Dispute) /\ DOMAIN raisedAll = 1..Len(disputes[m]) + 1 /\ raisedAll[1] = raised
      /\ \A i \in 1..Len(disputes[m]) : raisedAll[i + 1] = disputes[m][i]
      /\ \A j \in DOMAIN raisedAll : j = 1 \/ \E i \in 1..Len(disputes[m]) : j = i + 1
  <2>1. disputes[m] \in Seq(Dispute) /\ raised \in Dispute
    BY <1>5, MarketTypes
  <2> HIDE DEF raised
  <2> QED
    BY <2>1, Prepend
<1> HIDE DEF raisedAll, raised
<1>9. TypeOK'
  BY <1>3, <1>4, <1>6, <1>7, <1>8 DEF TypeOK, tradingVars
<1>10. /\ markets'[s] = market /\ \A t \in Slugs : t # s => markets'[t] = markets[t]
       /\ disputes'[m] = raisedAll /\ resolutions'[m] = decided /\ candidates'[m] = rejected
       /\ \A r \in Requests : r # m => /\ resolutions'[r] = resolutions[r] /\ disputes'[r] = disputes[r]
                                       /\ candidates'[r] = candidates[r]
  BY <1>3 DEF TypeOK
<1>11. Frame
  BY <1>1, <1>2, <1>3, <1>4, <1>7, <1>10 DEF Frame, HasMarket
<1>12. ConvertedOnce' /\ InPlace' /\ IdsDistinct'
  BY <1>9, <1>11, FrameKeeps
<1>13. Deciding(m) /\ ~SomeDisputeOpen(m) /\ \E i \in DOMAIN candidates[m] : candidates[m][i].id = resolutions[m].candidate
  BY <1>1, <1>2, <1>3 DEF MayDispute, StatusInv, StatusOf, DisputesInv, DisputesOf
<1>14. DisputesOf(m)'
  <2>1. \A j \in DOMAIN raisedAll : raisedAll[j].status \in OpenDispute => j = 1
    BY <1>8, <1>13, MarketTypes DEF SomeDisputeOpen
  <2> QED
    BY <1>6, <1>7, <1>10, <1>13, <2>1 DEF DisputesOf, SomeDisputeOpen, Deciding
<1>15. StatusOf(s)'
  <2>1. ASSUME Len(candidates[m]) = 1
        PROVE  rejected[1].status = "rejected"
    <3>1. DOMAIN candidates[m] = 1..1
      BY <2>1, MarketTypes
    <3>2. 1 \in DOMAIN candidates[m] /\ candidates[m][1].id = resolutions[m].candidate
      BY <1>13, <3>1
    <3> QED
      BY <1>7, <3>2
  <2> QED
    BY <1>4, <1>6, <1>7, <1>10, <2>1 DEF StatusOf, Deciding
<1>16. Slug[m] = s
  BY <1>1, <1>2, <1>3 DEF InPlace
<1>17. HistoryGrows
  <2>1. \A i \in DOMAIN disputes[m] : i + 1 \in DOMAIN raisedAll /\ raisedAll[i + 1] = disputes[m][i]
    BY <1>8, MarketTypes
  <2> QED
    BY <1>3, <1>7, <1>10, <2>1, EvidenceTyped DEF HistoryGrows
<1> QED
  BY <1>17, <1>3, <1>4, <1>9, <1>10, <1>12, <1>14, <1>15, <1>16, OneMarketKeeps DEF tradingVars

LEMMA AddMarketDisputeEvidenceKeeps ==
    ASSUME IInv, NEW s \in Slugs, NEW d \in Disputes, AddMarketDisputeEvidence(s, d)
    PROVE  IInv' /\ HistoryGrows
<1>1. /\ evidence[d] < MaxEvidence /\ evidence' = [evidence EXCEPT ![d] = evidence[d] + 1]
      /\ UNCHANGED <<requests, markets, resolutions, candidates, disputes, tradingVars, awaiting>>
  BY DEF AddMarketDisputeEvidence
<1>2. evidence \in [Disputes -> 0 .. MaxEvidence] /\ evidence[d] + 1 \in 0 .. MaxEvidence
  BY <1>1, MemoryAssumption DEF IInv, TypeOK
<1>3. TypeOK'
  BY <1>1, <1>2 DEF IInv, TypeOK, tradingVars
<1>4. Frame
  BY <1>1 DEF Frame, HasMarket
<1>5. HistoryGrows
  <2>1. \A e \in Disputes : e # d => evidence'[e] = evidence[e]
    BY <1>1, <1>2
  <2>2. evidence'[d] = evidence[d] + 1
    BY <1>1, <1>2
  <2>3. \A e \in Disputes : evidence[e] \in Nat
    BY EvidenceTyped DEF IInv
  <2> QED
    BY <1>1, <2>1, <2>2, <2>3 DEF HistoryGrows
<1> QED
  BY <1>5, <1>1, <1>3, <1>4, MarketsStay DEF tradingVars

LEMMA ReviewMarketDisputeKeeps ==
    ASSUME IInv, NEW s \in Slugs, NEW d \in Disputes, NEW decision \in {"under_review"} \cup ClosedDispute,
           ReviewMarketDispute(s, d, decision)
    PROVE  IInv' /\ HistoryGrows
<1> USE DEF IInv
<1>1. PICK old \in Market : old = markets[s]
  BY MarketTypes DEF ReviewMarketDispute
<1>2. PICK m \in Requests : m = old.id
  BY DEF Market
<1>3. PICK i \in DOMAIN disputes[m] :
          disputes[m][i].status \notin ClosedDispute /\ disputes' = [disputes EXCEPT ![m][i].status = decision]
  BY <1>1, <1>2 DEF ReviewMarketDispute, DisputeIndex
<1>4. PICK dispute \in Dispute : dispute = disputes[m][i]
  BY MarketTypes
<1>5. PICK reinstates \in BOOLEAN : reinstates <=> decision \in {"dismissed", "withdrawn"}
  OBVIOUS
<1> DEFINE market == [old EXCEPT !.status = IF reinstates THEN "awaiting_resolution" ELSE "disputed"]
           reviewed == [dispute EXCEPT !.status = decision]
           all == [disputes[m] EXCEPT ![i] = reviewed]
           proposed == WithCandidateStatus(m, "proposed")
           decided == [resolutions[m] EXCEPT !.status = IF reinstates THEN "pending_oracle" ELSE "disputed"]
           rows == IF reinstates THEN proposed ELSE candidates[m]
<1>6. dispute.status \in OpenDispute /\ SomeDisputeOpen(m)
  BY <1>3, <1>4 DEF Dispute, SomeDisputeOpen
<1>7. /\ Deciding(m) /\ resolutions[m].status # "none"
      /\ \E j \in DOMAIN candidates[m] : candidates[m][j].id = resolutions[m].candidate
      /\ \A j \in DOMAIN disputes[m] : disputes[m][j].status \in OpenDispute => j = i
  BY <1>3, <1>4, <1>6 DEF DisputesInv, DisputesOf, Deciding
<1>8. /\ HasMarket(s)
      /\ markets' = [markets EXCEPT ![s] = market]
      /\ disputes' = [disputes EXCEPT ![m] = all]
      /\ resolutions' = [resolutions EXCEPT ![m] = decided]
      /\ candidates' = [candidates EXCEPT ![m] = rows]
      /\ UNCHANGED <<requests, evidence, tradingVars, awaiting>>
  <2>1. disputes' = [disputes EXCEPT ![m] = [disputes[m] EXCEPT ![i] = reviewed]]
    BY <1>3, <1>4 DEF TypeOK
  <2>2. resolutions' = [resolutions EXCEPT ![m] = decided]
    BY <1>1, <1>2, <1>5, <1>7 DEF ReviewMarketDispute
  <2>3. candidates' = [candidates EXCEPT ![m] = rows]
    BY <1>1, <1>2, <1>5 DEF ReviewMarketDispute
  <2> QED
    BY <1>1, <1>2, <1>5, <2>1, <2>2, <2>3 DEF ReviewMarketDispute
<1>9. /\ market \in Market /\ market.id = m
      /\ market.status = IF reinstates THEN "awaiting_resolution" ELSE "disputed"
  BY <1>2 DEF Market, MarketStatuses, PendingStatuses
<1>10. reviewed \in Dispute /\ reviewed.status = decision /\ reviewed.id = dispute.id
  BY DEF Dispute, OpenDispute, ClosedDispute
<1>11. /\ decided \in Resolution /\ decided.candidate = resolutions[m].candidate
       /\ decided.status = IF reinstates THEN "pending_oracle" ELSE "disputed"
  BY DEF TypeOK, Resolution
<1>12. /\ rows \in Seq(Candidate) /\ Len(rows) = Len(candidates[m]) /\ DOMAIN rows = DOMAIN candidates[m]
       /\ \A j \in DOMAIN candidates[m] :
              /\ rows[j].id = candidates[m][j].id
              /\ reinstates /\ candidates[m][j].id = resolutions[m].candidate => rows[j].status = "proposed"
       /\ ~reinstates => rows = candidates[m]
  <2>1. /\ proposed \in Seq(Candidate) /\ Len(proposed) = Len(candidates[m]) /\ DOMAIN proposed = DOMAIN candidates[m]
        /\ \A j \in DOMAIN candidates[m] :
               /\ proposed[j].id = candidates[m][j].id
               /\ candidates[m][j].id = resolutions[m].candidate => proposed[j].status = "proposed"
    BY WithStatusTyped
  <2> HIDE DEF proposed
  <2> QED
    BY <2>1, MarketTypes
<1> HIDE DEF market, reviewed, rows, proposed, decided
<1>13. /\ all \in Seq(Dispute) /\ DOMAIN all = DOMAIN disputes[m] /\ all[i] = reviewed
       /\ \A j \in DOMAIN disputes[m] : j # i => all[j] = disputes[m][j]
  <2>1. disputes[m] \in Seq(Dispute) /\ \A j \in DOMAIN disputes[m] : disputes[m][j] \in Dispute
    BY MarketTypes
  <2>2. all \in [DOMAIN disputes[m] -> Dispute]
    BY <1>10, <2>1
  <2>3. all \in Seq(Dispute) /\ DOMAIN all = DOMAIN disputes[m]
    BY <2>1, <2>2, Rewritten
  <2> QED
    BY <2>1, <2>3
<1> HIDE DEF all
<1>14. TypeOK'
  BY <1>8, <1>9, <1>11, <1>12, <1>13 DEF TypeOK, tradingVars
<1>15. /\ markets'[s] = market /\ \A t \in Slugs : t # s => markets'[t] = markets[t]
       /\ disputes'[m] = all /\ resolutions'[m] = decided /\ candidates'[m] = rows
       /\ \A r \in Requests : r # m => /\ resolutions'[r] = resolutions[r] /\ disputes'[r] = disputes[r]
                                       /\ candidates'[r] = candidates[r]
  BY <1>8 DEF TypeOK
<1>16. Frame
  BY <1>1, <1>2, <1>8, <1>9, <1>12, <1>15 DEF Frame, HasMarket
<1>17. ConvertedOnce' /\ InPlace' /\ IdsDistinct'
  BY <1>14, <1>16, FrameKeeps
<1>18. \A j \in DOMAIN all : all[j].status \in OpenDispute => j = i /\ ~reinstates
  BY <1>5, <1>7, <1>10, <1>13 DEF OpenDispute, ClosedDispute
<1>19. DisputesOf(m)'
  BY <1>7, <1>11, <1>12, <1>15, <1>18 DEF DisputesOf, SomeDisputeOpen, Deciding
<1>20. StatusOf(s)'
  <2>1. ASSUME Len(candidates[m]) = 1
        PROVE  rows[1].status = IF reinstates THEN "proposed" ELSE "rejected"
    <3>1. DOMAIN candidates[m] = 1..1
      BY <2>1, MarketTypes
    <3>2. 1 \in DOMAIN candidates[m] /\ candidates[m][1].id = resolutions[m].candidate
      BY <1>7, <3>1
    <3>3. candidates[m][1].status = "rejected"
      BY <1>1, <1>2, <1>6, <1>8, <2>1 DEF StatusInv, StatusOf
    <3> QED
      BY <1>12, <3>2, <3>3
  <2>2. SomeDisputeOpen(m)' => ~reinstates
    BY <1>15, <1>18 DEF SomeDisputeOpen
  <2> QED
    BY <1>9, <1>11, <1>12, <1>15, <2>1, <2>2 DEF StatusOf, Deciding
<1>21. Slug[m] = s
  BY <1>1, <1>2, <1>8 DEF InPlace
<1>22. market.status # "settled"
  BY <1>9
<1>23. HistoryGrows
  <2>1. \A j \in DOMAIN disputes[m] :
            j \in DOMAIN all /\ all[j].id = disputes[m][j].id /\ (disputes[m][j].status \in ClosedDispute => all[j] = disputes[m][j])
    BY <1>3, <1>4, <1>10, <1>13
  <2> QED
    BY <1>8, <1>12, <1>15, <2>1, EvidenceTyped DEF HistoryGrows
<1> QED
  BY <1>23, <1>8, <1>9, <1>14, <1>15, <1>17, <1>19, <1>20, <1>21, <1>22, OneMarketKeeps DEF tradingVars

\* The copy that was read comes back under its slug.
LEMMA SettlementBegunKeeps ==
    ASSUME IInv, NEW w \in awaiting, SettlementBegun(w)
    PROVE  IInv' /\ HistoryGrows
<1> USE DEF IInv
<1>1. PICK old \in Market : old = w.market
  BY MarketTypes DEF SettlementBegun
<1>2. PICK m \in Requests : m = old.id
  BY DEF Market
<1>3. PICK s \in Slugs : s = w.slug
  BY MarketTypes DEF SettlementBegun
<1>4. PICK c \in Candidates : c = w.candidate
  BY MarketTypes DEF SettlementBegun
<1> DEFINE market == [old EXCEPT !.status = "awaiting_resolution"]
           row == [id |-> c, status |-> "proposed", payload |-> "pending_oracle"]
           decided == [status |-> "pending_oracle", candidate |-> c, winner |-> NoOutcome]
           rows == <<row>> \o candidates[m]
<1>5. /\ w.op = "settlement"
      /\ markets' = [markets EXCEPT ![s] = market]
      /\ candidates' = [candidates EXCEPT ![m] = rows]
      /\ resolutions' = [resolutions EXCEPT ![m] = decided]
      /\ awaiting' = awaiting \ {w}
      /\ UNCHANGED <<requests, disputes, evidence, tradingVars>>
  BY <1>1, <1>2, <1>3, <1>4 DEF SettlementBegun
<1>6. market \in Market /\ market.id = m /\ market.status = "awaiting_resolution"
  BY <1>2 DEF Market, MarketStatuses, PendingStatuses
<1>7. row \in Candidate /\ row.id = c /\ row.status = "proposed"
  BY DEF Candidate
<1>8. decided \in Resolution /\ decided.status = "pending_oracle" /\ decided.candidate = c
  BY DEF Resolution
<1> HIDE DEF market, row, decided
<1>9. /\ rows \in Seq(Candidate) /\ Len(rows) = Len(candidates[m]) + 1 /\ DOMAIN rows = 1..Len(candidates[m]) + 1
      /\ rows[1] = row /\ \A i \in 1..Len(candidates[m]) : rows[i + 1] = candidates[m][i]
      /\ \A j \in DOMAIN rows : j = 1 \/ \E i \in 1..Len(candidates[m]) : j = i + 1
  <2>1. candidates[m] \in Seq(Candidate) /\ row \in Candidate
    BY <1>7, MarketTypes
  <2> QED
    BY <2>1, Prepend
<1> HIDE DEF rows
<1>10. TypeOK'
  BY <1>5, <1>6, <1>8, <1>9 DEF TypeOK, tradingVars
<1>11. /\ markets'[s] = market /\ \A t \in Slugs : t # s => markets'[t] = markets[t]
       /\ resolutions'[m] = decided /\ candidates'[m] = rows /\ disputes' = disputes /\ orders' = orders
       /\ \A r \in Requests : r # m => /\ resolutions'[r] = resolutions[r] /\ disputes'[r] = disputes[r]
                                       /\ candidates'[r] = candidates[r]
  BY <1>5 DEF TypeOK, tradingVars
<1>12. Slug[m] = s
  BY <1>1, <1>2, <1>3, <1>5 DEF InPlace
<1>13. ASSUME NEW r \in Requests, Unpublished(r)
       PROVE  r # m /\ Unpublished(r)'
  <2>1. r # m
    BY <1>1, <1>2, <1>5, <1>13 DEF Unpublished
  <2> QED
    BY <1>5, <1>6, <1>11, <1>13, <2>1 DEF Unpublished, HasMarket
<1>14. ConvertedOnce'
  <2>1. \A r \in Requests : requests'[r].status # "converted" =>
            Unpublished(r)' /\ \A v \in awaiting' : v.op = "publish" => v.request # r
    BY <1>5, <1>13 DEF ConvertedOnce
  <2>2. ASSUME NEW v \in awaiting', v.op = "publish"
        PROVE  Unpublished(v.request)'
    <3>1. v.request \in Requests /\ Unpublished(v.request)
      BY <1>5, <2>2, MarketTypes DEF ConvertedOnce
    <3> QED
      BY <1>13, <3>1
  <2> QED
    BY <2>1, <2>2 DEF ConvertedOnce
<1>15. InPlace'
  BY <1>5, <1>6, <1>11, <1>12 DEF InPlace, HasMarket
<1>16. IdsDistinct'
  <2>1. \A r \in Requests : \A i \in DOMAIN candidates[r] : candidates[r][i].id # c
    BY <1>4, <1>5 DEF IdsDistinct
  <2>2. ASSUME NEW v \in awaiting', v.op = "settlement"
        PROVE  v \in awaiting /\ v # w /\ v.candidate # c
    BY <1>4, <1>5, <2>2 DEF IdsDistinct
  <2>3. ASSUME NEW j \in DOMAIN rows
        PROVE  \/ j = 1 /\ rows[j].id = c
               \/ \E i \in DOMAIN candidates[m] : j = i + 1 /\ rows[j].id = candidates[m][i].id
    <3>1. DOMAIN candidates[m] = 1..Len(candidates[m])
      BY MarketTypes
    <3>2. j = 1 \/ \E i \in 1..Len(candidates[m]) : j = i + 1
      BY <1>9
    <3> QED
      BY <1>7, <1>9, <3>1, <3>2
  <2>4. ASSUME NEW i \in DOMAIN rows, NEW j \in DOMAIN rows, rows[i].id = rows[j].id
        PROVE  i = j
    BY <2>1, <2>3, <2>4 DEF IdsDistinct
  <2>5. \A r \in Requests : \A i, j \in DOMAIN candidates'[r] : candidates'[r][i].id = candidates'[r][j].id => i = j
    BY <1>11, <2>4 DEF IdsDistinct
  <2>6. ASSUME NEW v \in awaiting', v.op = "settlement", NEW r \in Requests, NEW i \in DOMAIN candidates'[r]
        PROVE  candidates'[r][i].id # v.candidate
    <3>1. CASE r = m
      BY <1>11, <2>2, <2>3, <2>6, <3>1 DEF IdsDistinct
    <3>2. CASE r # m
      BY <1>11, <2>2, <2>6, <3>2 DEF IdsDistinct
    <3> QED
      BY <3>1, <3>2
  <2> QED
    BY <2>2, <2>5, <2>6 DEF IdsDistinct
<1>17. 1 \in DOMAIN rows
  BY <1>9, MarketTypes
<1>18. DisputesOf(m)'
  BY <1>7, <1>8, <1>9, <1>11, <1>17 DEF DisputesInv, DisputesOf, SomeDisputeOpen, Deciding
<1>19. StatusOf(s)'
  <2>1. ASSUME Len(rows) = 1
        PROVE  ~SomeDisputeOpen(m)
    <3>1. DOMAIN candidates[m] = {}
      BY <1>9, <2>1, MarketTypes
    <3> QED
      BY <3>1 DEF DisputesInv, DisputesOf
  <2>2. SomeDisputeOpen(m)' <=> SomeDisputeOpen(m)
    BY <1>11 DEF SomeDisputeOpen
  <2> QED
    BY <1>6, <1>7, <1>8, <1>9, <1>11, <2>1, <2>2 DEF StatusOf, Deciding
<1>20. HistoryGrows
  <2>1. \A i \in DOMAIN candidates[m] : i + 1 \in DOMAIN rows /\ rows[i + 1] = candidates[m][i]
    <3>1. DOMAIN candidates[m] = 1..Len(candidates[m]) /\ Len(candidates[m]) \in Nat
      BY MarketTypes
    <3>2. \A i \in 1..Len(candidates[m]) : i + 1 \in 1..Len(candidates[m]) + 1
      BY <3>1
    <3> QED
      BY <1>9, <3>1, <3>2
  <2> QED
    BY <1>5, <1>11, <2>1, EvidenceTyped DEF HistoryGrows
<1> QED
  BY <1>20, <1>6, <1>10, <1>11, <1>12, <1>14, <1>15, <1>16, <1>18, <1>19, OneMarketKeeps

LEMMA CancelledOrders ==
    ASSUME TypeOK, NEW m \in Requests, NEW new, new = CancelOrdersForMarket(m)
    PROVE  /\ new \in Seq(Order) /\ DOMAIN new = DOMAIN orders
           /\ \A i \in DOMAIN orders :
                  /\ new[i].market = orders[i].market
                  /\ new[i].status \in Active => new[i] = orders[i] /\ orders[i].market # m
<1> DEFINE Row(i) == IF orders[i].market = m /\ orders[i].status \in Active
                     THEN [orders[i] EXCEPT !.status = "cancelled", !.remaining = 0] ELSE orders[i]
<1>1. ASSUME NEW i \in DOMAIN orders
      PROVE  /\ Row(i) \in Order /\ Row(i).market = orders[i].market
             /\ Row(i).status \in Active => Row(i) = orders[i] /\ orders[i].market # m
  <2>1. PICK order \in Order : order = orders[i]
    BY OrdersTyped
  <2>2. CASE orders[i].market = m /\ orders[i].status \in Active
    <3> DEFINE cancelled == [order EXCEPT !.status = "cancelled", !.remaining = 0]
    <3>1. cancelled \in Order /\ cancelled.market = order.market /\ cancelled.status = "cancelled"
      BY DEF Order
    <3>2. Row(i) = cancelled
      BY <2>1, <2>2
    <3> HIDE DEF cancelled, Row
    <3> QED
      BY <2>1, <3>1, <3>2 DEF Active
  <2>3. CASE ~(orders[i].market = m /\ orders[i].status \in Active)
    BY <2>1, <2>3
  <2> QED
    BY <2>2, <2>3
<1>2. new = [i \in DOMAIN orders |-> Row(i)]
  BY DEF CancelOrdersForMarket
<1> HIDE DEF Row
<1>3. new \in [DOMAIN orders -> Order] /\ \A i \in DOMAIN orders : new[i] = Row(i)
  BY <1>1, <1>2
<1> QED
  BY <1>1, <1>3, Rewritten, OrdersTyped

LEMMA SettleMarketKeeps ==
    ASSUME IInv, NEW s \in Slugs, NEW winner \in Outcomes, NEW c \in Candidates \cup {NoCandidate},
           SettleMarket(s, winner, c)
    PROVE  IInv' /\ HistoryGrows
<1> USE DEF IInv
<1>1. PICK old \in Market : old = markets[s]
  BY MarketTypes DEF SettleMarket
<1>2. PICK m \in Requests : m = old.id
  BY DEF Market
<1> DEFINE market == [old EXCEPT !.status = "settled", !.winner = winner]
           Row(i) == IF candidates[m][i].id = c
                     THEN [id |-> c, status |-> "confirmed", payload |-> "finalized"] ELSE candidates[m][i]
           rows == [i \in DOMAIN candidates[m] |-> Row(i)]
           decided == [status |-> "finalized", winner |-> winner,
                       candidate |-> IF c = NoCandidate THEN resolutions[m].candidate ELSE c]
           kept == CancelOrdersForMarket(m)
<1>3. /\ HasMarket(s) /\ MayFinalize(s)
      /\ markets' = [markets EXCEPT ![s] = market]
      /\ orders' = kept
      /\ candidates' = [candidates EXCEPT ![m] = rows]
      /\ resolutions' = [resolutions EXCEPT ![m] = decided]
      /\ UNCHANGED <<requests, disputes, evidence, balances, awaiting>>
  <2>1. markets' = [markets EXCEPT ![s] = market]
    BY <1>1 DEF SettleMarket, TypeOK
  <2> QED
    BY <1>1, <1>2, <2>1 DEF SettleMarket
<1>4. market \in Market /\ market.id = m /\ market.status = "settled"
  BY <1>2 DEF Market, MarketStatuses
<1>5. decided \in Resolution /\ decided.status = "finalized"
  BY DEF TypeOK, Resolution
<1>6. \A i \in DOMAIN candidates[m] : Row(i) \in Candidate /\ Row(i).id = candidates[m][i].id
  BY MarketTypes DEF Candidate, Candidates, NoCandidate
<1> HIDE DEF market, decided, Row
<1>7. /\ rows \in Seq(Candidate) /\ Len(rows) = Len(candidates[m])
      /\ \A i \in DOMAIN candidates[m] : rows[i].id = candidates[m][i].id
  <2>1. rows \in [DOMAIN candidates[m] -> Candidate] /\ \A i \in DOMAIN candidates[m] : rows[i] = Row(i)
    BY <1>6
  <2> HIDE DEF rows
  <2> QED
    BY <1>6, <2>1, Rewritten, MarketTypes
<1> HIDE DEF rows
<1>8. /\ kept \in Seq(Order) /\ DOMAIN kept = DOMAIN orders
      /\ \A i \in DOMAIN orders :
             /\ kept[i].market = orders[i].market
             /\ kept[i].status \in Active => kept[i] = orders[i] /\ orders[i].market # m
  BY CancelledOrders
<1> HIDE DEF kept
<1>9. TypeOK'
  BY <1>3, <1>4, <1>5, <1>7, <1>8 DEF TypeOK
<1>10. /\ markets'[s] = market /\ \A t \in Slugs : t # s => markets'[t] = markets[t]
       /\ resolutions'[m] = decided /\ candidates'[m] = rows /\ disputes' = disputes
       /\ \A r \in Requests : r # m => /\ resolutions'[r] = resolutions[r] /\ disputes'[r] = disputes[r]
                                       /\ candidates'[r] = candidates[r]
  BY <1>3 DEF TypeOK
<1>11. Frame
  BY <1>1, <1>2, <1>3, <1>4, <1>7, <1>10 DEF Frame, HasMarket
<1>12. ConvertedOnce' /\ InPlace' /\ IdsDistinct'
  BY <1>9, <1>11, FrameKeeps
<1>13. ~SomeDisputeOpen(m) /\ ~SomeDisputeOpen(m)'
  BY <1>1, <1>2, <1>3, <1>10 DEF MayFinalize, SomeDisputeOpen
<1>14. DisputesOf(m)'
  BY <1>5, <1>10, <1>13 DEF DisputesInv, DisputesOf, Deciding, SomeDisputeOpen
<1>15. StatusOf(s)'
  BY <1>4, <1>5, <1>10, <1>13 DEF StatusOf, PendingStatuses
<1>16. Quiet(m)'
  BY <1>3, <1>8, <1>13 DEF Quiet
<1>17. Slug[m] = s
  BY <1>1, <1>2, <1>3 DEF InPlace
<1>18. HistoryGrows
  <2>1. DOMAIN rows = DOMAIN candidates[m]
    BY <1>7, MarketTypes
  <2> QED
    BY <1>3, <1>7, <1>10, <2>1, EvidenceTyped DEF HistoryGrows
<1> QED
  BY <1>18, <1>3, <1>4, <1>8, <1>9, <1>10, <1>12, <1>14, <1>15, <1>16, <1>17, OneMarketKeeps

-----------------------------------------------------------------------------
(* Every step *)

LEMMA InitKeeps ==
    ASSUME Init
    PROVE  IInv
<1>1. TypeOK
  <2>1. requests \in [Requests -> [status : RequestStatuses, text : Texts \cup {NoText},
                                   answers : [Questions -> Texts \cup {NoText}]]]
    BY DEF Init, RequestStatuses
  <2>2. NoResolution \in Resolution
    BY DEF NoResolution, Resolution
  <2>3. evidence \in [Disputes -> 0 .. MaxEvidence]
    BY MemoryAssumption DEF Init
  <2>4. <<>> \in Seq(Candidate) /\ <<>> \in Seq(Dispute) /\ <<>> \in Seq(Order)
    OBVIOUS
  <2> QED
    BY <2>1, <2>2, <2>3, <2>4 DEF Init, TypeOK
<1>2. \A s \in Slugs : ~HasMarket(s)
  BY DEF Init, HasMarket
<1>3. \A r \in Requests :
          /\ DOMAIN candidates[r] = {} /\ DOMAIN disputes[r] = {} /\ candidates[r] = <<>>
          /\ resolutions[r].status = "none" /\ resolutions[r].candidate = NoCandidate
  BY DEF Init, NoResolution
<1>4. awaiting = {}
  BY DEF Init
<1>5. ConvertedOnce /\ InPlace /\ IdsDistinct
  BY <1>2, <1>3, <1>4 DEF ConvertedOnce, Unpublished, InPlace, IdsDistinct
<1>6. DisputesInv
  BY <1>3 DEF DisputesInv, DisputesOf, SomeDisputeOpen, Deciding
<1> QED
  BY <1>1, <1>2, <1>5, <1>6 DEF IInv, StatusInv, SettledMarketIsQuiet

LEMMA TradingLeaves ==
    ASSUME TradingNext
    PROVE  UNCHANGED <<requests, marketVars, awaiting>>
<1>1. ASSUME NEW s \in Slugs, NEW u \in Users, NEW o \in Outcomes, NEW side \in {"buy", "sell"},
             NEW q \in Quantities, NEW p \in Prices, CreateMarketOrder(s, u, o, side, q, p)
      PROVE  UNCHANGED <<requests, marketVars, awaiting>>
  BY <1>1 DEF CreateMarketOrder
<1>2. ASSUME NEW s \in Slugs, NEW i \in DOMAIN orders, CancelMarketOrder(s, i)
      PROVE  UNCHANGED <<requests, marketVars, awaiting>>
  BY <1>2 DEF CancelMarketOrder
<1>3. ASSUME NEW u \in Users, NEW rail \in Rails,
             GetPortfolioSummary(u, rail) \/ \E amount \in Grants : FundBalance(u, rail, amount)
      PROVE  UNCHANGED <<requests, marketVars, awaiting>>
  BY <1>3 DEF GetPortfolioSummary, FundBalance
<1> QED
  BY <1>1, <1>2, <1>3 DEF TradingNext

LEMMA MarketLeaves ==
    ASSUME NEW s \in Slugs,
           \/ \E status \in MarketStatuses : UpdateMarketStatus(s, status)
           \/ \E d \in Disputes : CreateMarketDispute(s, d) \/ AddMarketDisputeEvidence(s, d)
           \/ \E d \in Disputes, decision \in {"under_review"} \cup ClosedDispute : ReviewMarketDispute(s, d, decision)
           \/ \E c \in Candidates : RequestSettlement(s, c)
           \/ ReconcileOracleResolution(s)
           \/ \E winner \in Outcomes, c \in Candidates \cup {NoCandidate} : SettleMarket(s, winner, c)
    PROVE  UNCHANGED requests
<1>1. CASE \E status \in MarketStatuses : UpdateMarketStatus(s, status)
  BY <1>1 DEF UpdateMarketStatus
<1>2. CASE \E d \in Disputes : CreateMarketDispute(s, d) \/ AddMarketDisputeEvidence(s, d)
  BY <1>2 DEF CreateMarketDispute, AddMarketDisputeEvidence
<1>3. CASE \E d \in Disputes, decision \in {"under_review"} \cup ClosedDispute : ReviewMarketDispute(s, d, decision)
  BY <1>3 DEF ReviewMarketDispute
<1>4. CASE (\E c \in Candidates : RequestSettlement(s, c)) \/ ReconcileOracleResolution(s)
  BY <1>4 DEF RequestSettlement, ReconcileOracleResolution
<1>5. CASE \E winner \in Outcomes, c \in Candidates \cup {NoCandidate} : SettleMarket(s, winner, c)
  BY <1>5 DEF SettleMarket
<1> QED
  BY <1>1, <1>2, <1>3, <1>4, <1>5

LEMMA NextKeeps ==
    ASSUME IInv, Next
    PROVE  IInv' /\ HistoryGrows
<1>1. TypeOK
  BY DEF IInv
<1>2. CASE RequestNext
  <2>1. PICK r \in Requests :
            \/ \E text \in Texts : CreateRequest(r, text)
            \/ \E u \in Users, text \in Texts : UpdateRequest(r, u, text)
            \/ \E u \in Users : SubmitRequest(r, u)
            \/ \E u \in Users, q \in Questions, text \in Texts : UpsertAnswer(r, u, q, text)
            \/ \E approved \in BOOLEAN : ReviewRequest(r, approved)
            \/ PublishFromRequest(r)
    BY <1>2 DEF RequestNext
  <2>2. IInv'
    BY <2>1, RequestNextKeeps, PublishFromRequestKeeps
  <2>3. UNCHANGED <<candidates, disputes, evidence>>
    BY <2>1 DEF CreateRequest, UpdateRequest, SubmitRequest, UpsertAnswer, ReviewRequest, PublishFromRequest, marketVars
  <2> QED
    BY <1>1, <2>2, <2>3, HistoryStays
<1>3. CASE MarketNext
  <2>1. PICK s \in Slugs :
            \/ \E status \in MarketStatuses : UpdateMarketStatus(s, status)
            \/ \E d \in Disputes : CreateMarketDispute(s, d)
            \/ \E d \in Disputes : AddMarketDisputeEvidence(s, d)
            \/ \E d \in Disputes, decision \in {"under_review"} \cup ClosedDispute : ReviewMarketDispute(s, d, decision)
            \/ \E c \in Candidates : NewCandidate(c) /\ RequestSettlement(s, c)
            \/ ReconcileOracleResolution(s)
            \/ \E winner \in Outcomes, c \in Candidates \cup {NoCandidate} : SettleMarket(s, winner, c)
    BY <1>3 DEF MarketNext
  <2>2. CASE \E status \in MarketStatuses : UpdateMarketStatus(s, status)
    BY <1>1, <2>2, UpdateMarketStatusKeeps, HistoryStays DEF UpdateMarketStatus
  <2>3. CASE \E c \in Candidates : NewCandidate(c) /\ RequestSettlement(s, c)
    BY <1>1, <2>3, RequestSettlementKeeps, HistoryStays DEF RequestSettlement, marketVars
  <2>4. CASE ReconcileOracleResolution(s)
    BY <1>1, <2>4, ReconcileKeeps, HistoryStays DEF ReconcileOracleResolution, marketVars
  <2>5. CASE \E d \in Disputes : CreateMarketDispute(s, d)
    BY <2>5, CreateMarketDisputeKeeps
  <2>6. CASE \E d \in Disputes : AddMarketDisputeEvidence(s, d)
    BY <2>6, AddMarketDisputeEvidenceKeeps
  <2>7. CASE \E d \in Disputes, decision \in {"under_review"} \cup ClosedDispute : ReviewMarketDispute(s, d, decision)
    BY <2>7, ReviewMarketDisputeKeeps
  <2>8. CASE \E winner \in Outcomes, c \in Candidates \cup {NoCandidate} : SettleMarket(s, winner, c)
    BY <2>8, SettleMarketKeeps
  <2> QED
    BY <2>1, <2>2, <2>3, <2>4, <2>5, <2>6, <2>7, <2>8
<1>4. CASE TradingNext
  <2>1. IInv'
    <3>1. CASE \E s \in Slugs, u \in Users, o \in Outcomes, side \in {"buy", "sell"}, q \in Quantities, p \in Prices :
                   CreateMarketOrder(s, u, o, side, q, p)
      BY <3>1, CreateMarketOrderKeeps
    <3>2. CASE \E s \in Slugs : \E i \in DOMAIN orders : CancelMarketOrder(s, i)
      BY <3>2, CancelMarketOrderKeeps
    <3>3. CASE \E u \in Users, rail \in Rails :
                   GetPortfolioSummary(u, rail) \/ \E amount \in Grants : FundBalance(u, rail, amount)
      BY <3>3, BalancesKeep
    <3> QED
      BY <1>4, <3>1, <3>2, <3>3 DEF TradingNext
  <2>2. UNCHANGED <<candidates, disputes, evidence>>
    BY <1>4, TradingLeaves DEF marketVars
  <2> QED
    BY <1>1, <2>1, <2>2, HistoryStays
<1>5. CASE AnswerNext
  <2>1. PICK w \in awaiting : PublishAnswered(w) \/ SettlementBegun(w) \/ Reconciled(w) \/ Interrupted(w)
    BY <1>5 DEF AnswerNext
  <2>2. CASE PublishAnswered(w)
    BY <1>1, <2>2, PublishAnsweredKeeps, HistoryStays DEF PublishAnswered
  <2>3. CASE Interrupted(w)
    BY <1>1, <2>3, InterruptedKeeps, HistoryStays DEF Interrupted, marketVars
  <2>4. CASE SettlementBegun(w)
    BY <2>4, SettlementBegunKeeps
  <2>5. CASE Reconciled(w)
    BY <2>5, ReconciledKeeps
  <2> QED
    BY <2>1, <2>2, <2>3, <2>4, <2>5
<1> QED
  BY <1>2, <1>3, <1>4, <1>5 DEF Next

LEMMA StutterKeeps ==
    ASSUME IInv, UNCHANGED vars
    PROVE  IInv' /\ HistoryGrows
<1>1. TypeOK' /\ Frame
  BY DEF IInv, TypeOK, Frame, HasMarket, vars
<1> QED
  BY <1>1, MarketsStay, HistoryStays DEF vars, IInv

\* The candidate shown is the one that the resolution names.
LEMMA NamedCandidate ==
    ASSUME IInv, NEW m \in Requests, Deciding(m)
    PROVE  \E i \in DOMAIN candidates[m] :
               candidates[m][i].id = resolutions[m].candidate /\ CurrentCandidate(m) = candidates[m][i]
<1>1. PICK i \in DOMAIN candidates[m] : candidates[m][i].id = resolutions[m].candidate
  BY DEF IInv, DisputesInv, DisputesOf
<1>2. {j \in DOMAIN candidates[m] : candidates[m][j].id = resolutions[m].candidate} = {i}
  BY <1>1 DEF IInv, IdsDistinct
<1>3. i \in Nat
  BY <1>1, MarketTypes DEF IInv
<1>4. Min({i}) = i
  BY <1>3 DEF Min
<1> QED
  BY <1>1, <1>2, <1>4 DEF CurrentCandidate

LEMMA Agrees ==
    ASSUME IInv
    PROVE  ResolutionAgrees
<1> SUFFICES ASSUME NEW s \in Slugs, HasMarket(s), NEW m \in Requests, m = markets[s].id,
                    NEW open, open = {i \in DOMAIN disputes[m] : disputes[m][i].status \in OpenDispute}
             PROVE  /\ Cardinality(open) <= 1
                    /\ Deciding(m) => CurrentCandidate(m).id = resolutions[m].candidate
                    /\ Len(candidates[m]) = 1 =>
                          /\ open # {} => markets[s].status = "disputed"
                          /\ resolutions[m].status = "disputed" <=> markets[s].status = "disputed"
                          /\ resolutions[m].status = "disputed" => CurrentCandidate(m).status = "rejected"
                          /\ resolutions[m].status = "pending_oracle" => CurrentCandidate(m).status = "proposed"
  BY MarketTypes DEF ResolutionAgrees, Deciding, IInv
<1>1. Cardinality(open) <= 1
  <2>1. CASE open = {}
    BY <2>1, FS_EmptySet
  <2>2. ASSUME NEW i \in open
        PROVE  open = {i}
    BY <2>2 DEF IInv, DisputesInv, DisputesOf
  <2>3. ASSUME NEW i \in open
        PROVE  Cardinality({i}) = 1
    BY FS_Singleton
  <2> QED
    BY <2>1, <2>2, <2>3
<1>2. open # {} <=> SomeDisputeOpen(m)
  BY DEF SomeDisputeOpen
<1>3. Deciding(m) => CurrentCandidate(m).id = resolutions[m].candidate
  BY NamedCandidate
<1>4. Deciding(m) /\ Len(candidates[m]) = 1 => CurrentCandidate(m) = candidates[m][1]
  <2>1. Len(candidates[m]) = 1 => DOMAIN candidates[m] = 1..1
    BY MarketTypes DEF IInv
  <2> QED
    BY <2>1, NamedCandidate
<1>5. StatusOf(s)
  BY DEF IInv, StatusInv
<1> QED
  BY <1>1, <1>2, <1>3, <1>4, <1>5 DEF StatusOf, Deciding

-----------------------------------------------------------------------------
(* Histories and answers *)

LEMMA DisputeEventsGrow ==
    ASSUME TypeOK, HistoryGrows, NEW m \in Requests, NEW e \in DisputeEvents(m)
    PROVE  e \in DisputeEvents(m)'
<1>1. PICK i \in DOMAIN disputes[m] : e \in EventsOfDispute(disputes[m][i])
  BY DEF DisputeEvents
<1>2. PICK old \in Dispute : old = disputes[m][i]
  BY MarketTypes
<1>3. PICK j \in DOMAIN disputes'[m] :
          disputes'[m][j].id = old.id /\ (old.status \in ClosedDispute => disputes'[m][j].status = old.status)
  BY <1>2 DEF HistoryGrows
<1>4. PICK new : new = disputes'[m][j]
  OBVIOUS
<1>5. \/ e = <<"dispute_opened", old.id>>
      \/ \E n \in 1 .. evidence[old.id] : e = <<"dispute_evidence_added", old.id, n>>
      \/ old.status \in ClosedDispute /\ e = <<"dispute_reviewed", old.id, old.status>>
  BY <1>1, <1>2 DEF EventsOfDispute
<1>6. 1 .. evidence[old.id] \subseteq 1 .. evidence'[old.id]
  BY <1>2 DEF HistoryGrows, Dispute
<1>7. \/ e = <<"dispute_opened", new.id>>
      \/ \E n \in 1 .. evidence'[new.id] : e = <<"dispute_evidence_added", new.id, n>>
      \/ new.status \in ClosedDispute /\ e = <<"dispute_reviewed", new.id, new.status>>
  BY <1>3, <1>4, <1>5, <1>6
<1>8. e \in EventsOfDispute(new)'
  BY <1>7 DEF EventsOfDispute
<1>9. e \in EventsOfDispute(disputes[m][j])'
  BY <1>4, <1>8 DEF EventsOfDispute
<1> QED
  BY <1>9 DEF DisputeEvents

LEMMA HistoryOnlyGrows ==
    ASSUME TypeOK, HistoryGrows, NEW m \in Requests
    PROVE  KeptEvents(m) \subseteq KeptEvents(m)'
<1> SUFFICES ASSUME NEW e \in ResolutionHistory(m), e[1] \notin {"resolution_state", "candidate_reviewed"}
             PROVE  e \in ResolutionHistory(m)'
  BY DEF KeptEvents
<1>1. CASE e \in DisputeEvents(m)
  BY <1>1, DisputeEventsGrow DEF ResolutionHistory
<1>2. CASE e \in CandidateEvents(m)
  <2>1. PICK i \in DOMAIN candidates[m] : e = <<"candidate_created", candidates[m][i].id>>
    BY <1>2 DEF CandidateEvents
  <2>2. PICK j \in DOMAIN candidates'[m] : candidates'[m][j].id = candidates[m][i].id
    BY DEF HistoryGrows
  <2>3. e \in CandidateEvents(m)'
    BY <2>1, <2>2 DEF CandidateEvents
  <2> QED
    BY <2>3 DEF ResolutionHistory
<1>3. e \in DisputeEvents(m) \/ e \in CandidateEvents(m)
  BY DEF ResolutionHistory
<1> QED
  BY <1>1, <1>2, <1>3

\* What a step may do to a request: nothing, a change of the draft, or a decision.
RequestStep(r) ==
    \/ requests'[r] = requests[r]
    \/ requests[r].status \in {"none", "draft"} /\ requests'[r].status \in {"draft", "submitted"}
    \/ /\ requests[r].status \in {"submitted", "approved"}
       /\ requests'[r].status \in {"approved", "rejected", "converted"}
       /\ requests'[r].answers = requests[r].answers /\ requests'[r].text = requests[r].text

LEMMA RequestSteps ==
    ASSUME TypeOK, [Next]_vars
    PROVE  \A r \in Requests : RequestStep(r)
<1>1. CASE requests' = requests
  BY <1>1 DEF RequestStep
<1>2. CASE RequestNext
  <2>1. ASSUME NEW r \in Requests, NEW q \in Requests, q # r,
               \/ \E text \in Texts : CreateRequest(r, text)
               \/ \E u \in Users, text \in Texts : UpdateRequest(r, u, text)
               \/ \E u \in Users : SubmitRequest(r, u)
               \/ \E u \in Users, k \in Questions, text \in Texts : UpsertAnswer(r, u, k, text)
               \/ \E approved \in BOOLEAN : ReviewRequest(r, approved)
               \/ PublishFromRequest(r)
        PROVE  requests'[q] = requests[q]
    BY <2>1 DEF TypeOK, CreateRequest, UpdateRequest, SubmitRequest, UpsertAnswer, ReviewRequest, PublishFromRequest
  <2>2. ASSUME NEW r \in Requests,
               \/ \E text \in Texts : CreateRequest(r, text)
               \/ \E u \in Users, text \in Texts : UpdateRequest(r, u, text)
               \/ \E u \in Users : SubmitRequest(r, u)
               \/ \E u \in Users, k \in Questions, text \in Texts : UpsertAnswer(r, u, k, text)
        PROVE  RequestStep(r)
    <3>1. PICK old \in [status : RequestStatuses, text : Texts \cup {NoText}, answers : [Questions -> Texts \cup {NoText}]] :
              old = requests[r]
      BY RequestTyped
    <3>2. old.status \in {"none", "draft"}
      BY <2>2, <3>1 DEF CreateRequest, UpdateRequest, SubmitRequest, UpsertAnswer
    <3>3. ASSUME NEW text \in Texts, CreateRequest(r, text)
          PROVE  requests'[r].status = "draft"
      <4>1. requests'[r] = [old EXCEPT !.status = "draft", !.text = text]
        BY <3>1, <3>3 DEF CreateRequest, TypeOK
      <4> QED
        BY <4>1
    <3>4. ASSUME NEW u \in Users, NEW text \in Texts, UpdateRequest(r, u, text)
          PROVE  requests'[r].status = "draft"
      <4>1. requests'[r] = [old EXCEPT !.text = text] /\ old.status = "draft"
        BY <3>1, <3>4 DEF UpdateRequest, TypeOK
      <4> QED
        BY <4>1
    <3>5. ASSUME NEW u \in Users, SubmitRequest(r, u)
          PROVE  requests'[r].status = "submitted"
      <4>1. requests'[r] = [old EXCEPT !.status = "submitted"]
        BY <3>1, <3>5 DEF SubmitRequest, TypeOK
      <4> QED
        BY <4>1
    <3>6. ASSUME NEW u \in Users, NEW k \in Questions, NEW text \in Texts, UpsertAnswer(r, u, k, text)
          PROVE  requests'[r].status = "draft"
      <4>1. requests' = [requests EXCEPT ![r] = [old EXCEPT !.answers = [old.answers EXCEPT ![k] = text]]] /\ old.status = "draft"
        BY <3>1, <3>6 DEF UpsertAnswer
      <4>2. requests'[r] = [old EXCEPT !.answers = [old.answers EXCEPT ![k] = text]]
        BY <4>1 DEF TypeOK
      <4> QED
        BY <4>1, <4>2
    <3> QED
      BY <2>2, <3>1, <3>2, <3>3, <3>4, <3>5, <3>6 DEF RequestStep
  <2>3. ASSUME NEW r \in Requests, (\E approved \in BOOLEAN : ReviewRequest(r, approved)) \/ PublishFromRequest(r)
        PROVE  RequestStep(r)
    <3>1. PICK old \in [status : RequestStatuses, text : Texts \cup {NoText}, answers : [Questions -> Texts \cup {NoText}]] :
              old = requests[r]
      BY RequestTyped
    <3>2. PICK status \in {"approved", "rejected", "converted"} :
              requests' = [requests EXCEPT ![r].status = status] /\ requests[r].status \in {"submitted", "approved"}
      BY <2>3 DEF ReviewRequest, PublishFromRequest
    <3>3. requests'[r] = [old EXCEPT !.status = status]
      BY <3>1, <3>2 DEF TypeOK
    <3>4. requests'[r].answers = old.answers /\ requests'[r].text = old.text /\ requests'[r].status = status
      BY <3>3
    <3> QED
      BY <3>1, <3>2, <3>4 DEF RequestStep
  <2>4. PICK r \in Requests :
            \/ \E text \in Texts : CreateRequest(r, text)
            \/ \E u \in Users, text \in Texts : UpdateRequest(r, u, text)
            \/ \E u \in Users : SubmitRequest(r, u)
            \/ \E u \in Users, k \in Questions, text \in Texts : UpsertAnswer(r, u, k, text)
            \/ \E approved \in BOOLEAN : ReviewRequest(r, approved)
            \/ PublishFromRequest(r)
    BY <1>2 DEF RequestNext
  <2>5. RequestStep(r)
    BY <2>2, <2>3, <2>4 DEF RequestStep
  <2>6. \A q \in Requests : q # r => RequestStep(q)
    BY <2>1, <2>4 DEF RequestStep
  <2> QED
    BY <2>5, <2>6
<1>3. CASE MarketNext
  <2>1. UNCHANGED requests
    BY <1>3, MarketLeaves DEF MarketNext
  <2> QED
    BY <1>1, <2>1
<1>4. CASE TradingNext
  BY <1>1, <1>4, TradingLeaves
<1>5. CASE AnswerNext
  BY <1>1, <1>5 DEF AnswerNext, PublishAnswered, SettlementBegun, Reconciled, Interrupted
<1>6. CASE UNCHANGED vars
  BY <1>1, <1>6 DEF vars
<1> QED
  BY <1>2, <1>3, <1>4, <1>5, <1>6 DEF Next

\* A request that is still a draft has no market yet, and none comes with the step.
LEMMA AnswersStay ==
    ASSUME IInv, IInv', [Next]_vars, NEW r \in Requests
    PROVE  IF requests[r].status \in {"none", "draft"}
           THEN requests'[r].status \in {"none", "draft", "submitted"} /\ ~Found(r)'
           ELSE /\ requests'[r].answers = requests[r].answers
                /\ requests'[r].text = requests[r].text
                /\ requests'[r].status \notin {"none", "draft"}
<1>1. RequestStep(r)
  BY RequestSteps DEF IInv
<1>2. CASE requests[r].status \in {"none", "draft"}
  <2>1. requests'[r].status \in {"none", "draft", "submitted"}
    BY <1>1, <1>2 DEF RequestStep
  <2>2. Unpublished(r)'
    BY <2>1 DEF IInv, ConvertedOnce
  <2> QED
    BY <1>2, <2>1, <2>2 DEF Unpublished, Found, HasMarket
<1> QED
  BY <1>1, <1>2 DEF RequestStep

-----------------------------------------------------------------------------
(* Reserves are covered *)

\* Every order is in a market that is found, and of a user whose balance of that
\* market's rail was set when the order came.
OrdersPlaced ==
    \A i \in DOMAIN orders : Found(orders[i].market) /\ balances[<<orders[i].owner, Rail[orders[i].market]>>] # Unset

ReservesFit ==
    \A u \in Users, rail \in Rails :
        balances[<<u, rail>>] # Unset => ReservedBalance(u, rail) <= balances[<<u, rail>>]

Covered == OrdersPlaced /\ ReservesFit

\* Both hold as long as no market was replaced.
CoverInv == NoneReplaced => Covered

Reserves(u, rail) == [i \in DOMAIN orders |-> ReservedBy(orders[i], u, rail)]

MarketsKept == \A s \in Slugs : HasMarket(s) => HasMarket(s)' /\ markets'[s].id = markets[s].id

LEMMA FoundStays ==
    ASSUME MarketsKept, NEW m, Found(m)
    PROVE  Found(m)'
BY DEF Found, MarketsKept

LEMMA CollateralTyped ==
    ASSUME NEW side \in {"buy", "sell"}, NEW quantity \in Nat, NEW price \in 1..Scale - 1
    PROVE  RequiredOrderCollateral(side, quantity, price) \in Nat
<1>1. Scale \in Nat
  BY MemoryAssumption
<1>2. PICK unit \in Nat : unit = IF side = "buy" THEN price ELSE Scale - price
  <2>1. price \in Nat /\ Scale - price \in Nat
    BY <1>1
  <2> QED
    BY <2>1
<1>3. quantity * unit \in Nat
  OBVIOUS
<1> QED
  BY <1>2, <1>3 DEF RequiredOrderCollateral

LEMMA ReservedByTyped ==
    ASSUME NEW order \in Order, NEW u, NEW rail
    PROVE  ReservedBy(order, u, rail) \in Nat
<1>1. order.side \in {"buy", "sell"} /\ order.remaining \in Nat /\ order.price \in 1..Scale - 1
  BY MemoryAssumption DEF Order
<1>2. RequiredOrderCollateral(order.side, order.remaining, order.price) \in Nat
  BY <1>1, CollateralTyped
<1> QED
  BY <1>2 DEF ReservedBy

LEMMA ReservesTyped ==
    ASSUME TypeOK, NEW u, NEW rail
    PROVE  /\ IsFiniteSet(DOMAIN orders)
           /\ Reserves(u, rail) \in [DOMAIN orders -> Nat]
           /\ ReservedBalance(u, rail) = Tally(Reserves(u, rail)) /\ ReservedBalance(u, rail) \in Nat
<1>1. IsFiniteSet(DOMAIN orders)
  <2>1. Len(orders) \in Nat /\ DOMAIN orders = 1..Len(orders)
    BY OrdersTyped
  <2> QED
    BY <2>1, FS_Interval
<1>2. Reserves(u, rail) \in [DOMAIN orders -> Nat]
  BY OrdersTyped, ReservedByTyped DEF Reserves
<1>3. ReservedBalance(u, rail) = Tally(Reserves(u, rail))
  BY DEF ReservedBalance, Reserves
<1> QED
  BY <1>1, <1>2, <1>3, TallyType

\* What nobody has reserved yet is nothing.
LEMMA UnsetReservesNothing ==
    ASSUME TypeOK, OrdersPlaced, NEW u, NEW rail, balances[<<u, rail>>] = Unset
    PROVE  ReservedBalance(u, rail) = 0 /\ \A i \in DOMAIN orders : ReservedBy(orders[i], u, rail) = 0
<1>1. \A i \in DOMAIN orders : ReservedBy(orders[i], u, rail) = 0
  BY DEF OrdersPlaced, ReservedBy
<1>2. \A i \in DOMAIN Reserves(u, rail) : Reserves(u, rail)[i] = 0
  BY <1>1 DEF Reserves
<1> QED
  BY <1>1, <1>2, ReservesTyped, TallyZero

LEMMA OrdersOf ==
    ASSUME TypeOK
    PROVE  \A i \in DOMAIN orders :
               orders[i].owner \in Users /\ orders[i].market \in Requests /\ Rail[orders[i].market] \in Rails
<1>1. \A i \in DOMAIN orders : orders[i].owner \in Users /\ orders[i].market \in Requests
  BY OrdersTyped DEF Order
<1> QED
  BY <1>1, MemoryAssumption

OrdersClose ==
    /\ DOMAIN orders' = DOMAIN orders
    /\ \A i \in DOMAIN orders :
           /\ orders'[i].owner = orders[i].owner /\ orders'[i].market = orders[i].market
           /\ orders'[i].status \in Active => orders'[i] = orders[i]

BalancesGrow ==
    \A u \in Users, rail \in Rails : balances[<<u, rail>>] # Unset =>
        /\ balances[<<u, rail>>] \in Nat /\ balances'[<<u, rail>>] \in Nat
        /\ balances'[<<u, rail>>] # Unset /\ balances[<<u, rail>>] <= balances'[<<u, rail>>]

\* A family of which some values are set to zero.
LEMMA SomeZeroed ==
    ASSUME NEW S, IsFiniteSet(S), NEW f \in [S -> Nat], NEW g, DOMAIN g = S, g = [i \in S |-> g[i]],
           \A i \in S : g[i] = 0 \/ g[i] = f[i]
    PROVE  Tally(f) \in Nat /\ Tally(g) \in Nat /\ Tally(g) <= Tally(f)
<1>1. \A i \in S : f[i] \in Nat
  OBVIOUS
<1>2. \A i \in S : g[i] \in Nat /\ g[i] <= f[i]
  BY <1>1
<1>3. g \in [S -> Nat]
  BY <1>2
<1> QED
  BY <1>2, <1>3, TallyMonotone, TallyType

LEMMA ReservesStay ==
    ASSUME OrdersPlaced, MarketsKept, OrdersClose, NEW i \in DOMAIN orders, NEW u, NEW rail
    PROVE  ReservedBy(orders[i], u, rail)' \in {0, ReservedBy(orders[i], u, rail)}
<1>1. CASE orders'[i].status \in Active
  <2>1. PICK order : order = orders[i] /\ order = orders'[i]
    BY <1>1 DEF OrdersClose
  <2>2. Found(order.market) /\ Found(order.market)'
    BY <2>1, FoundStays DEF OrdersPlaced
  <2>3. ReservedBy(order, u, rail)' = ReservedBy(order, u, rail)
    BY <2>2 DEF ReservedBy, RequiredOrderCollateral
  <2> QED
    BY <2>1, <2>3 DEF ReservedBy, Found
<1>2. CASE orders'[i].status \notin Active
  BY <1>2 DEF ReservedBy
<1> QED
  BY <1>1, <1>2

LEMMA PlacesStay ==
    ASSUME OrdersPlaced, MarketsKept, OrdersClose, BalancesGrow,
           \A i \in DOMAIN orders : orders[i].owner \in Users /\ Rail[orders[i].market] \in Rails
    PROVE  OrdersPlaced'
<1>1. ASSUME NEW i \in DOMAIN orders'
      PROVE  (\E s \in Slugs : HasMarket(s)' /\ markets'[s].id = orders'[i].market)
             /\ balances'[<<orders'[i].owner, Rail[orders'[i].market]>>] # Unset
  <2>1. PICK m, u, rail : m = orders[i].market /\ u = orders[i].owner /\ rail = Rail[m]
    OBVIOUS
  <2>2. /\ i \in DOMAIN orders /\ u \in Users /\ rail \in Rails
        /\ orders'[i].market = m /\ orders'[i].owner = u
    BY <1>1, <2>1 DEF OrdersClose
  <2>3. Found(m) /\ balances[<<u, rail>>] # Unset
    BY <2>1, <2>2 DEF OrdersPlaced
  <2>4. \E s \in Slugs : HasMarket(s)' /\ markets'[s].id = m
    BY <2>3 DEF Found, MarketsKept
  <2>5. balances'[<<u, rail>>] # Unset
    BY <2>2, <2>3 DEF BalancesGrow
  <2> QED
    BY <2>1, <2>2, <2>4, <2>5
<1> QED
  BY <1>1 DEF OrdersPlaced, Found

\* Orders that close, balances that grow, and markets that stay.
LEMMA CoverStays ==
    ASSUME TypeOK, TypeOK', Covered, MarketsKept, OrdersClose, BalancesGrow
    PROVE  Covered'
<1>1. OrdersPlaced /\ ReservesFit
  BY DEF Covered
<1>2. OrdersPlaced'
  BY <1>1, OrdersOf, PlacesStay
<1>3. ASSUME NEW u \in Users, NEW rail \in Rails, balances'[<<u, rail>>] # Unset
      PROVE  ReservedBalance(u, rail)' <= balances'[<<u, rail>>]
  <2> DEFINE g == [i \in DOMAIN orders |-> ReservedBy(orders[i], u, rail)']
  <2>1. PICK f \in [DOMAIN orders -> Nat] : f = Reserves(u, rail)
    BY ReservesTyped
  <2>2. \A i \in DOMAIN orders : g[i] = 0 \/ g[i] = f[i]
    BY <1>1, <2>1, ReservesStay DEF Reserves
  <2>3. ReservedBalance(u, rail)' = Tally(g)
    BY DEF ReservedBalance, OrdersClose
  <2>4. IsFiniteSet(DOMAIN orders) /\ Tally(f) = ReservedBalance(u, rail)
    BY <2>1, ReservesTyped
  <2>5. DOMAIN g = DOMAIN orders /\ g = [i \in DOMAIN orders |-> g[i]]
    OBVIOUS
  <2> HIDE DEF g
  <2>6. Tally(f) \in Nat /\ Tally(g) \in Nat /\ Tally(g) <= Tally(f)
    BY <2>2, <2>4, <2>5, SomeZeroed
  <2>7. PICK low \in Nat, high \in Nat, b \in Nat : low = Tally(g) /\ high = Tally(f) /\ b = balances'[<<u, rail>>]
    BY <1>3, <2>6 DEF TypeOK
  <2>8. CASE balances[<<u, rail>>] # Unset
    <3>1. PICK before \in Nat : before = balances[<<u, rail>>] /\ high <= before /\ before <= b
      BY <1>1, <2>4, <2>7, <2>8 DEF ReservesFit, BalancesGrow
    <3>2. low <= b
      BY <2>6, <2>7, <3>1
    <3> QED
      BY <2>3, <2>7, <3>2
  <2>9. CASE balances[<<u, rail>>] = Unset
    <3>1. high = 0
      BY <1>1, <2>4, <2>7, <2>9, UnsetReservesNothing
    <3>2. low <= b
      BY <2>6, <2>7, <3>1
    <3> QED
      BY <2>3, <2>7, <3>2
  <2> QED
    BY <2>8, <2>9
<1> QED
  BY <1>2, <1>3 DEF Covered, ReservesFit

LEMMA BalancesAsTheyWere ==
    ASSUME TypeOK, UNCHANGED balances
    PROVE  BalancesGrow
<1>1. ASSUME NEW u \in Users, NEW rail \in Rails, balances[<<u, rail>>] # Unset
      PROVE  balances[<<u, rail>>] \in Nat /\ balances[<<u, rail>>] <= balances[<<u, rail>>]
  <2>1. PICK b \in Nat : b = balances[<<u, rail>>]
    BY <1>1 DEF TypeOK
  <2> QED
    BY <2>1
<1>2. balances' = balances
  OBVIOUS
<1> QED
  BY <1>1, <1>2 DEF BalancesGrow

\* A step that leaves orders and balances alone and takes no market away.
LEMMA MarketsKeepCover ==
    ASSUME IInv, IInv', Covered, MarketsKept, UNCHANGED tradingVars
    PROVE  Covered'
<1>1. TypeOK /\ TypeOK' /\ UNCHANGED <<orders, balances>>
  BY DEF IInv, tradingVars
<1>2. OrdersClose
  BY <1>1 DEF OrdersClose
<1> QED
  BY <1>1, <1>2, BalancesAsTheyWere, CoverStays

Extends(g, f, n) == /\ f \in [1..n -> Nat] /\ g \in [(1..n) \cup {n + 1} -> Nat]
                    /\ \A i \in 1..n : g[i] = f[i]

LEMMA OneMore ==
    ASSUME NEW n \in Nat, NEW f, NEW g, Extends(g, f, n)
    PROVE  Tally(g) = Tally(f) + g[n + 1]
<1>1. PICK S, x : S = 1..n /\ x = n + 1
  OBVIOUS
<1>2. IsFiniteSet(S)
  BY <1>1, FS_Interval
<1>3. x \notin S
  BY <1>1
<1>4. f \in [S -> Nat] /\ g \in [S \cup {x} -> Nat] /\ \A i \in S : g[i] = f[i]
  BY <1>1 DEF Extends
<1>5. Tally(g) = Tally(f) + g[x]
  BY <1>2, <1>3, <1>4, TallyExtend
<1> QED
  BY <1>1, <1>5

\* An order that is new is paid for by what is available.
LEMMA CreateMarketOrderCovers ==
    ASSUME IInv, IInv', Covered,
           NEW s \in Slugs, NEW u \in Users, NEW o \in Outcomes, NEW side \in {"buy", "sell"},
           NEW q \in Quantities, NEW p \in Prices, CreateMarketOrder(s, u, o, side, q, p)
    PROVE  Covered'
<1> DEFINE order == [market |-> markets[s].id, owner |-> u, outcome |-> o, side |-> side, price |-> p,
                     quantity |-> q, remaining |-> q, status |-> "open"]
<1>1. TypeOK /\ TypeOK' /\ OrdersPlaced /\ ReservesFit
  BY DEF IInv, Covered
<1>2. PICK m \in Requests, rail \in Rails : m = markets[s].id /\ rail = Rail[m]
  BY <1>1, MarketTypes, MemoryAssumption DEF CreateMarketOrder
<1>3. PICK seed \in Nat : seed = SeedBalance(u, rail)
  BY <1>1, SeedTyped
<1>10. PICK cost : cost = RequiredOrderCollateral(side, q, p)
  OBVIOUS
<1>4. /\ HasMarket(s) /\ ValidPrice(p) /\ UNCHANGED <<requests, marketVars, awaiting>>
      /\ balances' = [balances EXCEPT ![<<u, rail>>] = seed]
      /\ orders' = IF AvailableBalance(u, rail) < cost THEN orders ELSE Append(orders, order)
  BY <1>2, <1>3, <1>10 DEF CreateMarketOrder
<1>5. MarketsKept /\ Found(m) /\ \A n : Found(n)' <=> Found(n)
  BY <1>2, <1>4 DEF MarketsKept, HasMarket, Found, marketVars
<1>6. /\ balances'[<<u, rail>>] = seed /\ seed # Unset
      /\ balances[<<u, rail>>] # Unset => balances[<<u, rail>>] = seed
      /\ \A v \in Users, k \in Rails : <<v, k>> # <<u, rail>> => balances'[<<v, k>>] = balances[<<v, k>>]
  BY <1>1, <1>3, <1>4 DEF TypeOK, SeedBalance, Unset
<1>7. BalancesGrow
  <2>1. ASSUME NEW v \in Users, NEW k \in Rails, balances[<<v, k>>] # Unset
        PROVE  balances[<<v, k>>] \in Nat /\ balances'[<<v, k>>] = balances[<<v, k>>]
    BY <1>1, <1>6, <2>1 DEF TypeOK
  <2>2. \A b \in Nat : b <= b
    OBVIOUS
  <2> QED
    BY <2>1, <2>2 DEF BalancesGrow
<1> HIDE DEF order
<1>8. CASE orders' = orders
  BY <1>1, <1>5, <1>7, <1>8, CoverStays DEF OrdersClose, Covered
<1>9. CASE orders' # orders
  <2>1. orders' = Append(orders, order) /\ ~(AvailableBalance(u, rail) < cost)
    BY <1>4, <1>9
  <2>2. order.market = m /\ order.owner = u /\ order.status = "open" /\ order \in Order
    <3>1. p \in 1..Scale - 1
      BY <1>4, MemoryAssumption DEF ValidPrice
    <3> QED
      BY <1>2, <3>1 DEF order, Order
  <2>3. PICK n \in Nat : n = Len(orders) /\ DOMAIN orders = 1..n /\ orders \in Seq(Order)
    BY <1>1, OrdersTyped
  <2>4. DOMAIN orders' = 1..n + 1 /\ orders'[n + 1] = order /\ \A i \in 1..n : orders'[i] = orders[i]
    BY <2>1, <2>2, <2>3, AppendProperties
  <2>5. cost \in Nat
    <3>1. q \in Nat /\ p \in 1..Scale - 1
      BY <1>4, MemoryAssumption DEF ValidPrice
    <3> QED
      BY <1>10, <3>1, CollateralTyped
  <2>6. OrdersPlaced'
    <3>1. ASSUME NEW i \in DOMAIN orders'
          PROVE  (\E t \in Slugs : HasMarket(t)' /\ markets'[t].id = orders'[i].market)
                 /\ balances'[<<orders'[i].owner, Rail[orders'[i].market]>>] # Unset
      <4>1. CASE i = n + 1
        <5>1. orders'[i].market = m /\ orders'[i].owner = u
          BY <2>2, <2>4, <4>1
        <5>2. \E t \in Slugs : HasMarket(t)' /\ markets'[t].id = m
          BY <1>5 DEF Found
        <5> QED
          BY <1>2, <1>6, <5>1, <5>2
      <4>2. CASE i # n + 1
        <5>1. i \in DOMAIN orders /\ orders'[i] = orders[i]
          BY <2>3, <2>4, <3>1, <4>2
        <5>2. PICK v \in Users, k \in Rails, r \in Requests : v = orders[i].owner /\ r = orders[i].market /\ k = Rail[r]
          BY <1>1, <5>1, OrdersOf
        <5>3. Found(r) /\ balances[<<v, k>>] # Unset
          BY <1>1, <5>1, <5>2 DEF OrdersPlaced
        <5>4. \E t \in Slugs : HasMarket(t)' /\ markets'[t].id = r
          BY <1>5, <5>3 DEF Found
        <5>5. balances'[<<v, k>>] # Unset
          BY <1>7, <5>3 DEF BalancesGrow
        <5> QED
          BY <5>1, <5>2, <5>4, <5>5
      <4> QED
        BY <4>1, <4>2
    <3> QED
      BY <3>1 DEF OrdersPlaced, Found
  <2>7. ASSUME NEW v \in Users, NEW k \in Rails, balances'[<<v, k>>] # Unset
        PROVE  ReservedBalance(v, k)' <= balances'[<<v, k>>]
    <3> DEFINE g == [i \in DOMAIN orders' |-> ReservedBy(orders[i], v, k)']
    <3>1. PICK f \in [1..n -> Nat] : f = Reserves(v, k)
      BY <1>1, <2>3, ReservesTyped
    <3>2. PICK high \in Nat : high = ReservedBalance(v, k) /\ high = Tally(f)
      BY <1>1, <3>1, ReservesTyped
    <3>3. ReservedBalance(v, k)' = Tally(g)
      BY DEF ReservedBalance
    <3>4. PICK new \in Nat : new = ReservedBy(order, v, k) /\ (<<v, k>> # <<u, rail>> => new = 0) /\ new \in {0, cost}
      <4>1. ReservedBy(order, v, k) \in {0, cost}
        BY <1>10 DEF ReservedBy, order
      <4>2. <<v, k>> # <<u, rail>> => ReservedBy(order, v, k) = 0
        BY <1>2, <2>2 DEF ReservedBy
      <4> QED
        BY <2>5, <4>1, <4>2
    <3>5. \A i \in 1..n : g[i] = f[i]
      <4>1. ASSUME NEW i \in 1..n
            PROVE  ReservedBy(orders[i], v, k)' = ReservedBy(orders[i], v, k)
        BY <1>5, <2>3, <2>4 DEF ReservedBy, RequiredOrderCollateral
      <4> QED
        BY <2>3, <2>4, <3>1, <4>1 DEF Reserves
    <3>6. g[n + 1] = new
      <4>1. ReservedBy(orders[n + 1], v, k)' = ReservedBy(order, v, k)
        BY <1>5, <2>4 DEF ReservedBy, RequiredOrderCollateral
      <4> QED
        BY <2>4, <3>4, <4>1
    <3>7. DOMAIN g = (1..n) \cup {n + 1} /\ n + 1 \notin 1..n
      BY <2>4
    <3>8. g \in [(1..n) \cup {n + 1} -> Nat]
      <4>1. g = [i \in (1..n) \cup {n + 1} |-> g[i]]
        BY <3>7
      <4>2. \A i \in (1..n) \cup {n + 1} : g[i] \in Nat
        BY <3>1, <3>5, <3>6
      <4> HIDE DEF g
      <4> QED
        BY <4>1, <4>2
    <3> HIDE DEF g
    <3>9. Tally(g) = high + new
      <4>1. Tally(g) = Tally(f) + g[n + 1]
        BY <3>1, <3>5, <3>8, OneMore DEF Extends
      <4> QED
        BY <3>2, <3>6, <4>1
    <3>10. CASE <<v, k>> = <<u, rail>>
      <4>1. v = u /\ k = rail
        BY <3>10
      <4>2. ~(seed - high < cost)
        BY <1>3, <1>10, <2>1, <3>2, <4>1 DEF AvailableBalance
      <4>3. high <= seed
        <5>1. CASE balances[<<u, rail>>] = Unset
          <6>1. high = 0
            BY <1>1, <3>2, <4>1, <5>1, UnsetReservesNothing
          <6> QED
            BY <6>1
        <5>2. CASE balances[<<u, rail>>] # Unset
          BY <1>1, <1>6, <3>2, <4>1, <5>2 DEF ReservesFit
        <5> QED
          BY <5>1, <5>2
      <4>4. high + new <= seed
        BY <2>5, <3>4, <4>2, <4>3
      <4> QED
        BY <1>6, <3>3, <3>9, <4>1, <4>4
    <3>11. CASE <<v, k>> # <<u, rail>>
      <4>1. balances'[<<v, k>>] = balances[<<v, k>>] /\ new = 0
        BY <1>6, <3>4, <3>11
      <4>2. high <= balances[<<v, k>>]
        BY <1>1, <2>7, <3>2, <4>1 DEF ReservesFit
      <4>3. high + new = high
        BY <4>1
      <4> QED
        BY <3>3, <3>9, <4>1, <4>2, <4>3
    <3> QED
      BY <3>10, <3>11
  <2> QED
    BY <2>6, <2>7 DEF Covered, ReservesFit
<1> QED
  BY <1>8, <1>9

LEMMA TradingCovers ==
    ASSUME IInv, IInv', Covered, TradingNext
    PROVE  Covered'
<1>1. TypeOK /\ TypeOK' /\ MarketsKept
  BY TradingLeaves DEF IInv, MarketsKept, HasMarket, marketVars
<1>2. CASE \E s \in Slugs, u \in Users, o \in Outcomes, side \in {"buy", "sell"}, q \in Quantities, p \in Prices :
               CreateMarketOrder(s, u, o, side, q, p)
  BY <1>2, CreateMarketOrderCovers
<1>3. ASSUME NEW s \in Slugs, NEW i \in DOMAIN orders, CancelMarketOrder(s, i)
      PROVE  Covered'
  <2>1. orders' = [orders EXCEPT ![i].status = "cancelled"] /\ UNCHANGED balances
    BY <1>3 DEF CancelMarketOrder
  <2>2. PICK order \in Order : order = orders[i]
    BY <1>1, OrdersTyped
  <2>3. PICK cancelled : cancelled = [order EXCEPT !.status = "cancelled"]
    OBVIOUS
  <2>4. cancelled.owner = order.owner /\ cancelled.market = order.market /\ cancelled.status \notin Active
    BY <2>3 DEF Order, Active
  <2>5. orders' = [orders EXCEPT ![i] = cancelled]
    BY <2>1, <2>2, <2>3
  <2>6. OrdersClose
    <3>1. DOMAIN orders' = DOMAIN orders /\ orders'[i] = cancelled /\ \A j \in DOMAIN orders : j # i => orders'[j] = orders[j]
      BY <2>5
    <3> QED
      BY <2>2, <2>4, <3>1 DEF OrdersClose
  <2> QED
    BY <1>1, <2>1, <2>6, BalancesAsTheyWere, CoverStays
<1>4. ASSUME NEW u \in Users, NEW rail \in Rails,
             GetPortfolioSummary(u, rail) \/ \E amount \in Grants : FundBalance(u, rail, amount)
      PROVE  Covered'
  <2>1. PICK b \in Nat \cup {Unset} : b = balances[<<u, rail>>]
    BY <1>1 DEF TypeOK
  <2>2. PICK c \in Nat : balances' = [balances EXCEPT ![<<u, rail>>] = c] /\ (b # Unset => b <= c)
    <3>1. CASE GetPortfolioSummary(u, rail)
      BY <2>1, <3>1, MemoryAssumption DEF GetPortfolioSummary
    <3>2. ASSUME NEW amount \in Grants, FundBalance(u, rail, amount)
          PROVE  \E c \in Nat : balances' = [balances EXCEPT ![<<u, rail>>] = c] /\ (b # Unset => b <= c)
      <4>1. PICK c : c = amount + (IF b = Unset THEN 0 ELSE b)
        OBVIOUS
      <4>2. balances' = [balances EXCEPT ![<<u, rail>>] = c]
        BY <2>1, <3>2, <4>1 DEF FundBalance
      <4>3. amount \in Nat
        BY MemoryAssumption
      <4>4. c \in Nat /\ (b # Unset => b <= c)
        BY <4>1, <4>3
      <4> QED
        BY <4>2, <4>4
    <3> QED
      BY <1>4, <3>1, <3>2
  <2>3. UNCHANGED orders
    BY <1>4 DEF GetPortfolioSummary, FundBalance
  <2>4. OrdersClose
    BY <2>3 DEF OrdersClose
  <2>5. ASSUME NEW v \in Users, NEW k \in Rails, balances[<<v, k>>] # Unset
        PROVE  /\ balances[<<v, k>>] \in Nat /\ balances'[<<v, k>>] \in Nat
               /\ balances'[<<v, k>>] # Unset /\ balances[<<v, k>>] <= balances'[<<v, k>>]
    <3>1. PICK a \in Nat : a = balances[<<v, k>>]
      BY <1>1, <2>5 DEF TypeOK
    <3>4. PICK d : d = balances'[<<v, k>>]
      OBVIOUS
    <3>2. d \in Nat /\ a <= d
      <4>1. d = a \/ (d = c /\ a = b)
        BY <1>1, <2>1, <2>2, <3>1, <3>4 DEF TypeOK
      <4>2. a # Unset
        BY <2>5, <3>1
      <4> QED
        BY <2>2, <4>1, <4>2
    <3>3. d # Unset
      BY <3>2 DEF Unset
    <3> QED
      BY <3>1, <3>4, <3>2, <3>3
  <2>6. BalancesGrow
    BY <2>5 DEF BalancesGrow
  <2> QED
    BY <1>1, <2>4, <2>6, CoverStays
<1> QED
  BY <1>2, <1>3, <1>4 DEF TradingNext

LEMMA OneMarketStays ==
    ASSUME TypeOK, NEW s \in Slugs, NEW new \in Market, markets' = [markets EXCEPT ![s] = new],
           HasMarket(s) => new.id = markets[s].id
    PROVE  MarketsKept
<1>1. markets'[s] = new /\ \A t \in Slugs : t # s => markets'[t] = markets[t]
  BY DEF TypeOK
<1>2. new # NoMarket
  BY NoMarketAssumption
<1> QED
  BY <1>1, <1>2 DEF MarketsKept, HasMarket

LEMMA StatusAlone ==
    ASSUME TypeOK, NEW s \in Slugs, HasMarket(s), NEW status \in MarketStatuses,
           markets' = [markets EXCEPT ![s].status = status]
    PROVE  MarketsKept
<1>1. PICK old \in Market : old = markets[s]
  BY MarketTypes
<1>2. PICK new : new = [old EXCEPT !.status = status]
  OBVIOUS
<1>3. new \in Market /\ new.id = old.id
  BY <1>2 DEF Market
<1>4. markets' = [markets EXCEPT ![s] = new]
  BY <1>1, <1>2
<1> QED
  BY <1>1, <1>3, <1>4, OneMarketStays

LEMMA SettleMarketCovers ==
    ASSUME IInv, IInv', Covered, NEW s \in Slugs, NEW winner \in Outcomes,
           NEW c \in Candidates \cup {NoCandidate}, SettleMarket(s, winner, c)
    PROVE  Covered'
<1>1. TypeOK /\ TypeOK' /\ HasMarket(s) /\ UNCHANGED balances
  BY DEF IInv, SettleMarket
<1>2. PICK old \in Market : old = markets[s]
  BY <1>1, MarketTypes
<1>3. PICK new : new = [old EXCEPT !.status = "settled", !.winner = winner]
  OBVIOUS
<1>4. new \in Market /\ new.id = old.id
  BY <1>3 DEF Market, MarketStatuses
<1>5. markets' = [markets EXCEPT ![s] = new]
  BY <1>2, <1>3 DEF SettleMarket
<1>6. MarketsKept
  BY <1>1, <1>2, <1>4, <1>5, OneMarketStays
<1>7. PICK m : m = old.id
  OBVIOUS
<1>8. orders' = CancelOrdersForMarket(m)
  BY <1>2, <1>7 DEF SettleMarket
<1>9. OrdersClose
  <2>1. ASSUME NEW i \in DOMAIN orders
        PROVE  /\ orders'[i].owner = orders[i].owner /\ orders'[i].market = orders[i].market
               /\ orders'[i].status \in Active => orders'[i] = orders[i]
    <3>1. PICK order \in Order : order = orders[i]
      BY <1>1, OrdersTyped
    <3>2. PICK cancelled : cancelled = [order EXCEPT !.status = "cancelled", !.remaining = 0]
      OBVIOUS
    <3>3. cancelled.owner = order.owner /\ cancelled.market = order.market /\ cancelled.status \notin Active
      BY <3>2 DEF Order, Active
    <3>4. orders'[i] = order \/ orders'[i] = cancelled
      BY <1>8, <3>1, <3>2 DEF CancelOrdersForMarket
    <3> QED
      BY <3>1, <3>3, <3>4
  <2>2. DOMAIN orders' = DOMAIN orders
    BY <1>8 DEF CancelOrdersForMarket
  <2> QED
    BY <2>1, <2>2 DEF OrdersClose
<1> QED
  BY <1>1, <1>6, <1>9, BalancesAsTheyWere, CoverStays

LEMMA MarketCovers ==
    ASSUME IInv, IInv', Covered, MarketNext
    PROVE  Covered'
<1>1. TypeOK
  BY DEF IInv
<1>2. PICK s \in Slugs :
          \/ \E status \in MarketStatuses : UpdateMarketStatus(s, status)
          \/ \E d \in Disputes : CreateMarketDispute(s, d)
          \/ \E d \in Disputes : AddMarketDisputeEvidence(s, d)
          \/ \E d \in Disputes, decision \in {"under_review"} \cup ClosedDispute : ReviewMarketDispute(s, d, decision)
          \/ \E c \in Candidates : RequestSettlement(s, c)
          \/ ReconcileOracleResolution(s)
          \/ \E winner \in Outcomes, c \in Candidates \cup {NoCandidate} : SettleMarket(s, winner, c)
  BY DEF MarketNext
<1>3. CASE \E status \in MarketStatuses : UpdateMarketStatus(s, status)
  BY <1>1, <1>3, StatusAlone, MarketsKeepCover DEF UpdateMarketStatus
<1>4. ASSUME NEW d \in Disputes, CreateMarketDispute(s, d)
      PROVE  Covered'
  <2>1. HasMarket(s) /\ markets' = [markets EXCEPT ![s].status = "disputed"] /\ UNCHANGED tradingVars
    BY <1>4 DEF CreateMarketDispute
  <2>2. "disputed" \in MarketStatuses
    BY DEF MarketStatuses, PendingStatuses
  <2> QED
    BY <1>1, <2>1, <2>2, StatusAlone, MarketsKeepCover
<1>5. ASSUME NEW d \in Disputes, NEW decision \in {"under_review"} \cup ClosedDispute, ReviewMarketDispute(s, d, decision)
      PROVE  Covered'
  <2>1. PICK status : status = IF decision \in {"dismissed", "withdrawn"} THEN "awaiting_resolution" ELSE "disputed"
    OBVIOUS
  <2>2. HasMarket(s) /\ markets' = [markets EXCEPT ![s].status = status] /\ UNCHANGED tradingVars
    BY <1>5, <2>1 DEF ReviewMarketDispute
  <2>3. status \in MarketStatuses
    BY <2>1 DEF MarketStatuses, PendingStatuses
  <2> QED
    BY <1>1, <2>2, <2>3, StatusAlone, MarketsKeepCover
<1>6. CASE \/ \E d \in Disputes : AddMarketDisputeEvidence(s, d)
           \/ \E c \in Candidates : RequestSettlement(s, c)
           \/ ReconcileOracleResolution(s)
  <2>1. UNCHANGED markets /\ UNCHANGED tradingVars
    BY <1>6 DEF AddMarketDisputeEvidence, RequestSettlement, ReconcileOracleResolution, marketVars
  <2>2. MarketsKept
    BY <2>1 DEF MarketsKept, HasMarket
  <2> QED
    BY <2>1, <2>2, MarketsKeepCover
<1>7. CASE \E winner \in Outcomes, c \in Candidates \cup {NoCandidate} : SettleMarket(s, winner, c)
  BY <1>7, SettleMarketCovers
<1> QED
  BY <1>2, <1>3, <1>4, <1>5, <1>6, <1>7

\* A market that is written back, or published, is the only one of its slug.
LEMMA AnswersCover ==
    ASSUME NoneReplaced, IInv, IInv', Covered, AnswerNext
    PROVE  Covered'
<1>1. TypeOK /\ InPlace /\ ConvertedOnce
  BY DEF IInv
<1>2. PICK w \in awaiting : PublishAnswered(w) \/ SettlementBegun(w) \/ Reconciled(w) \/ Interrupted(w)
  BY DEF AnswerNext
<1>3. UNCHANGED tradingVars
  BY <1>2 DEF PublishAnswered, SettlementBegun, Reconciled, Interrupted
<1>4. ASSUME NEW s \in Slugs, NEW r \in Requests, Slug[r] = s, HasMarket(s), requests[r].status = "converted"
      PROVE  markets[s].id = r
  <2>1. PICK m \in Requests : m = markets[s].id /\ Slug[m] = s
    BY <1>1, <1>4, MarketTypes DEF InPlace
  <2>2. requests[m].status = "converted"
    BY <1>1, <1>4, <2>1 DEF ConvertedOnce, Unpublished
  <2> QED
    BY <1>4, <2>1, <2>2 DEF NoneReplaced
<1>5. CASE PublishAnswered(w)
  <2>1. PICK r \in Requests : r = w.request /\ requests[r].status = "converted"
    BY <1>1, <1>5, MarketTypes DEF PublishAnswered, ConvertedOnce
  <2>2. PICK new : new = [id |-> r, status |-> "pending_liquidity", winner |-> NoOutcome]
    OBVIOUS
  <2>3. new \in Market /\ new.id = r
    BY <2>2 DEF Market, MarketStatuses
  <2>4. Slug[r] \in Slugs /\ markets' = [markets EXCEPT ![Slug[r]] = new]
    BY <1>5, <2>1, <2>2 DEF PublishAnswered, Slugs
  <2>5. MarketsKept
    BY <1>1, <1>4, <2>1, <2>3, <2>4, OneMarketStays
  <2> QED
    BY <1>3, <2>5, MarketsKeepCover
<1>6. CASE SettlementBegun(w)
  <2>1. PICK old \in Market, s \in Slugs : old = w.market /\ s = w.slug /\ Slug[old.id] = s
    BY <1>1, <1>2, <1>6, MarketTypes DEF SettlementBegun, InPlace
  <2>6. requests[old.id].status = "converted"
    BY <1>1, <1>2, <1>6, <2>1 DEF SettlementBegun, ConvertedOnce, Unpublished, Market
  <2>2. PICK new : new = [old EXCEPT !.status = "awaiting_resolution"]
    OBVIOUS
  <2>3. new \in Market /\ new.id = old.id /\ old.id \in Requests
    BY <2>2 DEF Market, MarketStatuses, PendingStatuses
  <2>4. markets' = [markets EXCEPT ![s] = new]
    BY <1>6, <2>1, <2>2 DEF SettlementBegun
  <2>5. MarketsKept
    BY <1>1, <1>4, <2>1, <2>3, <2>4, <2>6, OneMarketStays
  <2> QED
    BY <1>3, <2>5, MarketsKeepCover
<1>7. CASE Reconciled(w) \/ Interrupted(w)
  <2>1. UNCHANGED markets
    BY <1>7 DEF Reconciled, Interrupted, marketVars
  <2>2. MarketsKept
    BY <2>1 DEF MarketsKept, HasMarket
  <2> QED
    BY <1>3, <2>2, MarketsKeepCover
<1> QED
  BY <1>2, <1>5, <1>6, <1>7

\* A request that was published stays so.
LEMMA NoneReplacedBefore ==
    ASSUME TypeOK, [Next]_vars, NoneReplaced'
    PROVE  NoneReplaced
<1>1. \A r \in Requests : requests[r].status = "converted" => requests'[r].status = "converted"
  BY RequestSteps DEF RequestStep
<1> QED
  BY <1>1 DEF NoneReplaced

LEMMA NextCovers ==
    ASSUME IInv, CoverInv, [Next]_vars
    PROVE  CoverInv'
<1> SUFFICES ASSUME NoneReplaced'
             PROVE  Covered'
  BY DEF CoverInv
<1>1. IInv'
  BY NextKeeps, StutterKeeps
<1>2. NoneReplaced /\ Covered
  BY NoneReplacedBefore DEF IInv, CoverInv
<1>3. CASE RequestNext \/ UNCHANGED vars
  <2>1. UNCHANGED marketVars /\ UNCHANGED tradingVars
    BY <1>3 DEF RequestNext, CreateRequest, UpdateRequest, SubmitRequest, UpsertAnswer, ReviewRequest,
       PublishFromRequest, vars, marketVars, tradingVars
  <2>2. MarketsKept
    BY <2>1 DEF MarketsKept, HasMarket, marketVars
  <2> QED
    BY <1>1, <1>2, <2>1, <2>2, MarketsKeepCover
<1> QED
  BY <1>1, <1>2, <1>3, TradingCovers, MarketCovers, AnswersCover DEF Next

-----------------------------------------------------------------------------
(* Theorems *)

\* The inductive invariant holds in every state of every instance.
THEOREM MemoryInvariant == Spec => []IInv
<1>1. Init => IInv
  BY InitKeeps
<1>2. IInv /\ [Next]_vars => IInv'
  BY NextKeeps, StutterKeeps
<1> QED
  BY <1>1, <1>2, PTL DEF Spec

\* Every row that the repositories keep, and every row that a waiting handler
\* holds, is of the shape its class declares.
THEOREM MemoryTypes == Spec => []TypeOK
<1>1. IInv => TypeOK
  BY DEF IInv
<1> QED
  BY <1>1, MemoryInvariant, PTL

\* A settled market has no open dispute and no active order, though a handler
\* may write an older copy of the market back over it.
THEOREM SettledQuiet == Spec => []SettledMarketIsQuiet
<1>1. IInv => SettledMarketIsQuiet
  BY DEF IInv
<1> QED
  BY <1>1, MemoryInvariant, PTL

\* Market, resolution, candidate and disputes agree, and at most one dispute is
\* open, for any number of requests, slugs, candidates and disputes.
THEOREM DecisionsAgree == Spec => []ResolutionAgrees
<1>1. IInv => ResolutionAgrees
  BY Agrees
<1> QED
  BY <1>1, MemoryInvariant, PTL

\* No user has more reserved for open orders than the balance of the rail, for
\* any orders, prices, grants and users, as long as no market has taken the slug
\* of another (create_market_order, _reserved_balance).
THEOREM ReservesCovered == Spec => []OrdersCovered
<1>1. Init => CoverInv
  <2>1. ASSUME Init
        PROVE  OrdersPlaced /\ \A u \in Users, rail \in Rails : balances[<<u, rail>>] = Unset
    BY <2>1 DEF Init, OrdersPlaced
  <2> QED
    BY <2>1 DEF CoverInv, Covered, ReservesFit
<1>2. IInv /\ CoverInv /\ [Next]_vars => CoverInv'
  BY NextCovers
<1>3. CoverInv => OrdersCovered
  BY DEF CoverInv, Covered, ReservesFit, OrdersCovered
<1> QED
  BY <1>1, <1>2, <1>3, MemoryInvariant, PTL DEF Spec

\* No step removes a proposal, a dispute, evidence or a decision from a history.
THEOREM HistoriesKept == Spec => HistoryKept
<1>1. IInv /\ [Next]_vars => [\A r \in Requests : KeptEvents(r) \subseteq KeptEvents(r)']_vars
  <2> SUFFICES ASSUME IInv, [Next]_vars
               PROVE  \A r \in Requests : KeptEvents(r) \subseteq KeptEvents(r)'
    OBVIOUS
  <2>1. TypeOK /\ HistoryGrows
    BY NextKeeps, StutterKeeps DEF IInv
  <2> QED
    BY <2>1, HistoryOnlyGrows
<1> QED
  BY <1>1, MemoryInvariant, PTL DEF Spec, HistoryKept

\* A draft can only be submitted, and has no market; from submission on no step
\* changes the text or an answer of a request, or makes it a draft again.
THEOREM ReviewedAsSubmitted == Spec => AnswersFrozen
<1>1. IInv /\ IInv' /\ [Next]_vars => [\A r \in Requests :
          IF requests[r].status \in {"none", "draft"}
          THEN requests'[r].status \in {"none", "draft", "submitted"} /\ ~Found(r)'
          ELSE /\ requests'[r].answers = requests[r].answers
               /\ requests'[r].text = requests[r].text
               /\ requests'[r].status \notin {"none", "draft"}]_vars
  BY AnswersStay
<1> QED
  BY <1>1, MemoryInvariant, PTL DEF Spec, AnswersFrozen

-----------------------------------------------------------------------------
(* What traders are shown *)

RankOf(prices, side, p) == Cardinality({q \in prices : Better(side, q, p)})

\* No two prices have as many better ones, so there is one for every rank.
LEMMA SortedPrices ==
    ASSUME NEW prices, IsFiniteSet(prices), prices \subseteq Nat,
           NEW side \in {"buy", "sell"}, NEW n \in 1 .. Cardinality(prices)
    PROVE  /\ SortedPrice(prices, side, n) \in prices
           /\ RankOf(prices, side, SortedPrice(prices, side, n)) = n - 1
<1> DEFINE Above(p) == {q \in prices : Better(side, q, p)}
           rank == [p \in prices |-> Cardinality(Above(p))]
           Ranks == 0 .. Cardinality(prices) - 1
<1>1. Cardinality(prices) \in Nat
  BY FS_CardinalityType
<1>2. \A p \in prices : IsFiniteSet(Above(p)) /\ Cardinality(Above(p)) \in Ranks
  <2> SUFFICES ASSUME NEW p \in prices
               PROVE  IsFiniteSet(Above(p)) /\ Cardinality(Above(p)) \in Ranks
    OBVIOUS
  <2>1. Above(p) \subseteq prices /\ Above(p) # prices
    BY DEF Better
  <2> HIDE DEF Above
  <2>2. IsFiniteSet(Above(p)) /\ Cardinality(Above(p)) <= Cardinality(prices)
        /\ Cardinality(Above(p)) # Cardinality(prices) /\ Cardinality(Above(p)) \in Nat
    BY <2>1, FS_Subset, FS_CardinalityType
  <2> QED
    BY <1>1, <2>2
<1>3. ASSUME NEW p \in prices, NEW q \in prices, Better(side, p, q)
      PROVE  Cardinality(Above(p)) # Cardinality(Above(q))
  <2>1. \A r \in prices : Better(side, r, p) => Better(side, r, q)
    <3> SUFFICES ASSUME NEW r \in prices, Better(side, r, p)
                 PROVE  Better(side, r, q)
      OBVIOUS
    <3>1. p \in Nat /\ q \in Nat /\ r \in Nat
      OBVIOUS
    <3> QED
      BY <1>3, <3>1 DEF Better
  <2>2. ~Better(side, p, p)
    <3>1. p \in Nat
      OBVIOUS
    <3> QED
      BY <3>1 DEF Better
  <2>3. Above(p) \subseteq Above(q) /\ p \in Above(q) /\ p \notin Above(p)
    BY <1>3, <2>1, <2>2
  <2> HIDE DEF Above
  <2> QED
    BY <1>2, <2>3, FS_Subset
<1>4. rank \in Injection(prices, Ranks)
  <2>1. rank \in [prices -> Ranks]
    BY <1>2
  <2>2. ASSUME NEW p \in prices, NEW q \in prices, rank[p] = rank[q]
        PROVE  p = q
    <3>1. ~Better(side, p, q) /\ ~Better(side, q, p)
      BY <1>3, <2>2
    <3> QED
      BY <3>1 DEF Better
  <2> HIDE DEF rank, Ranks
  <2> QED
    BY <2>1, <2>2 DEF Injection, IsInjective
<1>5. IsFiniteSet(Ranks) /\ Cardinality(Ranks) = Cardinality(prices)
  <2> DEFINE c == Cardinality(prices)
  <2> HIDE DEF c
  <2>1. c \in Nat
    BY <1>1 DEF c
  <2>2. IsFiniteSet(0 .. c - 1) /\ Cardinality(0 .. c - 1) = c
    BY <2>1, FS_Interval
  <2> QED
    BY <2>2 DEF c
<1>6. rank \in Surjection(prices, Ranks)
  <2> HIDE DEF rank, Ranks
  <2> QED
    BY <1>4, <1>5, FS_Injection
<1>7. n - 1 \in Ranks
  BY <1>1
<1>8. \E p \in prices : rank[p] = n - 1
  <2> HIDE DEF rank, Ranks
  <2> QED
    BY <1>6, <1>7 DEF Surjection
<1> QED
  BY <1>8 DEF SortedPrice, RankOf

\* As many levels as there are prices, and no more than are shown.
LEMMA LevelsShown ==
    ASSUME NEW c \in Nat
    PROVE  /\ Min({Depth, c}) \in Nat /\ Min({Depth, c}) <= c
           /\ Min({Depth, c}) = 0 <=> c = 0
<1>1. Depth \in Nat \ {0}
  BY MemoryAssumption
<1>2. \E x \in {Depth, c} : \A y \in {Depth, c} : x =< y
  BY <1>1
<1> QED
  BY <1>1, <1>2 DEF Min

\* The orders of one side of a book are finitely many, with positive prices.
LEMMA RestingTyped ==
    ASSUME TypeOK, NEW o, NEW side
    PROVE  /\ IsFiniteSet(RestingAt(o, side)) /\ IsFiniteSet(PricesOf(RestingAt(o, side)))
           /\ PricesOf(RestingAt(o, side)) \subseteq 1 .. Scale - 1
           /\ \A i \in RestingAt(o, side) : orders[i].remaining \in Nat
<1> DEFINE which == RestingAt(o, side)
           prices == PricesOf(which)
           f == [i \in which |-> orders[i].price]
<1>1. which \subseteq DOMAIN orders
  BY DEF RestingAt
<1>2. IsFiniteSet(which)
  <2>1. PICK n \in Nat : DOMAIN orders = 1 .. n
    BY OrdersTyped
  <2>2. IsFiniteSet(1 .. n)
    BY FS_Interval
  <2> HIDE DEF which
  <2> QED
    BY <1>1, <2>1, <2>2, FS_Subset
<1>3. \A i \in which : orders[i] \in Order
  BY <1>1, OrdersTyped
<1>4. \A i \in which : orders[i].price \in 1 .. Scale - 1 /\ orders[i].remaining \in Nat
  BY <1>3, MemoryAssumption DEF Order
<1>5. f \in Surjection(which, prices)
  BY DEF Surjection, PricesOf
<1>6. IsFiniteSet(prices)
  <2> HIDE DEF f, prices, which
  <2> QED
    BY <1>2, <1>5, FS_Surjection
<1>7. prices \subseteq 1 .. Scale - 1
  BY <1>4 DEF PricesOf
<1> QED
  BY <1>2, <1>4, <1>6, <1>7

\* Every order that is shown is shown at one level.
LEMMA ShownIsResting ==
    ASSUME TypeOK, NEW o, NEW side \in {"buy", "sell"}
    PROVE  ShownQuantity(BuildOrderBook(o)[side]) <= QuantityOf(RestingAt(o, side))
<1> DEFINE which == RestingAt(o, side)
           prices == PricesOf(which)
           f == [i \in which |-> orders[i].remaining]
<1>1. IsFiniteSet(which) /\ IsFiniteSet(prices) /\ prices \subseteq Nat /\ f \in [which -> Nat]
  <2>1. Scale \in Nat
    BY MemoryAssumption
  <2> QED
    BY <2>1, RestingTyped
<1>2. Cardinality(prices) \in Nat
  BY <1>1, FS_CardinalityType
<1> DEFINE d == Min({Depth, Cardinality(prices)})
<1>3. d \in Nat /\ d <= Cardinality(prices)
  <2> HIDE DEF prices
  <2> QED
    BY <1>2, LevelsShown
<1> HIDE DEF d
<1> DEFINE N == 1 .. d
           Part == [n \in N |-> {i \in which : orders[i].price = SortedPrice(prices, side, n)}]
           levels == BuildOrderBook(o)[side]
<1>4. IsFiniteSet(N) /\ Part \in [N -> SUBSET which]
  BY <1>3, FS_Interval
<1>5. \A m, n \in N : m # n => Part[m] \cap Part[n] = {}
  <2>1. ASSUME NEW n \in N
        PROVE  RankOf(prices, side, SortedPrice(prices, side, n)) = n - 1
    <3>1. n \in 1 .. Cardinality(prices)
      BY <1>2, <1>3
    <3> HIDE DEF prices
    <3> QED
      BY <1>1, <3>1, SortedPrices
  <2>2. \A m, n \in N : SortedPrice(prices, side, m) = SortedPrice(prices, side, n) => m - 1 = n - 1
    <3> SUFFICES ASSUME NEW m \in N, NEW n \in N, SortedPrice(prices, side, m) = SortedPrice(prices, side, n)
                 PROVE  m - 1 = n - 1
      OBVIOUS
    <3>1. RankOf(prices, side, SortedPrice(prices, side, m)) = RankOf(prices, side, SortedPrice(prices, side, n))
      OBVIOUS
    <3> QED
      BY <2>1, <3>1
  <2>3. \A m, n \in N : SortedPrice(prices, side, m) = SortedPrice(prices, side, n) => m = n
    BY <2>2
  <2> QED
    BY <2>3
<1>6. levels = [n \in N |-> [price |-> SortedPrice(prices, side, n), quantity |-> QuantityOf(Part[n])]]
  <2>1. levels = [n \in N |-> [price |-> SortedPrice(prices, side, n),
                               quantity |-> QuantityOf({i \in which : orders[i].price = SortedPrice(prices, side, n)})]]
    BY DEF BuildOrderBook, d
  <2>2. \A n \in N : Part[n] = {i \in which : orders[i].price = SortedPrice(prices, side, n)}
    OBVIOUS
  <2> HIDE DEF levels, Part, N, which, prices
  <2> QED
    BY <2>1, <2>2
<1>7. \A n \in N : QuantityOf(Part[n]) = Tally([i \in Part[n] |-> f[i]])
  <2> SUFFICES ASSUME NEW n \in N
               PROVE  QuantityOf(Part[n]) = Tally([i \in Part[n] |-> f[i]])
    OBVIOUS
  <2>1. [i \in Part[n] |-> orders[i].remaining] = [i \in Part[n] |-> f[i]]
    OBVIOUS
  <2> QED
    BY <2>1 DEF QuantityOf
<1>8. ShownQuantity(levels) = Tally([n \in N |-> QuantityOf(Part[n])])
  <2>1. DOMAIN levels = N /\ \A n \in N : levels[n].quantity = QuantityOf(Part[n])
    BY <1>6
  <2>2. [n \in DOMAIN levels |-> levels[n].quantity] = [n \in N |-> QuantityOf(Part[n])]
    <3> HIDE DEF levels, N, Part
    <3> QED
      BY <2>1
  <2> QED
    BY <2>2 DEF ShownQuantity
<1>9. [n \in N |-> QuantityOf(Part[n])] = [n \in N |-> Tally([i \in Part[n] |-> f[i]])]
  BY <1>7
<1>10. Tally([n \in N |-> Tally([i \in Part[n] |-> f[i]])]) <= Tally(f)
  <2> HIDE DEF N, Part, f, which
  <2> QED
    BY <1>1, <1>4, <1>5, TallyOfParts
<1> QED
  BY <1>8, <1>9, <1>10 DEF QuantityOf

\* The first level has a price that no other order of the side betters.
LEMMA FirstLevelIsBest ==
    ASSUME TypeOK, NEW o, NEW side \in {"buy", "sell"},
           NEW levels, levels = BuildOrderBook(o)[side],
           NEW prices, prices = PricesOf(RestingAt(o, side))
    PROVE  /\ DOMAIN levels = {} <=> prices = {}
           /\ prices # {} => /\ levels[1].price \in prices
                             /\ \A q \in prices : ~Better(side, q, levels[1].price)
<1> DEFINE d == Min({Depth, Cardinality(prices)})
           first == SortedPrice(prices, side, 1)
<1>1. IsFiniteSet(prices) /\ prices \subseteq Nat
  <2>1. Scale \in Nat
    BY MemoryAssumption
  <2> QED
    BY <2>1, RestingTyped
<1>2. Cardinality(prices) \in Nat /\ (Cardinality(prices) = 0 <=> prices = {})
  BY <1>1, FS_CardinalityType, FS_EmptySet
<1>3. d \in Nat /\ (d = 0 <=> prices = {})
  BY <1>2, LevelsShown
<1>4. /\ DOMAIN levels = 1 .. d
      /\ \A n \in 1 .. d : levels[n].price = SortedPrice(prices, side, n)
  BY DEF BuildOrderBook
<1> HIDE DEF d
<1>5. ASSUME prices # {}
      PROVE  levels[1].price \in prices /\ \A q \in prices : ~Better(side, q, levels[1].price)
  <2>1. 1 \in 1 .. Cardinality(prices) /\ 1 \in 1 .. d
    BY <1>2, <1>3, <1>5
  <2>2. levels[1].price = first
    BY <1>4, <2>1
  <2>3. first \in prices /\ RankOf(prices, side, first) = 0
    BY <1>1, <2>1, SortedPrices
  <2>4. {q \in prices : Better(side, q, first)} = {}
    <3> DEFINE A == {q \in prices : Better(side, q, first)}
    <3>1. A \subseteq prices /\ Cardinality(A) = 0
      BY <2>3 DEF RankOf
    <3> HIDE DEF A
    <3>2. A = {}
      BY <1>1, <3>1, FS_Subset, FS_EmptySet
    <3> QED
      BY <3>2 DEF A
  <2> HIDE DEF first
  <2> QED
    BY <2>2, <2>3, <2>4
<1> QED
  BY <1>3, <1>4, <1>5

\* The two views of a book agree, for any orders, prices, outcomes and depth.
THEOREM QuotesAreOfBook == Spec => []QuoteMatchesBook
<1>1. TypeOK => QuoteMatchesBook
  <2> SUFFICES ASSUME TypeOK, NEW o \in Outcomes
               PROVE  /\ BuildQuote(o).best_bid = BestPrice(BuildOrderBook(o)["buy"], 0)
                      /\ BuildQuote(o).best_ask = BestPrice(BuildOrderBook(o)["sell"], Scale)
                      /\ ShownQuantity(BuildOrderBook(o)["buy"]) <= BuildQuote(o).resting_bid_quantity
                      /\ ShownQuantity(BuildOrderBook(o)["sell"]) <= BuildQuote(o).resting_ask_quantity
    BY DEF QuoteMatchesBook
  <2>1. BuildQuote(o).best_bid = BestPrice(BuildOrderBook(o)["buy"], 0)
    <3>1. PICK prices : prices = PricesOf(RestingAt(o, "buy"))
      OBVIOUS
    <3>2. PICK levels : levels = BuildOrderBook(o)["buy"]
      OBVIOUS
    <3>3. prices \subseteq 1 .. Scale - 1 /\ Scale \in Nat
      BY <3>1, RestingTyped, MemoryAssumption
    <3>4. PICK best : best = BestPrice(levels, 0)
      OBVIOUS
    <3>5. best \in prices \cup {0} /\ \A q \in prices \cup {0} : best >= q
      <4>1. CASE prices = {}
        BY <3>1, <3>2, <3>4, <4>1, FirstLevelIsBest DEF BestPrice
      <4>2. CASE prices # {}
        <5>1. best \in prices /\ \A q \in prices : ~(q > best)
          BY <3>1, <3>2, <3>4, <4>2, FirstLevelIsBest DEF BestPrice, Better
        <5> QED
          BY <3>3, <5>1
      <4> QED
        BY <4>1, <4>2
    <3>6. Max(prices \cup {0}) = best
      <4>1. \A x \in prices \cup {0} : (\A y \in prices \cup {0} : x >= y) => x = best
        BY <3>3, <3>5
      <4> QED
        BY <3>5, <4>1 DEF Max
    <3> QED
      BY <3>1, <3>2, <3>4, <3>6 DEF BuildQuote
  <2>2. BuildQuote(o).best_ask = BestPrice(BuildOrderBook(o)["sell"], Scale)
    <3>1. PICK prices : prices = PricesOf(RestingAt(o, "sell"))
      OBVIOUS
    <3>2. PICK levels : levels = BuildOrderBook(o)["sell"]
      OBVIOUS
    <3>3. prices \subseteq 1 .. Scale - 1 /\ Scale \in Nat
      BY <3>1, RestingTyped, MemoryAssumption
    <3>4. PICK best : best = BestPrice(levels, Scale)
      OBVIOUS
    <3>5. best \in prices \cup {Scale} /\ \A q \in prices \cup {Scale} : best =< q
      <4>1. CASE prices = {}
        BY <3>1, <3>2, <3>3, <3>4, <4>1, FirstLevelIsBest DEF BestPrice
      <4>2. CASE prices # {}
        <5>1. best \in prices /\ \A q \in prices : ~(q < best)
          BY <3>1, <3>2, <3>4, <4>2, FirstLevelIsBest DEF BestPrice, Better
        <5> QED
          BY <3>3, <5>1
      <4> QED
        BY <4>1, <4>2
    <3>6. Min(prices \cup {Scale}) = best
      <4>1. \A x \in prices \cup {Scale} : (\A y \in prices \cup {Scale} : x =< y) => x = best
        BY <3>3, <3>5
      <4> QED
        BY <3>5, <4>1 DEF Min
    <3> QED
      BY <3>1, <3>2, <3>4, <3>6 DEF BuildQuote
  <2> QED
    BY <2>1, <2>2, ShownIsResting DEF BuildQuote
<1> QED
  BY <1>1, MemoryTypes, PTL
=============================================================================
