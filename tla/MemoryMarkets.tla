----------------------------- MODULE MemoryMarkets ------------------------------
(***************************************************************************)
(* The in-memory repositories of market requests, markets and trading, that *)
(* the API uses without a database.  A handler runs without interruption    *)
(* until it awaits another service; what it read before, it writes after.   *)
(***************************************************************************)
EXTENDS Tally, Sequences, FiniteSetsExt

CONSTANTS
    Users,
    Requests,     \* market requests; a market is named by the request it is published from
    Requester,    \* Requester[r]: who asks for the market
    Slug,         \* Slug[r]: the slug or title, normalized; not unique
    Rail,         \* Rail[r]: the rail of the market
    Rails,
    Questions, Texts, NoText,
    MaxCandidates, \* bound: calls that request settlement, each with the candidate it makes
    MaxDisputes,  \* bound: disputes ever raised
    Outcomes, NoOutcome,
    NoMarket,
    Scale,        \* a price p means p / Scale
    Prices, Quantities,
    Seed,         \* the balance of a user who was never funded: 1000
    Grants,       \* amounts an administrator funds
    MaxFunding,   \* bound: the largest balance that is still funded
    MaxOrders,    \* bound: orders ever created
    MaxEvidence,  \* bound: evidence of one dispute
    Depth         \* levels shown of each side of a book: 5

ASSUME MemoryAssumption ==
    /\ Requester \in [Requests -> Users]
    /\ Rail \in [Requests -> Rails]
    /\ {Scale, Seed} \subseteq Nat \ {0} /\ MaxEvidence \in Nat
    /\ Prices \subseteq Int /\ Depth \in Nat \ {0}
    /\ Quantities \cup Grants \subseteq Nat \ {0}

VARIABLES
    requests,     \* status and answers of each request
    markets,      \* the market stored under each slug
    resolutions,  \* by market
    candidates,   \* by market, the latest first
    disputes,     \* by market, the latest first
    evidence,     \* pieces of evidence of each dispute
    orders,
    balances,     \* settled balance by user and rail
    awaiting      \* handlers that wait for another service

requestVars == <<requests>>
marketVars == <<markets, resolutions, candidates, disputes, evidence>>
tradingVars == <<orders, balances>>
vars == <<requests, markets, resolutions, candidates, disputes, evidence, orders, balances, awaiting>>

-----------------------------------------------------------------------------
(* State *)

Unset == -1      \* no balance row yet
Candidates == 1 .. MaxCandidates
NoCandidate == 0
Disputes == 1 .. MaxDisputes
Slugs == {Slug[r] : r \in Requests}
RequestStatuses == {"none", "draft", "submitted", "approved", "rejected", "converted"}
Active == {"pending_acceptance", "open", "partially_filled"}
Resting == {"open", "partially_filled"}
OpenDispute == {"open", "under_review"}
ClosedDispute == {"dismissed", "upheld", "withdrawn"}
PendingStatuses == {"awaiting_resolution", "disputed"}
MarketStatuses == {"pending_liquidity", "open", "trading_paused", "settled", "cancelled"} \cup PendingStatuses

Market == [id : Requests, status : MarketStatuses, winner : Outcomes \cup {NoOutcome}]
Resolution == [status : {"none", "pending_oracle", "disputed", "finalized"},
               candidate : Candidates \cup {NoCandidate}, winner : Outcomes \cup {NoOutcome}]
Candidate == [id : Candidates, status : {"proposed", "rejected", "confirmed"},
              payload : {"pending_oracle", "disputed", "finalized"}]
Dispute == [id : Disputes, status : OpenDispute \cup ClosedDispute]
Order == [market : Requests, owner : Users, outcome : Outcomes, side : {"buy", "sell"},
          price : 1 .. Scale - 1, quantity : Quantities, remaining : Quantities \cup {0},
          status : {"open", "cancelled"}]
Waiting == [op : {"publish"}, request : Requests]
             \cup [op : {"settlement"}, slug : Slugs, market : Market, candidate : Candidates]
             \cup [op : {"reconcile"}, slug : Slugs, market : Requests, row : Candidate]

ASSUME NoMarketAssumption == NoMarket \notin Market

NoResolution == [status |-> "none", candidate |-> NoCandidate, winner |-> NoOutcome]

TypeOK ==
    /\ requests \in [Requests -> [status : RequestStatuses, text : Texts \cup {NoText},
                                 answers : [Questions -> Texts \cup {NoText}]]]
    /\ markets \in [Slugs -> Market \cup {NoMarket}]
    /\ resolutions \in [Requests -> Resolution]
    /\ candidates \in [Requests -> Seq(Candidate)]
    /\ disputes \in [Requests -> Seq(Dispute)]
    /\ evidence \in [Disputes -> 0 .. MaxEvidence]
    /\ orders \in Seq(Order)
    /\ balances \in [Users \X Rails -> Nat \cup {Unset}]
    /\ awaiting \subseteq Waiting

Init ==
    /\ requests = [r \in Requests |-> [status |-> "none", text |-> NoText,
                                   answers |-> [q \in Questions |-> NoText]]]
    /\ markets = [s \in Slugs |-> NoMarket]
    /\ resolutions = [r \in Requests |-> NoResolution]
    /\ candidates = [r \in Requests |-> <<>>]
    /\ disputes = [r \in Requests |-> <<>>]
    /\ evidence = [d \in Disputes |-> 0]
    /\ orders = <<>>
    /\ balances = [k \in Users \X Rails |-> Unset]
    /\ awaiting = {}

-----------------------------------------------------------------------------
(* Market requests *)

CreateRequest(r, text) ==
    /\ requests[r].status = "none"
    /\ requests' = [requests EXCEPT ![r].status = "draft", ![r].text = text]
    /\ UNCHANGED <<marketVars, tradingVars, awaiting>>

\* Title, question, description and links, here one text.
UpdateRequest(r, u, text) ==
    /\ requests[r].status = "draft"
    /\ u = Requester[r]
    /\ requests' = [requests EXCEPT ![r].text = text]
    /\ UNCHANGED <<marketVars, tradingVars, awaiting>>

\* Mutant: answers are also taken while the request is reviewed.
UpsertAnswerInReview(r, u, q, text) ==
    /\ requests[r].status \in {"draft", "submitted"}
    /\ u = Requester[r]
    /\ requests' = [requests EXCEPT ![r].answers[q] = text]
    /\ UNCHANGED <<marketVars, tradingVars, awaiting>>

UpsertAnswer(r, u, q, text) ==
    /\ requests[r].status = "draft"
    /\ u = Requester[r]
    /\ requests' = [requests EXCEPT ![r].answers[q] = text]
    /\ UNCHANGED <<marketVars, tradingVars, awaiting>>

SubmitRequest(r, u) ==
    /\ requests[r].status = "draft"
    /\ u = Requester[r]
    /\ requests' = [requests EXCEPT ![r].status = "submitted"]
    /\ UNCHANGED <<marketVars, tradingVars, awaiting>>

ReviewRequest(r, approved) ==
    /\ requests[r].status = "submitted"
    /\ requests' = [requests EXCEPT ![r].status = IF approved THEN "approved" ELSE "rejected"]
    /\ UNCHANGED <<marketVars, tradingVars, awaiting>>

-----------------------------------------------------------------------------
(* Publication *)

PublishFromRequest(r) ==
    /\ requests[r].status \in {"submitted", "approved"}
    /\ requests' = [requests EXCEPT ![r].status = "converted"]
    /\ awaiting' = awaiting \cup {[op |-> "publish", request |-> r]}
    /\ UNCHANGED <<marketVars, tradingVars>>

\* With the reference price, or without one, the market takes the slug's place.
PublishAnswered(w) ==
    /\ w.op = "publish"
    /\ markets' = [markets EXCEPT ![Slug[w.request]] =
                      [id |-> w.request, status |-> "pending_liquidity", winner |-> NoOutcome]]
    /\ awaiting' = awaiting \ {w}
    /\ UNCHANGED <<requests, resolutions, candidates, disputes, evidence, tradingVars>>

\* The market data service raises an error, or the client leaves.
Interrupted(w) ==
    /\ awaiting' = awaiting \ {w}
    /\ UNCHANGED <<requests, marketVars, tradingVars>>

-----------------------------------------------------------------------------
(* Status, disputes and settlement of the market m under slug s *)

HasMarket(s) == markets[s] # NoMarket

AllowedNextStatuses(from) ==
    CASE from = "pending_liquidity" -> {"open", "cancelled"}
      [] from = "open" -> {"trading_paused", "cancelled"}
      [] from = "trading_paused" -> {"open", "cancelled"}
      [] OTHER -> {}

UpdateMarketStatus(s, status) ==
    /\ HasMarket(s)
    /\ status \in AllowedNextStatuses(markets[s].status)
    /\ markets' = [markets EXCEPT ![s].status = status]
    /\ UNCHANGED <<requests, resolutions, candidates, disputes, evidence, tradingVars, awaiting>>

\* The candidate that the resolution of market m names gets the status.
WithCandidateStatus(m, status) ==
    [i \in DOMAIN candidates[m] |->
        IF candidates[m][i].id = resolutions[m].candidate
        THEN [candidates[m][i] EXCEPT !.status = status] ELSE candidates[m][i]]

SomeDisputeOpen(m) == \E i \in DOMAIN disputes[m] : disputes[m][i].status \in OpenDispute

\* Mutant: only a dispute that nobody reviews yet stands in the way of another.
MayDisputeBesideReview(s) ==
    /\ markets[s].status \in PendingStatuses
    /\ resolutions[markets[s].id] # NoResolution
    /\ \A i \in DOMAIN disputes[markets[s].id] : disputes[markets[s].id][i].status # "open"

MayDispute(s) ==
    /\ markets[s].status \in PendingStatuses
    /\ resolutions[markets[s].id] # NoResolution
    /\ ~SomeDisputeOpen(markets[s].id)

CreateMarketDispute(s, d) ==
    LET m == markets[s].id IN
    /\ HasMarket(s) /\ MayDispute(s)
    /\ disputes' = [disputes EXCEPT ![m] = <<[id |-> d, status |-> "open"]>> \o @]
    /\ markets' = [markets EXCEPT ![s].status = "disputed"]
    /\ resolutions' = [resolutions EXCEPT ![m].status = "disputed"]
    /\ candidates' = [candidates EXCEPT ![m] = WithCandidateStatus(m, "rejected")]
    /\ UNCHANGED <<requests, evidence, tradingVars, awaiting>>

DisputeIndex(m, d) == {i \in DOMAIN disputes[m] : disputes[m][i].id = d}

AddMarketDisputeEvidence(s, d) ==
    /\ HasMarket(s)
    /\ \E i \in DisputeIndex(markets[s].id, d) : disputes[markets[s].id][i].status \in OpenDispute
    /\ evidence[d] < MaxEvidence
    /\ evidence' = [evidence EXCEPT ![d] = @ + 1]
    /\ UNCHANGED <<requests, markets, resolutions, candidates, disputes, tradingVars, awaiting>>

ReviewMarketDispute(s, d, decision) ==
    LET m == markets[s].id
        reinstates == decision \in {"dismissed", "withdrawn"} IN
    /\ HasMarket(s)
    /\ \E i \in DisputeIndex(m, d) :
          /\ disputes[m][i].status \notin ClosedDispute
          /\ disputes' = [disputes EXCEPT ![m][i].status = decision]
    /\ markets' = [markets EXCEPT ![s].status = IF reinstates THEN "awaiting_resolution" ELSE "disputed"]
    /\ resolutions' = [resolutions EXCEPT ![m].status =
          IF @ = "none" THEN @ ELSE IF reinstates THEN "pending_oracle" ELSE "disputed"]
    /\ candidates' = [candidates EXCEPT ![m] = IF reinstates THEN WithCandidateStatus(m, "proposed") ELSE @]
    /\ UNCHANGED <<requests, evidence, tradingVars, awaiting>>

\* The market is read, then the oracle is asked to begin.
RequestSettlement(s, c) ==
    /\ HasMarket(s)
    /\ markets[s].status \notin PendingStatuses \cup {"settled", "cancelled"}
    /\ awaiting' = awaiting \cup {[op |-> "settlement", slug |-> s, market |-> markets[s], candidate |-> c]}
    /\ UNCHANGED <<requests, marketVars, tradingVars>>

\* The copy of the market that was read is written back with the new status.
SettlementBegun(w) ==
    /\ w.op = "settlement"
    /\ LET m == w.market.id IN
        /\ markets' = [markets EXCEPT ![w.slug] = [w.market EXCEPT !.status = "awaiting_resolution"]]
        /\ candidates' = [candidates EXCEPT ![m] =
              <<[id |-> w.candidate, status |-> "proposed", payload |-> "pending_oracle"]>> \o @]
        /\ resolutions' = [resolutions EXCEPT ![m] =
              [status |-> "pending_oracle", candidate |-> w.candidate, winner |-> NoOutcome]]
    /\ awaiting' = awaiting \ {w}
    /\ UNCHANGED <<requests, disputes, evidence, tradingVars>>

ReconcileOracleResolution(s) ==
    LET m == markets[s].id IN
    /\ HasMarket(s)
    /\ \E i \in DOMAIN candidates[m] :
          /\ candidates[m][i].id = resolutions[m].candidate
          /\ awaiting' = awaiting \cup {[op |-> "reconcile", slug |-> s, market |-> m,
                row |-> [candidates[m][i] EXCEPT !.payload = resolutions[m].status]]}
    /\ UNCHANGED <<requests, marketVars, tradingVars>>

\* The payload that was read comes back with what the oracle says of it.
Reconciled(w) ==
    /\ w.op = "reconcile"
    /\ candidates' = [candidates EXCEPT ![w.market] =
          [i \in DOMAIN @ |-> IF @[i].id = w.row.id
                              THEN [@[i] EXCEPT !.payload = w.row.payload] ELSE @[i]]]
    /\ awaiting' = awaiting \ {w}
    /\ UNCHANGED <<requests, markets, resolutions, disputes, evidence, tradingVars>>

CancelOrdersForMarket(m) ==
    [i \in DOMAIN orders |->
        IF orders[i].market = m /\ orders[i].status \in Active
        THEN [orders[i] EXCEPT !.status = "cancelled", !.remaining = 0] ELSE orders[i]]

\* Mutant: the active dispute is not looked for.
MayFinalizeAnyway(s) == markets[s].status \in PendingStatuses

MayFinalize(s) == markets[s].status \in PendingStatuses /\ ~SomeDisputeOpen(markets[s].id)

SettleMarket(s, winner, c) ==
    LET m == markets[s].id IN
    /\ HasMarket(s) /\ MayFinalize(s)
    /\ winner \in Outcomes
    /\ markets' = [markets EXCEPT ![s].status = "settled", ![s].winner = winner]
    /\ orders' = CancelOrdersForMarket(m)
    /\ candidates' = [candidates EXCEPT ![m] =
          [i \in DOMAIN @ |-> IF @[i].id = c
                              THEN [id |-> c, status |-> "confirmed", payload |-> "finalized"] ELSE @[i]]]
    /\ resolutions' = [resolutions EXCEPT ![m] =
          [status |-> "finalized", winner |-> winner,
           candidate |-> IF c = NoCandidate THEN @.candidate ELSE c]]
    /\ UNCHANGED <<requests, disputes, evidence, balances, awaiting>>

-----------------------------------------------------------------------------
(* Trading *)

RequiredOrderCollateral(side, quantity, price) ==
    quantity * (IF side = "buy" THEN price ELSE Scale - price)

\* A market replaced under its slug is no longer found, and has no rail.
Found(m) == \E s \in Slugs : HasMarket(s) /\ markets[s].id = m

ReservedBy(order, u, rail) ==
    IF order.owner = u /\ order.status \in Active /\ Found(order.market) /\ Rail[order.market] = rail
    THEN RequiredOrderCollateral(order.side, order.remaining, order.price) ELSE 0

ReservedBalance(u, rail) == Tally([i \in DOMAIN orders |-> ReservedBy(orders[i], u, rail)])

SeedBalance(u, rail) == IF balances[<<u, rail>>] = Unset THEN Seed ELSE balances[<<u, rail>>]

\* Mutant: the reserve of the orders already open is forgotten.
SettledBalance(u, rail) == SeedBalance(u, rail)

AvailableBalance(u, rail) == SeedBalance(u, rail) - ReservedBalance(u, rail)

\* Mutant: a price of zero is taken.
ValidPriceOrZero(price) == 0 <= price /\ price < Scale

ValidPrice(price) == 0 < price /\ price < Scale

\* The balance is seeded before it is found to be too small.
CreateMarketOrder(s, u, outcome, side, quantity, price) ==
    LET m == markets[s].id
        rail == Rail[m] IN
    /\ HasMarket(s)
    /\ markets[s].status \in {"pending_liquidity", "open"}
    /\ ValidPrice(price)
    /\ Len(orders) < MaxOrders
    /\ balances' = [balances EXCEPT ![<<u, rail>>] = SeedBalance(u, rail)]
    /\ orders' = IF AvailableBalance(u, rail) < RequiredOrderCollateral(side, quantity, price)
                 THEN orders
                 ELSE Append(orders, [market |-> m, owner |-> u, outcome |-> outcome, side |-> side,
                                      price |-> price, quantity |-> quantity, remaining |-> quantity,
                                      status |-> "open"])
    /\ UNCHANGED <<requests, marketVars, awaiting>>

\* By the owner, or an administrator.
CancelMarketOrder(s, i) ==
    /\ HasMarket(s)
    /\ orders[i].market = markets[s].id
    /\ orders[i].status \in Active
    /\ orders' = [orders EXCEPT ![i].status = "cancelled"]
    /\ UNCHANGED <<requests, marketVars, balances, awaiting>>

\* Looking at a portfolio without balances seeds one.
GetPortfolioSummary(u, rail) ==
    /\ \A k \in Rails : balances[<<u, k>>] = Unset
    /\ balances' = [balances EXCEPT ![<<u, rail>>] = Seed]
    /\ UNCHANGED <<requests, marketVars, orders, awaiting>>

\* The first funding takes the place of the seed.
FundBalance(u, rail, amount) ==
    /\ balances[<<u, rail>>] < MaxFunding
    /\ balances' = [balances EXCEPT ![<<u, rail>>] = amount + (IF @ = Unset THEN 0 ELSE @)]
    /\ UNCHANGED <<requests, marketVars, orders, awaiting>>

-----------------------------------------------------------------------------
(* What traders are shown: two readers of the same orders *)

RestingAt(outcome, side) ==
    {i \in DOMAIN orders : /\ orders[i].outcome = outcome /\ orders[i].side = side
                           /\ orders[i].status \in Resting}

QuantityOf(which) == Tally([i \in which |-> orders[i].remaining])
PricesOf(which) == {orders[i].price : i \in which}

\* Prices outside 1 .. Scale - 1 stand for "no price".
BuildQuote(outcome) ==
    [best_bid |-> Max(PricesOf(RestingAt(outcome, "buy")) \cup {0}),
     best_ask |-> Min(PricesOf(RestingAt(outcome, "sell")) \cup {Scale}),
     resting_bid_quantity |-> QuantityOf(RestingAt(outcome, "buy")),
     resting_ask_quantity |-> QuantityOf(RestingAt(outcome, "sell"))]

\* Mutant: both sides are listed from the highest price.
Higher(side, p, q) == p > q

Better(side, p, q) == IF side = "buy" THEN p > q ELSE p < q

\* The n-th of the sorted prices, the best one first, has n - 1 better ones.
SortedPrice(prices, side, n) == CHOOSE p \in prices : Cardinality({q \in prices : Better(side, q, p)}) = n - 1

\* At most Depth levels of each side.
BuildOrderBook(outcome) ==
    [side \in {"buy", "sell"} |->
        LET which == RestingAt(outcome, side)
            prices == PricesOf(which)
        IN [n \in 1 .. Min({Depth, Cardinality(prices)}) |->
              [price |-> SortedPrice(prices, side, n),
               quantity |-> QuantityOf({i \in which : orders[i].price = SortedPrice(prices, side, n)})]]]

\* The candidate shown as current: the resolution's, or else the latest.
CurrentCandidate(m) ==
    LET named == {i \in DOMAIN candidates[m] : candidates[m][i].id = resolutions[m].candidate}
    IN candidates[m][IF named = {} THEN 1 ELSE Min(named)]

EventsOfDispute(dispute) ==
    {<<"dispute_opened", dispute.id>>}
      \cup {<<"dispute_evidence_added", dispute.id, n>> : n \in 1 .. evidence[dispute.id]}
      \cup {<<"dispute_reviewed", dispute.id, status>> : status \in {dispute.status} \cap ClosedDispute}

\* Mutant: only the latest dispute is told.
DisputeEventsOfLatest(m) == UNION {EventsOfDispute(disputes[m][i]) : i \in DOMAIN disputes[m] \cap {1}}

DisputeEvents(m) == UNION {EventsOfDispute(disputes[m][i]) : i \in DOMAIN disputes[m]}

CandidateEvents(m) ==
    LET reviewed == {i \in DOMAIN candidates[m] : candidates[m][i].status # "proposed"}
    IN {<<"candidate_created", candidates[m][i].id>> : i \in DOMAIN candidates[m]}
         \cup {<<"candidate_reviewed", candidates[m][i].id, candidates[m][i].status>> : i \in reviewed}

ResolutionHistory(m) ==
    {<<"resolution_state", r.candidate, r.status>> : r \in {resolutions[m]} \ {NoResolution}}
      \cup CandidateEvents(m) \cup DisputeEvents(m)

-----------------------------------------------------------------------------
(* Specification *)

\* Identifiers are new, and taken in order.
NewCandidate(c) ==
    LET known == UNION {{candidates[r][i].id : i \in DOMAIN candidates[r]} : r \in Requests}
        begun == {w.candidate : w \in {v \in awaiting : v.op = "settlement"}}
    IN c \notin known \cup begun /\ 1 .. c - 1 \subseteq known \cup begun

NewDispute(d) == d = 1 + MapThenSumSet(LAMBDA r : Len(disputes[r]), Requests)

RequestNext == \E r \in Requests :
    \/ \E text \in Texts : CreateRequest(r, text)
    \/ \E u \in Users, text \in Texts : UpdateRequest(r, u, text)
    \/ \E u \in Users : SubmitRequest(r, u)
    \/ \E u \in Users, q \in Questions, text \in Texts : UpsertAnswer(r, u, q, text)
    \/ \E approved \in BOOLEAN : ReviewRequest(r, approved)
    \/ PublishFromRequest(r)

MarketNext == \E s \in Slugs :
    \/ \E status \in MarketStatuses : UpdateMarketStatus(s, status)
    \/ \E d \in Disputes : NewDispute(d) /\ CreateMarketDispute(s, d)
    \/ \E d \in Disputes : AddMarketDisputeEvidence(s, d)
    \/ \E d \in Disputes, decision \in {"under_review"} \cup ClosedDispute : ReviewMarketDispute(s, d, decision)
    \/ \E c \in Candidates : NewCandidate(c) /\ RequestSettlement(s, c)
    \/ ReconcileOracleResolution(s)
    \/ \E winner \in Outcomes, c \in Candidates \cup {NoCandidate} : SettleMarket(s, winner, c)

TradingNext ==
    \/ \E s \in Slugs, u \in Users, o \in Outcomes, side \in {"buy", "sell"}, q \in Quantities, p \in Prices :
          CreateMarketOrder(s, u, o, side, q, p)
    \/ \E s \in Slugs : \E i \in DOMAIN orders : CancelMarketOrder(s, i)
    \/ \E u \in Users, rail \in Rails : GetPortfolioSummary(u, rail)
    \/ \E u \in Users, rail \in Rails, amount \in Grants : FundBalance(u, rail, amount)

AnswerNext == \E w \in awaiting :
    PublishAnswered(w) \/ SettlementBegun(w) \/ Reconciled(w) \/ Interrupted(w)

Next == RequestNext \/ MarketNext \/ TradingNext \/ AnswerNext

Spec == Init /\ [][Next]_vars

-----------------------------------------------------------------------------
(* Properties *)

\* No two requests of one slug have been published, so no market was replaced.
NoneReplaced ==
    \A r, q \in Requests :
        requests[r].status = "converted" /\ requests[q].status = "converted" /\ Slug[r] = Slug[q] => r = q

\* No user has more reserved for open orders than the balance of that rail,
\* however orders, cancellations, funding and settlements follow each other, as
\* long as no market has taken the slug of another: the orders of a replaced
\* market are not counted, and a waiting settlement may put it back.
OrdersCovered ==
    NoneReplaced => \A u \in Users, rail \in Rails :
        balances[<<u, rail>>] # Unset => ReservedBalance(u, rail) <= balances[<<u, rail>>]

\* Nothing goes on in a settled market: no dispute is open and no order active.
SettledMarketIsQuiet ==
    \A s \in Slugs : HasMarket(s) /\ markets[s].status = "settled" =>
        /\ ~SomeDisputeOpen(markets[s].id)
        /\ \A i \in DOMAIN orders : orders[i].market = markets[s].id => orders[i].status \notin Active

\* Market, resolution, candidate and disputes agree.  At most one dispute is
\* open, and the candidate shown is the one that is decided about.  Until a
\* second request for settlement, which had read the market before the first
\* was answered, writes its copy over it, an open dispute holds all of them.
ResolutionAgrees ==
    \A s \in Slugs : HasMarket(s) =>
        LET m == markets[s].id
            open == {i \in DOMAIN disputes[m] : disputes[m][i].status \in OpenDispute}
        IN /\ Cardinality(open) <= 1
           /\ resolutions[m].status \in {"pending_oracle", "disputed"} =>
                 CurrentCandidate(m).id = resolutions[m].candidate
           /\ Len(candidates[m]) = 1 =>
                 /\ open # {} => markets[s].status = "disputed"
                 /\ resolutions[m].status = "disputed" <=> markets[s].status = "disputed"
                 /\ resolutions[m].status = "disputed" => CurrentCandidate(m).status = "rejected"
                 /\ resolutions[m].status = "pending_oracle" => CurrentCandidate(m).status = "proposed"

KeptEvents(m) == {e \in ResolutionHistory(m) : e[1] \notin {"resolution_state", "candidate_reviewed"}}

\* What happened to a market stays in its history: later settlements, reviews
\* and answers of the oracle remove no proposal, dispute, evidence or decision
\* of a dispute.  Only a candidate's review is forgotten when it is reinstated.
HistoryKept ==
    [][\A r \in Requests : KeptEvents(r) \subseteq KeptEvents(r)']_vars

\* What is reviewed and published is what was submitted: a draft can only be
\* submitted, and has no market; from submission on no text or answer changes,
\* and the request is never a draft again.
AnswersFrozen ==
    [][\A r \in Requests :
          IF requests[r].status \in {"none", "draft"}
          THEN requests'[r].status \in {"none", "draft", "submitted"} /\ ~Found(r)'
          ELSE /\ requests'[r].answers = requests[r].answers
               /\ requests'[r].text = requests[r].text
               /\ requests'[r].status \notin {"none", "draft"}]_vars

BestPrice(levels, none) == IF DOMAIN levels = {} THEN none ELSE levels[1].price
ShownQuantity(levels) == Tally([n \in DOMAIN levels |-> levels[n].quantity])

\* The two views of a book agree: the first level of each side is the best
\* quote, and no more is shown as depth than is quoted as resting.
QuoteMatchesBook ==
    \A o \in Outcomes :
        LET quote == BuildQuote(o)
            book == BuildOrderBook(o)
        IN /\ quote.best_bid = BestPrice(book["buy"], 0)
           /\ quote.best_ask = BestPrice(book["sell"], Scale)
           /\ ShownQuantity(book["buy"]) <= quote.resting_bid_quantity
           /\ ShownQuantity(book["sell"]) <= quote.resting_ask_quantity
=============================================================================
