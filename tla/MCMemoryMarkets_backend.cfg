SPECIFICATION Spec
CONSTANTS
    r1 = r1
    u1 = u1
    Users = {u1}
    Requests = {r1}
    Requester <- MCRequester
    Slug <- MCSlug
    Rail <- MCRail
    Rails = {"onchain"}
    Questions = {q1}
    Texts = {t1, t2}
    NoText = NoText
    MaxCandidates = 2
    MaxDisputes = 2
    Prices = {0, 1, 3}
    Outcomes = {Yes, No}
    NoOutcome = NoOutcome
    NoMarket = NoMarket
    Scale = 4
    Quantities = {2}
    Seed = 7
    Grants = {5}
    MaxFunding = 6
    MaxOrders = 2
    MaxEvidence = 1
    Depth = 1
CONSTRAINT Budget
CHECK_DEADLOCK FALSE
INVARIANTS TypeOK OrdersCovered SettledMarketIsQuiet ResolutionAgrees QuoteMatchesBook
PROPERTIES AnswersFrozen HistoryKept
