SPECIFICATION MCFairSpec
CONSTANTS
    Ann = Ann
    Bob = Bob
    Cyd = Cyd
    o1 = o1
    o2 = o2
    o3 = o3
    Treasury = Treasury
    MarketAccount = MarketAccount
    Requests <- MCRequests
    OrderIds = {o1, o2, o3}
    NumOutcomes = 3
    Users <- ThreeUsers
    Unit = 4
    InitialFunds = 8
    MaxFunding = 28
    FundAmounts = {4}
    Cancellable = {}
    AdminStatuses = {"trading_paused"}
    Faults = {"queue", "api"}
    RunWorkloads = {"third", "refused"}
CHECK_DEADLOCK FALSE
INVARIANT SharesBacked
PROPERTY QueuedOrdersAreDecided
