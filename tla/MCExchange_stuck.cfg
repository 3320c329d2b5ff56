SPECIFICATION MCFairSpec
CONSTANTS
    Ann = Ann
    Bob = Bob
    Cyd = Cyd
    o1 = o1
    o2 = o2
    o3 = o3
    Treasury = Treasury
    MarketAccount = MarketAccount
    Requests <- MCRequests
    OrderIds = {o1, o2, o3}
    NumOutcomes = 2
    Users <- TwoUsers
    Unit = 4
    InitialFunds = 20
    MaxFunding = 0
    FundAmounts = {}
    Cancellable = {}
    AdminStatuses = {}
    Faults = {"engine"}
    RunWorkloads = {"partial"}
CHECK_DEADLOCK FALSE
PROPERTY PendingOrdersAreDecided
