SPECIFICATION MCSpec
CONSTANTS
    Ann = Ann
    Bob = Bob
    Cyd = Cyd
    o1 = o1
    o2 = o2
    o3 = o3
    Treasury = Treasury
    MarketAccount = MarketAccount
    Requests <- MCRequests
    OrderIds = {o1, o2}
    NumOutcomes = 2
    Users <- TwoUsers
    Unit = 4
    InitialFunds = 4
    MaxFunding = 8
    FundAmounts = {}
    Cancellable = {}
    AdminStatuses = {}
    Faults = {}
    RunWorkloads = {"rivals"}
CHECK_DEADLOCK FALSE
INVARIANT Solvent
