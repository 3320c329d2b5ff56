SPECIFICATION Spec
CONSTANTS
    BTC = BTC
    ETH = ETH
    w1 = w1
    w2 = w2
    Workers = {w1, w2}
    Cycles <- MCCycles
    Runs <- MCRuns
    NoJob = NoJob
    NoSymbol = NoSymbol
    Prices <- MCPrices
    Liveness = 1
    PageSize = 50
    MaxTime = 2
    Scenarios <- MCScenarios
CHECK_DEADLOCK FALSE
INVARIANTS TypeOK OneMarketPerWindow CycleWaitsForWindow SettledByItsPrices SimulatedRunSettlesNothing CyclesSettleOnce
PROPERTIES ElapsedMarketsRequested
