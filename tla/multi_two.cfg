\* Two markets, room for one position or for two, shutdown at any time.
CONSTANTS
    w1 = w1
    w2 = w2
    btc = btc
    eth = eth
    Workers = {w1, w2}
    Markets = {btc, eth}
    MarketOf <- TwoMarkets
    Futures = {}
    OrderIds = {o1, o2}
    NoPosition = NoPosition
    Limits = {1, 2}
    StopLossPct = 50
    TakeProfitPct = 60
    Mids <- MCMids
    Faults <- NoFaults
SPECIFICATION FairSpec
INVARIANTS TypeOK EveryOrderTracked NoExitMissed
PROPERTIES ClosesWhatHasTriggered ShutdownReturns
CHECK_DEADLOCK FALSE
