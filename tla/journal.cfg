\* Five trades over two strategies; writes are cut short, the process dies.
CONSTANTS
    t1 = t1
    t2 = t2
    t3 = t3
    t4 = t4
    t5 = t5
    momentum = momentum
    grid = grid
    Trades <- MCTrades
    PnL <- MCPnL
    Strategies <- MCStrategies
    StrategyOf <- MCStrategyOf
    InitialCapital = 2
    Torn = Torn
    NoTail = NoTail
SPECIFICATION Spec
INVARIANTS TypeOK StatsMatchTrades ReplayRestores
