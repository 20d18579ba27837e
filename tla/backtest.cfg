\* Five bars, three prices; costs of one percent each way.
CONSTANTS
    Closes = {100, 200, 300}
    Bars = 5
    InitialCapital = 1000
    PositionSizePct = 90
    FeePct = 1
    SlippagePct = 1
    StopLossPct = 50
    TakeProfitPct = 60
SPECIFICATION Spec
INVARIANTS TypeOK LedgerBalances LevelsRespected DrawdownIsLargest
CHECK_DEADLOCK FALSE
