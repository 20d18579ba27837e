\* Every mode; lost replies, failed cancels, a journal that cannot be written, a
\* base_qty that is not a number.
CONSTANTS
    OrderIds = {o1, o2}
    NoOrder = NoOrder
    MaxOpenOrders = 1
    Mids <- OneMid
    StopLossPct = 50
    TakeProfitPct = 50
    BackoffMin = 5
    BackoffMax = 8
    Modes <- AllModes
    Quantities = {0, 2}
    Faults <- AllFaults
SPECIFICATION FairSpec
INVARIANTS OpenOrdersRight
PROPERTIES OrdersLeave ShutdownReturns
