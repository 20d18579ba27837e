\* One order, two prices: it fills, then its position is stopped out.
CONSTANTS
    OrderIds = {o1}
    NoOrder = NoOrder
    MaxOpenOrders = 1
    Mids <- MCMids
    StopLossPct = 50
    TakeProfitPct = 50
    BackoffMin = 5
    BackoffMax = 8
    Modes <- SpotOnly
    Quantities = {2}
    Faults <- NoFaults
SPECIFICATION Spec
INVARIANTS ClosedAtSLTP
