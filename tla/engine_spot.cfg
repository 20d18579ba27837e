\* A spot or paper bot and a well-behaved exchange.
CONSTANTS
    OrderIds = {o1, o2}
    NoOrder = NoOrder
    MaxOpenOrders = 1
    Mids <- MCMids
    StopLossPct = 50
    TakeProfitPct = 50
    BackoffMin = 5
    BackoffMax = 8
    Modes <- SpotOrPaper
    Quantities = {2}
    Faults <- NoFaults
SYMMETRY OrderSymmetry
SPECIFICATION Spec
INVARIANTS TypeOK JournalIsRight RestingOrdersTracked
PROPERTIES LifecycleSpec
