\* One, two or three workers, the third of them without candles.
CONSTANTS
    Workers = {w1, w2, w3}
    Cold = {w3}
    Threshold = 2
    Probes = 2
    ResetTimeout = 2
SPECIFICATION BreakerFairSpec
INVARIANTS BreakerTypeOK HaltsAfterThreshold
PROPERTIES ReopensInSteps Recovers
