\* Up to five bars of six shapes; Scale divides by all that averages divide by.
CONSTANTS
    Scale = 6912
    P <- MCParameters
    Sights <- MCSights
    MaxBars = 5
    Centre = 100
SPECIFICATION Spec
INVARIANTS TypeOK MatchesReference StopsOnTheirSide MirrorSymmetric DiesOnlyWithoutData
PROPERTIES NoRepainting
CHECK_DEADLOCK FALSE
