\* Up to three windows, two parameter sets, two workers.
CONSTANTS
    CandleCounts = {5, 6, 11}
    InSample = 4
    OutSample = 2
    StepBars = 2
    Ranges <- MCRanges
    Workers = 2
    Scores = {1, 2}
    Worst = 0
SPECIFICATION FairSpec
INVARIANTS TypeOK ReportIsComplete
PROPERTIES BestIsChosen RunReturns
CHECK_DEADLOCK FALSE
