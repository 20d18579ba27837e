\* Two callers, two tokens a second; a second is four units of time.
CONSTANTS
    Callers = {c1, c2}
    One = 4
    MaxTokens = 8
    Rate = 2
    MaxTime = 9
SPECIFICATION LimiterSpec
INVARIANTS LimiterTypeOK RateBound
