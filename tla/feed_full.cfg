\* The full depth with each push, one of two prices spelled with trailing zeros; more
\* bars than the buffer holds.
CONSTANTS
    Prices = {1, 2}
    MaxQuantity = 1
    Padded = {2}
    MaxInFlight = 2
    MaxLen = 2
    History = {2}
    MaxBars = 3
SPECIFICATION Spec
INVARIANTS TypeOK BookFollows CandlesFollow
