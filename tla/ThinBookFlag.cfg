CONSTANTS
    One = 4
    Rate <- MCRate
    Levels <- MCLevels
    MaxRows = 3
    MaxShares = 5
    MaxUsd = 9
SPECIFICATION Spec
INVARIANTS FlagMeansThinBook
CHECK_DEADLOCK FALSE
