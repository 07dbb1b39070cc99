SPECIFICATION Spec
CONSTANTS
    Procs <- MCProcs
    Items = {"doubt"}
    Doubts = {"doubt"}
    MinRounds = 2
    MaxRounds = 2
    MoreRounds = 1
    MaxVersion = 2
INVARIANTS
    TypeOK
    CompleteHasSummary
    FeedbackOnce
PROPERTIES
    RoundsKept
    ExitSettles
CHECK_DEADLOCK FALSE
