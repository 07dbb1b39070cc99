CONSTANTS
    One = 1000
    TakerBps = 100
    MakerBps = 100
    StopLossPct = 35
    ExitEdge = 0
    EntryEdge = 80
    HybridPct = 50
    SaturatedHoldEnabled = TRUE
    FullValue = 999
    m1 = m1
    m2 = m2
    e1 = e1
    Markets = {m1, m2}
    EventOf <- OneEvent
    Bankroll = 2050
    Books <- MCBooks
    CollapsedBooks <- MCCollapsed
    Evaluations <- MCEvaluations
    Lots = {1, 2}
    Asks = {700}
    Budget = 1500
    MaxPositions = 2
    MaxPerEvent = 1
    MaxEvals = 2
    Outcomes = {"yes"}
    Seeds <- MCSeeds
    Collapsible = {}
    MaxOpened = 3
    MaxCrashes = 0
SPECIFICATION Spec
INVARIANTS
    TypeOK
    AccountingReconciles
    CashNeverNegative
    SaturatedHoldIsKept
    EntryWithinCaps
PROPERTIES
    AccountSpec

