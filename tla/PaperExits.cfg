CONSTANTS
    One = 1000
    TakerBps = 100
    MakerBps = 100
    StopLossPct = 35
    ExitEdge = 0
    EntryEdge = 80
    HybridPct = 50
    SaturatedHoldEnabled = TRUE
    FullValue = 999
    m1 = m1
    m2 = m2
    e1 = e1
    Markets = {m1}
    EventOf <- OneEvent
    Bankroll = 3000
    Books <- MCBooks
    CollapsedBooks <- MCCollapsed
    Evaluations <- MCEvaluations
    Lots = {3}
    Asks = {700}
    Budget = 2200
    MaxPositions = 2
    MaxPerEvent = 1
    MaxEvals = 1
    Outcomes = {"yes", "voided"}
    Seeds <- MCSeeds
    Collapsible <- MCSeeds
    MaxOpened = 3
    MaxCrashes = 1
SPECIFICATION FairSpec
INVARIANTS ExitsCoverPositions LedgerAccountsForBook
PROPERTIES StopLossExits
