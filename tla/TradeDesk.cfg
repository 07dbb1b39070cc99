SPECIFICATION FairDesk
CONSTANTS
    a = a
    Tokens = {a}
    Events <- MCEvents
    Bankroll = 1000
    DrawdownPct = 20
    StopLossPct = 30
    MinTrade = 100
    MaxTradePct = 50
    MaxTotalPct = 80
    MaxEventPct = 80
    MaxPositions = 2
    Half = 20
    Px <- MCPx
    MaxIds = 3
    Cycles = {1}
    Plans <- MCPlans
    MaxQueue = 2
    MaxTurns = 1
    MaxMoves = 1
INVARIANTS
    DeskTypeOK
    CycleWithinCaps
    CashReconciles
    FilledOncePerCrash
PROPERTIES
    HaltedBuysNothing
    HaltIsReal
    StopLossFires
CHECK_DEADLOCK FALSE
