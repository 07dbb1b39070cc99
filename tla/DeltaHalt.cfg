CONSTANTS
    nvda = nvda
    Tickers = {nvda}
    Px <- MCPx
    Capital = 20
    HardStopPct = 20
    HaltLossPct = 25
    DailyLossPct = 3
    RiskPct = 30
    TierCapPct = 60
    GrossCapPct = 150
    NetCapPct = 100
    MinTrade = 9
    SlipPct = 1
    EdgePct = 10
    DriftPct = 10
    Atr = 2
    Theses <- MCTheses
    Bases <- MCBases
    StopDists <- MCDists
    Cooldown = 2
    Horizon = 1
    MaxNow = 2
    MaxQueue = 1
    MaxOpens = 2
    MaxCrashes = 0
SPECIFICATION Spec
PROPERTY NoEntryBelowHaltLine
