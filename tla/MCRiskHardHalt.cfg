SPECIFICATION SpecH
CONSTANTS
    Equities = {18, 19, 20}
    Start = 20
    DailyLimit = 1
    DrawdownPct = 10
    MaxTrades = 1
    MaxLosses = 1
    HaltLosses = 2
    MaxOpen = 1
    Tasks = {"t1"}
    DatabaseFails = TRUE
PROPERTIES
    HardHaltHolds
