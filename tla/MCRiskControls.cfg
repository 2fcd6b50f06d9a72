SPECIFICATION Spec
CONSTANTS
    Equities = {18, 20}
    Start = 20
    DailyLimit = 1
    DrawdownPct = 10
    MaxTrades = 1
    MaxLosses = 1
    HaltLosses = 1
    MaxOpen = 2
    Tasks = {"t1"}
    DatabaseFails = TRUE
INVARIANTS
    AtMostOneLateEntry
    EntryLimits
