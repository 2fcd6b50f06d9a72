SPECIFICATION Spec
CONSTANTS
    c1 = c1
    c2 = c2
    m1 = m1
    m2 = m2
    Candidates <- TwoCandidates
    Mints <- TwoMints
    MintOf <- SharedMint
    Parts = 2
    TP2Parts = 1
    UnitCost = 2
    EntryFee = 1
    Prices = {1, 3}
    FullReasons = {"TIME_STOP"}
    Start = 10
    MaxExposure = 8
    MaxOpen = 2
    CostAmount = 1
    MaxCosts = 0
    MaxLostAcks = 1
INVARIANTS
    TypeOK
    CashConserved
    OneLivePerMint
    FillsAreCommitted
PROPERTIES
    ClosedRowsAreFinal
CHECK_DEADLOCK FALSE
