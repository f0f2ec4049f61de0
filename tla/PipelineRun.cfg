SPECIFICATION CSpec
SYMMETRY Entries
CONSTANTS
    e1 = e1
    e2 = e2
    e3 = e3
    e4 = e4
    Line = {1, 2, 3}
    Entry = {e1, e2, e3, e4}
    BankLine <- MCBankLine
    LedgerEntry <- MCLedgerEntry
    NoParty = "none"
    Tier0Window = 2
    Tier1Window = 7
    FxBps = 80
    MaxTier = 1
    Party = {"p"}
    IndexScore = {920}
    Tier2Window = 30
    ToleranceBps = 50
    ToleranceFloor = 2
    CandidateLimit = 2
    ScopedItems = 3
    ScopedPool = 3
    UnscopedItems = 2
    UnscopedPool = 3
INVARIANTS
    TypeOK
    RivalsTakenEarlier
    OffersOnlyOpen
    FeeNettedKeepsItsPlace
    ExactCombinationsOffered
PROPERTIES
    PairsOneToOne
CHECK_DEADLOCK FALSE
