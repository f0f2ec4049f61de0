SPECIFICATION RSpec
CONSTANTS
    Line = {1, 2}
    Narrative <- MCNarrative
    Payment <- MCPayment
    Hits = {"h0", "h1", "h2"}
    NoHits = "h0"
    Committed = {"x", "y"}
    CallCost = 1
    Ceiling = 5
    Workers = 2
    MaxCrashes = 1
    MaxChanges = 2
INVARIANTS
    CommitsAreRecorded
    RetrievalIsRecorded
    CostIsWhatWasPaid
    CleanRunReplays
PROPERTIES
    DecidedOnSavedCandidates
CHECK_DEADLOCK FALSE
