SPECIFICATION RSpec
CONSTANTS
    Line = {1, 2, 3}
    Narrative <- MCNarrative
    Payment <- MCPayment
    Hits = {"h0", "h1"}
    NoHits = "h0"
    Committed = {"x"}
    CallCost = 1
    Ceiling = 1
    Workers = 1
    MaxCrashes = 0
    MaxChanges = 0
INVARIANTS
    CeilingHolds
CHECK_DEADLOCK FALSE
