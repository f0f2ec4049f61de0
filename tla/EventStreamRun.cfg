SPECIFICATION FairSpec
CONSTANTS
    Writer = {"worker", "resolve", "cli"}
    Worker = "worker"
    Payload = {"node"}
    MaxEvents = 3
    Client = {"browser"}
    IdleLimit = 2
    MaxReconnects = 1
INVARIANTS
    ChainVerifies
    StreamIsHistory
PROPERTIES
    GrowsAtItsEnd
    StreamEnds
CHECK_DEADLOCK FALSE
