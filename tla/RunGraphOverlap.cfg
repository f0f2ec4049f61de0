SPECIFICATION Spec
CONSTANTS
    e1 = e1
    e2 = e2
    e3 = e3
    d1 = d1
    d2 = d2
    Line = {1, 2}
    Entry = {e1, e2, e3}
    Driver = {d1, d2}
    Det <- MCDet
    Option <- MCFewOptions
    Answer <- MCRivals
    Ceiling = 3
    MaxFaults = 1
    MaxOverlaps = 1
INVARIANTS
    QueueIsEscalated
    SupersedesSound
    EventsFollowGraph
    CompletedCoversEveryLine
SYMMETRY DriverSymmetry
CHECK_DEADLOCK FALSE
