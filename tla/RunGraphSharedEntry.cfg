SPECIFICATION Spec
CONSTANTS
    e1 = e1
    e2 = e2
    e3 = e3
    d1 = d1
    d2 = d2
    Line = {1, 2, 3}
    Entry = {e1, e2, e3}
    Driver = {d1}
    Det <- MCDet
    Option <- MCOption
    Answer <- MCAnswer
    Ceiling = 3
    MaxFaults = 0
    MaxOverlaps = 0
INVARIANTS
    OneEntryOneLine
CHECK_DEADLOCK FALSE
