SPECIFICATION Spec
CONSTANTS
    p = p
    q = q
    Loader = {p, q}
    Directory <- MCDirectory
    Fold <- MCFold
    MaxLoads = 3
INVARIANTS
    FactStoredOnce
    FileIsWhole
    ReportsAddUp
CHECK_DEADLOCK FALSE
