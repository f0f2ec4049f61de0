SPECIFICATION Spec
CONSTANTS
    Pool <- MCPool
    Day = {1, 2}
    Target = 8
    Tolerance = 1
    MaxItems = 3
    MaxResults = 2
    CollectCap = 5
    NodeBudget = 16
INVARIANTS
    FoundFits
    NothingOverlooked
    NothingBetterDropped
CHECK_DEADLOCK FALSE
