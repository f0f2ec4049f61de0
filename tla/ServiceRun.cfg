SPECIFICATION Spec
SYMMETRY Requests
CONSTANTS
    Line = {1, 2}
    Entry = {11, 12, 13}
    r1 = r1
    r2 = r2
    Request = {r1, r2}
    Resolutions <- MCResolutions
    Payer <- MCPayer
    NoParty = "none"
    Top <- MCTop
INVARIANTS
    FailureReported
    OnlyApprovalsTaught
    TaughtOnce
CHECK_DEADLOCK FALSE
