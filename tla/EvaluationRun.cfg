SPECIFICATION Spec
CONSTANTS
    None = None
    p = p
    Eval = {p}
    Period <- MCPeriod
    Quota <- MCQuota
    Commits <- MCCommits
    MinPerClass = 3
INVARIANTS
    MistypedNamesNothing
    SampleIsStratified
    BrokenRuleShows
    BeforeIsUntaught
PROPERTIES
    BaselineNeverWorse
CHECK_DEADLOCK FALSE
