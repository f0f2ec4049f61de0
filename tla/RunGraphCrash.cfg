SPECIFICATION FairSpec
CONSTANTS
    e1 = e1
    e2 = e2
    e3 = e3
    d1 = d1
    d2 = d2
    Line = {1, 2, 3}
    Entry = {e1, e2, e3}
    Driver = {d1}
    Det <- MCDet
    Option <- MCFewOptions
    Answer <- MCRivals
    Ceiling = 3
    MaxFaults = 2
    MaxOverlaps = 0
INVARIANTS
    TypeOK
    TierSeparation
    ReviewedIsReported
    StatusTellsTruth
PROPERTIES
    KeepsPromise
    AutomaticPartEnds
    AnswerTakesEffect
CHECK_DEADLOCK FALSE
