\* A caller that walks, or reads and edits, with any query of a read tool, and a second
\* one that edits the list under it; calls end.
SPECIFICATION MCFairSpec
CONSTANTS
    c1 = c1
    c2 = c2
    None = None
    Calls = {c1, c2}
    Items = {1, 2, 3, 4}
    Fields <- MCFields
    Misses <- MCMisses
    Volatile = {1}
    Jobs <- MCJobs
    MaxSends = 2
    MaxItems = 2
    AllowUndocumented = TRUE
    Everything = 9
INVARIANTS
    TypeOK
    NoGaps
    SortedLogMissesNothing
    NoRepeats
    HintLeadsOn
    EditLasts
PROPERTIES
    LossNeedsStaleRead
    EveryWalkEnds
CHECK_DEADLOCK FALSE
