\* Two calls: of one tool with any of its argument records, or base calls of any two
\* tools; calls end.
SPECIFICATION MCSpec
CONSTANTS
    c1 = c1
    c2 = c2
    Calls = {c1, c2}
    Invocations <- MCEveryTool
    PlanOf <- MCPlanOf
    None = None
    NoNamespace = None
    Configs <- MCConfigs
    NoToken = NoToken
    WrongToken = WrongToken
    MaxSends = 1
SYMMETRY MCSymmetry
INVARIANTS
    TypeOK
    EveryWriteWasPlanned
    AuditTellsTheTruth
CHECK_DEADLOCK FALSE
