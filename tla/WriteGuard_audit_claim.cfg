\* One tool; calls end.
SPECIFICATION Spec
CONSTANTS
    c1 = c1
    c2 = c2
    Calls = {c1, c2}
    Invocations <- MCDeleteUser
    PlanOf <- MCPlanOf
    None = None
    NoNamespace = None
    Configs <- MCConfigs
    NoToken = NoToken
    WrongToken = WrongToken
    MaxSends = 1
SYMMETRY MCSymmetry
INVARIANTS
    EveryWriteIsAudited
CHECK_DEADLOCK FALSE
