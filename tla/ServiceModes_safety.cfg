SPECIFICATION Spec
CONSTANTS
    Calls = {c1, c2}
    Services = {1, 2}
    NamespaceOf <- MCNamespaceOf
    NoNamespace = ""
    AllowLists = {{}, {"prod"}}
    Fields = {"policy_mode", "profile_mode"}
    Values = {"Discover", "Protect"}
    Requests <- MCRequests
    VerifyAttempts = 2
    MaxSends = 2
SYMMETRY Symmetry
INVARIANTS
    TypeOK
    AppliedWasSeen
    SuccessLasts
PROPERTIES
    AllowListKept
CHECK_DEADLOCK FALSE
