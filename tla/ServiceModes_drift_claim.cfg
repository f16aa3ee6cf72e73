SPECIFICATION Spec
CONSTANTS
    Calls = {c1}
    Services = {1, 2}
    NamespaceOf <- MCNamespaceOf
    NoNamespace = ""
    AllowLists = {{}}
    Fields = {"policy_mode", "profile_mode"}
    Values = {"Discover", "Protect"}
    Requests <- MCRequests
    VerifyAttempts = 8
    MaxSends = 2
INVARIANTS
    DriftMeansNotTaken
CHECK_DEADLOCK FALSE
