SPECIFICATION FairSpec
CONSTANTS
    Calls = {c1}
    Services = {1, 2, 3}
    NamespaceOf <- MCNamespaceOf
    NoNamespace = ""
    AllowLists = {{}, {"prod"}}
    Fields = {"policy_mode", "profile_mode"}
    Values = {"Discover", "Protect"}
    Requests <- MCAllRequests
    VerifyAttempts = 2
    MaxSends = 2
PROPERTIES
    CallsRunDown
    EveryCallEnds
CHECK_DEADLOCK FALSE
