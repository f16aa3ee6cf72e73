SPECIFICATION Spec
CONSTANTS
    Calls = {c1}
    NoCall = NoCall
    MaxAttempts = 3
    AuthModes = {"password"}
    ErrorReplies <- MCReplies
INVARIANTS
    OnlyToolErrors
CHECK_DEADLOCK FALSE
