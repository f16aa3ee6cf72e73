SPECIFICATION FairSpec
CONSTANTS
    Calls = {c1, c2}
    NoCall = NoCall
    MaxAttempts = 1
    AuthModes = {"password", "apikey"}
    ErrorReplies <- MCReplies
PROPERTIES
    EveryCallEnds
CHECK_DEADLOCK FALSE
