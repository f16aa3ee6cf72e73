SPECIFICATION Spec
CONSTANTS
    Calls = {c1}
    NoCall = NoCall
    MaxAttempts = 3
    AuthModes = {"password"}
    ErrorReplies <- MCRepliesStatusFree
PROPERTIES
    CodeThreeRelogs
CHECK_DEADLOCK FALSE
