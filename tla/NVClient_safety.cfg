SPECIFICATION Spec
CONSTANTS
    Calls = {c1, c2}
    NoCall = NoCall
    MaxAttempts = 2
    AuthModes = {"password", "apikey"}
    ErrorReplies <- MCReplies
SYMMETRY Symmetry
INVARIANTS
    TypeOK
    LoginHoldsLock
    OneIsNext
    SendBudget
    OkMeansExecuted
    OneSendErrorIsSettled
    SessionsBounded
PROPERTIES
    TokenNeverGoesBack
    AuthErrorMeansOwnSessionDied
    OrphansNeedARace
    EveryStepIsProgress
    ImplementsAtLeastOnce
CHECK_DEADLOCK FALSE
