SPECIFICATION Spec
CONSTANTS
    Conns = {c1}
    LogoutFlag = TRUE
INVARIANT
    LogsOutOnExit
CHECK_DEADLOCK FALSE
