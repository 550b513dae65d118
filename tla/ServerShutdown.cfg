SPECIFICATION FairSpec
CONSTANTS
    Conns = {c1, c2}
    LogoutFlag = TRUE
INVARIANTS
    LifecycleInv
    WaitsForRequests
PROPERTIES
    Exits
CHECK_DEADLOCK FALSE
