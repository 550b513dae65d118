SPECIFICATION FairOperator
CONSTANTS
    Names = {n1}
    NoSecret = NoSecret
    MaxPods = 2
    MaxFaults = 2
    MaxRestarts = 1
    MaxGenerations = 3
    MaxMishaps = 2
INVARIANTS
    KeysInv
    RefusedForCause
    NobodyForgotten
    CtrlInv
    QuietIsDone
PROPERTIES
    Served
    Settles
    OneDeployment
CHECK_DEADLOCK FALSE
