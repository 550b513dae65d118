SPECIFICATION Spec
CONSTANTS
    Names = {n1}
    NoSecret = NoSecret
    MaxPods = 2
    MaxFaults = 0
    MaxRestarts = 0
INVARIANT
    FreshCredentials
CHECK_DEADLOCK FALSE
