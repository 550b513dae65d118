SPECIFICATION FairSpec
CONSTANTS
    MaxTargets = 3
INVARIANTS
    GatherInv
    TellsHowItWent
    CrashForCause
PROPERTIES
    OneReply
    Finishes
CHECK_DEADLOCK FALSE
