SPECIFICATION FairSpec
CONSTANTS
    Targets = {h1, h2}
    Client = browser
    MaxEvents = 2
    MaxTicks = 0
PROPERTY
    ClientDeathKillsAdapters
CHECK_DEADLOCK FALSE
