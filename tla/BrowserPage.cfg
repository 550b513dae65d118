SPECIFICATION PageSpec
CONSTANTS
    MaxCommands = 3
    Hosts = {h1, h2}
    Peers = {p1, p2}
    TabHosts = {h1, h2}
    NoTab = NoTab
    MinHeight = 3
    Margin = 2
    Windows = {5, 8, 10}
INVARIANTS
    CommandsInStep
    StreamsInStep
    SelInv
    PingsAsDrawn
    PanelInv
PROPERTIES
    DeadNoticed
    AllMeansAll
    PanelRestores
CHECK_DEADLOCK FALSE
