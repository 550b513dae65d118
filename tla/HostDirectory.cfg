SPECIFICATION FairSpec
CONSTANTS
    Adapters = {a1,a2}
    Hosts = {h1,h2}
    Requests = {r1,r2}
    NoAdapter = NoAdapter
    NoHost = NoHost
    MaxMoves = 1
    MaxCalls = 2
INVARIANTS
    DirectoryInv
    LookupsAgree
PROPERTIES
    Heals
    Forgets
