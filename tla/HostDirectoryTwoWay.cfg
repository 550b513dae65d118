SPECIFICATION Spec
CONSTANTS
    Adapters = {a1}
    Hosts = {h1}
    Requests = {r1, r2}
    NoAdapter = NoAdapter
    NoHost = NoHost
    MaxMoves = 0
    MaxCalls = 2
INVARIANT
    TwoWayMapping
