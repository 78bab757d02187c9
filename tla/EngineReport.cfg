\* Report modes: fixed configuration, no user actions.
SPECIFICATION FairSpec
CONSTANTS
    Addrs = {tgt, r1}
    Target = tgt
    None = None
    NoRouteHost = NoRouteHost
    Errors = {NoRouteHost}
    MaxPath = 1
    HistoryLen = 2
    MaxHost = 5
    MinSequence = 1
    MaxSequence = 5
    DefaultNumhosts = 10
    Configs <- ReportConfigs
    CycleBound = 3
INVARIANTS
    HistoryAgreesWithStats
    CoverageEven
PROPERTIES
    Termination
