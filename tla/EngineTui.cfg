\* The TUI: TTL edits, pause, reset and interrupts between any two steps; two
\* tokens, so that they are reused while they are live.
SPECIFICATION Spec
CONSTANTS
    Addrs = {tgt, r1}
    Target = tgt
    None = None
    NoRouteHost = NoRouteHost
    Errors = {NoRouteHost}
    MaxPath = 1
    HistoryLen = 1
    MaxHost = 3
    MinSequence = 1
    MaxSequence = 3
    DefaultNumhosts = 10
    Configs <- TuiConfigs
    CycleBound = 2
INVARIANTS
    CursorInRange
    Accounting
    TokensIdentifyProbes
PROPERTIES
    ImplementsLedger
    AnsweredStays
    QuietAfterLastCycle
