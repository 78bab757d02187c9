SPECIFICATION Spec
CONSTANTS
    None = None
    a = a
    b = b
    t = t
    e = e
    name = name
    as = as
    l = l
    m = m
    Addrs <- MCAddrs
    Target = t
    Errors = {e}
    MplsLabels = {l, m}
    NameOf <- MCNames
    AsnOf <- MCAsns
    MaxPath = 2
    MaxRtt = 40
    Instances <- MCInstances
INVARIANTS
    FiguresBounded
    ReportShowsAll
CHECK_DEADLOCK FALSE
