\* Unprivileged sockets: an error report that reaches the wrong probe.
SPECIFICATION Spec
CHECK_DEADLOCK FALSE
CONSTANTS
    None = None
    MaxArguments = 16
    MaxLabels = 2
    MinLocalPort = 1024
    MaxProbes = 2
    MinPort = 33434
    MaxPort = 33439
    MaxTokens = 3
    MaxSkipped = 1
    MaxForeign = 1
    PacketBufferSize = 9000
    IcmpId = 500
    PidPort = 33435
    OtherPort = 40000
    Me = "me"
    Target = "target"
    Router = "router"
    Stranger = "stranger"
    Settings <- MCSettings
    Privileges <- MCPrivileges
    Objects <- MCObjects
    SendErrors <- MCSendErrors
    UnreachableErrors <- MCUnreachableErrors
    Sums <- MCSums
INVARIANTS
    ErrorStaysWithItsProbe
