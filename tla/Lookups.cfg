\* Three addresses with both kinds of lookups: one more than channels of one place and
\* one permit can hold; a lookup may never be answered.
SPECIFICATION ScheduledSpec
CONSTANTS
    a = a
    b = b
    c = c
    Addrs <- ThreeAddrs
    RequestCap = 1
    ResultCap = 1
    MaxInFlight = 1
    MaxEvents = 4
INVARIANTS
    OnItsWay
    AllAsked
    ReportComplete
PROPERTIES
    StepProceeds
\* The session ends and the tasks run out of work: the system stops.
CHECK_DEADLOCK FALSE
