SPECIFICATION FairSpec
CONSTANTS
    RequestCap = 1
    CommandCap = 1
    ReplyCap = 1
    EventCap = 1
    TableCap = 1
INVARIANTS
    FullPathIsOwed
    DeadlineFollowsEngine
    ExitComesLast
PROPERTIES
    SessionEnds
