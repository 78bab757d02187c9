\* Two loads, see MCPacketHelper.
SPECIFICATION FairSpec
CONSTANTS
    Loads <- MCLoads
    MaxProbes = 2
    MinPort = 1
    Timeouts <- NoWait
    MaxCopies = 1
INVARIANTS
    ReplyIsOwn
    InTimeIsAnswered
    OneResponse
    NothingLost
PROPERTIES
    Exits
