\* Options in every layer, --init-config and what follows it, up to three targets.
SPECIFICATION Spec
CONSTANTS
    None = None
    Wrong = Wrong
    Help = Help
    IntMax = 2147483646
    MarkMax = 2147483646
    MaxSeconds = 315360000
    MinPacket = 28
    MaxPacket = 65535
    Linux = TRUE
    Worlds <- AllWorlds
    LaterWords <- AfterInit
INVARIANTS
    LayersInOrder
    SavedReproduces
    EveryTargetCounts
    FamiliesAgree
    EngineGetsValid
\* A process ends.
CHECK_DEADLOCK FALSE
