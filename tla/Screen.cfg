\* The real widths are NUM_WIDTH 6, HOST_MIN 20, SPARK_MIN 8 and 39 fixed columns in terminals
\* of at least 60.
SPECIFICATION ScreenSpec
CONSTANTS
    None = None
    Displays <- MCDisplays
    Heights = {3, 5, 8}
    MinHeight = 4
    PaneMinHeight = 7
    DetailRows = 3
    ScrollStep = 2
    MaxDisplayPath = 2
    MaxPromptLen = 1
    Pressed <- MCPressed
    Instances <- MCInstances
    NumWidth = 1
    HostMin = 3
    SparkMin = 2
    FixedColumns = 5
    MinTextWidth = 2
    MaxTime = 2147483647
INVARIANTS
    FrameShowsSelection
    ScrollingMoves
    ViewsTellTruth
    EverythingFits
PROPERTIES
    ChangesAreMarked
    FrameCatchesUp
CHECK_DEADLOCK FALSE
