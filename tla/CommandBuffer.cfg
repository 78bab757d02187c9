\* A window of three bytes over every input of nine bytes, in every split over reads.
SPECIFICATION BufferSpec
CONSTANTS
    Size = 4
    InputLength = 9
INVARIANTS
    EndIsReal
    LinesKept
\* The input ends and the loop reads no more.
CHECK_DEADLOCK FALSE
