----------------------------- MODULE CommandBuffer ----------------------------
(***************************************************************************)
(* The command buffer of the helper (crates/mtr-packet/src/command.rs):     *)
(* bytes are read into a window of Size - 1 of them, complete lines are     *)
(* taken out, and a full window without a newline is discarded.  Bytes are  *)
(* known by their position in the input; what matters of one is whether it  *)
(* is a newline.  The window is what was read after position `start`.       *)
(* It is part of the process PacketHelper models; what both name has        *)
(* another name here.                                                      *)
(***************************************************************************)
EXTENDS Integers

CONSTANTS
    Size,        \* COMMAND_BUFFER_SIZE
    InputLength  \* bytes the client writes before it closes its end

ASSUME CommandBufferAssumption ==
    /\ Size \in Nat /\ Size > 1
    /\ InputLength \in Nat

InputPositions == 1..InputLength

VARIABLES
    newlines,    \* positions of the newlines in the input
    turn,        \* the step of the turn: "read" or "take"
    start,       \* last position that left the window
    read,        \* last position read
    inputOpen,   \* pipe_open
    takenLines,  \* lines taken: <<position before the first byte, position of the newline>>
    discarded    \* positions at which a full window was discarded and reported

bufferVars == <<newlines, turn, start, read, inputOpen, takenLines, discarded>>

BufferInit ==
    /\ newlines \in SUBSET InputPositions
    /\ turn = "read"
    /\ start = 0 /\ read = 0
    /\ inputOpen = TRUE
    /\ takenLines = {} /\ discarded = {}

\* space_remaining()
SpaceRemaining == Size - 1 - (read - start)

\* One read() into the space that remains.  It returns nothing at the end of the input,
\* and it would return nothing when asked for nothing.
ReadInput ==
    /\ turn = "read" /\ inputOpen
    /\ turn' = "take"
    /\ \/ /\ \E k \in 1..SpaceRemaining :
                read + k <= InputLength /\ read' = read + k
          /\ UNCHANGED inputOpen
       \/ /\ read = InputLength \/ SpaceRemaining = 0
          /\ inputOpen' = FALSE /\ UNCHANGED read
    /\ UNCHANGED <<newlines, start, takenLines, discarded>>

InWindow == {n \in newlines : start < n /\ n <= read}

\* The lines that end in the window: each begins after the previous newline there, the
\* first one where the window begins.
LinesInWindow ==
    {line \in (InWindow \cup {start}) \X InWindow :
        /\ line[1] < line[2]
        /\ \A n \in InWindow : n <= line[1] \/ line[2] <= n}

\* Mutant: the window is full only when the whole buffer is.
TakeLinesWide ==
    /\ turn = "take" /\ turn' = "read"
    /\ takenLines' = takenLines \cup LinesInWindow
    /\ \E last \in InWindow \cup {start} :
        /\ \A n \in InWindow : n <= last
        /\ \/ read - last >= Size /\ start' = read /\ discarded' = discarded \cup {read}
           \/ read - last < Size /\ start' = last /\ UNCHANGED discarded
    /\ UNCHANGED <<newlines, read, inputOpen>>

\* Mutant: fullness is checked before the lines are taken out.
TakeLinesAfterCheck ==
    /\ turn = "take" /\ turn' = "read"
    /\ \/ /\ read - start >= Size - 1
          /\ start' = read /\ discarded' = discarded \cup {read} /\ UNCHANGED takenLines
       \/ /\ read - start < Size - 1
          /\ takenLines' = takenLines \cup LinesInWindow
          /\ \E last \in InWindow \cup {start} :
                start' = last /\ \A n \in InWindow : n <= last
          /\ UNCHANGED discarded
    /\ UNCHANGED <<newlines, read, inputOpen>>

\* take_lines(): every complete line, then the overflow check on what is left.
TakeLines ==
    /\ turn = "take" /\ turn' = "read"
    /\ takenLines' = takenLines \cup LinesInWindow
    /\ \E last \in InWindow \cup {start} :
        /\ \A n \in InWindow : n <= last
        /\ \/ read - last >= Size - 1 /\ start' = read /\ discarded' = discarded \cup {read}
           \/ read - last < Size - 1 /\ start' = last /\ UNCHANGED discarded
    /\ UNCHANGED <<newlines, read, inputOpen>>

BufferNext == ReadInput \/ TakeLines

BufferSpec == BufferInit /\ [][BufferNext]_bufferVars

-----------------------------------------------------------------------------
(* Properties *)

BufferType ==
    /\ newlines \subseteq InputPositions
    /\ turn \in {"read", "take"}
    /\ start \in 0..InputLength /\ read \in 0..InputLength
    /\ read - start \in 0..(Size - 1)
    /\ inputOpen \in BOOLEAN
    /\ takenLines \subseteq (0..InputLength) \X InputPositions
    /\ discarded \subseteq InputPositions

\* The input has a line from p to n: n is a newline and p the one before it, or 0.
IsLine(p, n) ==
    /\ n \in newlines /\ p \in newlines \cup {0} /\ p < n
    /\ \A m \in newlines : m <= p \/ n <= m

\* Bytes that have been through take_lines().
Seen == IF turn = "read" THEN read ELSE start

\* The end of input is the client's: no full window is taken for it, since every turn
\* begins with room to read (push() asserts the same bound).
EndIsReal ==
    /\ ~inputOpen => read = InputLength
    /\ turn = "read" => SpaceRemaining > 0

\* However the input is split over reads, a line that fits the window with its newline is
\* taken whole, and nothing else is taken in its place.
LinesIntact ==
    \A p \in 0..InputLength, n \in InputPositions :
        IsLine(p, n) /\ n - p <= Size - 1 /\ n <= Seen =>
            /\ <<p, n>> \in takenLines
            /\ \A line \in takenLines : line[2] = n => line[1] = p

\* A window is discarded only inside a line that does not fit, and such a line never
\* passes unreported.
DiscardsReported ==
    /\ \A d \in discarded : \A n \in newlines : n <= d - (Size - 1) \/ d < n
    /\ \A p \in 0..InputLength, n \in InputPositions :
        IsLine(p, n) /\ n - p > Size - 1 /\ n <= Seen =>
            \E d \in discarded : p < d /\ d < n

\* Every line reaches the helper or is reported as too long, however the input is split
\* over reads.
LinesKept == LinesIntact /\ DiscardsReported
=============================================================================
