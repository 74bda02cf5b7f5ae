--------------------------------- MODULE Vga ---------------------------------
(***************************************************************************)
(* The vga service: the text screen as an array of cells and an offset     *)
(* into it. Characters come from the ioManager, which echoes keys, and     *)
(* from texts that programs print. The offset is a word that nothing       *)
(* bounds: only a new line looks at the height of the screen, so that a    *)
(* full bottom row, or a backspace in the first cell, moves it off the     *)
(* screen, where what is written is not seen.                              *)
(***************************************************************************)
EXTENDS Integers, Sequences

CONSTANTS
    WIDTH, HEIGHT,      \* of the screen (80 and 25)
    Mapped,             \* cells in the two pages that are mapped (4096)
    WordMod,            \* a word's modulus (2 ^ 32)
    Glyphs,             \* printable characters, not 0
    MaxWrites           \* bound

ASSUME ScreenAssumption ==
    /\ WIDTH \in Nat \ {0} /\ HEIGHT \in Nat \ {0} /\ 0 \notin Glyphs
    /\ Mapped \in Nat /\ WordMod \in Nat
    /\ WIDTH * HEIGHT <= Mapped /\ Mapped < WordMod

VARIABLES
    videoSource, offset,
    lines,              \* ghost: the rows of the paper that is written on
    current, column,    \* ghost: the row and column where the next character goes
    overrun,            \* ghost: the offset has left the screen
    writes

paperVars == <<lines, current, column>>
vgaVars == <<videoSource, offset, lines, current, column, overrun, writes>>

Blank == 0      \* an empty cell, and the space that '\b' leaves
ScreenCells == 0 .. WIDTH * HEIGHT - 1
Columns == 0 .. WIDTH - 1
EmptyRow == [c \in Columns |-> Blank]

\* main. The firmware leaves the screen to be overwritten; it counts as blank.
VgaInit ==
    /\ videoSource = [i \in ScreenCells |-> Blank] /\ offset = 0
    /\ lines = <<EmptyRow>> /\ current = 1 /\ column = 0
    /\ overrun = FALSE /\ writes = 0

\* Mutant: the last row keeps its text.
ScrollUpKeepsLast ==
    [i \in ScreenCells |-> IF i < WIDTH * (HEIGHT - 1) THEN videoSource[i + WIDTH]
                          ELSE videoSource[i]]

scrollUp ==
    [i \in ScreenCells |-> IF i < WIDTH * (HEIGHT - 1) THEN videoSource[i + WIDTH] ELSE Blank]

\* Behind the screen nothing is seen of the write; behind the mapped pages it
\* hits other memory of the service, or faults.
writeChar(c) ==
    \/ videoSource' = [videoSource EXCEPT ![offset] = c] /\ offset' = (offset + 1) % WordMod
    \/ offset >= Mapped /\ UNCHANGED <<videoSource, offset>>

lineFeed ==
    LET next == ((offset \div WIDTH + 1) * WIDTH) % WordMod IN
    IF next \div WIDTH >= HEIGHT THEN offset' = next - WIDTH /\ videoSource' = scrollUp
    ELSE offset' = next /\ UNCHANGED videoSource

backspace ==
    LET last == (offset - 1) % WordMod IN
    offset' = last /\ videoSource' = [videoSource EXCEPT ![last] = Blank]

-----------------------------------------------------------------------------
\* What a teletype would do: a row that is full ends, behind the last row a
\* new one starts.

Put(at, c, char) == [lines EXCEPT ![at][c] = char]
StartRow(paper) ==
    /\ lines' = IF current = Len(lines) THEN Append(paper, EmptyRow) ELSE paper
    /\ current' = current + 1 /\ column' = 0

PutChar(char) ==
    LET paper == Put(current, column, char) IN
    IF column = WIDTH - 1 THEN StartRow(paper)
    ELSE lines' = paper /\ column' = column + 1 /\ UNCHANGED current

PutBack ==
    IF column = 0
    THEN /\ lines' = Put(current - 1, WIDTH - 1, Blank)
         /\ current' = current - 1 /\ column' = WIDTH - 1
    ELSE lines' = Put(current, column - 1, Blank) /\ column' = column - 1 /\ UNCHANGED current

\* The paper follows as long as the offset stays on the screen.
Paper(step) ==
    /\ overrun' = (overrun \/ offset' \notin ScreenCells)
    /\ IF overrun' THEN UNCHANGED paperVars ELSE step

write(c) ==
    /\ writes < MaxWrites /\ writes' = writes + 1
    /\ \/ /\ c = "return" /\ offset' = (offset \div WIDTH) * WIDTH /\ UNCHANGED videoSource
          /\ Paper(column' = 0 /\ UNCHANGED <<lines, current>>)
       \/ c = "newline" /\ lineFeed /\ Paper(StartRow(lines))
       \/ c = "back" /\ backspace /\ Paper(PutBack)
       \/ c = "char" /\ \E char \in Glyphs : writeChar(char) /\ Paper(PutChar(char))

VgaNext == \E c \in {"return", "newline", "back", "char"} : write(c)
VgaSpec == VgaInit /\ [][VgaNext]_vgaVars

-----------------------------------------------------------------------------
\* The screen shows the last rows that were written, the newest one at the
\* bottom once there are more than fit, and the cursor stands where the next
\* character goes: until a full row at the bottom, or a backspace in the first
\* cell, moves the offset off the screen.
Row(r) == IF Len(lines) <= HEIGHT THEN r + 1 ELSE Len(lines) - HEIGHT + r + 1
ShowsLastLines ==
    ~overrun =>
        /\ \A r \in 0 .. HEIGHT - 1, c \in Columns :
            videoSource[r * WIDTH + c] = IF Row(r) \in DOMAIN lines THEN lines[Row(r)][c] ELSE Blank
        /\ offset % WIDTH = column
        /\ Row(offset \div WIDTH) = current

=============================================================================
