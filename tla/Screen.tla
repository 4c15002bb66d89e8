-------------------------------- MODULE Screen --------------------------------
(* What a terminal's screen promises: each byte the host sends writes one cell *)
(* where the cursor is, feeds a line, scrolls the region, erases a stretch     *)
(* that holds the cursor, moves the cursor or does nothing of the kind.        *)
EXTENDS Integers, FiniteSetsExt

CONSTANTS COLS, ROWS, Cells, Blanks

Row == 0..(ROWS - 1)
Col == 0..(COLS - 1)
LastCol == COLS - 1

VARIABLES
  grid,        \* the cell at every row and column
  x, y,        \* the cursor
  top, bottom, \* the region that scrolls
  wrap         \* the next character belongs at the start of the next line

vars == <<grid, x, y, top, bottom, wrap>>

\* Rows first..last moved up n rows, and as many new ones below.
ScrolledUp(first, last, n, blank) ==
  [r \in Row |-> [c \in Col |->
     IF r \notin first..last THEN grid[r][c]
     ELSE IF r + n <= last THEN grid[r + n][c] ELSE blank]]

\* What a line feed makes of the screen, and the row it leads to.
Fed(blank) == IF y = bottom THEN ScrolledUp(top, bottom, 1, blank) ELSE grid
NextRow == IF y = bottom THEN y ELSE Min({y + 1, ROWS - 1})

-----------------------------------------------------------------------------
Init ==
  /\ grid \in [Row -> [Col -> Cells]]
  /\ x \in Col /\ y \in Row /\ top \in Row /\ bottom \in Row /\ top < bottom
  /\ wrap \in BOOLEAN

\* A character, at the end of a line with a line feed before it.
Character ==
  \E cell \in Cells, blank \in Blanks :
    LET row == IF wrap THEN NextRow ELSE y
        col == IF wrap THEN 0 ELSE x
        g == IF wrap THEN Fed(blank) ELSE grid
    IN /\ grid' = [g EXCEPT ![row][col] = cell]
       /\ y' = row /\ x' = Min({col + 1, LastCol})
       /\ wrap' => col = LastCol
       /\ UNCHANGED <<top, bottom>>

LineFeed ==
  /\ \E blank \in Blanks : grid' = Fed(blank)
  /\ y' = NextRow /\ x' \in {0, x} /\ ~wrap'
  /\ UNCHANGED <<top, bottom>>

Scroll ==
  /\ \E n \in 1..(bottom - top + 1), blank \in Blanks :
       grid' = ScrolledUp(top, bottom, n, blank)
  /\ ~wrap' /\ UNCHANGED <<x, y, top, bottom>>

\* Positions are counted in reading order.
Position(r, c) == r * COLS + c

Erase ==
  /\ \E first \in 0..Position(y, x), last \in Position(y, x)..Position(ROWS - 1, LastCol),
        blank \in Blanks :
       grid' = [r \in Row |-> [c \in Col |->
                  IF Position(r, c) \in first..last THEN blank ELSE grid[r][c]]]
  /\ ~wrap' /\ UNCHANGED <<x, y, top, bottom>>

Move ==
  /\ x' \in Col /\ y' \in Row /\ (wrap' => wrap)
  /\ UNCHANGED <<grid, top, bottom>>

SetRegion ==
  /\ top' \in Row /\ bottom' \in Row /\ top' < bottom'
  /\ x' = 0 /\ y' = 0 /\ ~wrap' /\ UNCHANGED grid

\* Another session starts with an empty screen.
Enter ==
  /\ \E blank \in Blanks : grid' = [r \in Row |-> [c \in Col |-> blank]]
  /\ x' = 0 /\ y' = 0 /\ top' = 0 /\ bottom' = ROWS - 1 /\ ~wrap'

Next == Move \/ Character \/ LineFeed \/ Scroll \/ SetRegion \/ Enter \/ Erase

Spec == Init /\ [][Next]_vars
=============================================================================
