----------------------------- MODULE AnsiTerminal -----------------------------
(* The ANSI terminal, core/ansi_terminal.c, on the pages of the video chip,    *)
(* and what app/session.c and app/program.c do with it: enter and leave it,    *)
(* keep its cursor hidden while data comes, and preview its font.              *)
(* A byte of the host is a printable code or the name of a control character,  *)
(* and the digits of a parameter come at once.  Left out are what SGR makes of *)
(* its parameters, the reports and the encoding of keys.                       *)
EXTENDS Vdc, FiniteSetsExt

CONSTANTS
  W, H,         \* columns and rows (80 and 25)
  TAB,          \* columns from one tab stop to the next (8)
  PARAMS,       \* parameters kept (8)
  CHARS, ATTRS, \* where the pages of characters and of attributes begin
  Codes,        \* printable codes the host sends
  Attributes,   \* attributes SGR selects
  Numbers,      \* parameters the host sends
  Drawn,        \* contents of the video RAM the model begins with
  MaxFunctions, \* bound: characters and functions the host sends,
  MaxCsi        \* and among how many of the first control sequences come

ASSUME ScreenAssumption ==
  /\ W \in Nat \ {0, 1} /\ H \in 2..255 /\ TAB \in Nat \ {0} /\ PARAMS \in Nat \ {0}
  /\ CHARS \in Nat /\ ATTRS \in Nat /\ CHARS + W * H <= ATTRS /\ ATTRS + W * H <= MEM
  /\ Attributes \subseteq 0..127 /\ 15 \in Attributes
  /\ Codes \subseteq (32..255) \ {127} /\ Numbers \subseteq Nat

VARIABLES
  phase,     \* what is on the screen: MENU, PREVIEW, TERMINAL or MESSAGE
  vdc,       \* the video chip
  t,         \* the terminal's cursor, modes and region
  parser,    \* the state of the parser, parameters and private mark
  batch,     \* batch_update
  pending,   \* cursor_pending
  heard,     \* data has come since the terminal was entered
  functions

vars == <<phase, vdc, t, parser, batch, pending, heard, functions>>

-----------------------------------------------------------------------------
(* The screen.  What draws takes and returns s, the terminal and the chip.    *)

At(col, row) == CHARS + row * W + col
AttrAt(col, row) == ATTRS + row * W + col

SPACE == 32
ALTERNATE == 128  \* the attribute of a character from the alternate font

\* What a cell of the screen can hold: glyph and attribute.
Cells == {<<value % 128, attr + (IF value < 128 THEN ALTERNATE ELSE 0)>> :
            value \in Codes, attr \in Attributes}

\* Where the model begins, the pages hold what a host has drawn.
ASSUME DrawnAssumption ==
  /\ Drawn \subseteq [Address -> 0..255]
  /\ \A contents \in Drawn, row \in 0..(H - 1), col \in 0..(W - 1) :
       <<contents[At(col, row)], contents[AttrAt(col, row)]>> \in Cells

Fill(s, col, row, n) ==
  [s EXCEPT !.vdc = FillRun(FillRun(@, At(col, row), SPACE, n),
                            AttrAt(col, row), s.t.attr + ALTERNATE, n)]

ClearLine(s, row, first, last) ==
  IF first > last \/ row >= H THEN s ELSE Fill(s, first, row, last - first + 1)

ClearScreen(s, first, last) ==
  IF first > last \/ last >= H THEN s
  ELSE Fill(s, 0, first, (last - first + 1) * W)

ScrollUp(s, lines) ==
  LET top == s.t.top
      bottom == s.t.bottom
      n == Min({lines, bottom - top + 1})
      length == (bottom - top + 1 - n) * W
      chars == CopyRun(s.vdc, At(0, top), At(0, top + n), length)
      moved == [s EXCEPT !.vdc =
                  CopyRun(chars, AttrAt(0, top), AttrAt(0, top + n), length)]
  IN ClearScreen(IF length = 0 THEN s ELSE moved, bottom - n + 1, bottom)

(* At the last row of the screen a line feed does nothing: it looks for the   *)
(* end of the screen before that of the region.                               *)
LineFeedInScreen(s) ==
  LET f == [s EXCEPT !.t.wrap = FALSE, !.t.x = IF s.t.newline THEN 0 ELSE @]
  IN IF s.t.y < H - 1 THEN [f EXCEPT !.t.y = @ + 1] ELSE ScrollUp(f, 1)

LineFeed(s) ==
  LET f == [s EXCEPT !.t.wrap = FALSE, !.t.x = IF s.t.newline THEN 0 ELSE @]
  IN IF s.t.y = s.t.bottom THEN ScrollUp(f, 1)
     ELSE [f EXCEPT !.t.y = Min({@ + 1, H - 1})]

\* Codes from 128 on are in the normal font, those below in the alternate one.
Put(s, value) ==
  LET f == IF s.t.wrap THEN LineFeed([s EXCEPT !.t.x = 0]) ELSE s
      glyph == Store(f.vdc, At(f.t.x, f.t.y), value % 128)
      attr == f.t.attr + (IF value < 128 THEN ALTERNATE ELSE 0)
      put == [f EXCEPT !.vdc = Store(glyph, AttrAt(f.t.x, f.t.y), attr)]
  IN IF f.t.x = W - 1 THEN [put EXCEPT !.t.wrap = f.t.autowrap]
     ELSE [put EXCEPT !.t.x = @ + 1]

-----------------------------------------------------------------------------
(* Parameters and functions.                                                  *)

\* What the digits of n leave in a parameter of eight bits.
Digits(n) ==
  LET value[k \in 0..n] ==
        IF k < 10 THEN k
        ELSE IF value[k \div 10] > 25 THEN 255
        ELSE (value[k \div 10] * 10 + (k % 10)) % 256
  IN value[n]

Parameter(n, fallback) ==
  IF n > parser.count \/ parser.params[n] = 0 THEN fallback ELSE parser.params[n]

Up(s, n) == [s EXCEPT !.t.y = Max({@ - n, 0})]
Down(s, n) == [s EXCEPT !.t.y = Min({@ + n, H - 1})]
Right(s, n) == [s EXCEPT !.t.x = Min({@ + n, W - 1})]
Left(s, n) == [s EXCEPT !.t.x = Max({@ - n, 0})]
Start(s) == [s EXCEPT !.t.x = 0]
SavesCursor(s) == [s EXCEPT !.t.savedX = s.t.x, !.t.savedY = s.t.y]
RestoresCursor(s) == [s EXCEPT !.t.x = s.t.savedX, !.t.y = s.t.savedY]

CursorTo(s, row, col) ==
  [s EXCEPT !.t.y = Min({row, H}) - 1, !.t.x = Min({col, W}) - 1]

\* In row 0, what stands before the cursor is the whole row.
EraseDisplay(s, mode) ==
  LET x == s.t.x
      y == s.t.y
  IN CASE mode = 0 -> ClearScreen(ClearLine(s, y, x, W - 1), y + 1, H - 1)
       [] mode = 1 -> ClearLine(ClearScreen(s, 0, Max({y - 1, 0})), y, 0, x)
       [] OTHER    -> ClearScreen(s, 0, H - 1)

EraseLine(s, mode) ==
  CASE mode = 0 -> ClearLine(s, s.t.y, s.t.x, W - 1)
    [] mode = 1 -> ClearLine(s, s.t.y, 0, s.t.x)
    [] OTHER    -> ClearLine(s, s.t.y, 0, W - 1)

SetRegion(s, first, last) ==
  LET valid == first < last /\ last <= H
  IN [s EXCEPT !.t.top = IF valid THEN first - 1 ELSE 0,
               !.t.bottom = IF valid THEN last - 1 ELSE H - 1,
               !.t.x = 0, !.t.y = 0]

SetMode(s, mode, on) ==
  CASE parser.private /\ mode = 7   -> [s EXCEPT !.t.autowrap = on]
    [] parser.private /\ mode = 25  -> [s EXCEPT !.t.visible = on]
    [] ~parser.private /\ mode = 20 -> [s EXCEPT !.t.newline = on]
    [] OTHER -> s

\* csi, by the byte that ends the sequence; the others report or do nothing.
Csi(s, final) ==
  LET f == [s EXCEPT !.t.wrap = FALSE]
      n == Parameter(1, 1)
      mode == parser.params[1]
  IN CASE final = "A" -> Up(f, n)
       [] final = "B" -> Down(f, n)
       [] final = "C" -> Right(f, n)
       [] final = "D" -> Left(f, n)
       [] final = "E" -> Down(Start(f), n)
       [] final = "F" -> Up(Start(f), n)
       [] final = "G" -> CursorTo(f, f.t.y + 1, n)
       [] final \in {"H", "f"} -> CursorTo(f, n, Parameter(2, 1))
       [] final = "J" -> EraseDisplay(f, mode)
       [] final = "K" -> EraseLine(f, mode)
       [] final = "S" -> ScrollUp(f, n)
       [] final = "s" -> SavesCursor(f)
       [] final = "u" -> RestoresCursor(f)
       [] final = "r" -> SetRegion(f, n, Parameter(2, H))
       [] final = "h" -> SetMode(f, mode, TRUE)
       [] final = "l" -> SetMode(f, mode, FALSE)
       [] OTHER -> f

Finals == {"A", "B", "C", "D", "E", "F", "G", "H", "f", "J", "K", "S", "s", "u",
           "r", "h", "l", "n", "c"}

\* What follows an ESC alone.
Escape(s, value) ==
  CASE value = "7" -> SavesCursor(s)
    [] value = "8" -> RestoresCursor(s)
    [] value = "D" -> LineFeed(s)
    [] value = "E" -> LineFeed(Start(s))
    [] value = "M" -> Up(s, 1)
    [] OTHER -> s

Control(s, value) ==
  CASE value = "BS" -> Left([s EXCEPT !.t.wrap = FALSE], 1)
    [] value = "HT" -> Right(s, TAB - (s.t.x % TAB))
    [] value = "LF" -> LineFeed(s)
    [] value = "CR" -> Start([s EXCEPT !.t.wrap = FALSE])
    [] OTHER -> s

-----------------------------------------------------------------------------
(* What session.c does with a byte that is data: it begins an update, gives    *)
(* the byte to the parser, and notes that the cursor is to be shown again.     *)

Hears ==
  /\ phase = "TERMINAL" /\ functions < MaxFunctions
  /\ batch' = TRUE /\ pending' = TRUE /\ heard' = TRUE /\ UNCHANGED phase

Begun ==
  [t |-> t, vdc |-> IF batch THEN vdc ELSE SetCursor(vdc, At(t.x, t.y), FALSE)]

Becomes(s) == t' = s.t /\ vdc' = s.vdc

Text == [state |-> "TEXT", params |-> [n \in 1..PARAMS |-> 0], count |-> 1,
         private |-> FALSE]

\* A character or a function of the host makes s of the screen.  Parameters are
\* not used after the sequence they belong to.
Does(s) ==
  /\ Hears /\ Becomes(s)
  /\ parser' = Text
  /\ functions' = functions + 1

\* A byte inside a sequence only changes the parser.
Continues(p) ==
  Hears /\ Becomes(Begun) /\ parser' = p /\ UNCHANGED functions

In(state) == parser.state = state
Enters(state) == Continues([parser EXCEPT !.state = state])

Character == In("TEXT") /\ \E value \in Codes : Does(Put(Begun, value))

Controls ==
  In("TEXT") /\ \E value \in {"BS", "HT", "LF", "CR", "ENQ"} :
    Does(Control(Begun, value))

Escapes == In("TEXT") /\ Enters("ESC")

EscapeEnds ==
  In("ESC") /\ \E value \in {"7", "8", "D", "E", "M", "Z"} :
    Does(Escape(Begun, value))

CsiBegins ==
  /\ In("ESC") /\ functions < MaxCsi
  /\ Continues([state |-> "CSI", params |-> [n \in 1..PARAMS |-> 0],
                count |-> 1, private |-> FALSE])

CsiNumber ==
  /\ In("CSI") /\ parser.params[parser.count] = 0
  /\ \E n \in Numbers :
       Continues([parser EXCEPT !.params[parser.count] = Digits(n)])

CsiNext ==
  /\ In("CSI") /\ parser.count < PARAMS
  /\ Continues([parser EXCEPT !.count = @ + 1])

\* A question mark; the other marks are as good as none.
CsiMark ==
  /\ In("CSI") /\ parser.count = 1 /\ parser.params[1] = 0
  /\ Continues([parser EXCEPT !.private = TRUE])

CsiEnds ==
  In("CSI") /\ \E final \in Finals : Does(Csi(Begun, final))

\* SGR selects attributes; which, its tables say.
Sgr ==
  In("CSI") /\ \E attr \in Attributes :
    Does([Begun EXCEPT !.t.wrap = FALSE, !.t.attr = attr])

StringBegins == In("ESC") /\ Enters("STRING")

\* A string ends with BEL or ESC \.
StringEnds == (In("STRING") \/ In("STRING_ESC")) /\ Does(Begun)

StringEscape == In("STRING") /\ Enters("STRING_ESC")

StringGoesOn == In("STRING_ESC") /\ Enters("STRING")

Byte ==
  \/ Character \/ Controls \/ Escapes \/ EscapeEnds
  \/ CsiBegins \/ CsiNumber \/ CsiNext \/ CsiMark \/ CsiEnds \/ Sgr
  \/ StringBegins \/ StringEnds \/ StringEscape \/ StringGoesOn

(* An update that must not end yet is taken to have ended.                    *)
QuietForgets ==
  /\ phase = "TERMINAL" /\ pending
  /\ pending' = FALSE
  /\ UNCHANGED <<phase, vdc, t, parser, batch, heard, functions>>

\* Eight ticks without data, and ansi_terminal_end_update.
Quiet ==
  /\ phase = "TERMINAL" /\ pending
  /\ pending' = FALSE
  /\ IF ~batch \/ ~In("TEXT") THEN UNCHANGED <<vdc, batch>>
     ELSE /\ batch' = FALSE
          /\ vdc' = SetCursor(vdc, At(t.x, t.y), t.visible)
  /\ UNCHANGED <<phase, t, parser, heard, functions>>

-----------------------------------------------------------------------------
(* Entering and leaving.                                                      *)

NewTerminal ==
  [x |-> 0, y |-> 0, savedX |-> 0, savedY |-> 0, attr |-> 15, wrap |-> FALSE,
   autowrap |-> TRUE, visible |-> TRUE, newline |-> FALSE,
   top |-> 0, bottom |-> H - 1]

\* ansi_terminal_init, or the message that the font could not be loaded.
Enter(file) ==
  /\ phase = "MENU"
  /\ LET loaded == LoadFont(vdc, file)
     IN IF file = "WHOLE"
        THEN /\ phase' = "TERMINAL" /\ batch' = TRUE /\ parser' = Text
             /\ Becomes(ClearScreen([t |-> NewTerminal,
                  vdc |-> SetCursor(loaded, At(0, 0), FALSE)], 0, H - 1))
        ELSE /\ phase' = "MESSAGE" /\ vdc' = loaded
             /\ UNCHANGED <<t, parser, batch>>
  /\ pending' = FALSE /\ heard' = FALSE /\ UNCHANGED functions

\* ansi_terminal_shutdown and clrscr(), when the connection ends or RUN/STOP is
\* pressed; what is left of the terminal is not used again.
Leave ==
  /\ phase = "TERMINAL"
  /\ phase' = "MESSAGE"
  /\ LET hidden == SetCursor(vdc, At(t.x, t.y), FALSE)
     IN Becomes(ClearScreen([t |-> NewTerminal, vdc |-> RestoreFont(hidden)], 0, H - 1))
  /\ parser' = Text /\ batch' = FALSE /\ pending' = FALSE /\ heard' = FALSE
  /\ UNCHANGED functions

\* screen_font_preview; what it draws is left out.
Preview(file) ==
  /\ phase = "MENU"
  /\ phase' = IF file = "WHOLE" THEN "PREVIEW" ELSE "MESSAGE"
  /\ vdc' = LoadFont(vdc, file)
  /\ UNCHANGED <<t, parser, batch, pending, heard, functions>>

\* A key is pressed.
Return ==
  /\ phase \in {"PREVIEW", "MESSAGE"}
  /\ phase' = "MENU"
  /\ vdc' = IF phase = "PREVIEW" THEN RestoreFont(vdc) ELSE vdc
  /\ UNCHANGED <<t, parser, batch, pending, heard, functions>>

-----------------------------------------------------------------------------
\* The program has started, or the host has drawn something and set a region.
Init ==
  /\ \/ /\ phase = "MENU" /\ t = NewTerminal
        /\ \E contents \in Drawn : vdc = NewVdc(contents)
        /\ batch = FALSE /\ pending = FALSE /\ heard = FALSE
     \/ /\ phase = "TERMINAL" /\ batch = TRUE /\ pending = TRUE /\ heard = TRUE
        /\ \E contents \in Drawn : vdc = LoadFont(NewVdc(contents), "WHOLE")
        /\ \E x \in 0..(W - 1), y, top, bottom \in 0..(H - 1) :
             /\ top < bottom
             /\ \E wrap \in {FALSE, x = W - 1} :
                  t = [NewTerminal EXCEPT !.x = x, !.y = y, !.top = top,
                         !.bottom = bottom, !.wrap = wrap]
  /\ parser = Text /\ functions = 0

Next ==
  \/ Byte \/ Quiet \/ Leave \/ Return
  \/ \E file \in FontFile : Enter(file) \/ Preview(file)

\* The terminal loop goes on while the host is silent.
Spec == Init /\ [][Next]_vars /\ WF_vars(Quiet)

-----------------------------------------------------------------------------
(* Properties.                                                               *)

\* Every variable has its type, the cursor is on the screen, and nothing was
\* drawn outside the two pages.
TypeOK ==
  /\ phase \in {"MENU", "PREVIEW", "TERMINAL", "MESSAGE"}
  /\ {t.x, t.savedX} \subseteq 0..(W - 1)
  /\ {t.y, t.savedY, t.top, t.bottom} \subseteq 0..(H - 1) /\ t.top < t.bottom
  /\ t.attr \in 0..127 /\ {t.wrap, t.autowrap, t.visible, t.newline} \subseteq BOOLEAN
  /\ parser.state \in {"TEXT", "ESC", "CSI", "STRING", "STRING_ESC"}
  /\ parser.count \in 1..PARAMS /\ parser.params \in [1..PARAMS -> 0..255]
  /\ {batch, pending, heard, vdc.copy, vdc.shown} \subseteq BOOLEAN
  /\ vdc.mem \in [Address -> 0..255] /\ vdc.cursor \in Address
  /\ \A a \in Address \ (Block(CHARS, W * H) \cup Block(ATTRS, W * H)) :
       \E contents \in Drawn : vdc.mem[a] = contents[a]

\* KERNAL output and its system font: the menu and messages are read in the
\* system's font, and the host's characters and the preview in CP437.
RightFont ==
  vdc.font = IF phase \in {"MENU", "MESSAGE"} THEN "SYSTEM" ELSE "CP437"

\* When the host has fallen silent, but not inside a sequence, the cursor stands
\* where the next character goes, and is seen if the host has not hidden it.
CursorReturns ==
  <>[](phase = "TERMINAL" /\ heard /\ In("TEXT")
         => vdc.cursor = At(t.x, t.y) /\ vdc.shown = t.visible)

\* What the pages show, and what an erased cell can hold.
Grid ==
  [row \in 0..(H - 1) |-> [col \in 0..(W - 1) |->
     <<vdc.mem[At(col, row)], vdc.mem[AttrAt(col, row)]>>]]
Blanks == {<<SPACE, attr + ALTERNATE>> : attr \in Attributes}

\* The pages hold what the terminal's screen promises.
Glass == INSTANCE Screen WITH
  COLS <- W, ROWS <- H, grid <- Grid,
  x <- t.x, y <- t.y, top <- t.top, bottom <- t.bottom, wrap <- t.wrap

ImplementsScreen == Glass!Spec
=============================================================================
