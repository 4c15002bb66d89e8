------------------------------- MODULE Keyboard -------------------------------
(* What the keys of the C128 become on the wire: core/keyboard.c, and          *)
(* ansi_terminal_key of core/ansi_terminal.c.  A key is its PETSCII code.      *)
EXTENDS Integers, Sequences

Key == 1..255

CURSOR_UP == 145
CURSOR_DOWN == 17
CURSOR_RIGHT == 29
CURSOR_LEFT == 157
HOME == 19
RETURN == 13

\* The letter that ends the sequence of a cursor key: A, B, C or D.
Cursor == [k \in {CURSOR_UP, CURSOR_DOWN, CURSOR_RIGHT, CURSOR_LEFT} |->
             CASE k = CURSOR_UP    -> 65
               [] k = CURSOR_DOWN  -> 66
               [] k = CURSOR_RIGHT -> 67
               [] k = CURSOR_LEFT  -> 68]

ESC == 27

Sequence(introducer, final) == <<ESC, introducer, final>>

\* Letters are ASCII of the other case, and DEL is a backspace.
Ascii(key) ==
  CASE key \in 65..90   -> key + 32
    [] key \in 193..218 -> key - 128
    [] key = 20         -> 8
    [] OTHER            -> key

\* There is no code beyond ASCII.
Plain(key) == IF Ascii(key) < 128 THEN <<Ascii(key)>> ELSE <<>>

\* keyboard_encode, which the application calls with petscii set.
KeyboardEncode(key, petscii) ==
  IF petscii THEN <<key>>
  ELSE IF key \in DOMAIN Cursor THEN Sequence(91, Cursor[key])
  ELSE IF key = HOME THEN Sequence(91, 72)
  ELSE Plain(key)

\* ansi_terminal_key, in the modes the host has set.
AnsiKey(key, applicationCursor, newline) ==
  IF key \in DOMAIN Cursor
  THEN Sequence(IF applicationCursor THEN 79 ELSE 91, Cursor[key])
  ELSE IF key = HOME THEN Sequence(91, 72)
  ELSE IF key = RETURN /\ newline THEN <<13, 10>>
  ELSE Plain(key)
=============================================================================
