------------------------------- MODULE MCSession -------------------------------
EXTENDS Session

\* A key whose code is that of IAC, RETURN, and a cursor key.
SomeKeys == {255, RETURN, CURSOR_UP}

SomeReport == <<27, 110>>

\* Data that looks like IAC, data the display answers and an ESC; options that are
\* accepted for either side, one that is not, and a refusal; the request for the
\* terminal's type, and parameters with an IAC inside.
SomeMessages ==
  {Data(255), Data(5), Data(ESC),
   Option(DO, NAWS), Option(DO, TTYPE), Option(WILL, ECHO), Option(WONT, ECHO),
   Option(DONT, NAWS), Option(WILL, TTYPE), Option(DO, ECHO),
   Sub(TTYPE, <<TTYPE_SEND>>), Sub(TTYPE, <<255, 65>>)}
=============================================================================
