-------------------------------- MODULE MCAnsi --------------------------------
EXTENDS AnsiTerminal, FiniteSets

\* Codes of both fonts.
MCCodes == {65, 194}
MCAttributes == {8, 15}

\* Rows, columns and the region; modes 7, 20 and 25; numbers of which eight bits
\* make 1 and 255.
MCNumbers == {2, 3, 7, 20, 25, 257, 300}

\* A screen on which no row and no column looks like another.
Cell(n) ==
  LET kind == {<<65, 136>>, <<66, 8>>, <<65, 143>>, <<66, 15>>}
  IN CHOOSE c \in kind : Cardinality({d \in kind : d[1] * 1000 + d[2] < c[1] * 1000 + c[2]}) = n % 4

MCDrawn ==
  {[a \in Address |->
      IF a \in CHARS..(CHARS + W * H - 1) THEN Cell((a - CHARS) + (a - CHARS) \div W)[1]
      ELSE IF a \in ATTRS..(ATTRS + W * H - 1)
      THEN Cell((a - ATTRS) + (a - ATTRS) \div W)[2] ELSE 0]}
=============================================================================
