SPECIFICATION Spec
CONSTANTS
  W = 3
  H = 3
  TAB = 2
  PARAMS = 2
  CHARS = 1
  ATTRS = 11
  MEM = 21
  CHUNK = 4
  Codes <- MCCodes
  Attributes <- MCAttributes
  Numbers <- MCNumbers
  Drawn <- MCDrawn
  MaxFunctions = 3
  MaxCsi = 1
INVARIANTS
  TypeOK
  RightFont
PROPERTIES
  CursorReturns
  ImplementsScreen
CHECK_DEADLOCK FALSE
