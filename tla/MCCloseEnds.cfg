\* CloseEnds
SPECIFICATION ProgramSpec
CONSTANTS
  Socket = {s1}
  NoSocket = NoSocket
  PAYLOAD = 1
  STALL_LIMIT = 2
  MaxTx = 1
  MaxRx = 1
PROPERTY
  CloseEnds
CHECK_DEADLOCK FALSE
