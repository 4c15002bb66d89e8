\* ReadyIsShown
SPECIFICATION ProgramSpec
CONSTANTS
  Socket = {s1}
  NoSocket = NoSocket
  PAYLOAD = 1
  STALL_LIMIT = 2
  MaxTx = 1
  MaxRx = 1
INVARIANT
  ReadyIsShown
CHECK_DEADLOCK FALSE
