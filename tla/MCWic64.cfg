SPECIFICATION Spec
CONSTANTS
  PAGE = 2
  PAGES = 2
  DISCARD = 1
  TX = 1
  SETTLE = 3
  RETRY = 1
  IDLE = 2
  MAX_FAILURES = 2
  TICKS = 64
  DAY = 8
  MaxGap = 3
  MaxTx = 2
  MaxRx = 6
INVARIANTS
  TypeOK
  ReceivedInOrder
  OnlyThisConnection
  AsksInTime
PROPERTIES
  ImplementsContract
  DataIsRead
CHECK_DEADLOCK FALSE
