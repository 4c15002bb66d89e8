SPECIFICATION Spec
CONSTANTS
  Request = {c1}
  NoRequest = NoRequest
  NoAnswer = NoAnswer
  TooLong = TooLong
  REPLY_SIZE = 3
  STATUS_LIMIT = 2
  BUDGET = 2
  MaxData = 4
  MaxText = 3
INVARIANT TypeOK
PROPERTIES
  AcknowledgesRead
  DoneIsWhole
  CommandsEnd
  ImplementsChannel
CHECK_DEADLOCK FALSE
