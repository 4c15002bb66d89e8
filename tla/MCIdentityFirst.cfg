SPECIFICATION Spec
CONSTANTS
  LENGTH_MOD = 2
  QUEUE = 14
  BATCH = 2
  PAYLOAD = 5
  Keys <- SomeKeys
  Inquiry = 5
  Report <- SomeReport
  Messages <- SomeMessages
  MaxKeys = 1
  MaxMessages = 1
  MaxSessions = 2
INVARIANT IdentityFirst
CHECK_DEADLOCK FALSE
