SPECIFICATION Spec
CONSTANTS
  Socket = {s1, s2}
  NoSocket = NoSocket
  PAYLOAD = 2
  STALL_LIMIT = 2
  MaxTx = 2
  MaxRx = 2
SYMMETRY SocketSymmetry
INVARIANTS
  TypeOK
  InFlight
  SentInOrder
  ReceivedInOrder
  ConnectedSocket
  ClosedReleases
PROPERTIES
  ForgetsOnlyClosed
  ImplementsContract
CHECK_DEADLOCK FALSE
