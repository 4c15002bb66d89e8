------------------------------ MODULE Wic64Proofs ------------------------------
(* Proofs about the WiC64 backend, for every value of the constants that meets*)
(* their assumptions and every caller that obeys network.h.                  *)
EXTENDS Wic64, TLAPS

-----------------------------------------------------------------------------
(* The inductive invariant.                                                  *)

\* A response is read only on a connection whose last one has been read, and
\* what bridge_read counts is counted only while it runs.
BridgeAgrees ==
  /\ reading => connection = "CONNECTED" /\ rxOffset = rxLength /\ quiet = 0
  /\ ~reading => transferSize = 0 /\ bridgeCopied = 0 /\ ~truncated

\* The mailbox is filled page by page, and only the last one may be cut.
WholePages ==
  transferSize > 0 => \E k \in 0..PAGES : bridgeCopied = k * PAGE

\* A connection has not failed too often, and has written what it accepted.
ConnectionAgrees ==
  /\ connection = "CONNECTED" =>
       availableFailures <= MAX_FAILURES /\ written = accepted
  /\ consumed <= fetched

\* (int16_t)(available_after - ticks)
Ahead == IF 2 * remaining < TICKS THEN remaining ELSE remaining - TICKS

\* The deadline lies at most as far ahead as it may be set, and has passed since
\* the last poll that could have looked at it; that poll came soon enough.
DeadlineAgrees ==
  connection = "CONNECTED" =>
    /\ ~reading => /\ -unpolled <= Ahead
                   /\ Ahead <= 0 \/ Ahead <= SETTLE + PutOff - quiet
    /\ quiet - unpolled < SETTLE + PutOff

WInv ==
  /\ TypeOK /\ BridgeAgrees /\ WholePages /\ ConnectionAgrees /\ DeadlineAgrees
  /\ ReceivedInOrder /\ OnlyThisConnection

-----------------------------------------------------------------------------
(* The clock and the mailbox, in integers.                                   *)

\* What a 16-bit clock makes of a difference that has left its range by less
\* than a turn.
LEMMA Wrapped ==
  ASSUME NEW x \in Int, -TICKS <= x, x < 2 * TICKS
  PROVE  x % TICKS = IF x < 0 THEN x + TICKS ELSE
                     IF x < TICKS THEN x ELSE x - TICKS
<1>1. CASE x < 0
  BY <1>1, ClockAssumption
<1>2. CASE 0 <= x /\ x < TICKS
  BY <1>2, ClockAssumption
<1>3. CASE TICKS <= x
  BY <1>3, ClockAssumption
<1>4. QED
  BY <1>1, <1>2, <1>3, ClockAssumption

\* Within half a turn the signed difference is the true one.
LEMMA SignedDifference ==
  ASSUME NEW d \in Int, remaining' = d % TICKS, -TICKS <= 2 * d, 2 * d < TICKS
  PROVE  Ahead' = d /\ remaining' \in 0..TICKS-1
<1>1. remaining' = IF d < 0 THEN d + TICKS ELSE d
  BY Wrapped, ClockAssumption
<1>2. QED
  BY <1>1, ClockAssumption DEF Ahead

\* The differences the code sets are small.
LEMMA DeadlineSet ==
  ASSUME NEW t \in 0..SETTLE, In(t)
  PROVE  Ahead' = t /\ remaining' \in 0..TICKS-1
  BY SignedDifference, ClockAssumption DEF In

\* The comparison of poll() asks whether the deadline lies ahead.
LEMMA DueIsPassed ==
  ASSUME remaining \in 0..TICKS-1
  PROVE  /\ Due <=> Ahead <= 0
         /\ Ahead \in Int /\ -TICKS <= 2 * Ahead /\ 2 * Ahead < TICKS
  BY ClockAssumption DEF Due, Ahead

\* The mailbox may be empty.
LEMMA MailboxSize == Mailbox \in Nat /\ 0 \in 0..Mailbox
<1>1. PAGE * PAGES \in Nat
  BY SizesAssumption
<1>2. QED
  BY <1>1 DEF Mailbox

\* A page more is still within the mailbox when one fits.
LEMMA PageFits ==
  ASSUME NEW k \in 0..PAGES, bridgeCopied = k * PAGE
  PROVE  /\ Room => k + 1 \in 0..PAGES /\ (k + 1) * PAGE <= Mailbox
         /\ (k + 1) * PAGE = bridgeCopied + PAGE
<1>1. (k * PAGE) \div PAGE = k
  BY SizesAssumption
<1>2. \A j \in 0..PAGES : j * PAGE <= Mailbox
  BY SizesAssumption DEF Mailbox
<1>3. (k + 1) * PAGE = k * PAGE + PAGE
  BY SizesAssumption
<1>4. Room => k + 1 \in 0..PAGES
  BY <1>1, SizesAssumption DEF Room
<1>5. QED
  BY <1>2, <1>3, <1>4

-----------------------------------------------------------------------------
(* Every step keeps the invariant.                                           *)

\* A step that changes nothing.
LEMMA StutteringPreserves == WInv /\ UNCHANGED vars => WInv'
  BY DEF vars, rxVars, deadline, bridge, firmware, clock, caller, WInv, TypeOK,
         FlagTypeOK, BufferTypeOK, ClockTypeOK, StreamTypeOK, BridgeAgrees,
         WholePages, ConnectionAgrees, DeadlineAgrees, Ahead, PutOff,
         ReceivedInOrder, OnlyThisConnection

\* Every call keeps the invariant.
LEMMA CallerPreserves ==
  ASSUME WInv, Caller
  PROVE  WInv'
<1>0. ~reading /\ transferSize = 0 /\ bridgeCopied = 0 /\ ~truncated
  BY DEF Caller, WInv, BridgeAgrees
\* init() and close() end the connection.
<1>1. ASSUME Initialize PROVE WInv'
  <2>1. FlagTypeOK'
    BY <1>1 DEF Initialize, bridge, firmware, clock, WInv, TypeOK, FlagTypeOK
  <2>2. (BufferTypeOK /\ ClockTypeOK /\ StreamTypeOK)'
    BY <1>1, MailboxSize, SizesAssumption
       DEF Initialize, Fail, EmptyBuffer, bridge, firmware, clock, WInv,
           TypeOK, BufferTypeOK, ClockTypeOK, StreamTypeOK
  <2>3. QED
    BY <1>0, <1>1, <2>1, <2>2
       DEF Initialize, Fail, bridge, firmware, WInv, TypeOK, FlagTypeOK,
           BufferTypeOK, ClockTypeOK, StreamTypeOK, BridgeAgrees, WholePages,
           ConnectionAgrees, DeadlineAgrees, ReceivedInOrder,
           OnlyThisConnection
<1>2. ASSUME Close PROVE WInv'
  <2>1. FlagTypeOK'
    BY <1>2
       DEF Close, CloseFails, Closes, bridge, clock, WInv, TypeOK, FlagTypeOK
  <2>2. (BufferTypeOK /\ ClockTypeOK /\ StreamTypeOK)'
    BY <1>2, MailboxSize
       DEF Close, CloseFails, Closes, EmptyBuffer, rxVars, deadline, bridge,
           clock, WInv, TypeOK, BufferTypeOK, ClockTypeOK, StreamTypeOK
  <2>3. QED
    BY <1>0, <1>2, <2>1, <2>2
       DEF Close, bridge, WInv, TypeOK, FlagTypeOK, BufferTypeOK, ClockTypeOK,
           StreamTypeOK, BridgeAgrees, WholePages, ConnectionAgrees,
           DeadlineAgrees, ReceivedInOrder, OnlyThisConnection
\* connect() starts both streams anew, on a socket of its own.
<1>3. ASSUME Connect PROVE WInv'
  <2>1. CASE Connects
    <3>1. Ahead' = SETTLE /\ remaining' \in 0..TICKS-1
      BY <2>1, DeadlineSet, ClockAssumption DEF Connects
    <3>2. TypeOK'
      <4>1. FlagTypeOK'
        BY <1>3, <2>1
           DEF Connect, Connects, NewSocket, bridge, WInv, TypeOK, FlagTypeOK
      <4>2. (BufferTypeOK /\ ClockTypeOK /\ StreamTypeOK)'
        BY <1>3, <2>1, <3>1, MailboxSize, SizesAssumption, ClockAssumption
           DEF Connect, Connects, NewSocket, EmptyBuffer, bridge, WInv, TypeOK,
               BufferTypeOK, ClockTypeOK, StreamTypeOK
      <4>3. QED
        BY <4>1, <4>2 DEF TypeOK
    <3>3. DeadlineAgrees'
      BY <2>1, <3>1, ClockAssumption DEF Connects, DeadlineAgrees, PutOff
    <3>4. QED
      BY <1>0, <1>3, <2>1, <3>2, <3>3, SizesAssumption
         DEF Connect, Connects, NewSocket, EmptyBuffer, bridge, WInv,
             BridgeAgrees, WholePages, ConnectionAgrees, ReceivedInOrder,
             OnlyThisConnection
  <2>2. CASE ConnectFails
    <3>1. FlagTypeOK'
      BY <1>3, <2>2
         DEF Connect, ConnectFails, CloseFails, Closes, NewSocket, bridge,
             clock, WInv, TypeOK, FlagTypeOK
    <3>2. (BufferTypeOK /\ ClockTypeOK /\ StreamTypeOK)'
      BY <1>3, <2>2, MailboxSize
         DEF Connect, ConnectFails, Fail, CloseFails, Closes, NewSocket,
             EmptyBuffer, rxVars, deadline, bridge, clock, WInv, TypeOK,
             BufferTypeOK, ClockTypeOK, StreamTypeOK
    <3>3. QED
      BY <1>0, <1>3, <2>2, <3>1, <3>2
         DEF Connect, ConnectFails, Fail, bridge, WInv, TypeOK, FlagTypeOK,
             BufferTypeOK, ClockTypeOK, StreamTypeOK, BridgeAgrees, WholePages,
             ConnectionAgrees, DeadlineAgrees, ReceivedInOrder,
             OnlyThisConnection
  <2>3. QED
    BY <1>3, <2>1, <2>2 DEF Connect
\* read() moves bytes from the buffer to the caller.
<1>4. ASSUME connection = "CONNECTED", NEW c \in 1..MaxRx, Receive(c)
      PROVE  WInv'
  <2>1. PICK n \in Nat : /\ n <= rxLength - rxOffset
                         /\ rxOffset' = rxOffset + n /\ consumed' = consumed + n
    BY <1>4
       DEF Receive, WInv, TypeOK, FlagTypeOK, BufferTypeOK, ClockTypeOK,
           StreamTypeOK
  <2>2. UNCHANGED <<connection, deviceReady, rxLength, deadline, bridge,
                    firmware, clock, accepted, written, fetched, caller>>
    BY <1>4 DEF Receive
  <2>3. TypeOK'
    BY <2>1, <2>2
       DEF deadline, bridge, firmware, clock, caller, WInv, TypeOK, FlagTypeOK,
           BufferTypeOK, ClockTypeOK, StreamTypeOK
  <2>4. (ReceivedInOrder /\ ConnectionAgrees)'
    BY <1>0, <1>4, <2>1, <2>2
       DEF deadline, bridge, WInv, TypeOK, FlagTypeOK, BufferTypeOK,
           ClockTypeOK, StreamTypeOK, ReceivedInOrder, ConnectionAgrees
  <2>5. (BridgeAgrees /\ WholePages /\ DeadlineAgrees /\ OnlyThisConnection)'
    BY <1>0, <1>4, <2>2
       DEF deadline, bridge, firmware, clock, WInv, BridgeAgrees, WholePages,
           DeadlineAgrees, Ahead, PutOff, OnlyThisConnection
  <2>6. QED
    BY <2>3, <2>4, <2>5 DEF WInv
\* write() puts on the connection what it accepts, or fails the connection.
<1>5. ASSUME NEW c \in 1..MaxTx, Transmit(c) PROVE WInv'
  <2> DEFINE n == IF c > TX THEN TX ELSE c
  <2>0. n \in Nat
    BY SizesAssumption
  <2>1. \/ /\ accepted' = accepted + n /\ written' = written + n
           /\ In(0) /\ UNCHANGED connection
        \/ /\ Fail /\ written' \in {written, written + n}
           /\ UNCHANGED <<accepted, remaining>>
    BY <1>5 DEF Transmit
  <2> HIDE DEF n
  <2>2. /\ connection = "CONNECTED"
        /\ UNCHANGED <<deviceReady, rxVars, availableFailures, bridge, firmware,
                       clock, fetched, consumed, caller>>
    BY <1>5 DEF Transmit
  <2>3. In(0) => Ahead' = 0 /\ remaining' \in 0..TICKS-1
    BY DeadlineSet, ClockAssumption
  <2>4. TypeOK'
    <3>1. FlagTypeOK'
      BY <2>2 DEF bridge, firmware, clock, caller, WInv, TypeOK, FlagTypeOK
    <3>2. (BufferTypeOK /\ ClockTypeOK /\ StreamTypeOK)'
      BY <2>0, <2>1, <2>2, <2>3
         DEF Fail, rxVars, bridge, firmware, clock, WInv, TypeOK, BufferTypeOK,
               ClockTypeOK, StreamTypeOK
    <3>3. QED
      BY <3>1, <3>2 DEF TypeOK
  <2>5. (BridgeAgrees /\ WholePages /\ ConnectionAgrees)'
    BY <1>0, <2>0, <2>1, <2>2
       DEF Fail, rxVars, bridge, WInv, TypeOK, FlagTypeOK, BufferTypeOK,
           ClockTypeOK, StreamTypeOK, BridgeAgrees, WholePages,
           ConnectionAgrees
  <2>6. (DeadlineAgrees /\ ReceivedInOrder /\ OnlyThisConnection)'
    BY <1>0, <2>0, <2>1, <2>2, <2>3
       DEF Fail, rxVars, bridge, firmware, clock, WInv, TypeOK, FlagTypeOK,
           BufferTypeOK, ClockTypeOK, StreamTypeOK, DeadlineAgrees, PutOff,
           ReceivedInOrder, OnlyThisConnection
  <2>7. QED
    BY <2>4, <2>5, <2>6 DEF WInv
<1>6. QED
  BY <1>1, <1>2, <1>3, <1>4, <1>5 DEF Caller

\* Every poll keeps the invariant.
LEMMA PollPreserves ==
  ASSUME WInv, Poll
  PROVE  WInv'
<1>0. /\ connection = "CONNECTED" /\ rxOffset = rxLength /\ ~reading
      /\ transferSize = 0 /\ bridgeCopied = 0 /\ ~truncated
  BY DEF Poll, PollNotDue, PollQueryFails, PollNothing, PollRead, Asks, WInv,
         BridgeAgrees
\* The deadline still lies ahead.
<1>1. ASSUME PollNotDue PROVE WInv'
  <2>1. Ahead > 0 /\ Ahead \in Int
    BY <1>1, DueIsPassed
       DEF PollNotDue, WInv, TypeOK, FlagTypeOK, BufferTypeOK, ClockTypeOK,
           StreamTypeOK
  <2>2. DeadlineAgrees'
    BY <1>0, <1>1, <2>1, ClockAssumption
       DEF PollNotDue, deadline, bridge, WInv, TypeOK, FlagTypeOK,
           BufferTypeOK, ClockTypeOK, StreamTypeOK, DeadlineAgrees, Ahead,
           PutOff
  <2>3. QED
    BY <1>1, <2>2, ClockAssumption
       DEF PollNotDue, rxVars, deadline, bridge, firmware, caller, WInv,
           TypeOK, FlagTypeOK, BufferTypeOK, ClockTypeOK, StreamTypeOK,
           BridgeAgrees, WholePages, ConnectionAgrees, ReceivedInOrder,
           OnlyThisConnection
\* A query that fails is repeated, unless it has failed too often.
<1>2. ASSUME PollQueryFails PROVE WInv'
  <2>1. Ahead' = RETRY /\ remaining' \in 0..TICKS-1
    BY <1>2, DeadlineSet, ClockAssumption DEF PollQueryFails
  <2>2. connection' \in {"CONNECTED", "FAILED"}
    BY <1>0, <1>2 DEF PollQueryFails, Fail
  <2>3. /\ availableFailures' \in 0..MAX_FAILURES + 1
        /\ connection' = "CONNECTED" => availableFailures' <= MAX_FAILURES
    BY <1>0, <1>2, SizesAssumption
       DEF PollQueryFails, Fail, WInv, TypeOK, FlagTypeOK, BufferTypeOK,
           ClockTypeOK, StreamTypeOK, ConnectionAgrees
  <2>4. UNCHANGED <<rxVars, bridge, firmware, fetched, deviceReady, accepted,
                    written, consumed, caller>>
    BY <1>2 DEF PollQueryFails, Asks
  <2>5. unpolled' = 0 /\ quiet' = 0 /\ midnight' = FALSE
    BY <1>2 DEF PollQueryFails, Asks
  <2>6. TypeOK'
    <3>1. FlagTypeOK'
      BY <2>4, <2>5 DEF bridge, firmware, caller, WInv, TypeOK, FlagTypeOK
    <3>2. (BufferTypeOK /\ ClockTypeOK /\ StreamTypeOK)'
      BY <2>1, <2>2, <2>3, <2>4, <2>5, ClockAssumption
         DEF rxVars, bridge, firmware, WInv, TypeOK, BufferTypeOK, ClockTypeOK,
             StreamTypeOK
    <3>3. QED
      BY <3>1, <3>2 DEF TypeOK
  <2>7. (DeadlineAgrees /\ ConnectionAgrees)'
    BY <1>0, <2>1, <2>3, <2>4, <2>5, ClockAssumption
       DEF WInv, DeadlineAgrees, ConnectionAgrees, PutOff
  <2>8. (BridgeAgrees /\ WholePages /\ ReceivedInOrder /\ OnlyThisConnection)'
    BY <1>0, <2>4
       DEF rxVars, bridge, firmware, WInv, BridgeAgrees, WholePages,
           ReceivedInOrder, OnlyThisConnection
  <2>9. QED
    BY <2>6, <2>7, <2>8 DEF WInv
\* There is nothing to read.
<1>3. ASSUME PollNothing PROVE WInv'
  <2>1. Ahead' = IDLE /\ remaining' \in 0..TICKS-1
    BY <1>3, DeadlineSet, ClockAssumption DEF PollNothing
  <2>2. /\ UNCHANGED <<connection, rxVars, bridge, firmware, fetched,
                       deviceReady, accepted, written, consumed, caller>>
        /\ availableFailures' = 0
        /\ unpolled' = 0 /\ quiet' = 0 /\ midnight' = FALSE
    BY <1>3 DEF PollNothing, Asks
  <2>3. TypeOK'
    <3>1. FlagTypeOK'
      BY <2>2 DEF bridge, firmware, caller, WInv, TypeOK, FlagTypeOK
    <3>2. (BufferTypeOK /\ ClockTypeOK /\ StreamTypeOK)'
      BY <2>1, <2>2, ClockAssumption, SizesAssumption
         DEF rxVars, bridge, firmware, WInv, TypeOK, BufferTypeOK, ClockTypeOK,
             StreamTypeOK
    <3>3. QED
      BY <3>1, <3>2 DEF TypeOK
  <2>4. (DeadlineAgrees /\ ConnectionAgrees)'
    BY <1>0, <2>1, <2>2, ClockAssumption, SizesAssumption
       DEF WInv, DeadlineAgrees, ConnectionAgrees, PutOff
  <2>5. (BridgeAgrees /\ WholePages /\ ReceivedInOrder /\ OnlyThisConnection)'
    BY <1>0, <2>2
       DEF rxVars, bridge, firmware, WInv, BridgeAgrees, WholePages,
           ReceivedInOrder, OnlyThisConnection
  <2>6. QED
    BY <2>3, <2>4, <2>5 DEF WInv
\* A response starts with no page of it copied.
<1>4. ASSUME PollRead PROVE WInv'
  <2>1. PICK size \in 1..waiting :
          /\ transferSize' = size
          /\ waiting' = waiting - size /\ fetched' = fetched + size
    BY <1>4 DEF PollRead
  <2>2. /\ UNCHANGED <<connection, rxVars, deadline, bridgeCopied, truncated,
                       open, arrived, deviceReady, accepted, written, consumed,
                       caller>>
        /\ reading' = TRUE
        /\ unpolled' = 0 /\ quiet' = 0 /\ midnight' = FALSE
    BY <1>4 DEF PollRead, Asks
  <2>3. TypeOK'
    <3>1. FlagTypeOK'
      BY <2>2 DEF caller, WInv, TypeOK, FlagTypeOK
    <3>2. (BufferTypeOK /\ ClockTypeOK /\ StreamTypeOK)'
      BY <2>1, <2>2, ClockAssumption
         DEF rxVars, deadline, WInv, TypeOK, BufferTypeOK, ClockTypeOK,
             StreamTypeOK
    <3>3. QED
      BY <3>1, <3>2 DEF TypeOK
  <2>4. WholePages'
    <3>1. 0 \in 0..PAGES /\ 0 * PAGE = 0
      BY SizesAssumption
    <3>2. QED
      BY <1>0, <2>2, <3>1 DEF WholePages
  <2>5. (BridgeAgrees /\ ConnectionAgrees /\ DeadlineAgrees)'
    BY <1>0, <2>1, <2>2, ClockAssumption
       DEF rxVars, deadline, WInv, TypeOK, FlagTypeOK, BufferTypeOK,
           ClockTypeOK, StreamTypeOK, BridgeAgrees, ConnectionAgrees,
           DeadlineAgrees, PutOff
  <2>6. (ReceivedInOrder /\ OnlyThisConnection)'
    BY <1>0, <2>1, <2>2
       DEF rxVars, WInv, TypeOK, FlagTypeOK, BufferTypeOK, ClockTypeOK,
           StreamTypeOK, ReceivedInOrder, OnlyThisConnection
  <2>7. QED
    BY <2>3, <2>4, <2>5, <2>6 DEF WInv
<1>5. QED
  BY <1>1, <1>2, <1>3, <1>4 DEF Poll

\* Every step of bridge_read keeps the invariant.
LEMMA BridgePreserves ==
  ASSUME WInv, Bridge
  PROVE  WInv'
<1>0. /\ reading /\ connection = "CONNECTED" /\ rxOffset = rxLength /\ quiet = 0
      /\ UNCHANGED <<deviceReady, firmware, clock, accepted, written, fetched,
                     consumed, caller>>
  BY DEF Bridge, Transfer, ReadFails, ReadEnds, BridgeFrame, WInv, BridgeAgrees
\* A page that fits is kept, or the response is marked as truncated.
<1>1. ASSUME Transfer PROVE WInv'
  <2>1. transferSize > 0 /\ UNCHANGED <<connection, rxVars, deadline, reading>>
    BY <1>1 DEF Transfer
  <2>2. PICK k \in 0..PAGES : bridgeCopied = k * PAGE
    BY <2>1 DEF WInv, WholePages
  <2>3. /\ transferSize' \in Nat /\ bridgeCopied' \in 0..Mailbox
        /\ truncated' \in BOOLEAN
        /\ ~truncated' =>
             /\ ~truncated
             /\ bridgeCopied' + transferSize' = bridgeCopied + transferSize
        /\ transferSize' > 0 => bridgeCopied' \in {k * PAGE, (k + 1) * PAGE}
        /\ transferSize' > 0 /\ bridgeCopied' = (k + 1) * PAGE =>
             k + 1 \in 0..PAGES
    <3>1. CASE Room /\ transferSize >= PAGE
      BY <1>1, <2>2, <3>1, PageFits, SizesAssumption
         DEF Transfer, WInv, TypeOK, FlagTypeOK, BufferTypeOK, ClockTypeOK,
             StreamTypeOK
    <3>2. CASE Room /\ transferSize < PAGE
      <4>1. /\ transferSize' = 0 /\ bridgeCopied' = bridgeCopied + transferSize
            /\ UNCHANGED truncated
        BY <1>1, <3>2, SizesAssumption
           DEF Transfer, WInv, TypeOK, FlagTypeOK, BufferTypeOK, ClockTypeOK,
               StreamTypeOK
      <4>2. bridgeCopied + PAGE <= Mailbox
        BY <2>2, <3>2, PageFits
      <4>3. truncated' \in BOOLEAN
        BY <4>1 DEF WInv, TypeOK, FlagTypeOK
      <4>4. /\ transferSize' \in Nat /\ bridgeCopied' \in 0..Mailbox
            /\ bridgeCopied' + transferSize' = bridgeCopied + transferSize
        BY <3>2, <4>1, <4>2, MailboxSize, SizesAssumption
           DEF WInv, TypeOK, BufferTypeOK
      <4>5. QED
        BY <4>1, <4>3, <4>4
    <3>3. CASE ~Room
      BY <1>1, <2>2, <3>3, SizesAssumption
         DEF Transfer, WInv, TypeOK, FlagTypeOK, BufferTypeOK, ClockTypeOK,
             StreamTypeOK
    <3>4. QED
      BY <3>1, <3>2, <3>3, SizesAssumption
         DEF WInv, TypeOK, FlagTypeOK, BufferTypeOK, ClockTypeOK, StreamTypeOK
  <2>4. TypeOK'
    <3>1. FlagTypeOK'
      BY <1>0, <2>1, <2>3 DEF firmware, clock, caller, WInv, TypeOK, FlagTypeOK
    <3>2. (BufferTypeOK /\ ClockTypeOK /\ StreamTypeOK)'
      BY <1>0, <2>1, <2>3
         DEF rxVars, deadline, firmware, clock, WInv, TypeOK, BufferTypeOK,
               ClockTypeOK, StreamTypeOK
    <3>3. QED
      BY <3>1, <3>2 DEF TypeOK
  <2>5. WholePages'
    BY <2>2, <2>3 DEF WholePages
  <2>6. (BridgeAgrees /\ ConnectionAgrees /\ DeadlineAgrees)'
    <3>1. BridgeAgrees' /\ ConnectionAgrees'
      BY <1>0, <2>1
         DEF rxVars, deadline, clock, WInv, BridgeAgrees, ConnectionAgrees
    <3>2. DeadlineAgrees'
      BY <1>0, <2>1 DEF clock, WInv, DeadlineAgrees, PutOff
    <3>3. QED
      BY <3>1, <3>2
  <2>7. (ReceivedInOrder /\ OnlyThisConnection)'
    <3>1. /\ connection' = connection /\ consumed' = consumed
          /\ rxLength' = rxLength /\ rxOffset' = rxOffset /\ fetched' = fetched
      BY <1>0, <2>1 DEF rxVars
    <3>2. ReceivedInOrder'
      <4>1. CASE truncated'
        BY <4>1 DEF ReceivedInOrder
      <4>2. CASE ~truncated'
        BY <2>3, <3>1, <4>2 DEF WInv, ReceivedInOrder
      <4>3. QED
        BY <4>1, <4>2
    <3>3. OnlyThisConnection'
      BY <1>0, <2>1 DEF firmware, WInv, OnlyThisConnection
    <3>4. QED
      BY <3>2, <3>3
  <2>8. QED
    BY <2>4, <2>5, <2>6, <2>7 DEF WInv
\* A read that fails fails the connection.
<1>2. ASSUME ReadFails PROVE WInv'
  <2>1. /\ connection' = "FAILED" /\ UNCHANGED <<rxVars, deadline>>
        /\ reading' = FALSE /\ transferSize' = 0 /\ bridgeCopied' = 0
        /\ truncated' = FALSE
    BY <1>2 DEF ReadFails, Fail, BridgeEnds
  <2>2. TypeOK'
    <3>1. FlagTypeOK'
      BY <1>0, <2>1 DEF firmware, clock, caller, WInv, TypeOK, FlagTypeOK
    <3>2. (BufferTypeOK /\ ClockTypeOK /\ StreamTypeOK)'
      BY <1>0, <2>1, MailboxSize
         DEF rxVars, deadline, firmware, clock, WInv, TypeOK, BufferTypeOK,
               ClockTypeOK, StreamTypeOK
    <3>3. QED
      BY <3>1, <3>2 DEF TypeOK
  <2>3. QED
    BY <1>0, <2>1, <2>2
       DEF WInv, BridgeAgrees, WholePages, ConnectionAgrees, DeadlineAgrees,
           ReceivedInOrder, OnlyThisConnection
\* A whole response becomes the receive buffer.
<1>3. ASSUME ReadEnds PROVE WInv'
  <2>1. /\ reading' = FALSE /\ transferSize' = 0 /\ bridgeCopied' = 0
        /\ truncated' = FALSE /\ transferSize = 0 /\ ~truncated
        /\ rxLength' = bridgeCopied /\ rxOffset' = 0
        /\ availableFailures' = 0 /\ UNCHANGED connection
    BY <1>3 DEF ReadEnds, BridgeEnds
  <2>2. Ahead' = IDLE /\ remaining' \in 0..TICKS-1
    BY <1>3, DeadlineSet, ClockAssumption DEF ReadEnds
  <2>3. TypeOK'
    <3>1. FlagTypeOK'
      BY <1>0, <2>1 DEF firmware, clock, caller, WInv, TypeOK, FlagTypeOK
    <3>2. (BufferTypeOK /\ ClockTypeOK /\ StreamTypeOK)'
      BY <1>0, <2>1, <2>2, MailboxSize, SizesAssumption
         DEF firmware, clock, WInv, TypeOK, BufferTypeOK, ClockTypeOK,
             StreamTypeOK
    <3>3. QED
      BY <3>1, <3>2 DEF TypeOK
  <2>4. (BridgeAgrees /\ WholePages /\ ConnectionAgrees /\ OnlyThisConnection)'
    BY <1>0, <2>1, SizesAssumption
       DEF firmware, WInv, BridgeAgrees, WholePages, ConnectionAgrees,
           OnlyThisConnection
  <2>5. (DeadlineAgrees /\ ReceivedInOrder)'
    BY <1>0, <2>1, <2>2, ClockAssumption
       DEF clock, WInv, TypeOK, FlagTypeOK, BufferTypeOK, ClockTypeOK,
           StreamTypeOK, DeadlineAgrees, PutOff, ReceivedInOrder
  <2>6. QED
    BY <2>3, <2>4, <2>5 DEF WInv
<1>4. QED
  BY <1>1, <1>2, <1>3 DEF Bridge

\* What the host sends waits, and belongs to the connection.
LEMMA HostPreserves ==
  ASSUME WInv, HostSends
  PROVE  WInv'
  BY DEF HostSends, rxVars, deadline, bridge, clock, caller, WInv, TypeOK,
         FlagTypeOK, BufferTypeOK, ClockTypeOK, StreamTypeOK, BridgeAgrees,
         WholePages, ConnectionAgrees, DeadlineAgrees, Ahead, PutOff,
         ReceivedInOrder, OnlyThisConnection

\* Time brings the deadline nearer; midnight puts it off.
LEMMA TickPreserves ==
  ASSUME WInv, Tick
  PROVE  WInv'
<1>1. /\ connection = "CONNECTED" /\ ~reading /\ unpolled < MaxGap
      /\ unpolled' = unpolled + 1 /\ quiet' = quiet + 1
      /\ UNCHANGED <<connection, deviceReady, rxVars, availableFailures, bridge,
                     firmware, accepted, written, fetched, consumed, caller>>
  BY DEF Tick
<1>2. /\ unpolled \in 0..MaxGap /\ quiet \in Nat /\ remaining \in 0..TICKS-1
      /\ midnight \in BOOLEAN
      /\ Ahead \in Int /\ -unpolled <= Ahead
      /\ Ahead <= 0 \/ Ahead <= SETTLE + PutOff - quiet
      /\ quiet - unpolled < SETTLE + PutOff
  BY <1>1, DueIsPassed
     DEF WInv, TypeOK, FlagTypeOK, BufferTypeOK, ClockTypeOK, StreamTypeOK,
         DeadlineAgrees
<1>3. /\ Ahead = IF 2 * remaining < TICKS THEN remaining ELSE remaining - TICKS
      /\ PutOff = IF midnight THEN DAY + MaxGap ELSE 0
  BY DEF Ahead, PutOff
<1>4. /\ Ahead' \in Int /\ remaining' \in 0..TICKS-1 /\ midnight' \in BOOLEAN
      /\ -unpolled' <= Ahead'
      /\ Ahead' <= 0 \/ Ahead' <= SETTLE + PutOff' - quiet'
      /\ quiet' - unpolled' < SETTLE + PutOff'
  <2>1. CASE remaining' = (remaining - 1) % TICKS /\ UNCHANGED midnight
    <3>1. -TICKS <= 2 * (Ahead - 1) /\ 2 * (Ahead - 1) < TICKS
      BY <1>1, <1>2, <1>3, ClockAssumption
    <3>2. (remaining - 1) % TICKS = (Ahead - 1) % TICKS
      <4>1. CASE remaining = 0
        <5>1. Ahead = remaining
          BY <1>3, <4>1, ClockAssumption
        <5>2. QED
          BY <5>1
      <4>2. CASE remaining > 0
        <5>1. (remaining - 1) % TICKS = remaining - 1
          BY <1>2, <4>2, Wrapped, ClockAssumption
        <5>2. (Ahead - 1) % TICKS = remaining - 1
          BY <1>2, <1>3, <3>1, <4>2, Wrapped, ClockAssumption
        <5>3. QED
          BY <5>1, <5>2
      <4>3. QED
        BY <1>2, <4>1, <4>2
    <3>3. Ahead' = Ahead - 1 /\ remaining' \in 0..TICKS-1
      BY <1>2, <2>1, <3>1, <3>2, SignedDifference
    <3>4. PutOff' = PutOff
      BY <2>1 DEF PutOff
    <3>5. QED
      BY <1>1, <1>2, <1>3, <2>1, <3>3, <3>4, ClockAssumption
  <2>2. CASE /\ ~midnight /\ midnight' = TRUE
             /\ remaining' = (remaining + DAY) % TICKS
    <3>1. -TICKS <= 2 * (Ahead + DAY) /\ 2 * (Ahead + DAY) < TICKS
      BY <1>2, <1>3, <2>2, ClockAssumption
    <3>2. (remaining + DAY) % TICKS = (Ahead + DAY) % TICKS
      <4>1. CASE Ahead = remaining
        BY <4>1
      <4>2. CASE Ahead = remaining - TICKS
        <5> DEFINE d == Ahead + DAY
        <5>1. /\ d \in Int /\ -TICKS <= d /\ d < TICKS
              /\ remaining + DAY = d + TICKS
          BY <1>2, <3>1, <4>2, ClockAssumption
        <5>2. d % TICKS = IF d < 0 THEN d + TICKS ELSE d
          BY <5>1, Wrapped, ClockAssumption
        <5>3. (d + TICKS) % TICKS = IF d < 0 THEN d + TICKS ELSE d
          <6> HIDE DEF d
          <6>1. /\ d + TICKS \in Int
                /\ -TICKS <= d + TICKS /\ d + TICKS < 2 * TICKS
            BY <5>1, ClockAssumption
          <6>2. QED
            BY <5>1, <6>1, Wrapped, ClockAssumption
        <5>4. QED
          BY <5>1, <5>2, <5>3
      <4>3. QED
        BY <1>3, <4>1, <4>2
    <3>3. Ahead' = Ahead + DAY /\ remaining' \in 0..TICKS-1
      BY <1>2, <2>2, <3>1, <3>2, SignedDifference, ClockAssumption
    <3>4. PutOff' = DAY + MaxGap /\ PutOff = 0
      BY <2>2 DEF PutOff
    <3>5. QED
      BY <1>1, <1>2, <2>2, <3>3, <3>4, ClockAssumption
  <2>3. QED
    BY <2>1, <2>2 DEF Tick
<1>5. TypeOK'
  <2>1. FlagTypeOK'
    BY <1>1, <1>4 DEF bridge, firmware, caller, WInv, TypeOK, FlagTypeOK
  <2>2. (BufferTypeOK /\ ClockTypeOK /\ StreamTypeOK)'
    BY <1>1, <1>2, <1>4, ClockAssumption
       DEF rxVars, bridge, firmware, WInv, TypeOK, BufferTypeOK, ClockTypeOK,
           StreamTypeOK
  <2>3. QED
    BY <2>1, <2>2 DEF TypeOK
<1>6. (BridgeAgrees /\ WholePages /\ ConnectionAgrees)'
  BY <1>1
     DEF rxVars, bridge, WInv, BridgeAgrees, WholePages, ConnectionAgrees
<1>7. (DeadlineAgrees /\ ReceivedInOrder /\ OnlyThisConnection)'
  BY <1>1, <1>4
     DEF rxVars, bridge, firmware, WInv, DeadlineAgrees, ReceivedInOrder,
         OnlyThisConnection
<1>8. QED
  BY <1>5, <1>6, <1>7 DEF WInv

\* The backend starts with no device and nothing held.
LEMMA InitEstablishes == Init => WInv
<1>1. Init => FlagTypeOK
  BY DEF Init, FlagTypeOK
<1>2. Init => BufferTypeOK /\ ClockTypeOK /\ StreamTypeOK
  BY MailboxSize, SizesAssumption, ClockAssumption
     DEF Init, BufferTypeOK, ClockTypeOK, StreamTypeOK
<1>3. QED
  BY <1>1, <1>2
     DEF Init, WInv, TypeOK, FlagTypeOK, BufferTypeOK, ClockTypeOK,
         StreamTypeOK, BridgeAgrees, WholePages, ConnectionAgrees,
         DeadlineAgrees, ReceivedInOrder, OnlyThisConnection

\* Every step keeps the invariant.
LEMMA NextPreserves == WInv /\ [Next]_vars => WInv'
  BY CallerPreserves, PollPreserves, BridgePreserves, HostPreserves,
     TickPreserves, StutteringPreserves
     DEF Next

-----------------------------------------------------------------------------
(* The theorems.                                                             *)

\* The inductive invariant holds of every run.
THEOREM Invariance == Spec => []WInv
  BY InitEstablishes, NextPreserves, PTL DEF Spec

\* Every variable keeps its type; no response, however long, is copied beyond
\* the mailbox.
THEOREM TypesHold == Spec => []TypeOK
<1>1. WInv => TypeOK
  BY DEF WInv
<1>2. QED
  BY <1>1, Invariance, PTL

\* Every byte of every response that the ESP gives reaches the caller once and
\* in order, or the connection fails.
THEOREM ReceivedInOrderHolds == Spec => []ReceivedInOrder
<1>1. WInv => ReceivedInOrder
  BY DEF WInv
<1>2. QED
  BY <1>1, Invariance, PTL

\* What is read on a connection was sent on it.
THEOREM OnlyThisConnectionHolds == Spec => []OnlyThisConnection
<1>1. WInv => OnlyThisConnection
  BY DEF WInv
<1>2. QED
  BY <1>1, Invariance, PTL

\* The ESP is asked for data in time, through every wrap of the 16-bit clock and
\* through midnight, for every set of intervals that are short of half a turn.
THEOREM AsksInTimeHolds == Spec => []AsksInTime
<1>1. WInv => AsksInTime
  BY ClockAssumption
     DEF WInv, TypeOK, FlagTypeOK, BufferTypeOK, ClockTypeOK, StreamTypeOK,
         DeadlineAgrees, PutOff, AsksInTime
<1>2. QED
  BY <1>1, Invariance, PTL

-----------------------------------------------------------------------------
(* Every step is a step of the contract, or changes nothing of it.           *)

ContractStep == [Contract!Next]_(Contract!vars)

\* A step that moves no bytes and the connection at most to FAILED.
LEMMA QuietIsTransfer ==
  ASSUME WInv, UNCHANGED <<accepted, written, fetched, consumed>>,
         \/ UNCHANGED connection
         \/ connection = "CONNECTED" /\ connection' = "FAILED"
  PROVE  ContractStep
<1>1. CASE UNCHANGED connection
  BY <1>1 DEF ContractStep, Contract!vars, Contract!streams
<1>2. CASE connection = "CONNECTED" /\ connection' = "FAILED"
  <2>1. Contract!Grow
    BY <1>2
       DEF Contract!Grow, WInv, TypeOK, FlagTypeOK, BufferTypeOK, ClockTypeOK,
           StreamTypeOK, ConnectionAgrees
  <2>2. QED
    BY <1>2, <2>1 DEF ContractStep, Contract!Next, Contract!Transfer
<1>3. QED
  BY <1>1, <1>2

\* Every call is one of the contract's.
LEMMA CallerImplements ==
  ASSUME WInv, WInv', Caller PROVE ContractStep
<1>1. ASSUME Initialize PROVE ContractStep
  BY <1>1
     DEF Initialize, Fail, ContractStep, Contract!Next, Contract!Initialize,
         Contract!streams
<1>2. ASSUME Connect PROVE ContractStep
  BY <1>2
     DEF Connect, Connects, ConnectFails, Fail, ContractStep, Contract!Next,
         Contract!Connect, Contract!Becomes, Contract!streams
<1>3. ASSUME Close PROVE ContractStep
  <2>1. Contract!Close
    BY <1>3
       DEF Close, WInv, TypeOK, FlagTypeOK, BufferTypeOK, ClockTypeOK,
           StreamTypeOK, Contract!Close, Contract!streams
  <2>2. QED
    BY <2>1 DEF ContractStep, Contract!Next
<1>4. ASSUME connection = "CONNECTED", NEW c \in 1..MaxRx, Receive(c)
      PROVE  ContractStep
  <2>1. /\ UNCHANGED <<connection, accepted, written, fetched>>
        /\ consumed' >= consumed
    BY <1>4
       DEF Receive, WInv, TypeOK, FlagTypeOK, BufferTypeOK, ClockTypeOK,
           StreamTypeOK
  <2>2. Contract!Grow
    BY <2>1
       DEF Contract!Grow, WInv, TypeOK, FlagTypeOK, BufferTypeOK, ClockTypeOK,
           StreamTypeOK, ConnectionAgrees
  <2>3. QED
    BY <1>4, <2>1, <2>2 DEF ContractStep, Contract!Next, Contract!Transfer
<1>5. ASSUME NEW c \in 1..MaxTx, Transmit(c) PROVE ContractStep
  <2>1. /\ connection = "CONNECTED" /\ connection' \in {"CONNECTED", "FAILED"}
        /\ accepted' >= accepted /\ written' >= written
        /\ UNCHANGED <<fetched, consumed>>
    BY <1>5, SizesAssumption
       DEF Transmit, Fail, WInv, TypeOK, FlagTypeOK, BufferTypeOK, ClockTypeOK,
           StreamTypeOK
  <2>2. Contract!Grow
    BY <2>1
       DEF Contract!Grow, WInv, TypeOK, FlagTypeOK, BufferTypeOK, ClockTypeOK,
           StreamTypeOK, ConnectionAgrees
  <2>3. QED
    BY <2>1, <2>2 DEF ContractStep, Contract!Next, Contract!Transfer
<1>6. QED
  BY <1>1, <1>2, <1>3, <1>4, <1>5 DEF Caller

\* A response that is read makes the stream grow; other polls move nothing.
LEMMA PollImplements ==
  ASSUME WInv, WInv', Poll PROVE ContractStep
<1>1. CASE PollNotDue \/ PollQueryFails \/ PollNothing
  BY <1>1, QuietIsTransfer
     DEF PollNotDue, PollQueryFails, PollNothing, Asks, Fail
<1>2. CASE PollRead
  <2>1. /\ connection = "CONNECTED"
        /\ UNCHANGED <<connection, accepted, written, consumed>>
        /\ fetched' >= fetched
    BY <1>2
       DEF PollRead, Asks, WInv, TypeOK, FlagTypeOK, BufferTypeOK, ClockTypeOK,
           StreamTypeOK
  <2>2. Contract!Grow
    BY <2>1
       DEF Contract!Grow, WInv, TypeOK, FlagTypeOK, BufferTypeOK, ClockTypeOK,
           StreamTypeOK, ConnectionAgrees
  <2>3. QED
    BY <2>1, <2>2 DEF ContractStep, Contract!Next, Contract!Transfer
<1>3. QED
  BY <1>1, <1>2 DEF Poll

\* Every step of Spec is one of the contract's, or none.
LEMMA NextImplements == WInv /\ WInv' /\ [Next]_vars => ContractStep
<1>1. UNCHANGED vars => ContractStep
  BY DEF vars, ContractStep, Contract!vars, Contract!streams
<1>2. WInv /\ (Bridge \/ HostSends \/ Tick) => ContractStep
  BY QuietIsTransfer
     DEF Bridge, Transfer, ReadFails, ReadEnds, BridgeFrame, Fail, WInv,
         BridgeAgrees, HostSends, Tick
<1>3. QED
  BY <1>1, <1>2, CallerImplements, PollImplements DEF Next

\* The WiC64 backend does what network.h promises of every backend, for every
\* caller that obeys it and whatever the ESP does.
THEOREM ContractHolds == Spec => ImplementsContract
<1>1. Init => Contract!Init
  BY DEF Init, Contract!Init, Contract!streams
<1>2. WInv /\ WInv' /\ [Next]_vars => [Contract!Next]_(Contract!vars)
  BY NextImplements DEF ContractStep
<1>3. QED
  BY <1>1, <1>2, Invariance, PTL DEF Spec, ImplementsContract, Contract!Spec
=============================================================================
