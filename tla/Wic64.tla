-------------------------------- MODULE Wic64 --------------------------------
(* The WiC64 backend, src/net/wic64/backend.c, with the mailbox bridge it      *)
(* calls, bridge.asm: every command is one blocking transfer over the user     *)
(* port, which succeeds or not, so that only a read takes several steps.       *)
(* Data is asked for no sooner than available_after, compared in 16 bits with  *)
(* a clock that wraps around and that the KERNAL sets to zero at midnight: as  *)
(* only their difference is ever looked at, it is the variable `remaining'.    *)
(* The caller obeys network.h as in module Ultimate, whose positions of the    *)
(* two byte streams are used here too.                                         *)
EXTENDS Integers

CONSTANTS
  PAGE,         \* bytes per transfer (256)
  PAGES,        \* pages of the receive mailbox (32)
  DISCARD,      \* bytes per transfer when the mailbox is full (128)
  TX,           \* bytes of the transmit mailbox used (256)
  SETTLE,       \* ticks before the first query of a connection (30)
  RETRY,        \* ticks before a failed query is repeated (6)
  IDLE,         \* WIC64_IDLE_POLL_TICKS (6)
  MAX_FAILURES, \* queries that may fail in a row (10)
  TICKS,        \* the clock counts modulo this (65536)
  DAY,          \* what platform_ticks() returns last before midnight (6656)
  MaxGap,       \* bound: ticks the caller takes to read all and poll again
  MaxTx, MaxRx  \* bound of the model: bytes sent and received per connection

ASSUME SizesAssumption ==
  /\ PAGE \in Nat \ {0} /\ PAGES \in Nat \ {0}
  /\ DISCARD \in 1..PAGE /\ TX \in Nat \ {0} /\ MAX_FAILURES \in Nat
  /\ MaxTx \in Nat /\ MaxRx \in Nat
ASSUME ClockAssumption ==
  /\ RETRY \in Nat /\ IDLE \in Nat
  /\ SETTLE \in Nat \ {0} /\ MaxGap \in Nat \ {0}
  /\ RETRY <= SETTLE /\ IDLE <= SETTLE
  /\ TICKS \in Nat /\ DAY \in Nat
  /\ 2 * (DAY + SETTLE + MaxGap) < TICKS

\* The bytes of the receive mailbox.
Mailbox == PAGE * PAGES

VARIABLES
  connection, deviceReady,
  rxLength, rxOffset,
  remaining,        \* (available_after - ticks) % TICKS
  availableFailures,
  reading, transferSize, bridgeCopied, truncated,   \* bridge_read
  open,             \* whether the ESP holds a socket,
  arrived, waiting, \* bytes for this connection, and those not yet read
  unpolled,         \* ticks since the caller had read all and polled
  quiet,            \* ticks since the ESP was last asked for data
  midnight,         \* the clock was set to zero since then
  accepted, written, fetched, consumed, booted, closeAsked

rxVars == <<rxLength, rxOffset>>
deadline == <<remaining, availableFailures>>
bridge == <<reading, transferSize, bridgeCopied, truncated>>
firmware == <<open, arrived, waiting>>
clock == <<unpolled, quiet, midnight>>
caller == <<booted, closeAsked>>
vars == <<connection, deviceReady, rxVars, deadline, bridge, firmware, clock,
          accepted, written, fetched, consumed, caller>>

-----------------------------------------------------------------------------
\* available_after is set to the present time and t ticks.
In(t) == remaining' = t % TICKS

Fail == connection' = "FAILED"

EmptyBuffer == rxLength' = 0 /\ rxOffset' = 0

\* A close command of the bridge: a failure says nothing of the socket.
Closes == open' = FALSE /\ waiting' = 0
CloseFails == Closes \/ UNCHANGED <<open, waiting>>

Initialize ==
  /\ \/ connection' = "CLOSED" /\ deviceReady' = TRUE
     \/ Fail /\ deviceReady' = FALSE
  /\ EmptyBuffer
  /\ availableFailures' = 0
  /\ booted' = TRUE /\ closeAsked' = FALSE
  /\ UNCHANGED <<remaining, bridge, firmware, clock, accepted, written,
                 fetched, consumed>>

(* The new socket is opened over the old one.                                *)
NewSocketOverOld ==
  open' = TRUE /\ waiting' = (IF open THEN waiting ELSE 0)

\* The socket of an earlier session outlives it; it is closed first.
NewSocket == open' = TRUE /\ waiting' = 0

Connects ==
  /\ NewSocket
  /\ connection' = "CONNECTED"
  /\ EmptyBuffer
  /\ In(SETTLE)
  /\ availableFailures' = 0
  /\ unpolled' = 0 /\ quiet' = 0 /\ midnight' = FALSE

ConnectFails ==
  /\ Fail
  /\ \/ CloseFails /\ UNCHANGED rxVars
     \/ (Closes \/ NewSocket) /\ EmptyBuffer
  /\ UNCHANGED <<deadline, clock>>

Connect ==
  /\ connection = "CLOSED"
  /\ Connects \/ ConnectFails
  /\ closeAsked' = FALSE
  /\ arrived' = 0
  /\ accepted' = 0 /\ written' = 0 /\ fetched' = 0 /\ consumed' = 0
  /\ UNCHANGED <<deviceReady, bridge, booted>>

Receive(capacity) ==
  LET held == rxLength - rxOffset
      n == IF held > capacity THEN capacity ELSE held
  IN /\ n > 0
     /\ rxOffset' = rxOffset + n
     /\ consumed' = consumed + n
     /\ UNCHANGED <<connection, deviceReady, rxLength, deadline, bridge,
                    firmware, clock, accepted, written, fetched,
                    caller>>

(* A failed write is tried again on the same connection.                     *)
TransmitTriedAgain(length) ==
  /\ connection = "CONNECTED"
  /\ accepted + length <= MaxTx
  /\ LET n == IF length > TX THEN TX ELSE length
     IN \/ /\ accepted' = accepted + n /\ written' = written + n
           /\ In(0)
        \/ /\ written' \in {written, written + n}
           /\ UNCHANGED <<accepted, remaining>>
  /\ UNCHANGED <<connection, deviceReady, rxVars, availableFailures, bridge,
                 firmware, clock, fetched, consumed, caller>>

\* A write that failed may have been carried out.
Transmit(length) ==
  /\ connection = "CONNECTED"
  /\ accepted + length <= MaxTx
  /\ LET n == IF length > TX THEN TX ELSE length
     IN \/ /\ accepted' = accepted + n /\ written' = written + n
           /\ In(0)
           /\ UNCHANGED connection
        \/ /\ Fail
           /\ written' \in {written, written + n}
           /\ UNCHANGED <<accepted, remaining>>
  /\ UNCHANGED <<deviceReady, rxVars, availableFailures, bridge, firmware,
                 clock, fetched, consumed, caller>>

\* The result of the bridge is not looked at.
Close ==
  /\ closeAsked' = TRUE
  /\ connection' = "CLOSED"
  /\ IF connection = "CLOSED" THEN UNCHANGED <<rxVars, open, waiting>>
     ELSE /\ EmptyBuffer
          /\ IF deviceReady THEN CloseFails ELSE UNCHANGED <<open, waiting>>
  /\ UNCHANGED <<deviceReady, deadline, bridge, arrived, clock, accepted,
                 written, fetched, consumed, booted>>

-----------------------------------------------------------------------------
(* poll().                                                                   *)

(* The time must be the one that was set.                                    *)
DueExactly == remaining = 0

\* (int16_t)(ticks - available_after) >= 0
Due == remaining = 0 \/ 2 * remaining >= TICKS

Asks ==
  /\ connection = "CONNECTED" /\ rxOffset = rxLength /\ ~reading /\ Due
  /\ unpolled' = 0 /\ quiet' = 0 /\ midnight' = FALSE
  /\ UNCHANGED <<deviceReady, accepted, written, consumed, caller>>

PollNotDue ==
  /\ connection = "CONNECTED" /\ rxOffset = rxLength /\ ~reading /\ ~Due
  /\ unpolled' = 0
  /\ UNCHANGED <<connection, deviceReady, rxVars, deadline, bridge, firmware,
                 quiet, midnight, accepted, written, fetched, consumed, caller>>

(* Failures are not counted.                                                 *)
PollQueryFailsForEver ==
  /\ Asks
  /\ In(RETRY)
  /\ UNCHANGED <<connection, availableFailures, rxVars, bridge, firmware,
                 fetched>>

PollQueryFails ==
  /\ Asks
  /\ In(RETRY)
  /\ availableFailures' = availableFailures + 1
  /\ IF availableFailures' <= MAX_FAILURES THEN UNCHANGED connection ELSE Fail
  /\ UNCHANGED <<rxVars, bridge, firmware, fetched>>

PollNothing ==
  /\ Asks
  /\ waiting = 0
  /\ In(IDLE)
  /\ availableFailures' = 0
  /\ UNCHANGED <<connection, rxVars, bridge, firmware, fetched>>

\* The response to the read has `size' bytes.
PollRead ==
  /\ Asks
  /\ \E size \in 1..waiting :
       /\ transferSize' = size
       /\ waiting' = waiting - size /\ fetched' = fetched + size
  /\ reading' = TRUE
  /\ UNCHANGED <<connection, rxVars, deadline, bridgeCopied, truncated, open,
                 arrived>>

\* bridge_read clears its counts when it begins; here, when it ends.
BridgeEnds ==
  /\ reading' = FALSE
  /\ transferSize' = 0 /\ bridgeCopied' = 0 /\ truncated' = FALSE

BridgeFrame ==
  /\ reading
  /\ UNCHANGED <<deviceReady, firmware, clock, accepted, written,
                 fetched, consumed, caller>>

(* The mailbox has room for one more page.                                   *)
RoomForOneMore == bridgeCopied \div PAGE <= PAGES

\* The high byte of bridge_copied is compared with 32.
Room == bridgeCopied \div PAGE < PAGES

Transfer ==
  /\ BridgeFrame
  /\ transferSize > 0
  /\ IF Room
     THEN LET n == IF transferSize >= PAGE THEN PAGE ELSE transferSize
          IN /\ transferSize' = transferSize - n
             /\ bridgeCopied' = bridgeCopied + n
             /\ UNCHANGED truncated
     ELSE LET n == IF transferSize >= DISCARD THEN DISCARD ELSE transferSize
          IN /\ transferSize' = transferSize - n
             /\ truncated' = TRUE
             /\ UNCHANGED bridgeCopied
  /\ UNCHANGED <<connection, rxVars, deadline, reading>>

\* The read is refused or times out, or its response did not fit.
ReadFails ==
  /\ BridgeFrame
  /\ transferSize = 0 => truncated
  /\ Fail /\ BridgeEnds
  /\ UNCHANGED <<rxVars, deadline>>

(* A truncated response is taken for a whole one.                            *)
ReadEndsTruncated ==
  /\ BridgeFrame
  /\ transferSize = 0
  /\ BridgeEnds
  /\ rxLength' = bridgeCopied /\ rxOffset' = 0
  /\ availableFailures' = 0 /\ In(IDLE)
  /\ UNCHANGED connection

ReadEnds ==
  /\ BridgeFrame
  /\ transferSize = 0 /\ ~truncated
  /\ BridgeEnds
  /\ rxLength' = bridgeCopied /\ rxOffset' = 0
  /\ availableFailures' = 0 /\ In(IDLE)
  /\ UNCHANGED connection

Poll == PollNotDue \/ PollQueryFails \/ PollNothing \/ PollRead

Bridge == Transfer \/ ReadFails \/ ReadEnds

-----------------------------------------------------------------------------
(* The host and the clock.                                                   *)

HostSends ==
  /\ open /\ ~reading /\ arrived < MaxRx /\ waiting < MaxRx
  /\ arrived' = arrived + 1 /\ waiting' = waiting + 1
  /\ UNCHANGED <<connection, deviceReady, rxVars, deadline, bridge, open,
                 clock, accepted, written, fetched, consumed, caller>>

\* Only a connected backend looks at the clock.  At midnight it goes back from
\* DAY to zero.
Tick ==
  /\ connection = "CONNECTED" /\ ~reading
  /\ unpolled < MaxGap
  /\ unpolled' = unpolled + 1 /\ quiet' = quiet + 1
  /\ \/ remaining' = (remaining - 1) % TICKS /\ UNCHANGED midnight
     \/ /\ ~midnight /\ midnight' = TRUE
        /\ remaining' = (remaining + DAY) % TICKS
  /\ UNCHANGED <<connection, deviceReady, rxVars, availableFailures, bridge,
                 firmware, accepted, written, fetched, consumed, caller>>

-----------------------------------------------------------------------------
Init ==
  /\ connection = "CLOSED" /\ deviceReady = FALSE
  /\ rxLength = 0 /\ rxOffset = 0
  /\ remaining = 0 /\ availableFailures = 0
  /\ reading = FALSE /\ transferSize = 0 /\ bridgeCopied = 0
  /\ truncated = FALSE
  /\ open = FALSE /\ arrived = 0 /\ waiting = 0
  /\ unpolled = 0 /\ quiet = 0 /\ midnight = FALSE
  /\ accepted = 0 /\ written = 0 /\ fetched = 0 /\ consumed = 0
  /\ booted = FALSE /\ closeAsked = FALSE

Caller ==
  /\ ~reading
  /\ \/ (booted => closeAsked) /\ Initialize
     \/ booted /\ (Connect \/ Close)
     \/ connection = "CONNECTED" /\ \E n \in 1..MaxRx : Receive(n)
     \/ \E n \in 1..MaxTx : Transmit(n)

Next == Caller \/ Poll \/ Bridge \/ HostSends \/ Tick

\* The terminal loop polls and reads again and again, and time passes.
Fairness ==
  /\ WF_vars(Poll) /\ WF_vars(Bridge) /\ WF_vars(Tick)
  /\ WF_vars(\E n \in 1..MaxRx : Receive(n))

Spec == Init /\ [][Next]_vars /\ Fairness

-----------------------------------------------------------------------------
(* Properties.                                                               *)

\* Every variable has its type, and the receive buffer stays in its mailbox.
FlagTypeOK ==
  /\ deviceReady \in BOOLEAN /\ reading \in BOOLEAN /\ truncated \in BOOLEAN
  /\ open \in BOOLEAN /\ midnight \in BOOLEAN
  /\ booted \in BOOLEAN /\ closeAsked \in BOOLEAN
BufferTypeOK ==
  /\ rxOffset \in 0..rxLength /\ rxLength \in 0..Mailbox
  /\ bridgeCopied \in 0..Mailbox /\ transferSize \in Nat
ClockTypeOK ==
  /\ connection \in {"CLOSED", "CONNECTED", "FAILED"}
  /\ availableFailures \in 0..MAX_FAILURES+1 /\ remaining \in 0..TICKS-1
  /\ unpolled \in 0..MaxGap /\ quiet \in Nat
StreamTypeOK ==
  /\ arrived \in Nat /\ waiting \in Nat
  /\ accepted \in Nat /\ written \in Nat /\ fetched \in Nat /\ consumed \in Nat

TypeOK == FlagTypeOK /\ BufferTypeOK /\ ClockTypeOK /\ StreamTypeOK

\* Every byte of every response reaches the caller of read(), once and in
\* order, or the connection fails: also when a response fills the mailbox
\* exactly or exceeds it.
ReceivedInOrder ==
  connection = "CONNECTED" /\ ~truncated =>
    consumed + (rxLength - rxOffset) + (bridgeCopied + transferSize) = fetched

\* What is read on a connection was sent on it: nothing the firmware still
\* holds from an earlier session, even one that failed or could not be closed.
OnlyThisConnection == connection = "CONNECTED" => fetched + waiting = arrived

\* A deadline that midnight finds is put off by DAY ticks, if it has passed
\* already by those since the last poll too.
PutOff == IF midnight THEN DAY + MaxGap ELSE 0

\* The ESP is asked for data at least every SETTLE + MaxGap ticks, through
\* every wrap of the clock, but for the deadline that midnight puts off.
AsksInTime == connection = "CONNECTED" => quiet < SETTLE + MaxGap + PutOff

\* The backend does what network.h promises.
Contract == INSTANCE NetContract
ImplementsContract == Contract!Spec

\* What the host has sent is read, or the connection fails or is closed.
DataIsRead ==
  waiting > 0 /\ connection = "CONNECTED" ~>
    consumed = arrived \/ connection # "CONNECTED"
=============================================================================
