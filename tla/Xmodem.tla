-------------------------------- MODULE Xmodem --------------------------------
(* The XMODEM receiver, src/core/xmodem.c, fed byte by byte from a line that   *)
(* loses and damages bytes, with a sender that starts, repeats and ends as it  *)
(* is told, and a caller that carries out the events: the receiver sends       *)
(* nothing and stores nothing itself.  Bytes are numbers, so that data, block  *)
(* numbers and what a disturbance leaves of a packet can be taken for control  *)
(* characters.                                                                 *)
(* The caller waits until the line is silent before it sends a NAK, calls      *)
(* xmodem_timeout() only then, and never while a block waits to be accepted.   *)
EXTENDS Crc, SequencesExt

CONSTANTS
  BLOCK_SIZE, BLOCK_1K_SIZE, \* data bytes of a packet (128 and 1024)
  MAX_ERRORS,                \* 10
  CRC_RETRIES,               \* 3
  File,      \* what the sender sends: sequences of one of the two sizes
  Bases,     \* the numbers of blocks received before the model begins
  Noise,     \* what a damaged byte may become
  MaxFaults, \* bound: bytes lost or damaged
  MaxLost,   \* bound: answers lost
  MaxReplies \* bound: answers the sender is late with

SOH == 1
STX == 2
EOT == 4
CAN == 24
Byte == 0..255

ASSUME SizesAssumption ==
  BLOCK_SIZE \in Nat \ {0} /\ BLOCK_1K_SIZE \in Nat \ {0, BLOCK_SIZE}
ASSUME LimitsAssumption == MAX_ERRORS \in 1..255 /\ CRC_RETRIES \in Nat
ASSUME FileAssumption ==
  /\ File \in Seq(Seq(Byte))
  /\ \A i \in 1..Len(File) : Len(File[i]) \in {BLOCK_SIZE, BLOCK_1K_SIZE}
ASSUME BoundsAssumption ==
  /\ Bases \subseteq Nat /\ Noise \subseteq Byte
  /\ MaxFaults \in Nat /\ MaxLost \in Nat /\ MaxReplies \in Nat

VARIABLES
  rx,      \* struct xmodem_receiver
  event,   \* what its last call returned and the caller has not yet done
  buffer,  \* what was stored of the current block
  saved,   \* the blocks the caller has saved
  outcome, \* "OPEN", or the event that ended the transfer
  line,    \* bytes on their way to the receiver,
  replies, \* and answers on their way to the sender
  sender,  \* the block it sends, how it checks them, and whether it goes on
  faults, lost

callerVars == <<saved, outcome>>
disturbed == <<faults, lost>>
wire == <<line, replies, sender>>
vars == <<rx, event, buffer, callerVars, wire, disturbed>>

-----------------------------------------------------------------------------
(* xmodem_init and xmodem_select_checksum.                                   *)

ResetPacket(r) ==
  [r EXCEPT !.state = "WAITING", !.dataIndex = 0, !.crc = 0,
            !.receivedCrc = 0, !.checksum = 0]

NewReceiver ==
  ResetPacket([state |-> "WAITING", dataIndex |-> 0, crc |-> 0,
    receivedCrc |-> 0, checksum |-> 0, blockSize |-> BLOCK_SIZE,
    blocksReceived |-> 0, expectedBlock |-> 1, blockNumber |-> 0,
    checksumMode |-> FALSE, errors |-> 0, startupTimeouts |-> 0,
    modeLocked |-> FALSE, cancelCount |-> 0, eotSeen |-> FALSE])

SelectChecksum(r, mode) ==
  [r EXCEPT !.checksumMode = mode, !.startupTimeouts = 0, !.modeLocked = TRUE]

-----------------------------------------------------------------------------
(* xmodem_receive, by the state it is called in.                             *)

In(s) == rx.state = s

\* The receiver becomes r and the call returns e.
Returns(r, e) == rx' = r /\ event' = e

TooMany(errors) == errors >= MAX_ERRORS

PacketError ==
  LET r == [ResetPacket(rx) EXCEPT !.errors = @ + 1]
  IN Returns(r, IF TooMany(r.errors) THEN "ERROR" ELSE "SEND_NAK")

\* What comes before the switch: a CAN counts only between packets.
Cancels(v) ==
  /\ In("WAITING") /\ v = CAN
  /\ LET r == [rx EXCEPT !.cancelCount = @ + 1]
     IN IF r.cancelCount = 2 THEN Returns(ResetPacket(r), "CANCELLED")
        ELSE Returns(r, "NONE")

(* An EOT is believed at once.                                               *)
EndsAtOnce(v) ==
  /\ In("WAITING") /\ v = EOT
  /\ Returns([rx EXCEPT !.cancelCount = 0, !.eotSeen = TRUE], "COMPLETE")

\* The end must be said twice.
Ends(v) ==
  /\ In("WAITING") /\ v = EOT
  /\ Returns([rx EXCEPT !.cancelCount = 0, !.eotSeen = TRUE],
             IF rx.eotSeen THEN "COMPLETE" ELSE "SEND_NAK")

Begins(v) ==
  /\ In("WAITING") /\ v \in {SOH, STX}
  /\ Returns([rx EXCEPT !.cancelCount = 0, !.eotSeen = FALSE,
                !.state = "BLOCK_NUMBER",
                !.blockSize = IF v = STX THEN BLOCK_1K_SIZE ELSE BLOCK_SIZE],
             "NONE")

Skips(v) ==
  /\ In("WAITING") /\ v \notin {CAN, EOT, SOH, STX}
  /\ Returns([rx EXCEPT !.cancelCount = 0], "NONE")

InBlockNumber(v) ==
  /\ In("BLOCK_NUMBER")
  /\ Returns([rx EXCEPT !.blockNumber = v, !.state = "COMPLEMENT"], "NONE")

InComplement(v) ==
  /\ In("COMPLEMENT")
  /\ IF (rx.blockNumber + v) % 256 # 255 THEN PacketError
     ELSE Returns([rx EXCEPT !.dataIndex = 0, !.crc = 0, !.state = "DATA"],
                  "NONE")

(* The end of the data is looked for before the byte is counted.             *)
InDataLate(v) ==
  /\ In("DATA")
  /\ buffer' = Append(SubSeq(buffer, 1, rx.dataIndex), v)
  /\ Returns([rx EXCEPT !.dataIndex = @ + 1, !.crc = crc_add(@, v),
                !.checksum = (@ + v) % 256,
                !.state = IF rx.dataIndex # rx.blockSize THEN "DATA"
                          ELSE IF rx.checksumMode THEN "CHECKSUM"
                          ELSE "CRC_HIGH"],
             "NONE")

InData(v) ==
  /\ In("DATA")
  /\ buffer' = Append(SubSeq(buffer, 1, rx.dataIndex), v)
  /\ Returns([rx EXCEPT !.dataIndex = @ + 1, !.crc = crc_add(@, v),
                !.checksum = (@ + v) % 256,
                !.state = IF rx.dataIndex + 1 # rx.blockSize THEN "DATA"
                          ELSE IF rx.checksumMode THEN "CHECKSUM"
                          ELSE "CRC_HIGH"],
             "NONE")

\* A packet is whole: it repeats the last block, is the next one, or neither.
Whole(r) ==
  \/ /\ r.blockNumber = (r.expectedBlock - 1) % 256
     /\ Returns(ResetPacket(r), "SEND_ACK")
  \/ /\ r.blockNumber \notin {r.expectedBlock, (r.expectedBlock - 1) % 256}
     /\ PacketError
  \/ /\ r.blockNumber = r.expectedBlock
     /\ Returns([r EXCEPT !.state = "BLOCK_READY"], "BLOCK_READY")

InChecksum(v) ==
  /\ In("CHECKSUM")
  /\ IF v # rx.checksum THEN PacketError ELSE Whole(rx)

InCrcHigh(v) ==
  /\ In("CRC_HIGH")
  /\ Returns([rx EXCEPT !.receivedCrc = v * 256, !.state = "CRC_LOW"], "NONE")

(* A whole packet is the next block, whatever its number.                    *)
InCrcLowAnyNumber(v) ==
  /\ In("CRC_LOW")
  /\ IF rx.receivedCrc + v # rx.crc THEN PacketError
     ELSE Returns([rx EXCEPT !.state = "BLOCK_READY", !.receivedCrc = @ + v],
                  "BLOCK_READY")

InCrcLow(v) ==
  /\ In("CRC_LOW")
  /\ LET r == [rx EXCEPT !.receivedCrc = @ + v]
     IN IF r.receivedCrc # r.crc THEN PacketError ELSE Whole(r)

\* What comes while a block waits is lost; that the block waits is not.
InBlockReady == In("BLOCK_READY") /\ UNCHANGED <<rx, event>>

Receive(v) ==
  \/ /\ \/ Cancels(v) \/ Ends(v) \/ Begins(v) \/ Skips(v)
        \/ InBlockNumber(v) \/ InComplement(v)
        \/ InChecksum(v) \/ InCrcHigh(v) \/ InCrcLow(v) \/ InBlockReady
     /\ UNCHANGED buffer
  \/ InData(v)

-----------------------------------------------------------------------------
(* The caller.                                                               *)

Open == outcome = "OPEN"

\* xmodem_accept_block, once the block has been saved.
Save ==
  /\ event = "BLOCK_READY"
  /\ saved' = Append(saved, SubSeq(buffer, 1, rx.blockSize))
  /\ rx' = ResetPacket([rx EXCEPT !.expectedBlock = (@ + 1) % 256,
                          !.blocksReceived = @ + 1, !.errors = 0])
  /\ event' = "SEND_ACK"
  /\ UNCHANGED <<buffer, outcome, wire, disturbed>>

Say ==
  /\ event \in {"SEND_C", "SEND_ACK", "SEND_NAK"}
  /\ replies' = IF sender.active THEN Append(replies, event) ELSE replies
  /\ line' = IF event = "SEND_NAK" THEN <<>> ELSE line
  /\ event' = "NONE"
  /\ UNCHANGED <<rx, buffer, callerVars, sender, disturbed>>

Finish ==
  /\ Open /\ event \in {"COMPLETE", "CANCELLED", "ERROR"}
  /\ outcome' = event
  /\ UNCHANGED <<rx, event, buffer, saved, wire, disturbed>>

Startup == rx.blocksReceived = 0

(* A time without an answer is no error.                                     *)
TimeoutNoError ==
  /\ Open /\ event = "NONE" /\ line = <<>> /\ Len(replies) < MaxReplies
  /\ ~In("BLOCK_READY")
  /\ Returns(ResetPacket(rx), "SEND_NAK")
  /\ UNCHANGED <<buffer, callerVars, wire, disturbed>>

\* xmodem_timeout: before the first block the kind of check is asked for.
Timeout ==
  /\ Open /\ event = "NONE" /\ line = <<>> /\ Len(replies) < MaxReplies
  /\ ~In("BLOCK_READY")
  /\ LET r == [ResetPacket(rx) EXCEPT !.errors = @ + 1]
         s == [r EXCEPT !.startupTimeouts = @ + 1]
         gaveUp == ~s.modeLocked /\ s.startupTimeouts >= CRC_RETRIES
         c == [s EXCEPT !.checksumMode = @ \/ gaveUp]
     IN \/ TooMany(r.errors) /\ Returns(r, "ERROR")
        \/ ~TooMany(r.errors) /\ ~Startup /\ Returns(r, "SEND_NAK")
        \/ /\ ~TooMany(r.errors) /\ Startup
           /\ Returns(c, IF gaveUp \/ (c.modeLocked /\ c.checksumMode)
                         THEN "SEND_NAK" ELSE "SEND_C")
  /\ UNCHANGED <<buffer, callerVars, wire, disturbed>>

-----------------------------------------------------------------------------
(* The line and the sender.                                                  *)

Listening ==
  Open /\ line # <<>> /\ (event = "NONE" \/ In("BLOCK_READY"))

Deliver ==
  /\ Listening
  /\ Receive(Head(line))
  /\ line' = Tail(line)
  /\ UNCHANGED <<callerVars, replies, sender, disturbed>>

Fault == Listening /\ faults < MaxFaults /\ faults' = faults + 1

Damage ==
  /\ Fault
  /\ \E v \in Noise \ {Head(line)} : Receive(v)
  /\ line' = Tail(line)
  /\ UNCHANGED <<callerVars, replies, sender, lost>>

Lose ==
  /\ Fault
  /\ line' = Tail(line)
  /\ UNCHANGED <<rx, event, buffer, callerVars, replies, sender, lost>>

LoseAnswer ==
  /\ Open /\ replies # <<>> /\ lost < MaxLost
  /\ lost' = lost + 1
  /\ replies' = Tail(replies)
  /\ UNCHANGED <<rx, event, buffer, callerVars, line, sender, faults>>

CheckBytes(data, check) ==
  LET sum[n \in 0..Len(data)] ==
        IF n = 0 THEN 0 ELSE (sum[n - 1] + data[n]) % 256
      crc == xmodem_crc16(data)
  IN IF check = "SUM" THEN <<sum[Len(data)]>> ELSE <<crc \div 256, crc % 256>>

Packet(i, check, base) ==
  LET number == (base + i) % 256
  IN <<IF Len(File[i]) = BLOCK_SIZE THEN SOH ELSE STX, number, 255 - number>>
       \o File[i] \o CheckBytes(File[i], check)

\* The sender sends what its state s asks for; after the last block, EOT.
Sends(s) ==
  /\ sender' = s
  /\ line' = line \o (IF s.block > Len(File) THEN <<EOT>>
                      ELSE Packet(s.block, s.check, s.base))

SenderHears ==
  /\ Open /\ sender.active /\ replies # <<>>
  /\ replies' = Tail(replies)
  /\ UNCHANGED <<rx, event, buffer, callerVars, disturbed>>

\* A C asks for a CRC, and a NAK for a checksum of a sender that has not been
\* asked for another check before.  A receiver that has acknowledged a block
\* asks for neither, and acknowledges only blocks.
HearsC ==
  /\ SenderHears /\ Head(replies) = "SEND_C"
  /\ Sends([sender EXCEPT !.check = "CRC"])

HearsNak ==
  /\ SenderHears /\ Head(replies) = "SEND_NAK"
  /\ Sends([sender EXCEPT !.check = IF @ = "NONE" THEN "SUM" ELSE @])

HearsAck ==
  /\ SenderHears /\ Head(replies) = "SEND_ACK"
  /\ Sends([sender EXCEPT !.block = @ + 1])

SenderCancels ==
  /\ Open /\ sender.active
  /\ sender' = [sender EXCEPT !.active = FALSE]
  /\ line' = line \o <<CAN, CAN>> /\ replies' = <<>>
  /\ UNCHANGED <<rx, event, buffer, callerVars, disturbed>>

-----------------------------------------------------------------------------
\* The sender numbers its blocks as the receiver expects, or is one ahead.
Init ==
  /\ \E base \in Bases :
       /\ LET new == [NewReceiver EXCEPT !.blocksReceived = base,
                        !.expectedBlock = (base + 1) % 256]
          IN rx \in {new, SelectChecksum(new, TRUE), SelectChecksum(new, FALSE)}
       /\ \E first \in {base, base + 1} :
            sender = [block |-> 1, check |-> "NONE", active |-> TRUE,
                      base |-> first]
  /\ event = "NONE" /\ buffer = <<>> /\ saved = <<>> /\ outcome = "OPEN"
  /\ line = <<>> /\ replies = <<>> /\ faults = 0 /\ lost = 0

Caller == Save \/ Say \/ Finish \/ Timeout

Sender == HearsC \/ HearsNak \/ HearsAck

Next ==
  Caller \/ Deliver \/ Damage \/ Lose \/ LoseAnswer \/ Sender \/ SenderCancels

\* The line delivers, and the caller carries out events and watches the time.
Fairness == WF_vars(Caller) /\ WF_vars(Deliver) /\ WF_vars(Sender)

Spec == Init /\ [][Next]_vars /\ Fairness

-----------------------------------------------------------------------------
(* Properties.                                                               *)

\* Every field has its type and the current block stays in its buffer.
TypeOK ==
  /\ rx.state \in {"WAITING", "BLOCK_NUMBER", "COMPLEMENT", "DATA",
                   "CRC_HIGH", "CRC_LOW", "BLOCK_READY", "CHECKSUM"}
  /\ rx.blockSize \in {BLOCK_SIZE, BLOCK_1K_SIZE}
  /\ rx.dataIndex \in 0..rx.blockSize
  /\ In("DATA") => rx.dataIndex < rx.blockSize /\ Len(buffer) >= rx.dataIndex
  /\ {rx.crc, rx.receivedCrc} \subseteq Word
  /\ {rx.expectedBlock, rx.blockNumber, rx.checksum, rx.cancelCount,
      rx.errors, rx.startupTimeouts} \subseteq Byte
  /\ rx.blocksReceived \in Nat
  /\ event \in {"NONE", "BLOCK_READY", "SEND_C", "SEND_ACK", "SEND_NAK",
                "COMPLETE", "CANCELLED", "ERROR"}
  /\ line \in Seq(Byte) /\ outcome \in {"OPEN", "COMPLETE", "CANCELLED", "ERROR"}

\* The CRC of a packet is that of the data stored, as polynomial division
\* defines it, at every byte.
CrcOfStored ==
  rx.state \in {"DATA", "CHECKSUM", "CRC_HIGH", "CRC_LOW", "BLOCK_READY"} =>
    rx.crc = Remainder(SubSeq(buffer, 1, rx.dataIndex))

\* What is saved is the file from its beginning, no block twice, left out or
\* damaged, whatever is lost or repeated; and when the transfer is complete it
\* is the whole file.
SavedIsFile ==
  /\ IsPrefix(saved, File)
  /\ outcome = "COMPLETE" => saved = File

\* A transfer ends, with success or not, when the sender falls silent too.
TransferEnds == <>(outcome # "OPEN")
=============================================================================
