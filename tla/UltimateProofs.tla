---------------------------- MODULE UltimateProofs ----------------------------
(* Proofs about the Ultimate backend, for every value of the constants and    *)
(* every caller that obeys network.h; and, in the last section, about the     *)
(* main screen and the session as one of these callers.                       *)
EXTENDS Program, TLAPS

-----------------------------------------------------------------------------
(* The inductive invariant: the properties SentInOrder and ReceivedInOrder  *)
(* with what relates the command in flight, the phase of the connection and *)
(* the buffers.                                                             *)

\* The interface follows the driver.
ChannelAgrees ==
  /\ ~booted => stage = "STOPPED"
  /\ iface = "idle" => request = NoRequest
  /\ iface = "answered" => request # NoRequest
  /\ stage = "BUSY" =>
       /\ iface # "aborting"
       /\ iface = "busy" => request # NoRequest /\ answer = NoAnswer

\* Each phase of the connection has its operations.
PhaseAgrees ==
  /\ connection = "INITIALIZING" =>
       operation \in {"RESET", "IDENTIFY", "ADDRESS"} /\ stalled < STALL_LIMIT
  /\ operation \in {"RESET", "IDENTIFY", "ADDRESS"} => ~haveSocket
  /\ connection = "CONNECTING" => operation = "OPEN"
  /\ connection = "CONNECTED" =>
       operation \in {"NONE", "READ_SOCKET", "WRITE_SOCKET"} /\ ~closing
  /\ connection \in {"CLOSED", "EOF", "FAILED"} /\ booted => operation = "NONE"
  /\ connection = "CLOSING" => closing
  /\ connection # "CLOSED" => booted
  /\ connection \in {"CONNECTED", "EOF"} /\ operation = "NONE" =>
       request = NoRequest

\* Until it is closed for the first time after init, a backend that is not yet
\* connected has empty buffers.
FreshAgrees ==
  /\ connection \in {"CLOSED", "INITIALIZING", "CONNECTING"} /\ ~closing =>
       txLength = 0 /\ txOffset = 0 /\ rxLength = 0 /\ rxOffset = 0
  /\ connection = "CONNECTING" =>
       accepted = 0 /\ written = 0 /\ fetched = 0 /\ consumed = 0

\* The transfer in flight is the one the buffers call for.
TransferAgrees ==
  connection = "CONNECTED" =>
    /\ operation = "WRITE_SOCKET" =>
         /\ txLength > 0
         /\ request # NoRequest =>
              /\ request.first = txFirst + txOffset
              /\ request.count = txLength - txOffset
    /\ operation = "READ_SOCKET" =>
         /\ rxOffset = rxLength
         /\ request # NoRequest => request.count = PAYLOAD
         /\ (/\ iface \in {"answered", "error"}
             /\ answer.code = "ok" /\ answer.n <= PAYLOAD) =>
              answer.first + answer.n = fetched

IInv ==
  /\ TypeOK /\ InFlight /\ ChannelAgrees /\ PhaseAgrees /\ FreshAgrees
  /\ TransferAgrees /\ SentInOrder /\ ReceivedInOrder
-----------------------------------------------------------------------------
(* The data types.                                                           *)

\* No command is not a command.
LEMMA NoRequestIsNone == NoRequest \notin Request /\ NoRequest.op = "NONE"
  BY DEF NoRequest, Request, Command, Commands

\* The two answers that are none cannot be mistaken for one.
LEMMA NoAnswerIsNone ==
  /\ NoAnswer \notin Answer /\ TooLong \notin Answer
  /\ NoAnswer.code = "none" /\ TooLong.code = "too long"
  BY DEF NoAnswer, TooLong, Answer, Reply, Codes

\* A command is made of what it is made from.
LEMMA CommandType ==
  ASSUME NEW op \in Commands, NEW s \in Socket \cup {NoSocket},
         NEW first \in Nat, NEW count \in Nat
  PROVE  /\ Command(op, s, first, count) \in Request
         /\ Command(op, s, first, count) # NoRequest
         /\ Command(op, s, first, count).op = op
         /\ Command(op, s, first, count).first = first
         /\ Command(op, s, first, count).count = count
  BY DEF Command, Request, Commands, NoRequest

\* A reply is made of what it is made from.
LEMMA ReplyType ==
  ASSUME NEW code \in Codes, NEW s \in Socket \cup {NoSocket},
         NEW first \in Nat, NEW n \in Nat
  PROVE  /\ Reply(code, s, first, n) \in Answer
         /\ Reply(code, s, first, n).code = code
         /\ Reply(code, s, first, n).socket = s
         /\ Reply(code, s, first, n).first = first
         /\ Reply(code, s, first, n).n = n
  BY DEF Reply, Answer, Codes

\* An answer with a code has the fields of a reply.
LEMMA AnswerFields ==
  ASSUME TypeOK, answer.code \in Codes
  PROVE  /\ answer \in Answer
         /\ answer.socket \in Socket \cup {NoSocket}
         /\ answer.first \in Nat /\ answer.n \in Nat
<1>1. answer \in Answer
  BY NoAnswerIsNone DEF TypeOK, ChanTypeOK, Codes
<1>2. QED
  BY <1>1 DEF Answer

\* A command the firmware knows has the fields of a command.
LEMMA RequestFields ==
  ASSUME TypeOK, request # NoRequest
  PROVE  /\ request \in Request
         /\ request.op \in Commands /\ request.socket \in Socket \cup {NoSocket}
         /\ request.first \in Nat /\ request.count \in Nat
<1>1. request \in Request
  BY DEF TypeOK, ChanTypeOK
<1>2. QED
  BY <1>1 DEF Request

-----------------------------------------------------------------------------
(* What the driver's calls do to the channel.                                *)

\* The command op is issued; an absent interface takes no notice of it.
Issued(op, first, count) ==
  /\ operation' = op
  /\ stage' = "BUSY" /\ expired' = FALSE /\ present' = present
  /\ answer' = NoAnswer
  /\ \/ /\ iface' = "busy"
        /\ request' \in Request /\ request' # NoRequest
        /\ request'.op = op /\ request'.first = first /\ request'.count = count
     \/ iface' = "idle" /\ request' = NoRequest

\* The channel is idle and no operation is in progress.
Stopped ==
  /\ stage' = "STOPPED" /\ expired' = FALSE /\ present' = present
  /\ iface' = "idle" /\ request' = NoRequest /\ answer' = NoAnswer

\* Pushing a command to the channel issues it.
LEMMA PushIssues ==
  ASSUME NEW op \in Commands, NEW s \in Socket \cup {NoSocket},
         NEW first \in Nat, NEW count \in Nat,
         Push(Command(op, s, first, count)), operation' = op
  PROVE  Issued(op, first, count)
  BY CommandType DEF Push, Issued

\* start() issues its command, or fails and leaves the channel alone.
LEMMA StartIssues ==
  ASSUME NEW op \in Commands, NEW s \in Socket \cup {NoSocket},
         NEW first \in Nat, NEW count \in Nat, NEW next,
         Start(Command(op, s, first, count), next)
  PROVE  \/ Issued(op, first, count) /\ connection' = next
         \/ Failure /\ UNCHANGED channel
<1>1. Command(op, s, first, count).op = op
  BY CommandType
<1>2. QED
  BY <1>1, PushIssues DEF Start, UciStart

\* start() at the end of a command issues the next one.
LEMMA StartNextIssues ==
  ASSUME NEW op \in Commands, NEW s \in Socket \cup {NoSocket},
         NEW first \in Nat, NEW count \in Nat,
         StartNext(Command(op, s, first, count))
  PROVE  Issued(op, first, count) /\ UciFinished
<1>1. /\ Command(op, s, first, count).op = op
      /\ Command(op, s, first, count) # NoRequest
  BY CommandType
<1>2. QED
  BY <1>1, PushIssues DEF StartNext, UciDone

\* A command that is the last one leaves the channel stopped.
LEMMA CompleteStops ==
  ASSUME Complete PROVE Stopped /\ operation' = "NONE" /\ UciFinished
  BY DEF Complete, UciDone, Stopped

\* start_close() with no command in progress: the socket is being closed, the
\* call is refused, or there is nothing to close.
LEMMA CloseIdleIssues ==
  ASSUME TypeOK, StartCloseIdle
  PROVE  /\ txLength' = 0 /\ rxLength' = 0
         /\ UNCHANGED <<txOffset, txFirst, txLate, rxOffset, rxFirst>>
         /\ \/ Issued("CLOSE_SOCKET", 0, 0) /\ connection' = "CLOSING"
            \/ Failure /\ UNCHANGED channel
            \/ connection' = "CLOSED" /\ operation' = "NONE"
               /\ UNCHANGED channel
<1>1. CASE haveSocket
  BY <1>1, StartIssues
     DEF StartCloseIdle, CloseRequest, Commands, TypeOK, SocketTypeOK
<1>2. CASE ~haveSocket
  BY <1>2 DEF StartCloseIdle
<1>3. QED
  BY <1>1, <1>2

\* start_close() at the end of a command: as above, and never refused.
LEMMA CloseNextIssues ==
  ASSUME NEW cstate, NEW have \in BOOLEAN, NEW s \in Socket \cup {NoSocket},
         StartCloseNext(cstate, have, s)
  PROVE  /\ txLength' = 0 /\ rxLength' = 0 /\ UciFinished
         /\ \/ have /\ Issued("CLOSE_SOCKET", 0, 0) /\ connection' = cstate
            \/ ~have /\ Stopped /\ operation' = "NONE" /\ connection' = "CLOSED"
<1>1. CASE have
  BY <1>1, StartNextIssues DEF StartCloseNext, CloseRequest, Commands
<1>2. CASE ~have
  BY <1>2, CompleteStops DEF StartCloseNext
<1>3. QED
  BY <1>1, <1>2

\* The two ways out of the switch of completed().
LEMMA EndOfSwitch ==
  ASSUME NEW cstate, NEW have \in BOOLEAN, NEW s \in Socket \cup {NoSocket},
         NEW txl, NEW rxl, TypeOK,
         ThenCloseIfAsked(cstate, have, s, txl, rxl)
  PROVE  /\ haveSocket' = have /\ socketId' = s /\ UciFinished
         /\ UNCHANGED <<closing, txFirst, txLate>>
         /\ \/ /\ closing /\ txLength' = 0 /\ rxLength' = 0
               /\ \/ have /\ Issued("CLOSE_SOCKET", 0, 0)
                     /\ connection' = cstate
                  \/ /\ ~have /\ Stopped /\ operation' = "NONE"
                     /\ connection' = "CLOSED"
            \/ /\ ~closing /\ Stopped /\ operation' = "NONE"
               /\ connection' = cstate /\ txLength' = txl /\ rxLength' = rxl
<1>1. CASE closing
  BY <1>1, CloseNextIssues DEF ThenCloseIfAsked
<1>2. CASE ~closing
  BY <1>2, CompleteStops DEF ThenCloseIfAsked
<1>3. QED
  BY <1>1, <1>2 DEF TypeOK, ConnectionTypeOK

\* A command that is done was in the firmware's hands, and is the operation.
LEMMA FinishedCommand ==
  ASSUME IInv, booted, operation \in Commands, UciFinished
  PROVE  /\ stage = "BUSY" /\ iface = "answered"
         /\ request # NoRequest /\ request.op = operation
  BY DEF IInv, InFlight, UciFinished, Commands

\* The firmware answers a command in progress, or drops an aborted one.
Answered(code, first, n) ==
  /\ UNCHANGED <<present, stage, expired>> /\ request # NoRequest
  /\ \/ /\ iface = "busy" /\ iface' = "answered"
        /\ answer' \in Answer /\ answer'.code = code
        /\ answer'.first = first /\ answer'.n = n
        /\ UNCHANGED request
     \/ /\ iface = "aborting"
        /\ request' = NoRequest
        /\ UNCHANGED <<iface, answer>>

\* What the firmware does is seen as an answer, unless the command was aborted.
LEMMA ServeAnswers ==
  ASSUME NEW code \in Codes, NEW s \in Socket \cup {NoSocket},
         NEW first \in Nat, NEW n \in Nat, NEW o, NEW w, NEW f,
         Serve(Reply(code, s, first, n), o, w, f)
  PROVE  /\ Answered(code, first, n)
         /\ open' = o /\ written' = w /\ fetched' = f
         /\ UNCHANGED <<backendVars, clock>>
<1>1. /\ Reply(code, s, first, n) \in Answer
      /\ Reply(code, s, first, n).code = code
      /\ Reply(code, s, first, n).first = first
      /\ Reply(code, s, first, n).n = n
  BY ReplyType
<1>2. QED
  BY <1>1 DEF Serve, Answered, FwAnswer, FwLate

-----------------------------------------------------------------------------
(* Every step keeps the invariant.                                           *)

\* A step that changes nothing.
LEMMA StutteringPreserves == IInv /\ UNCHANGED vars => IInv'
  BY DEF vars, IInv, TypeOK, ChanTypeOK, ConnectionTypeOK, SocketTypeOK,
         BufferTypeOK, StreamTypeOK, InFlight, ChannelAgrees, PhaseAgrees,
         FreshAgrees, TransferAgrees, SentInOrder, ReceivedInOrder, Arriving

\* Every call keeps the invariant.
LEMMA CallerPreserves ==
  ASSUME IInv, Caller
  PROVE  IInv'
\* init() drops the socket and empties the buffers, so every promise about
\* the streams starts anew.
<1>1. ASSUME Initialize PROVE IInv'
  <2>1. ChanTypeOK'
    BY <1>1 DEF IInv, TypeOK, ChanTypeOK, Initialize, UciReset, channel
  <2>2. ConnectionTypeOK'
    <3>1. /\ connection' \in States /\ operation' \in Operations
          /\ clock' = clock /\ txLate' = txLate
          /\ closing' = FALSE /\ booted' = TRUE /\ closeAsked' = FALSE
      BY <1>1 DEF Initialize, ClearBuffers, Failure, States, Operations
    <3>2. stalled' \in 0..STALL_LIMIT
      BY <1>1, StallAssumption DEF IInv, TypeOK, ConnectionTypeOK, Initialize
    <3>3. abandoned' \in BOOLEAN
      BY <1>1 DEF IInv, TypeOK, ConnectionTypeOK, SocketTypeOK, Initialize
    <3>4. QED
      BY <3>1, <3>2, <3>3 DEF IInv, TypeOK, ConnectionTypeOK
  <2>3. SocketTypeOK'
    BY <1>1 DEF IInv, TypeOK, SocketTypeOK, Initialize, firmwareVars
  <2>4. BufferTypeOK'
    BY <1>1 DEF IInv, TypeOK, BufferTypeOK, Initialize, ClearBuffers
  <2>5. StreamTypeOK'
    BY <1>1 DEF IInv, TypeOK, StreamTypeOK, Initialize, firmwareVars
  <2>6. (InFlight /\ ChannelAgrees /\ PhaseAgrees)'
    BY <1>1, StallAssumption
       DEF IInv, InFlight, ChannelAgrees, PhaseAgrees, Initialize, UciReset,
           Failure, channel
  <2>7. (FreshAgrees /\ TransferAgrees /\ SentInOrder /\ ReceivedInOrder)'
    BY <1>1
       DEF IInv, FreshAgrees, TransferAgrees, SentInOrder, ReceivedInOrder,
           Initialize, ClearBuffers, Failure
  <2>8. QED
    BY <2>1, <2>2, <2>3, <2>4, <2>5, <2>6, <2>7 DEF IInv, TypeOK
\* connect() is refused or starts an OPEN; the streams start from nothing.
<1>2. ASSUME booted, Connect PROVE IInv'
  <2>1. \/ Issued("OPEN", 0, 0) /\ connection' = "CONNECTING"
        \/ Failure /\ UNCHANGED channel
    BY <1>2, StartIssues DEF Connect, Commands
  <2>2. ChanTypeOK'
    BY <1>2, <2>1 DEF IInv, TypeOK, ChanTypeOK, Issued, channel
  <2>3. (ConnectionTypeOK /\ SocketTypeOK /\ BufferTypeOK /\ StreamTypeOK)'
    BY <1>2, <2>1
       DEF IInv, TypeOK, ConnectionTypeOK, SocketTypeOK, States, Operations,
           Commands, BufferTypeOK, StreamTypeOK, Connect, Issued, Failure,
           socketVars, txVars, rxVars
  <2>4. (InFlight /\ ChannelAgrees /\ PhaseAgrees)'
    BY <1>2, <2>1
       DEF IInv, InFlight, ChannelAgrees, PhaseAgrees, Connect, Issued,
           Failure, channel
  <2>5. (FreshAgrees /\ TransferAgrees /\ SentInOrder /\ ReceivedInOrder)'
    BY <1>2, <2>1
       DEF IInv, FreshAgrees, TransferAgrees, SentInOrder, ReceivedInOrder,
           Connect, Failure, txVars, rxVars
  <2>6. QED
    BY <2>2, <2>3, <2>4, <2>5 DEF IInv, TypeOK
\* close() keeps a command in progress, or starts the close itself.
<1>3. ASSUME booted, Close PROVE IInv'
  <2>1. StartCloseIdle =>
         /\ txLength' = 0 /\ rxLength' = 0
         /\ UNCHANGED <<txOffset, txFirst, txLate, rxOffset, rxFirst>>
         /\ \/ Issued("CLOSE_SOCKET", 0, 0) /\ connection' = "CLOSING"
            \/ Failure /\ UNCHANGED channel
            \/ connection' = "CLOSED" /\ operation' = "NONE"
               /\ UNCHANGED channel
    BY <1>3, CloseIdleIssues DEF IInv
  <2>2. ChanTypeOK'
    BY <1>3, <2>1
       DEF IInv, TypeOK, ChanTypeOK, Close, UciReset, Issued, channel
  <2>3. ConnectionTypeOK'
    BY <1>3, <2>1
       DEF IInv, TypeOK, ConnectionTypeOK, States, Operations, Commands,
           Close, Issued, Failure, txVars, rxVars, firmwareVars
  <2>4. SocketTypeOK'
    BY <1>3 DEF IInv, TypeOK, SocketTypeOK, Close, socketVars, firmwareVars
  <2>5. BufferTypeOK'
    BY <1>3, <2>1 DEF IInv, TypeOK, BufferTypeOK, Close, txVars, rxVars
  <2>6. StreamTypeOK'
    BY <1>3 DEF IInv, TypeOK, StreamTypeOK, Close, firmwareVars
  <2>7. (InFlight /\ ChannelAgrees /\ PhaseAgrees)'
    BY <1>3, <2>1
       DEF IInv, InFlight, ChannelAgrees, PhaseAgrees, Close, UciReset,
           Issued, Failure, channel, socketVars
  <2>8. (FreshAgrees /\ TransferAgrees /\ SentInOrder /\ ReceivedInOrder)'
    BY <1>3, <2>1
       DEF IInv, FreshAgrees, TransferAgrees, SentInOrder, ReceivedInOrder,
           Close, Failure, socketVars, txVars, rxVars, firmwareVars
  <2>9. QED
    BY <2>2, <2>3, <2>4, <2>5, <2>6, <2>7, <2>8 DEF IInv, TypeOK
\* read() moves its offset only within what is held.
<1>4. ASSUME NEW c \in 1..MaxRx, connection = "CONNECTED", Receive(c)
      PROVE  IInv'
  <2>1. TypeOK'
    BY <1>4
       DEF IInv, TypeOK, ChanTypeOK, ConnectionTypeOK, SocketTypeOK,
           BufferTypeOK, StreamTypeOK, Receive, channel, socketVars, txVars,
           firmwareVars
  <2>2. (InFlight /\ ChannelAgrees /\ PhaseAgrees)'
    BY <1>4 DEF IInv, InFlight, ChannelAgrees, PhaseAgrees, Receive, channel
  <2>3. (FreshAgrees /\ TransferAgrees /\ SentInOrder /\ ReceivedInOrder)'
    BY <1>4
       DEF IInv, TypeOK, BufferTypeOK, FreshAgrees, TransferAgrees,
           SentInOrder, Arriving, ReceivedInOrder, Receive, channel, txVars,
           firmwareVars
  <2>4. QED
    BY <2>1, <2>2, <2>3 DEF IInv
\* write() takes new bytes only behind the last ones.
<1>5. ASSUME NEW c \in 1..MaxTx, Transmit(c) PROVE IInv'
  <2>1. ChanTypeOK'
    BY <1>5 DEF IInv, TypeOK, ChanTypeOK, Transmit, channel
  <2>2. ConnectionTypeOK'
    BY <1>5 DEF IInv, TypeOK, ConnectionTypeOK, Transmit
  <2>3. SocketTypeOK'
    BY <1>5 DEF IInv, TypeOK, SocketTypeOK, Transmit, socketVars, firmwareVars
  <2>4. BufferTypeOK'
    BY <1>5, PayloadAssumption
       DEF IInv, TypeOK, BufferTypeOK, StreamTypeOK, Transmit, rxVars
  <2>5. StreamTypeOK'
    BY <1>5, PayloadAssumption
       DEF IInv, TypeOK, StreamTypeOK, Transmit, firmwareVars
  <2>6. (InFlight /\ ChannelAgrees /\ PhaseAgrees)'
    BY <1>5 DEF IInv, InFlight, ChannelAgrees, PhaseAgrees, Transmit, channel
  <2>7. (FreshAgrees /\ TransferAgrees /\ SentInOrder /\ ReceivedInOrder)'
    BY <1>5, PayloadAssumption
       DEF IInv, TypeOK, BufferTypeOK, StreamTypeOK, FreshAgrees,
           TransferAgrees, SentInOrder, Arriving, ReceivedInOrder, Transmit,
           channel, rxVars, firmwareVars
  <2>8. QED
    BY <2>1, <2>2, <2>3, <2>4, <2>5, <2>6, <2>7 DEF IInv, TypeOK
<1>6. QED
  BY <1>1, <1>2, <1>3, <1>4, <1>5 DEF Caller

\* Every case of completed() keeps the invariant.
LEMMA CompletedPreserves ==
  ASSUME IInv, Completed
  PROVE  IInv'
\* A reset that is done is followed by IDENTIFY, or by the close.
<1>1. ASSUME CompletedReset PROVE IInv'
  <2>1. /\ UciFinished
        /\ \/ /\ closing \/ operation = "CLOSE_RESET"
              /\ txLength' = 0 /\ rxLength' = 0
              /\ \/ haveSocket /\ Issued("CLOSE_SOCKET", 0, 0)
                    /\ UNCHANGED connection
                 \/ Stopped /\ operation' = "NONE" /\ connection' = "CLOSED"
           \/ /\ ~closing /\ operation = "RESET"
              /\ Issued("IDENTIFY", 0, 0)
              /\ UNCHANGED <<connection, txLength, rxLength>>
    BY <1>1, CloseNextIssues, StartNextIssues
       DEF IInv, TypeOK, SocketTypeOK, ConnectionTypeOK, CompletedReset,
           Commands
  <2>2. ChanTypeOK'
    BY <1>1, <2>1 DEF IInv, TypeOK, ChanTypeOK, Issued, Stopped
  <2>3. (ConnectionTypeOK /\ SocketTypeOK /\ BufferTypeOK /\ StreamTypeOK)'
    BY <1>1, <2>1, StallAssumption
       DEF IInv, TypeOK, ConnectionTypeOK, SocketTypeOK, States, Operations,
           Commands, PhaseAgrees, BufferTypeOK, StreamTypeOK, CompletedReset,
           Issued, CompletedFrame, CountStalled, LastStalledPoll, socketVars,
           firmwareVars, callerVars
  <2>4. (InFlight /\ ChannelAgrees /\ PhaseAgrees)'
    BY <1>1, <2>1, StallAssumption
       DEF IInv, InFlight, ChannelAgrees, PhaseAgrees, TypeOK,
           ConnectionTypeOK, CompletedReset, Issued, Stopped, CompletedFrame,
           CountStalled, LastStalledPoll, socketVars, firmwareVars,
           callerVars
  <2>5. (FreshAgrees /\ TransferAgrees /\ SentInOrder /\ ReceivedInOrder)'
    BY <1>1, <2>1
       DEF IInv, TypeOK, ConnectionTypeOK, States, FreshAgrees, PhaseAgrees,
           TransferAgrees, SentInOrder, ReceivedInOrder, CompletedReset,
           Issued, Stopped, UciFinished, CompletedFrame, CountStalled,
           LastStalledPoll, socketVars, firmwareVars, callerVars
  <2>6. QED
    BY <2>2, <2>3, <2>4, <2>5 DEF IInv, TypeOK
\* IDENTIFY is followed by ADDRESS.
<1>2. ASSUME CompletedIdentify PROVE IInv'
  <2>1. UciFinished /\ Issued("ADDRESS", 0, 0)
    BY <1>2, StartNextIssues DEF CompletedIdentify, Commands
  <2>2. /\ stage = "BUSY" /\ iface = "answered" /\ request # NoRequest
        /\ request.op = operation
    BY <1>2, <2>1, FinishedCommand
       DEF CompletedIdentify, CompletedFrame, Commands
  <2>3. ChanTypeOK'
    BY <1>2, <2>1 DEF IInv, TypeOK, ChanTypeOK, Issued
  <2>4. (ConnectionTypeOK /\ SocketTypeOK /\ BufferTypeOK /\ StreamTypeOK)'
    BY <1>2, <2>1, StallAssumption
       DEF IInv, TypeOK, ConnectionTypeOK, SocketTypeOK, Operations,
           Commands, PhaseAgrees, BufferTypeOK, StreamTypeOK,
           CompletedIdentify, Issued, CompletedFrame, CountStalled,
           LastStalledPoll, socketVars, txVars, rxVars, firmwareVars,
           callerVars
  <2>5. (InFlight /\ ChannelAgrees /\ PhaseAgrees)'
    BY <1>2, <2>1, StallAssumption
       DEF IInv, InFlight, ChannelAgrees, PhaseAgrees, TypeOK,
           ConnectionTypeOK, CompletedIdentify, Issued, CompletedFrame,
           CountStalled, LastStalledPoll, socketVars, txVars, rxVars,
           firmwareVars, callerVars
  <2>6. (FreshAgrees /\ TransferAgrees /\ SentInOrder /\ ReceivedInOrder)'
    BY <1>2
       DEF IInv, FreshAgrees, PhaseAgrees, TransferAgrees, SentInOrder,
           ReceivedInOrder, CompletedIdentify, txVars, rxVars
  <2>7. QED
    BY <2>3, <2>4, <2>5, <2>6 DEF IInv, TypeOK
\* ADDRESS ends the initialisation.
<1>3. ASSUME CompletedAddress PROVE IInv'
  <2>1. /\ haveSocket' = haveSocket /\ socketId' = socketId /\ UciFinished
        /\ UNCHANGED <<closing, txFirst, txLate>>
        /\ \/ /\ closing /\ txLength' = 0 /\ rxLength' = 0
              /\ \/ haveSocket /\ Issued("CLOSE_SOCKET", 0, 0)
                    /\ connection' = "CLOSED"
                 \/ Stopped /\ operation' = "NONE" /\ connection' = "CLOSED"
           \/ /\ ~closing /\ Stopped /\ operation' = "NONE"
              /\ connection' = "CLOSED"
              /\ txLength' = txLength
              /\ rxLength' = rxLength
    BY <1>3, EndOfSwitch DEF IInv, TypeOK, SocketTypeOK, CompletedAddress
  <2>2. /\ stage = "BUSY" /\ iface = "answered" /\ request # NoRequest
        /\ request.op = operation
    BY <1>3, <2>1, FinishedCommand
       DEF CompletedAddress, CompletedFrame, Commands
  <2>3. ChanTypeOK'
    BY <1>3, <2>1 DEF IInv, TypeOK, ChanTypeOK, Issued, Stopped
  <2>4. (ConnectionTypeOK /\ SocketTypeOK /\ BufferTypeOK /\ StreamTypeOK)'
    BY <1>3, <2>1, StallAssumption
       DEF IInv, TypeOK, ConnectionTypeOK, SocketTypeOK, States, Operations,
           PhaseAgrees, BufferTypeOK, StreamTypeOK, CompletedAddress,
           CompletedFrame, CountStalled, LastStalledPoll, firmwareVars,
           callerVars
  <2>5. (InFlight /\ ChannelAgrees /\ PhaseAgrees)'
    BY <1>3, <2>1
       DEF IInv, InFlight, ChannelAgrees, PhaseAgrees, CompletedAddress,
           Stopped
  <2>6. (FreshAgrees /\ TransferAgrees /\ SentInOrder /\ ReceivedInOrder)'
    BY <1>3, <2>1
       DEF IInv, TypeOK, ConnectionTypeOK, States, FreshAgrees, PhaseAgrees,
           TransferAgrees, SentInOrder, ReceivedInOrder, CompletedAddress,
           Issued, Stopped, CompletedFrame, CountStalled, LastStalledPoll,
           firmwareVars, callerVars
  <2>7. QED
    BY <2>3, <2>4, <2>5, <2>6 DEF IInv, TypeOK
\* An OPEN that succeeds finds the buffers empty.
<1>4. ASSUME CompletedOpen PROVE IInv'
  <2>1. /\ answer \in Answer /\ answer.socket \in Socket \cup {NoSocket}
        /\ answer.first \in Nat /\ answer.n \in Nat
    BY <1>4, AnswerFields DEF IInv, CompletedOpen, Codes
  <2>2. ThenCloseIfAsked((IF closing THEN "CLOSING" ELSE "CONNECTED"), TRUE,
                          answer.socket, txLength, rxLength)
    BY <1>4 DEF CompletedOpen
  <2>3. /\ haveSocket' = TRUE /\ socketId' = answer.socket /\ UciFinished
        /\ UNCHANGED <<closing, txFirst, txLate>>
        /\ \/ /\ closing /\ txLength' = 0 /\ rxLength' = 0
              /\ \/ TRUE /\ Issued("CLOSE_SOCKET", 0, 0)
                    /\ connection' = (IF closing THEN "CLOSING" ELSE "CONNECTED")
                 \/ Stopped /\ operation' = "NONE" /\ connection' = "CLOSED"
           \/ /\ ~closing /\ Stopped /\ operation' = "NONE"
              /\ connection' = (IF closing THEN "CLOSING" ELSE "CONNECTED")
              /\ txLength' = txLength
              /\ rxLength' = rxLength
    BY <1>4, <2>1, <2>2, EndOfSwitch
       DEF IInv, TypeOK, SocketTypeOK, CompletedOpen
  <2>4. /\ stage = "BUSY" /\ iface = "answered" /\ request # NoRequest
        /\ request.op = operation
    BY <1>4, <2>3, FinishedCommand DEF CompletedOpen, CompletedFrame, Commands
  <2>5. ChanTypeOK'
    BY <1>4, <2>3 DEF IInv, TypeOK, ChanTypeOK, Issued, Stopped
  <2>6. (ConnectionTypeOK /\ SocketTypeOK /\ BufferTypeOK /\ StreamTypeOK)'
    BY <1>4, <2>1, <2>3
       DEF IInv, TypeOK, ConnectionTypeOK, SocketTypeOK, States, Operations,
           Commands, PhaseAgrees, BufferTypeOK, StreamTypeOK, CompletedOpen,
           Issued, Stopped, CompletedFrame, CountStalled, LastStalledPoll,
           firmwareVars, callerVars
  <2>7. (InFlight /\ ChannelAgrees /\ PhaseAgrees)'
    BY <1>4, <2>3
       DEF IInv, InFlight, ChannelAgrees, PhaseAgrees, CompletedOpen, Issued,
           Stopped, CompletedFrame, callerVars
  <2>8. (FreshAgrees /\ TransferAgrees /\ SentInOrder /\ ReceivedInOrder)'
    BY <1>4, <2>3
       DEF IInv, TypeOK, ConnectionTypeOK, States, FreshAgrees, PhaseAgrees,
           TransferAgrees, SentInOrder, Arriving, ReceivedInOrder,
           CompletedOpen, Issued, Stopped, CompletedFrame, CountStalled,
           LastStalledPoll, firmwareVars, callerVars
  <2>9. QED
    BY <2>5, <2>6, <2>7, <2>8 DEF IInv, TypeOK
\* The bytes of a read that arrive are those that were held as arriving.
<1>5. ASSUME CompletedRead PROVE IInv'
  <2>1. /\ answer \in Answer /\ answer.socket \in Socket \cup {NoSocket}
        /\ answer.first \in Nat /\ answer.n \in Nat
    BY <1>5, AnswerFields DEF IInv, CompletedRead, Codes
  <2>2. /\ haveSocket' = haveSocket /\ socketId' = socketId /\ UciFinished
        /\ UNCHANGED <<closing, txFirst, txLate>>
        /\ \/ /\ closing /\ txLength' = 0 /\ rxLength' = 0
              /\ \/ haveSocket /\ Issued("CLOSE_SOCKET", 0, 0)
                    /\ connection' = connection
                 \/ Stopped /\ operation' = "NONE" /\ connection' = "CLOSED"
           \/ /\ ~closing /\ Stopped /\ operation' = "NONE"
              /\ connection' = connection
              /\ txLength' = txLength
              /\ rxLength' = answer.n
    BY <1>5, <2>1, EndOfSwitch DEF IInv, TypeOK, SocketTypeOK, CompletedRead
  <2>3. /\ stage = "BUSY" /\ iface = "answered" /\ request # NoRequest
        /\ request.op = operation
    BY <1>5, <2>2, FinishedCommand DEF CompletedRead, CompletedFrame, Commands
  <2>4. ChanTypeOK'
    BY <1>5, <2>2 DEF IInv, TypeOK, ChanTypeOK, Issued, Stopped
  <2>5. (ConnectionTypeOK /\ SocketTypeOK /\ BufferTypeOK /\ StreamTypeOK)'
    BY <1>5, <2>1, <2>2
       DEF IInv, TypeOK, ConnectionTypeOK, SocketTypeOK, States, Operations,
           Commands, PhaseAgrees, BufferTypeOK, StreamTypeOK, CompletedRead,
           Issued, Stopped, CompletedFrame, CountStalled, LastStalledPoll,
           firmwareVars, callerVars
  <2>6. (InFlight /\ ChannelAgrees /\ PhaseAgrees)'
    BY <1>5, <2>2
       DEF IInv, InFlight, ChannelAgrees, PhaseAgrees, CompletedRead, Issued,
           Stopped, CompletedFrame, callerVars
  <2>7. (FreshAgrees /\ TransferAgrees /\ SentInOrder /\ ReceivedInOrder)'
    BY <1>5, <2>1, <2>2, <2>3, BoundsAssumption
       DEF IInv, TypeOK, BufferTypeOK, StreamTypeOK, FreshAgrees,
           PhaseAgrees, TransferAgrees, SentInOrder, Arriving,
           ReceivedInOrder, CompletedRead, Issued, Stopped, CompletedFrame,
           CountStalled, LastStalledPoll, firmwareVars, callerVars
  <2>8. QED
    BY <2>4, <2>5, <2>6, <2>7 DEF IInv, TypeOK
\* A read that finds nothing changes nothing.
<1>6. ASSUME CompletedReadAgain PROVE IInv'
  <2>1. /\ haveSocket' = haveSocket /\ socketId' = socketId /\ UciFinished
        /\ UNCHANGED <<closing, txFirst, txLate>>
        /\ \/ /\ closing /\ txLength' = 0 /\ rxLength' = 0
              /\ \/ haveSocket /\ Issued("CLOSE_SOCKET", 0, 0)
                    /\ connection' = connection
                 \/ Stopped /\ operation' = "NONE" /\ connection' = "CLOSED"
           \/ /\ ~closing /\ Stopped /\ operation' = "NONE"
              /\ connection' = connection
              /\ txLength' = txLength
              /\ rxLength' = rxLength
    BY <1>6, EndOfSwitch DEF IInv, TypeOK, SocketTypeOK, CompletedReadAgain
  <2>2. /\ stage = "BUSY" /\ iface = "answered" /\ request # NoRequest
        /\ request.op = operation
    BY <1>6, <2>1, FinishedCommand
       DEF CompletedReadAgain, CompletedFrame, Commands
  <2>3. ChanTypeOK'
    BY <1>6, <2>1 DEF IInv, TypeOK, ChanTypeOK, Issued, Stopped
  <2>4. (ConnectionTypeOK /\ SocketTypeOK /\ BufferTypeOK /\ StreamTypeOK)'
    BY <1>6, <2>1
       DEF IInv, TypeOK, ConnectionTypeOK, SocketTypeOK, States, Operations,
           Commands, PhaseAgrees, BufferTypeOK, StreamTypeOK,
           CompletedReadAgain, Issued, CompletedFrame, CountStalled,
           LastStalledPoll, firmwareVars, callerVars
  <2>5. (InFlight /\ ChannelAgrees /\ PhaseAgrees)'
    BY <1>6, <2>1
       DEF IInv, InFlight, ChannelAgrees, PhaseAgrees, CompletedReadAgain,
           Issued, Stopped, CompletedFrame, callerVars
  <2>6. (FreshAgrees /\ TransferAgrees /\ SentInOrder /\ ReceivedInOrder)'
    BY <1>6, <2>1
       DEF IInv, FreshAgrees, PhaseAgrees, TransferAgrees, SentInOrder,
           Arriving, ReceivedInOrder, CompletedReadAgain, Stopped,
           CompletedFrame, CountStalled, LastStalledPoll, firmwareVars,
           callerVars
  <2>7. QED
    BY <2>3, <2>4, <2>5, <2>6 DEF IInv, TypeOK
\* At the end of the stream nothing is held and nothing arriving.
<1>7. ASSUME CompletedReadEof PROVE IInv'
  <2>1. UciFinished /\ Stopped /\ operation' = "NONE"
    BY <1>7, CompleteStops DEF CompletedReadEof
  <2>2. /\ stage = "BUSY" /\ iface = "answered" /\ request # NoRequest
        /\ request.op = operation
    BY <1>7, <2>1, FinishedCommand
       DEF CompletedReadEof, CompletedFrame, Commands
  <2>3. TypeOK'
    BY <1>7, <2>1
       DEF IInv, TypeOK, ChanTypeOK, ConnectionTypeOK, SocketTypeOK, States,
           Operations, PhaseAgrees, BufferTypeOK, StreamTypeOK,
           CompletedReadEof, Stopped, CompletedFrame, CountStalled,
           LastStalledPoll, txVars, rxVars, firmwareVars, callerVars
  <2>4. (InFlight /\ ChannelAgrees /\ PhaseAgrees)'
    BY <1>7, <2>1
       DEF IInv, InFlight, ChannelAgrees, PhaseAgrees, CompletedReadEof,
           Stopped, CompletedFrame, callerVars
  <2>5. (FreshAgrees /\ TransferAgrees /\ SentInOrder /\ ReceivedInOrder)'
    BY <1>7
       DEF IInv, TypeOK, ConnectionTypeOK, BufferTypeOK, StreamTypeOK,
           States, FreshAgrees, PhaseAgrees, TransferAgrees, SentInOrder,
           Arriving, ReceivedInOrder, CompletedReadEof, Stopped,
           CompletedFrame, CountStalled, LastStalledPoll, txVars, rxVars,
           firmwareVars, callerVars
  <2>6. QED
    BY <2>3, <2>4, <2>5 DEF IInv
\* The bytes of a write leave the buffer as they were put on the
\* connection.
<1>8. ASSUME CompletedWrite PROVE IInv'
  <2>1. /\ answer \in Answer /\ answer.socket \in Socket \cup {NoSocket}
        /\ answer.first \in Nat /\ answer.n \in Nat
    BY <1>8, AnswerFields DEF IInv, CompletedWrite, Codes
  <2>2. ThenCloseIfAsked(connection, haveSocket,
                          socketId,
                          (IF txOffset + answer.n = txLength THEN 0 ELSE txLength),
                          rxLength)
    BY <1>8 DEF CompletedWrite
  <2>3. /\ haveSocket' = haveSocket /\ socketId' = socketId /\ UciFinished
        /\ UNCHANGED <<closing, txFirst, txLate>>
        /\ \/ /\ closing /\ txLength' = 0 /\ rxLength' = 0
              /\ \/ haveSocket /\ Issued("CLOSE_SOCKET", 0, 0)
                    /\ connection' = connection
                 \/ Stopped /\ operation' = "NONE" /\ connection' = "CLOSED"
           \/ /\ ~closing /\ Stopped /\ operation' = "NONE"
              /\ connection' = connection
              /\ txLength' = (IF txOffset + answer.n = txLength THEN 0 ELSE txLength)
              /\ rxLength' = rxLength
    BY <1>8, <2>1, <2>2, EndOfSwitch
       DEF IInv, TypeOK, SocketTypeOK, CompletedWrite
  <2>4. /\ stage = "BUSY" /\ iface = "answered" /\ request # NoRequest
        /\ request.op = operation
    BY <1>8, <2>3, FinishedCommand
       DEF CompletedWrite, CompletedFrame, Commands
  <2>5. ChanTypeOK'
    BY <1>8, <2>3 DEF IInv, TypeOK, ChanTypeOK, Issued, Stopped
  <2>6. (ConnectionTypeOK /\ SocketTypeOK /\ BufferTypeOK /\ StreamTypeOK)'
    BY <1>8, <2>1, <2>3
       DEF IInv, TypeOK, ConnectionTypeOK, SocketTypeOK, States, Operations,
           Commands, PhaseAgrees, BufferTypeOK, StreamTypeOK, CompletedWrite,
           Issued, Stopped, CompletedFrame, CountStalled, LastStalledPoll,
           firmwareVars, callerVars
  <2>7. (InFlight /\ ChannelAgrees /\ PhaseAgrees)'
    BY <1>8, <2>3
       DEF IInv, InFlight, ChannelAgrees, PhaseAgrees, CompletedWrite,
           Issued, Stopped, CompletedFrame, callerVars
  <2>8. (FreshAgrees /\ TransferAgrees /\ SentInOrder /\ ReceivedInOrder)'
    BY <1>8, <2>1, <2>3, <2>4
       DEF IInv, TypeOK, BufferTypeOK, StreamTypeOK, FreshAgrees,
           PhaseAgrees, TransferAgrees, SentInOrder, Arriving,
           ReceivedInOrder, CompletedWrite, Issued, Stopped, CompletedFrame,
           CountStalled, LastStalledPoll, firmwareVars, callerVars
  <2>9. QED
    BY <2>5, <2>6, <2>7, <2>8 DEF IInv, TypeOK
\* A close that is done leaves no promise about the streams.
<1>9. ASSUME CompletedClose PROVE IInv'
  <2>1. UciFinished /\ Stopped /\ operation' = "NONE"
    BY <1>9, CompleteStops DEF CompletedClose
  <2>2. /\ stage = "BUSY" /\ iface = "answered" /\ request # NoRequest
        /\ request.op = operation
    BY <1>9, <2>1, FinishedCommand
       DEF CompletedClose, CompletedFrame, Commands
  <2>3. TypeOK'
    BY <1>9, <2>1
       DEF IInv, TypeOK, ChanTypeOK, ConnectionTypeOK, SocketTypeOK, States,
           Operations, PhaseAgrees, BufferTypeOK, StreamTypeOK,
           CompletedClose, Stopped, CompletedFrame, CountStalled,
           LastStalledPoll, txVars, rxVars, firmwareVars, callerVars
  <2>4. (InFlight /\ ChannelAgrees /\ PhaseAgrees)'
    BY <1>9, <2>1
       DEF IInv, InFlight, ChannelAgrees, PhaseAgrees, CompletedClose,
           Stopped
  <2>5. (FreshAgrees /\ TransferAgrees /\ SentInOrder /\ ReceivedInOrder)'
    BY <1>9
       DEF IInv, TypeOK, ConnectionTypeOK, States, FreshAgrees, PhaseAgrees,
           TransferAgrees, SentInOrder, ReceivedInOrder, CompletedClose,
           Stopped, CompletedFrame, CountStalled, LastStalledPoll, txVars,
           rxVars, firmwareVars, callerVars
  <2>6. QED
    BY <2>3, <2>4, <2>5 DEF IInv
\* A rejected answer leaves no promise but FAILED.
<1>10. ASSUME CompletedRejected PROVE IInv'
  <2>1. UciFinished /\ Stopped
    BY <1>10 DEF CompletedRejected, UciDone, Stopped
  <2>2. /\ stage = "BUSY" /\ iface = "answered" /\ request # NoRequest
        /\ request.op = operation
    BY <1>10, <2>1, FinishedCommand
       DEF CompletedRejected, CompletedFrame, Commands
  <2>3. ChanTypeOK'
    BY <1>10, <2>1 DEF IInv, TypeOK, ChanTypeOK, Stopped
  <2>4. (ConnectionTypeOK /\ SocketTypeOK /\ BufferTypeOK /\ StreamTypeOK)'
    BY <1>10, StallAssumption
       DEF IInv, TypeOK, ConnectionTypeOK, SocketTypeOK, States, Operations,
           PhaseAgrees, BufferTypeOK, StreamTypeOK, CompletedRejected,
           Failure, CompletedFrame, CountStalled, LastStalledPoll,
           socketVars, txVars, rxVars, firmwareVars, callerVars
  <2>5. (InFlight /\ ChannelAgrees /\ PhaseAgrees)'
    BY <1>10, <2>1
       DEF IInv, InFlight, ChannelAgrees, PhaseAgrees, CompletedRejected,
           Failure, Stopped, CompletedFrame, callerVars
  <2>6. (FreshAgrees /\ TransferAgrees /\ SentInOrder /\ ReceivedInOrder)'
    BY <1>10
       DEF IInv, FreshAgrees, TransferAgrees, SentInOrder, ReceivedInOrder,
           CompletedRejected, Failure, socketVars, txVars, rxVars
  <2>7. QED
    BY <2>3, <2>4, <2>5, <2>6 DEF IInv, TypeOK
<1>11. QED
  BY <1>1, <1>2, <1>3, <1>4, <1>5, <1>6, <1>7, <1>8, <1>9, <1>10 DEF Completed

\* Every poll keeps the invariant.
LEMMA PollPreserves ==
  ASSUME IInv, Poll
  PROVE  IInv'
\* Giving up initialisation leaves no promise but FAILED.
<1>1. ASSUME PollStalled PROVE IInv'
  <2>1. TypeOK'
    BY <1>1
       DEF IInv, TypeOK, ChanTypeOK, ConnectionTypeOK, SocketTypeOK, States,
           Operations, BufferTypeOK, StreamTypeOK, PollStalled,
           LastStalledPoll, Failure, channel, socketVars, txVars, rxVars,
           firmwareVars, callerVars
  <2>2. (InFlight /\ ChannelAgrees /\ PhaseAgrees)'
    BY <1>1
       DEF IInv, InFlight, ChannelAgrees, PhaseAgrees, PollStalled, Failure,
           channel, callerVars
  <2>3. (FreshAgrees /\ TransferAgrees /\ SentInOrder /\ ReceivedInOrder)'
    BY <1>1
       DEF IInv, FreshAgrees, TransferAgrees, SentInOrder, ReceivedInOrder,
           PollStalled, Failure, rxVars, firmwareVars, callerVars
  <2>4. QED
    BY <2>1, <2>2, <2>3 DEF IInv
\* Giving up a command leaves no promise but FAILED.
<1>2. ASSUME PollAbandon PROVE IInv'
  <2>1. ChanTypeOK'
    BY <1>2
       DEF IInv, TypeOK, ChanTypeOK, PollAbandon, UciTimeout, UciError,
           Abandon
  <2>2. (ConnectionTypeOK /\ SocketTypeOK /\ BufferTypeOK /\ StreamTypeOK)'
    BY <1>2, StallAssumption
       DEF IInv, TypeOK, ConnectionTypeOK, SocketTypeOK, States, Operations,
           PhaseAgrees, BufferTypeOK, StreamTypeOK, PollAbandon,
           CountStalled, Failure, socketVars, txVars, rxVars, firmwareVars,
           callerVars
  <2>3. (InFlight /\ ChannelAgrees /\ PhaseAgrees)'
    BY <1>2
       DEF IInv, InFlight, ChannelAgrees, PhaseAgrees, PollAbandon,
           UciTimeout, UciError, Abandon, Failure, callerVars
  <2>4. (FreshAgrees /\ TransferAgrees /\ SentInOrder /\ ReceivedInOrder)'
    BY <1>2
       DEF IInv, FreshAgrees, TransferAgrees, SentInOrder, ReceivedInOrder,
           PollAbandon, Failure, txVars, rxVars, firmwareVars, callerVars
  <2>5. QED
    BY <2>1, <2>2, <2>3, <2>4 DEF IInv, TypeOK
\* A poll of a command in progress at most counts the stalled polls.
<1>3. ASSUME PollPending PROVE IInv'
  <2>1. TypeOK'
    BY <1>3, StallAssumption
       DEF IInv, TypeOK, ChanTypeOK, ConnectionTypeOK, SocketTypeOK,
           PhaseAgrees, BufferTypeOK, StreamTypeOK, PollPending,
           CountStalled, UciPending, socketVars, txVars, rxVars,
           firmwareVars, callerVars
  <2>2. (InFlight /\ ChannelAgrees /\ PhaseAgrees)'
    BY <1>3, StallAssumption
       DEF IInv, InFlight, ChannelAgrees, PhaseAgrees, TypeOK,
           ConnectionTypeOK, PollPending, CountStalled, LastStalledPoll,
           UciPending, socketVars, rxVars, firmwareVars, callerVars
  <2>3. (FreshAgrees /\ TransferAgrees /\ SentInOrder /\ ReceivedInOrder)'
    BY <1>3
       DEF IInv, FreshAgrees, TransferAgrees, SentInOrder, Arriving,
           ReceivedInOrder, PollPending, UciPending, txVars, rxVars,
           firmwareVars, callerVars
  <2>4. QED
    BY <2>1, <2>2, <2>3 DEF IInv
\* The write that is started carries the bytes after the last one sent.
<1>4. ASSUME PollSend PROVE IInv'
  <2>1. txFirst + txOffset \in Nat /\ txLength - txOffset \in Nat
    BY <1>4 DEF IInv, TypeOK, BufferTypeOK, SentInOrder, PollSend
  <2>2. \/ /\ Issued("WRITE_SOCKET", txFirst + txOffset, txLength - txOffset)
           /\ connection' = "CONNECTED"
        \/ Failure /\ UNCHANGED channel
    BY <1>4, <2>1, StartIssues
       DEF IInv, TypeOK, SocketTypeOK, PollSend, Commands
  <2>3. ChanTypeOK'
    BY <1>4, <2>2 DEF IInv, TypeOK, ChanTypeOK, Issued, channel
  <2>4. (ConnectionTypeOK /\ SocketTypeOK /\ BufferTypeOK /\ StreamTypeOK)'
    BY <1>4, <2>2
       DEF IInv, TypeOK, ConnectionTypeOK, SocketTypeOK, States, Operations,
           Commands, BufferTypeOK, StreamTypeOK, PollSend, Issued, Failure,
           channel, socketVars, txVars, rxVars, firmwareVars, callerVars
  <2>5. (InFlight /\ ChannelAgrees /\ PhaseAgrees)'
    BY <1>4, <2>2
       DEF IInv, InFlight, ChannelAgrees, PhaseAgrees, PollSend, Issued,
           Failure, channel, callerVars
  <2>6. (FreshAgrees /\ TransferAgrees /\ SentInOrder /\ ReceivedInOrder)'
    BY <1>4, <2>2
       DEF IInv, TypeOK, BufferTypeOK, StreamTypeOK, FreshAgrees,
           TransferAgrees, SentInOrder, Arriving, ReceivedInOrder, PollSend,
           Issued, Failure, channel, socketVars, txVars, rxVars,
           firmwareVars, callerVars
  <2>7. QED
    BY <2>3, <2>4, <2>5, <2>6 DEF IInv, TypeOK
\* A read is started only with the receive buffer drained.
<1>5. ASSUME PollFetch PROVE IInv'
  <2>1. \/ Issued("READ_SOCKET", 0, PAYLOAD) /\ connection' = "CONNECTED"
        \/ Failure /\ UNCHANGED channel
    BY <1>5, PayloadAssumption, StartIssues
       DEF IInv, TypeOK, SocketTypeOK, PollFetch, Commands
  <2>2. ChanTypeOK'
    BY <1>5, <2>1 DEF IInv, TypeOK, ChanTypeOK, Issued, channel
  <2>3. (ConnectionTypeOK /\ SocketTypeOK /\ BufferTypeOK /\ StreamTypeOK)'
    BY <1>5, <2>1
       DEF IInv, TypeOK, ConnectionTypeOK, SocketTypeOK, States, Operations,
           Commands, BufferTypeOK, StreamTypeOK, PollFetch, Issued, Failure,
           socketVars, txVars, rxVars, firmwareVars, callerVars
  <2>4. (InFlight /\ ChannelAgrees /\ PhaseAgrees)'
    BY <1>5, <2>1
       DEF IInv, InFlight, ChannelAgrees, PhaseAgrees, PollFetch, Issued,
           Failure, channel, callerVars
  <2>5. (FreshAgrees /\ TransferAgrees /\ SentInOrder /\ ReceivedInOrder)'
    BY <1>5, <2>1
       DEF IInv, FreshAgrees, TransferAgrees, SentInOrder, Arriving,
           ReceivedInOrder, PollFetch, Issued, Failure, txVars, rxVars,
           firmwareVars, callerVars
  <2>6. QED
    BY <2>2, <2>3, <2>4, <2>5 DEF IInv, TypeOK
<1>6. ASSUME PollNothing PROVE IInv'
  BY <1>6, StutteringPreserves DEF PollNothing
<1>7. QED
  BY <1>1, <1>2, <1>3, <1>4, <1>5, <1>6, CompletedPreserves DEF Poll

\* Whatever the firmware answers, the invariant is kept.
LEMMA FirmwarePreserves ==
  ASSUME IInv, Firmware
  PROVE  IInv'
\* An answer of failure moves no bytes.
<1>1. ASSUME ServeBad PROVE IInv'
  <2>1. request # NoRequest
    BY <1>1 DEF ServeBad, Serve, FwAnswer, FwLate
  <2>2. /\ request.op \in Commands
        /\ request.socket \in Socket \cup {NoSocket}
        /\ request.first \in Nat /\ request.count \in Nat
    BY <1>1, <2>1, RequestFields DEF IInv
  <2>3. /\ Answered("bad", 0, 0) /\ open' = open /\ written' = written
        /\ fetched' = fetched
        /\ UNCHANGED <<backendVars, clock>>
    BY <1>1, <2>1, <2>2, ServeAnswers
       DEF IInv, TypeOK, SocketTypeOK, StreamTypeOK, Codes, ServeBad
  <2>4. TypeOK'
    BY <1>1, <2>3
       DEF IInv, TypeOK, ChanTypeOK, ConnectionTypeOK, SocketTypeOK,
           BufferTypeOK, StreamTypeOK, Answered, backendVars, socketVars,
           txVars, rxVars, callerVars, ServeBad
  <2>5. (InFlight /\ ChannelAgrees /\ PhaseAgrees)'
    BY <1>1, <2>3
       DEF IInv, InFlight, ChannelAgrees, PhaseAgrees, Answered, backendVars,
           socketVars, callerVars
  <2>6. (FreshAgrees /\ TransferAgrees /\ SentInOrder /\ ReceivedInOrder)'
    BY <1>1, <2>3
       DEF IInv, FreshAgrees, TransferAgrees, SentInOrder, Arriving,
           ReceivedInOrder, Answered, backendVars, txVars, rxVars,
           callerVars, ServeBad
  <2>7. QED
    BY <2>4, <2>5, <2>6 DEF IInv
\* An answer about the interface moves no bytes.
<1>2. ASSUME ServeInfo PROVE IInv'
  <2>1. request # NoRequest
    BY <1>2 DEF ServeInfo, Serve, FwAnswer, FwLate
  <2>2. /\ request.op \in Commands
        /\ request.socket \in Socket \cup {NoSocket}
        /\ request.first \in Nat /\ request.count \in Nat
    BY <1>2, <2>1, RequestFields DEF IInv
  <2>3. /\ Answered("ok", 0, 0) /\ open' = open /\ written' = written
        /\ fetched' = fetched
        /\ UNCHANGED <<backendVars, clock>>
        /\ request.op \in {"IDENTIFY", "ADDRESS"}
    BY <1>2, <2>1, <2>2, ServeAnswers
       DEF IInv, TypeOK, SocketTypeOK, StreamTypeOK, Codes, ServeInfo
  <2>4. TypeOK'
    BY <1>2, <2>3
       DEF IInv, TypeOK, ChanTypeOK, ConnectionTypeOK, SocketTypeOK,
           BufferTypeOK, StreamTypeOK, Answered, backendVars, socketVars,
           txVars, rxVars, callerVars, ServeInfo
  <2>5. (InFlight /\ ChannelAgrees /\ PhaseAgrees)'
    BY <1>2, <2>3
       DEF IInv, InFlight, ChannelAgrees, PhaseAgrees, Answered, backendVars,
           socketVars, callerVars
  <2>6. (FreshAgrees /\ TransferAgrees /\ SentInOrder /\ ReceivedInOrder)'
    BY <1>2, <2>3
       DEF IInv, FreshAgrees, PhaseAgrees, InFlight, TransferAgrees,
           SentInOrder, ReceivedInOrder, Answered, backendVars, txVars,
           rxVars, callerVars, ServeInfo
  <2>7. QED
    BY <2>4, <2>5, <2>6 DEF IInv
\* A socket that is opened moves no bytes.
<1>3. ASSUME ServeOpen PROVE IInv'
  <2>1. request # NoRequest
    BY <1>3 DEF ServeOpen, Serve, FwAnswer, FwLate
  <2>2. /\ request.op \in Commands
        /\ request.socket \in Socket \cup {NoSocket}
        /\ request.first \in Nat /\ request.count \in Nat
    BY <1>3, <2>1, RequestFields DEF IInv
  <2>3. \E s \in Socket \ open :
          /\ Answered("ok", 0, 0) /\ open' = open \cup {s}
          /\ written' = written /\ fetched' = fetched
          /\ UNCHANGED <<backendVars, clock>> /\ request.op = "OPEN"
    BY <1>3, <2>1, <2>2, ServeAnswers
       DEF IInv, TypeOK, SocketTypeOK, StreamTypeOK, Codes, ServeOpen
  <2>4. TypeOK'
    BY <1>3, <2>3
       DEF IInv, TypeOK, ChanTypeOK, ConnectionTypeOK, SocketTypeOK,
           BufferTypeOK, StreamTypeOK, Answered, backendVars, socketVars,
           txVars, rxVars, callerVars
  <2>5. (InFlight /\ ChannelAgrees /\ PhaseAgrees)'
    BY <1>3, <2>3
       DEF IInv, InFlight, ChannelAgrees, PhaseAgrees, Answered, backendVars,
           socketVars, callerVars
  <2>6. (FreshAgrees /\ TransferAgrees /\ SentInOrder /\ ReceivedInOrder)'
    BY <1>3, <2>3
       DEF IInv, FreshAgrees, PhaseAgrees, InFlight, TransferAgrees,
           SentInOrder, ReceivedInOrder, Answered, backendVars, txVars,
           rxVars, callerVars
  <2>7. QED
    BY <2>4, <2>5, <2>6 DEF IInv
\* A socket that is closed moves no bytes.
<1>4. ASSUME ServeClose PROVE IInv'
  <2>1. request # NoRequest
    BY <1>4 DEF ServeClose, Serve, FwAnswer, FwLate
  <2>2. /\ request.op \in Commands
        /\ request.socket \in Socket \cup {NoSocket}
        /\ request.first \in Nat /\ request.count \in Nat
    BY <1>4, <2>1, RequestFields DEF IInv
  <2>3. /\ Answered("ok", 0, 0) /\ open' = open \ {request.socket}
        /\ written' = written /\ fetched' = fetched
        /\ UNCHANGED <<backendVars, clock>>
    BY <1>4, <2>1, <2>2, ServeAnswers
       DEF IInv, TypeOK, SocketTypeOK, StreamTypeOK, Codes, ServeClose
  <2>4. TypeOK'
    BY <1>4, <2>3
       DEF IInv, TypeOK, ChanTypeOK, ConnectionTypeOK, SocketTypeOK,
           BufferTypeOK, StreamTypeOK, Answered, backendVars, socketVars,
           txVars, rxVars, callerVars, ServeClose
  <2>5. (InFlight /\ ChannelAgrees /\ PhaseAgrees)'
    BY <1>4, <2>3
       DEF IInv, InFlight, ChannelAgrees, PhaseAgrees, Answered, backendVars,
           socketVars, callerVars
  <2>6. (FreshAgrees /\ TransferAgrees /\ SentInOrder /\ ReceivedInOrder)'
    BY <1>4, <2>3
       DEF IInv, FreshAgrees, PhaseAgrees, InFlight, TransferAgrees,
           SentInOrder, ReceivedInOrder, Answered, backendVars, txVars,
           rxVars, callerVars, ServeClose
  <2>7. QED
    BY <2>4, <2>5, <2>6 DEF IInv
\* The bytes the firmware writes are arriving until the backend sees the
\* answer.
<1>5. ASSUME ServeWrite PROVE IInv'
  <2>1. request # NoRequest
    BY <1>5 DEF ServeWrite, Serve, FwAnswer, FwLate
  <2>2. /\ request.op \in Commands
        /\ request.socket \in Socket \cup {NoSocket}
        /\ request.first \in Nat /\ request.count \in Nat
    BY <1>5, <2>1, RequestFields DEF IInv
  <2>3. \E n \in 0..request.count :
          /\ Answered("ok", 0, n) /\ open' = open /\ written' = written + n
          /\ fetched' = fetched
          /\ UNCHANGED <<backendVars, clock>> /\ request.op = "WRITE_SOCKET"
    BY <1>5, <2>1, <2>2, ServeAnswers
       DEF IInv, TypeOK, SocketTypeOK, StreamTypeOK, Codes, ServeWrite
  <2>4. TypeOK'
    BY <1>5, <2>3
       DEF IInv, TypeOK, ChanTypeOK, ConnectionTypeOK, SocketTypeOK,
           BufferTypeOK, StreamTypeOK, Answered, backendVars, socketVars,
           txVars, rxVars, callerVars
  <2>5. (InFlight /\ ChannelAgrees /\ PhaseAgrees)'
    BY <1>5, <2>3
       DEF IInv, InFlight, ChannelAgrees, PhaseAgrees, Answered, backendVars,
           socketVars, callerVars
  <2>6. (FreshAgrees /\ TransferAgrees /\ SentInOrder /\ ReceivedInOrder)'
    BY <1>5, <2>3
       DEF IInv, TypeOK, StreamTypeOK, FreshAgrees, PhaseAgrees, InFlight,
           ChannelAgrees, TransferAgrees, SentInOrder, Arriving,
           ReceivedInOrder, Answered, backendVars, socketVars, txVars,
           rxVars, callerVars
  <2>7. QED
    BY <2>4, <2>5, <2>6 DEF IInv
\* The bytes the firmware fetches are arriving until the backend sees the
\* answer.
<1>6. ASSUME ServeRead PROVE IInv'
  <2>1. request # NoRequest
    BY <1>6 DEF ServeRead, Serve, FwAnswer, FwLate
  <2>2. /\ request.op \in Commands
        /\ request.socket \in Socket \cup {NoSocket}
        /\ request.first \in Nat /\ request.count \in Nat
    BY <1>6, <2>1, RequestFields DEF IInv
  <2>3. \E n \in 0..request.count :
          /\ Answered("ok", fetched, n) /\ open' = open /\ written' = written
          /\ fetched' = fetched + n
          /\ UNCHANGED <<backendVars, clock>> /\ request.op = "READ_SOCKET"
    BY <1>6, <2>1, <2>2, ServeAnswers
       DEF IInv, TypeOK, SocketTypeOK, StreamTypeOK, Codes, ServeRead
  <2>4. TypeOK'
    BY <1>6, <2>3
       DEF IInv, TypeOK, ChanTypeOK, ConnectionTypeOK, SocketTypeOK,
           BufferTypeOK, StreamTypeOK, Answered, backendVars, socketVars,
           txVars, rxVars, callerVars
  <2>5. (InFlight /\ ChannelAgrees /\ PhaseAgrees)'
    BY <1>6, <2>3
       DEF IInv, InFlight, ChannelAgrees, PhaseAgrees, Answered, backendVars,
           socketVars, callerVars
  <2>6. (FreshAgrees /\ TransferAgrees /\ SentInOrder /\ ReceivedInOrder)'
    BY <1>6, <2>2, <2>3, StallAssumption
       DEF IInv, TypeOK, BufferTypeOK, StreamTypeOK, FreshAgrees,
           PhaseAgrees, InFlight, ChannelAgrees, TransferAgrees, SentInOrder,
           Arriving, ReceivedInOrder, Answered, backendVars, socketVars,
           txVars, rxVars, callerVars
  <2>7. QED
    BY <2>4, <2>5, <2>6 DEF IInv
\* An answer of no data moves no bytes.
<1>7. ASSUME ServeAgain PROVE IInv'
  <2>1. request # NoRequest
    BY <1>7 DEF ServeAgain, Serve, FwAnswer, FwLate
  <2>2. /\ request.op \in Commands
        /\ request.socket \in Socket \cup {NoSocket}
        /\ request.first \in Nat /\ request.count \in Nat
    BY <1>7, <2>1, RequestFields DEF IInv
  <2>3. /\ Answered("again", 0, 0) /\ open' = open /\ written' = written
        /\ fetched' = fetched
        /\ UNCHANGED <<backendVars, clock>>
    BY <1>7, <2>1, <2>2, ServeAnswers
       DEF IInv, TypeOK, SocketTypeOK, StreamTypeOK, Codes, ServeAgain
  <2>4. TypeOK'
    BY <1>7, <2>3
       DEF IInv, TypeOK, ChanTypeOK, ConnectionTypeOK, SocketTypeOK,
           BufferTypeOK, StreamTypeOK, Answered, backendVars, socketVars,
           txVars, rxVars, callerVars, ServeAgain
  <2>5. (InFlight /\ ChannelAgrees /\ PhaseAgrees)'
    BY <1>7, <2>3
       DEF IInv, InFlight, ChannelAgrees, PhaseAgrees, Answered, backendVars,
           socketVars, callerVars
  <2>6. (FreshAgrees /\ TransferAgrees /\ SentInOrder /\ ReceivedInOrder)'
    BY <1>7, <2>3
       DEF IInv, FreshAgrees, TransferAgrees, SentInOrder, Arriving,
           ReceivedInOrder, Answered, backendVars, txVars, rxVars,
           callerVars, ServeAgain
  <2>7. QED
    BY <2>4, <2>5, <2>6 DEF IInv
\* The end of the stream moves no bytes.
<1>8. ASSUME ServeEof PROVE IInv'
  <2>1. request # NoRequest
    BY <1>8 DEF ServeEof, Serve, FwAnswer, FwLate
  <2>2. /\ request.op \in Commands
        /\ request.socket \in Socket \cup {NoSocket}
        /\ request.first \in Nat /\ request.count \in Nat
    BY <1>8, <2>1, RequestFields DEF IInv
  <2>3. /\ Answered("eof", 0, 0) /\ open' = open \ {request.socket}
        /\ written' = written /\ fetched' = fetched
        /\ UNCHANGED <<backendVars, clock>>
    BY <1>8, <2>1, <2>2, ServeAnswers
       DEF IInv, TypeOK, SocketTypeOK, StreamTypeOK, Codes, ServeEof
  <2>4. TypeOK'
    BY <1>8, <2>3
       DEF IInv, TypeOK, ChanTypeOK, ConnectionTypeOK, SocketTypeOK,
           BufferTypeOK, StreamTypeOK, Answered, backendVars, socketVars,
           txVars, rxVars, callerVars, ServeEof
  <2>5. (InFlight /\ ChannelAgrees /\ PhaseAgrees)'
    BY <1>8, <2>3
       DEF IInv, InFlight, ChannelAgrees, PhaseAgrees, Answered, backendVars,
           socketVars, callerVars
  <2>6. (FreshAgrees /\ TransferAgrees /\ SentInOrder /\ ReceivedInOrder)'
    BY <1>8, <2>3
       DEF IInv, FreshAgrees, TransferAgrees, SentInOrder, Arriving,
           ReceivedInOrder, Answered, backendVars, txVars, rxVars,
           callerVars, ServeEof
  <2>7. QED
    BY <2>4, <2>5, <2>6 DEF IInv
\* A count that is too large is not taken for bytes arriving.
<1>9. ASSUME ServeExcess PROVE IInv'
  <2>1. request # NoRequest
    BY <1>9 DEF ServeExcess, Serve, FwAnswer, FwLate
  <2>2. /\ request.op \in Commands
        /\ request.socket \in Socket \cup {NoSocket}
        /\ request.first \in Nat /\ request.count \in Nat
    BY <1>9, <2>1, RequestFields DEF IInv
  <2>3. /\ UNCHANGED <<backendVars, clock, firmwareVars, present, stage,
                       expired>>
        /\ \/ /\ iface = "busy" /\ iface' = "answered" /\ UNCHANGED request
              /\ answer' \in Answer \cup {TooLong}
              /\ answer'.code = "ok" => ~(answer'.n <= request.count)
           \/ /\ iface = "aborting" /\ request' = NoRequest
              /\ UNCHANGED <<iface, answer>>
    <3>1. CASE Serve(Reply("ok", request.socket, 0, request.count + 1), open,
                     written, fetched)
      <4>1. request.count + 1 \in Nat /\ ~(request.count + 1 <= request.count)
        BY <1>9, <2>2
      <4>2. QED
        BY <2>2, <3>1, <4>1, ServeAnswers DEF firmwareVars, Answered, Codes
    <3>2. CASE Serve(TooLong, open, written, fetched)
      BY <1>9, <3>2, NoAnswerIsNone DEF Serve, FwAnswer, FwLate, firmwareVars
    <3>3. QED
      BY <1>9, <3>1, <3>2 DEF ServeExcess
  <2>4. TypeOK'
    BY <1>9, <2>3
       DEF IInv, TypeOK, ChanTypeOK, ConnectionTypeOK, SocketTypeOK,
           BufferTypeOK, StreamTypeOK, backendVars, socketVars, txVars,
           rxVars, firmwareVars, callerVars
  <2>5. (InFlight /\ ChannelAgrees /\ PhaseAgrees)'
    BY <1>9, <2>1, <2>3
       DEF IInv, InFlight, ChannelAgrees, PhaseAgrees, backendVars,
           socketVars, callerVars
  <2>6. (FreshAgrees /\ TransferAgrees /\ SentInOrder /\ ReceivedInOrder)'
    BY <1>9, <2>3
       DEF IInv, FreshAgrees, PhaseAgrees, InFlight, ChannelAgrees,
           TransferAgrees, SentInOrder, Arriving, ReceivedInOrder,
           backendVars, txVars, rxVars, firmwareVars, callerVars
  <2>7. QED
    BY <2>4, <2>5, <2>6 DEF IInv
<1>10. QED
  BY <1>1, <1>2, <1>3, <1>4, <1>5, <1>6, <1>7, <1>8, <1>9 DEF Firmware

\* So do the clock, the user and the interface.
LEMMA EnvironmentPreserves ==
  ASSUME IInv, Environment
  PROVE  IInv'
\* The firmware drops a command only if the backend has given it up.
<1>1. ASSUME Abort PROVE IInv'
  <2>1. TypeOK'
    BY <1>1
       DEF IInv, TypeOK, ChanTypeOK, ConnectionTypeOK, SocketTypeOK,
           BufferTypeOK, StreamTypeOK, Abort, FwAborted, backendVars,
           socketVars, txVars, rxVars, firmwareVars, callerVars
  <2>2. (InFlight /\ ChannelAgrees /\ PhaseAgrees)'
    BY <1>1
       DEF IInv, InFlight, ChannelAgrees, PhaseAgrees, Abort, FwAborted,
           backendVars, socketVars, callerVars
  <2>3. (FreshAgrees /\ TransferAgrees /\ SentInOrder /\ ReceivedInOrder)'
    BY <1>1
       DEF IInv, FreshAgrees, PhaseAgrees, InFlight, TransferAgrees,
           SentInOrder, Arriving, ReceivedInOrder, Abort, FwAborted,
           backendVars, txVars, rxVars, firmwareVars, callerVars
  <2>4. QED
    BY <2>1, <2>2, <2>3 DEF IInv
\* An error keeps what the firmware has done so far.
<1>2. ASSUME InterfaceError PROVE IInv'
  <2>1. NoAnswer.code = "none"
    BY <1>2, NoAnswerIsNone
  <2>2. TypeOK'
    BY <1>2
       DEF IInv, TypeOK, ChanTypeOK, ConnectionTypeOK, SocketTypeOK,
           BufferTypeOK, StreamTypeOK, InterfaceError, FwError, backendVars,
           socketVars, txVars, rxVars, firmwareVars, callerVars
  <2>3. (InFlight /\ ChannelAgrees /\ PhaseAgrees)'
    BY <1>2
       DEF IInv, InFlight, ChannelAgrees, PhaseAgrees, InterfaceError,
           FwError, backendVars, socketVars, callerVars
  <2>4. (FreshAgrees /\ TransferAgrees /\ SentInOrder /\ ReceivedInOrder)'
    BY <1>2, <2>1
       DEF IInv, FreshAgrees, PhaseAgrees, InFlight, ChannelAgrees,
           TransferAgrees, SentInOrder, Arriving, ReceivedInOrder,
           InterfaceError, FwError, backendVars, txVars, rxVars,
           firmwareVars, callerVars
  <2>5. QED
    BY <2>2, <2>3, <2>4 DEF IInv
\* A deadline that passes changes nothing yet.
<1>3. ASSUME DeadlinePasses PROVE IInv'
  <2>1. TypeOK'
    BY <1>3
       DEF IInv, TypeOK, ChanTypeOK, ConnectionTypeOK, SocketTypeOK,
           BufferTypeOK, StreamTypeOK, DeadlinePasses, Expire, backendVars,
           socketVars, txVars, rxVars, firmwareVars, callerVars
  <2>2. (InFlight /\ ChannelAgrees /\ PhaseAgrees)'
    BY <1>3
       DEF IInv, InFlight, ChannelAgrees, PhaseAgrees, DeadlinePasses,
           Expire, backendVars, socketVars, callerVars
  <2>3. (FreshAgrees /\ TransferAgrees /\ SentInOrder /\ ReceivedInOrder)'
    BY <1>3
       DEF IInv, FreshAgrees, TransferAgrees, SentInOrder, Arriving,
           ReceivedInOrder, DeadlinePasses, Expire, backendVars, txVars,
           rxVars, firmwareVars, callerVars
  <2>4. QED
    BY <2>1, <2>2, <2>3 DEF IInv
\* A send that gets late changes nothing yet.
<1>4. ASSUME SendGetsLate PROVE IInv'
  <2>1. TypeOK'
    BY <1>4
       DEF IInv, TypeOK, ChanTypeOK, ConnectionTypeOK, SocketTypeOK,
           BufferTypeOK, StreamTypeOK, SendGetsLate, channel, socketVars,
           rxVars, firmwareVars, callerVars
  <2>2. (InFlight /\ ChannelAgrees /\ PhaseAgrees)'
    BY <1>4
       DEF IInv, InFlight, ChannelAgrees, PhaseAgrees, SendGetsLate, channel,
           socketVars, callerVars
  <2>3. (FreshAgrees /\ TransferAgrees /\ SentInOrder /\ ReceivedInOrder)'
    BY <1>4
       DEF IInv, FreshAgrees, TransferAgrees, SentInOrder, Arriving,
           ReceivedInOrder, SendGetsLate, channel, rxVars, firmwareVars,
           callerVars
  <2>4. QED
    BY <2>1, <2>2, <2>3 DEF IInv
\* A clock that stops changes nothing yet.
<1>5. ASSUME ClockStops PROVE IInv'
  <2>1. TypeOK'
    BY <1>5
       DEF IInv, TypeOK, ChanTypeOK, ConnectionTypeOK, SocketTypeOK,
           BufferTypeOK, StreamTypeOK, ClockStops, channel, backendVars,
           socketVars, txVars, rxVars, firmwareVars, callerVars
  <2>2. (InFlight /\ ChannelAgrees /\ PhaseAgrees)'
    BY <1>5
       DEF IInv, InFlight, ChannelAgrees, PhaseAgrees, ClockStops, channel,
           backendVars, socketVars, callerVars
  <2>3. (FreshAgrees /\ TransferAgrees /\ SentInOrder /\ ReceivedInOrder)'
    BY <1>5
       DEF IInv, FreshAgrees, TransferAgrees, SentInOrder, Arriving,
           ReceivedInOrder, ClockStops, channel, backendVars, txVars, rxVars,
           firmwareVars, callerVars
  <2>4. QED
    BY <2>1, <2>2, <2>3 DEF IInv
\* The interface is switched with no command in progress.
<1>6. ASSUME SwitchInterface PROVE IInv'
  <2>1. TypeOK'
    BY <1>6
       DEF IInv, TypeOK, ChanTypeOK, ConnectionTypeOK, SocketTypeOK,
           BufferTypeOK, StreamTypeOK, SwitchInterface, TogglePresence,
           socketVars, txVars, rxVars, firmwareVars, callerVars
  <2>2. (InFlight /\ ChannelAgrees /\ PhaseAgrees)'
    BY <1>6
       DEF IInv, InFlight, ChannelAgrees, PhaseAgrees, SwitchInterface,
           TogglePresence, socketVars, callerVars
  <2>3. (FreshAgrees /\ TransferAgrees /\ SentInOrder /\ ReceivedInOrder)'
    BY <1>6
       DEF IInv, FreshAgrees, TransferAgrees, SentInOrder, Arriving,
           ReceivedInOrder, SwitchInterface, TogglePresence, txVars, rxVars,
           firmwareVars, callerVars
  <2>4. QED
    BY <2>1, <2>2, <2>3 DEF IInv
<1>7. QED
  BY <1>1, <1>2, <1>3, <1>4, <1>5, <1>6, FirmwarePreserves DEF Environment

-----------------------------------------------------------------------------
(* The theorems.                                                             *)

\* The program starts with nothing in progress and nothing held.
LEMMA InitEstablishes == Init => IInv
<1> SUFFICES ASSUME Init PROVE IInv
  OBVIOUS
<1>1. TypeOK
  <2>1. ChanTypeOK
    <3>1. iface \in {"idle", "busy", "error"}
      BY DEF Init, ChanInit
    <3>2. QED
      BY <3>1 DEF Init, ChanInit, ChanTypeOK
  <2>2. ConnectionTypeOK
    <3>1. stalled \in 0..STALL_LIMIT
      BY StallAssumption DEF Init
    <3>2. QED
      BY <3>1 DEF Init, ConnectionTypeOK, States, Operations
  <2>3. SocketTypeOK /\ BufferTypeOK /\ StreamTypeOK
    BY DEF Init, SocketTypeOK, BufferTypeOK, StreamTypeOK
  <2>4. QED
    BY <2>1, <2>2, <2>3 DEF TypeOK
<1>2. InFlight /\ ChannelAgrees /\ PhaseAgrees
  BY StallAssumption DEF Init, ChanInit, InFlight, ChannelAgrees, PhaseAgrees
<1>3. FreshAgrees /\ TransferAgrees /\ SentInOrder /\ ReceivedInOrder
  BY DEF Init, FreshAgrees, TransferAgrees, SentInOrder, ReceivedInOrder
<1>4. QED
  BY <1>1, <1>2, <1>3 DEF IInv

\* Every step of every caller, of the backend and of its environment keeps the
\* invariant.
LEMMA NextPreserves == IInv /\ [Next]_vars => IInv'
  BY CallerPreserves, PollPreserves, EnvironmentPreserves, StutteringPreserves
     DEF Next

\* The inductive invariant holds of every run.
THEOREM Invariance == Spec => []IInv
  BY InitEstablishes, NextPreserves, PTL DEF Spec

\* Every variable keeps its type, whatever the firmware answers.
THEOREM TypesHold == Spec => []TypeOK
<1>1. IInv => TypeOK
  BY DEF IInv
<1>2. QED
  BY <1>1, Invariance, PTL

\* While a command is in progress the channel is waiting for it, so that no
\* answer is ever taken for that of another command.
THEOREM InFlightHolds == Spec => []InFlight
<1>1. IInv => InFlight
  BY DEF IInv
<1>2. QED
  BY <1>1, Invariance, PTL

\* The bytes write() accepts are put on the connection in order, none skipped
\* and none twice, for every payload size and however the firmware splits them.
THEOREM SentInOrderHolds == Spec => []SentInOrder
<1>1. IInv => SentInOrder
  BY DEF IInv
<1>2. QED
  BY <1>1, Invariance, PTL

\* The bytes taken off the connection reach the caller once and in order, and
\* the end of the stream is shown only after the last of them.
THEOREM ReceivedInOrderHolds == Spec => []ReceivedInOrder
<1>1. IInv => ReceivedInOrder
  BY DEF IInv
<1>2. QED
  BY <1>1, Invariance, PTL

-----------------------------------------------------------------------------
(* The Ultimate backend implements the contract of network.h, for every value *)
(* of the constants and every caller that obeys it.                           *)
(* What the contract needs beyond IInv: a closed backend has left nothing for *)
(* the firmware to do, and nothing was read that had not been fetched.        *)

\* An interface that is absent does nothing.
AbsentIdle == ~present => iface = "idle"

\* Bytes may still be moved after a failure, but not once it has been closed.
ClosedQuiet == connection = "CLOSED" => request = NoRequest

ReadFetched == consumed <= fetched

Rest == AbsentIdle /\ ClosedQuiet /\ ReadFetched

\* The state of a backend that has something in progress.
LEMMA Working ==
  ASSUME IInv, booted, operation # "NONE"
  PROVE  connection \in {"INITIALIZING", "CONNECTING", "CONNECTED", "CLOSING"}
  BY DEF IInv, TypeOK, ConnectionTypeOK, States, PhaseAgrees

\* A closed or ended backend that has been initialised has nothing in progress.
LEMMA AtRest ==
  ASSUME IInv, Rest, connection \in {"CLOSED", "EOF"}
  PROVE  request = NoRequest
  BY DEF IInv, PhaseAgrees, Rest, ClosedQuiet

\* On a connection no more bytes were written than were accepted.
LEMMA WrittenAccepted == IInv => (connection = "CONNECTED" => written <= accepted)
<1> SUFFICES ASSUME IInv, connection = "CONNECTED" PROVE written <= accepted
  OBVIOUS
<1>1. Arriving("WRITE_SOCKET") <= txLength - txOffset
  <2>1. CASE /\ operation = "WRITE_SOCKET" /\ stage = "BUSY"
             /\ iface \in {"answered", "error"} /\ request # NoRequest
             /\ answer.code = "ok" /\ answer.n <= request.count
    BY <2>1 DEF IInv, TransferAgrees, Arriving
  <2>2. CASE ~(/\ operation = "WRITE_SOCKET" /\ stage = "BUSY"
               /\ iface \in {"answered", "error"} /\ request # NoRequest
               /\ answer.code = "ok" /\ answer.n <= request.count)
    BY <2>2 DEF IInv, SentInOrder, Arriving, TypeOK, BufferTypeOK
  <2>3. QED
    BY <2>1, <2>2
<1>2. Arriving("WRITE_SOCKET") \in Nat
  <2>1. CASE answer.code = "ok"
    BY <2>1, AnswerFields DEF IInv, Arriving, Codes
  <2>2. CASE answer.code # "ok"
    BY <2>2 DEF Arriving
  <2>3. QED
    BY <2>1, <2>2
<1>3. QED
  BY <1>1, <1>2
     DEF IInv, SentInOrder, TypeOK, BufferTypeOK, StreamTypeOK

\* On a connection no more bytes were read than were fetched.
LEMMA ConsumedFetched == IInv => (connection = "CONNECTED" => consumed <= fetched)
<1>1. IInv => Arriving("READ_SOCKET") \in Nat
  <2>1. CASE answer.code = "ok"
    BY <2>1, AnswerFields DEF IInv, Arriving, Codes
  <2>2. CASE answer.code # "ok"
    BY <2>2 DEF Arriving
  <2>3. QED
    BY <2>1, <2>2
<1>2. QED
  BY <1>1 DEF IInv, ReceivedInOrder, TypeOK, BufferTypeOK, StreamTypeOK

-----------------------------------------------------------------------------
(* Every step keeps it.                                                       *)

\* Every call keeps it.
LEMMA CallerRests ==
  ASSUME IInv, IInv', Rest, Caller PROVE Rest'
<1>1. ASSUME Initialize PROVE Rest'
  BY <1>1
     DEF Rest, AbsentIdle, ClosedQuiet, ReadFetched, Initialize, UciReset,
         Failure, channel, firmwareVars
<1>2. ASSUME booted, Connect PROVE Rest'
  <2>1. \/ Issued("OPEN", 0, 0) /\ connection' = "CONNECTING"
        \/ Failure /\ UNCHANGED channel
    BY <1>2, StartIssues DEF Connect, Commands
  <2>2. AbsentIdle'
    <3>1. UNCHANGED channel \/ UciStart(Command("OPEN", NoSocket, 0, 0))
      BY <1>2 DEF Connect, Start
    <3>2. QED
      BY <3>1 DEF Rest, AbsentIdle, UciStart, Push, channel
  <2>3. QED
    BY <1>2, <2>1, <2>2
       DEF Rest, ClosedQuiet, ReadFetched, Connect, Failure, Issued
<1>3. ASSUME booted, Close PROVE Rest'
  <2>1. AbsentIdle'
    <3>1. \/ UNCHANGED channel \/ UciReset
          \/ UciStart(CloseRequest(socketId))
      BY <1>3 DEF Close, StartCloseIdle, Start
    <3>2. QED
      BY <3>1 DEF Rest, AbsentIdle, UciStart, UciReset, Push, channel
  <2>2. ClosedQuiet'
    <3>1. StartCloseIdle =>
            \/ connection' # "CLOSED"
            \/ operation' = "NONE" /\ UNCHANGED channel
      BY CloseIdleIssues DEF IInv, Failure
    <3>2. CASE connection = "FAILED"
      BY <1>3, <3>2
         DEF Close, Rest, AbsentIdle, ClosedQuiet, IInv, ChannelAgrees, channel
    <3>3. CASE connection # "FAILED"
      <4>1. operation = "NONE" => connection \in {"CLOSED", "CONNECTED", "EOF"}
        BY <1>3, <3>3
           DEF Close, IInv, TypeOK, ConnectionTypeOK, States, PhaseAgrees
      <4>2. operation = "NONE" => request = NoRequest
        BY <4>1 DEF IInv, PhaseAgrees, Rest, ClosedQuiet
      <4>3. QED
        BY <1>3, <3>1, <3>3, <4>2 DEF Close, ClosedQuiet, channel
    <3>4. QED
      BY <3>2, <3>3
  <2>3. ReadFetched'
    BY <1>3 DEF Rest, ReadFetched, Close, firmwareVars
  <2>4. QED
    BY <2>1, <2>2, <2>3 DEF Rest
<1>4. ASSUME NEW c \in 1..MaxRx, connection = "CONNECTED", Receive(c)
      PROVE  Rest'
  <2>1. (consumed <= fetched)'
    <3>1. connection' = "CONNECTED"
      BY <1>4 DEF Receive
    <3>2. (connection = "CONNECTED" => consumed <= fetched)'
      BY ConsumedFetched, PTL
    <3>3. QED
      BY <3>1, <3>2
  <2>2. QED
    BY <1>4, <2>1
       DEF Rest, AbsentIdle, ClosedQuiet, ReadFetched, Receive, channel
<1>5. ASSUME NEW c \in 1..MaxTx, Transmit(c) PROVE Rest'
  BY <1>5
     DEF Rest, AbsentIdle, ClosedQuiet, ReadFetched, Transmit, channel,
         firmwareVars
<1>6. QED
  BY <1>1, <1>2, <1>3, <1>4, <1>5 DEF Caller

\* At the end of a command the interface is idle, or busy with the next.
LEMMA DoneIsIdle ==
  ASSUME NEW req, UciDone(req)
  PROVE  UNCHANGED present /\ (~present => iface' = "idle")
  BY DEF UciDone, Push

\* Whatever completed() does ends a command of the driver.
LEMMA CompletedDone ==
  ASSUME Completed
  PROVE  UNCHANGED present /\ (~present => iface' = "idle")
<1>1. \A cstate, have, s :
        StartCloseNext(cstate, have, s) => \E req : UciDone(req)
  BY DEF StartCloseNext, StartNext, Complete
<1>2. \A cstate, have, s, txl, rxl :
        ThenCloseIfAsked(cstate, have, s, txl, rxl) => \E req : UciDone(req)
  BY <1>1 DEF ThenCloseIfAsked, Complete
<1>3. CASE CompletedReset
  BY <1>1, <1>3, DoneIsIdle DEF CompletedReset, StartNext
<1>4. CASE CompletedIdentify
  BY <1>4, DoneIsIdle DEF CompletedIdentify, StartNext
<1>5. CASE CompletedAddress
  BY <1>2, <1>5, DoneIsIdle DEF CompletedAddress
<1>6. CASE CompletedOpen
  BY <1>2, <1>6, DoneIsIdle DEF CompletedOpen
<1>7. CASE CompletedRead \/ CompletedReadAgain
  BY <1>2, <1>7, DoneIsIdle DEF CompletedRead, CompletedReadAgain
<1>8. CASE CompletedReadEof \/ CompletedClose
  BY <1>8, DoneIsIdle DEF CompletedReadEof, CompletedClose, Complete
<1>9. CASE CompletedWrite
  BY <1>2, <1>9, DoneIsIdle DEF CompletedWrite
<1>10. CASE CompletedRejected
  BY <1>10, DoneIsIdle DEF CompletedRejected
<1>11. QED
  BY <1>3, <1>4, <1>5, <1>6, <1>7, <1>8, <1>9, <1>10 DEF Completed

\* What completed() may make of the connection.
Moves ==
  \/ UNCHANGED connection
  \/ connection = "INITIALIZING" /\ connection' = "CLOSED"
  \/ connection = "CONNECTING" /\ connection' \in {"CONNECTED", "CLOSING"}
  \/ connection = "CONNECTED" /\ connection' = "EOF"
  \/ connection = "CLOSING" /\ connection' = "CLOSED"
  \/ connection' = "FAILED"

\* Every case of completed() moves the connection as the contract has it, and
\* closes it only with the last command.
LEMMA CompletedMoves ==
  ASSUME IInv, Completed
  PROVE  Moves /\ (connection' = "CLOSED" => request' = NoRequest)
<1>1. /\ booted /\ operation # "NONE"
      /\ connection \in {"INITIALIZING", "CONNECTING", "CONNECTED", "CLOSING"}
  BY Working
     DEF Completed, CompletedReset, CompletedIdentify, CompletedAddress,
         CompletedOpen, CompletedRead, CompletedReadAgain, CompletedReadEof,
         CompletedWrite, CompletedClose, CompletedRejected, CompletedFrame
<1>2. /\ connection = "INITIALIZING" =>
            operation \in {"RESET", "IDENTIFY", "ADDRESS"}
      /\ connection = "CONNECTING" => operation = "OPEN"
      /\ connection = "CONNECTED" =>
            operation \in {"READ_SOCKET", "WRITE_SOCKET"} /\ ~closing
      /\ connection = "CLOSING" => closing
      /\ operation \in {"RESET", "IDENTIFY", "ADDRESS"} => ~haveSocket
  BY <1>1 DEF IInv, PhaseAgrees
<1>3. TypeOK /\ haveSocket \in BOOLEAN /\ socketId \in Socket \cup {NoSocket}
  BY DEF IInv, TypeOK, SocketTypeOK
<1>4. CASE CompletedReset
  <2>1. \/ connection' = "CLOSED" /\ Stopped
        \/ UNCHANGED connection
    BY <1>3, <1>4, CloseNextIssues DEF CompletedReset
  <2>2. QED
    BY <1>1, <1>2, <1>4, <2>1 DEF CompletedReset, Moves, Stopped
<1>5. CASE CompletedIdentify
  BY <1>1, <1>5 DEF CompletedIdentify, Moves
<1>6. CASE CompletedAddress
  <2>1. connection' = "CLOSED" /\ Stopped
    BY <1>2, <1>3, <1>6, EndOfSwitch DEF CompletedAddress
  <2>2. QED
    BY <1>1, <1>2, <1>6, <2>1 DEF CompletedAddress, Moves, Stopped
<1>7. CASE CompletedOpen
  <2>1. answer.socket \in Socket \cup {NoSocket}
    BY <1>3, <1>7, AnswerFields DEF CompletedOpen, Codes
  <2>2. connection' = IF closing THEN "CLOSING" ELSE "CONNECTED"
    BY <1>3, <1>7, <2>1, EndOfSwitch DEF CompletedOpen
  <2>3. QED
    BY <1>1, <1>2, <1>7, <2>2 DEF CompletedOpen, Moves
<1>8. CASE CompletedRead \/ CompletedReadAgain \/ CompletedWrite
  <2>1. \/ UNCHANGED connection
        \/ closing /\ connection' = "CLOSED" /\ Stopped
    <3>1. \A txl, rxl :
            ThenCloseIfAsked(connection, haveSocket, socketId, txl, rxl) =>
              \/ UNCHANGED connection
              \/ closing /\ connection' = "CLOSED" /\ Stopped
      BY <1>3, EndOfSwitch
    <3>2. QED
      BY <1>8, <3>1 DEF CompletedRead, CompletedReadAgain, CompletedWrite
  <2>2. QED
    BY <1>1, <1>2, <1>8, <2>1
       DEF CompletedRead, CompletedReadAgain, CompletedWrite, Moves, Stopped
<1>9. CASE CompletedReadEof
  BY <1>1, <1>2, <1>9, CompleteStops DEF CompletedReadEof, Moves, Stopped
<1>10. CASE CompletedClose
  BY <1>1, <1>2, <1>10, CompleteStops DEF CompletedClose, Moves, Stopped
<1>11. CASE CompletedRejected
  BY <1>11 DEF CompletedRejected, Failure, Moves
<1>12. QED
  BY <1>4, <1>5, <1>6, <1>7, <1>8, <1>9, <1>10, <1>11 DEF Completed

\* Every poll keeps it.
LEMMA PollRests ==
  ASSUME IInv, Rest, Poll PROVE Rest'
<1>1. ASSUME Completed PROVE Rest'
  <2>1. UNCHANGED <<consumed, fetched>>
    BY <1>1
       DEF Completed, CompletedReset, CompletedIdentify, CompletedAddress,
           CompletedOpen, CompletedRead, CompletedReadAgain, CompletedReadEof,
           CompletedWrite, CompletedClose, CompletedRejected, CompletedFrame,
           firmwareVars, callerVars
  <2>2. QED
    BY <1>1, <2>1, CompletedDone, CompletedMoves
       DEF Rest, AbsentIdle, ClosedQuiet, ReadFetched
<1>2. ASSUME PollStalled \/ PollAbandon PROVE Rest'
  <2>1. connection' = "FAILED" /\ UNCHANGED <<consumed, fetched, present>>
    BY <1>2
       DEF PollStalled, PollAbandon, Failure, UciTimeout, UciError, Abandon,
           channel, firmwareVars, callerVars
  <2>2. AbsentIdle'
    BY <1>2
       DEF Rest, AbsentIdle, PollStalled, PollAbandon, UciTimeout, UciError,
           Abandon, channel
  <2>3. QED
    BY <2>1, <2>2 DEF Rest, ClosedQuiet, ReadFetched
<1>3. ASSUME PollPending \/ PollNothing PROVE Rest'
  BY <1>3
     DEF Rest, AbsentIdle, ClosedQuiet, ReadFetched, PollPending, UciPending,
         PollNothing, vars, firmwareVars, callerVars
<1>4. ASSUME PollSend \/ PollFetch PROVE Rest'
  <2>1. \/ UNCHANGED channel
        \/ \E req : UciStart(req)
    BY <1>4 DEF PollSend, PollFetch, Start
  <2>2. AbsentIdle'
    BY <2>1 DEF Rest, AbsentIdle, UciStart, Push, channel
  <2>3. /\ connection' \in {"CONNECTED", "FAILED"}
        /\ UNCHANGED <<consumed, fetched>>
    BY <1>4
       DEF PollSend, PollFetch, Start, Failure, firmwareVars, callerVars
  <2>4. QED
    BY <2>2, <2>3 DEF Rest, ClosedQuiet, ReadFetched
<1>5. QED
  BY <1>1, <1>2, <1>3, <1>4 DEF Poll

\* The firmware moves bytes only for a command it has accepted.
LEMMA FirmwareMoves ==
  ASSUME IInv, Firmware
  PROVE  /\ request # NoRequest /\ iface # "idle"
         /\ request' \in {request, NoRequest} /\ iface' # "idle"
         /\ UNCHANGED <<present, connection, accepted, consumed, booted>>
         /\ written' >= written /\ fetched' >= fetched
         /\ written' \in Nat /\ fetched' \in Nat
<1>1. written \in Nat /\ fetched \in Nat
  BY DEF IInv, TypeOK, StreamTypeOK
<1>2. \E a, o : \E m, n \in Nat : Serve(a, o, written + m, fetched + n)
  <2>1. \A n : n \in 0..request.count => n \in Nat
    OBVIOUS
  <2>2. written + 0 = written /\ fetched + 0 = fetched
    BY <1>1
  <2>3. ServeWrite => \E a, o : \E m \in Nat : Serve(a, o, written + m, fetched)
    BY <2>1 DEF ServeWrite
  <2>4. ServeRead => \E a, o : \E n \in Nat : Serve(a, o, written, fetched + n)
    BY <2>1 DEF ServeRead
  <2>5. Firmware =>
          ServeWrite \/ ServeRead \/ \E a, o : Serve(a, o, written, fetched)
    BY DEF Firmware, ServeBad, ServeInfo, ServeOpen, ServeClose, ServeAgain,
           ServeEof, ServeExcess
  <2>6. QED
    BY <2>2, <2>3, <2>4, <2>5
<1>3. PICK a, o : \E m, n \in Nat : Serve(a, o, written + m, fetched + n)
  BY <1>2
<1>4. PICK m \in Nat, n \in Nat : Serve(a, o, written + m, fetched + n)
  BY <1>3
<1>5. QED
  BY <1>1, <1>4 DEF Serve, FwAnswer, FwLate, backendVars, callerVars

\* The firmware, the user and the clock keep it.
LEMMA EnvironmentRests ==
  ASSUME IInv, Rest, Environment PROVE Rest'
<1>1. ASSUME Firmware PROVE Rest'
  BY <1>1, FirmwareMoves
     DEF Rest, AbsentIdle, ClosedQuiet, ReadFetched, IInv, TypeOK, StreamTypeOK
<1>2. ASSUME Abort \/ InterfaceError PROVE Rest'
  BY <1>2
     DEF Rest, AbsentIdle, ClosedQuiet, ReadFetched, Abort, InterfaceError,
         FwAborted, FwError, backendVars, callerVars, firmwareVars
<1>3. ASSUME DeadlinePasses \/ SendGetsLate \/ ClockStops PROVE Rest'
  BY <1>3
     DEF Rest, AbsentIdle, ClosedQuiet, ReadFetched, DeadlinePasses, Expire,
         SendGetsLate, ClockStops, channel, backendVars, callerVars,
         firmwareVars
<1>4. ASSUME SwitchInterface PROVE Rest'
  BY <1>4
     DEF Rest, AbsentIdle, ClosedQuiet, ReadFetched, SwitchInterface,
         TogglePresence, callerVars, firmwareVars
<1>5. QED
  BY <1>1, <1>2, <1>3, <1>4 DEF Environment

\* It holds at the start, before the interface has been given anything.
LEMMA InitRests == Init => Rest
  BY DEF Init, ChanInit, Rest, AbsentIdle, ClosedQuiet, ReadFetched

\* Every step keeps it.
LEMMA NextRests == IInv /\ IInv' /\ Rest /\ [Next]_vars => Rest'
<1>1. UNCHANGED vars /\ Rest => Rest'
  BY DEF vars, Rest, AbsentIdle, ClosedQuiet, ReadFetched
<1>2. QED
  BY <1>1, CallerRests, PollRests, EnvironmentRests DEF Next

-----------------------------------------------------------------------------
(* Every step is a step of the contract, or changes nothing of it.            *)

ContractStep == [Contract!Next]_(Contract!vars)

\* A step that moves no bytes and the connection at most to FAILED.
LEMMA FailureIsTransfer ==
  ASSUME IInv, Rest, UNCHANGED <<accepted, written, fetched, consumed>>,
         \/ UNCHANGED connection
         \/ connection \notin {"CLOSED", "EOF"} /\ connection' = "FAILED"
  PROVE  ContractStep
<1>1. CASE UNCHANGED connection
  BY <1>1 DEF ContractStep, Contract!vars, Contract!streams
<1>2. CASE connection \notin {"CLOSED", "EOF"} /\ connection' = "FAILED"
  <2>1. Contract!Grow
    BY <1>2
       DEF Contract!Grow, Rest, ReadFetched, IInv, TypeOK, StreamTypeOK
  <2>2. Contract!Transfer
    BY <1>2, <2>1 DEF Contract!Transfer
  <2>3. QED
    BY <2>2 DEF ContractStep, Contract!Next
<1>3. QED
  BY <1>1, <1>2

\* Every call is one of the contract's.
LEMMA CallerImplements ==
  ASSUME IInv, IInv', Rest, Rest', Caller PROVE ContractStep
<1>1. ASSUME Initialize PROVE ContractStep
  <2>1. Contract!Initialize
    BY <1>1
       DEF Initialize, Failure, firmwareVars, Contract!Initialize,
           Contract!streams
  <2>2. QED
    BY <2>1 DEF ContractStep, Contract!Next
<1>2. ASSUME booted, Connect PROVE ContractStep
  <2>1. Contract!Connect
    BY <1>2
       DEF Connect, Start, Failure, Contract!Connect, Contract!Becomes,
           Contract!streams
  <2>2. QED
    BY <2>1 DEF ContractStep, Contract!Next
<1>3. ASSUME booted, Close PROVE ContractStep
  <2>1. connection' \in {"CLOSING", "CLOSED", "FAILED"}
    BY <1>3 DEF Close, StartCloseIdle, Start, Failure
  <2>2. Contract!Close
    BY <1>3, <2>1 DEF Close, firmwareVars, Contract!Close, Contract!streams
  <2>3. QED
    BY <2>2 DEF ContractStep, Contract!Next
<1>4. ASSUME connection = "CONNECTED",
             \/ \E n \in 1..MaxRx : Receive(n)
             \/ \E n \in 1..MaxTx : Transmit(n)
      PROVE  ContractStep
  <2>1. UNCHANGED <<connection, written, fetched>>
    BY <1>4 DEF Receive, Transmit, firmwareVars
  <2>2. accepted' >= accepted /\ consumed' >= consumed
    <3>1. ASSUME NEW n \in 1..MaxRx, Receive(n)
          PROVE  accepted' >= accepted /\ consumed' >= consumed
      BY <3>1 DEF Receive, IInv, TypeOK, StreamTypeOK, BufferTypeOK
    <3>2. ASSUME NEW n \in 1..MaxTx, Transmit(n)
          PROVE  accepted' >= accepted /\ consumed' >= consumed
      BY <3>2, PayloadAssumption DEF Transmit, IInv, TypeOK, StreamTypeOK
    <3>3. QED
      BY <1>4, <3>1, <3>2
  <2>3. (connection = "CONNECTED" => written <= accepted)'
    BY WrittenAccepted, PTL
  <2>4. Contract!Grow
    BY <2>1, <2>2, <2>3
       DEF Contract!Grow, Rest, ReadFetched, IInv, TypeOK, StreamTypeOK
  <2>5. QED
    BY <1>4, <2>1, <2>4 DEF ContractStep, Contract!Next, Contract!Transfer
<1>5. QED
  BY <1>1, <1>2, <1>3, <1>4 DEF Caller, Transmit

\* Every poll moves the connection as the contract has it.
LEMMA PollImplements ==
  ASSUME IInv, IInv', Rest, Poll PROVE ContractStep
<1>1. UNCHANGED <<accepted, written, fetched, consumed>>
  BY DEF Poll, PollStalled, PollAbandon, PollPending, PollSend, PollFetch,
         PollNothing, vars,
         Completed, CompletedReset, CompletedIdentify, CompletedAddress,
         CompletedOpen, CompletedRead, CompletedReadAgain, CompletedReadEof,
         CompletedWrite, CompletedClose, CompletedRejected, CompletedFrame,
         firmwareVars, callerVars
<1>2. ASSUME Completed PROVE ContractStep
  <2>1. Moves
    BY <1>2, CompletedMoves
  <2>2. connection \notin {"CLOSED", "EOF"}
    BY <1>2, Working
       DEF Completed, CompletedReset, CompletedIdentify, CompletedAddress,
           CompletedOpen, CompletedRead, CompletedReadAgain, CompletedReadEof,
           CompletedWrite, CompletedClose, CompletedRejected, CompletedFrame
  <2>3. CASE UNCHANGED connection \/ connection' = "FAILED"
    BY <1>1, <2>2, <2>3, FailureIsTransfer
  <2>4. CASE connection = "INITIALIZING" /\ connection' = "CLOSED"
    BY <1>1, <2>4
       DEF ContractStep, Contract!Next, Contract!Initialized,
           Contract!Becomes, Contract!streams
  <2>5. CASE connection = "CONNECTING" /\ connection' \in {"CONNECTED", "CLOSING"}
    BY <1>1, <2>5
       DEF ContractStep, Contract!Next, Contract!Connected,
           Contract!Becomes, Contract!streams
  <2>6. CASE connection = "CONNECTED" /\ connection' = "EOF"
    <3>1. (consumed = fetched)'
      BY <2>6 DEF IInv, ReceivedInOrder
    <3>2. QED
      BY <1>1, <2>6, <3>1
         DEF ContractStep, Contract!Next, Contract!EndOfStream,
             Contract!Becomes, Contract!streams
  <2>7. CASE connection = "CLOSING" /\ connection' = "CLOSED"
    BY <1>1, <2>7
       DEF ContractStep, Contract!Next, Contract!Closed,
           Contract!Becomes, Contract!streams
  <2>8. QED
    BY <2>1, <2>3, <2>4, <2>5, <2>6, <2>7 DEF Moves
<1>3. ASSUME PollStalled \/ PollAbandon PROVE ContractStep
  <2>1. booted
    BY <1>3
       DEF PollStalled, PollAbandon, UciTimeout, UciError, IInv, ChannelAgrees
  <2>2. connection \notin {"CLOSED", "EOF"} /\ connection' = "FAILED"
    BY <1>3, <2>1, Working
       DEF PollStalled, PollAbandon, LastStalledPoll, Failure
  <2>3. QED
    BY <1>1, <2>2, FailureIsTransfer
<1>4. ASSUME PollPending \/ PollNothing \/ PollSend \/ PollFetch
      PROVE  ContractStep
  <2>1. \/ UNCHANGED connection
        \/ connection = "CONNECTED" /\ connection' = "FAILED"
    BY <1>4
       DEF PollPending, PollNothing, PollSend, PollFetch, Start, Failure, vars
  <2>2. QED
    BY <1>1, <2>1, FailureIsTransfer
<1>5. QED
  BY <1>2, <1>3, <1>4 DEF Poll

\* What the firmware moves is a transfer, and the rest of the environment does
\* nothing that the contract speaks of.
LEMMA EnvironmentImplements ==
  ASSUME IInv, IInv', Rest, Rest', Environment PROVE ContractStep
<1>1. ASSUME Firmware PROVE ContractStep
  <2>1. connection \notin {"CLOSED", "EOF"} /\ UNCHANGED connection
    BY <1>1, FirmwareMoves, AtRest
  <2>2. (connection = "CONNECTED" => written <= accepted)'
    BY WrittenAccepted, PTL
  <2>3. Contract!Grow
    BY <1>1, <2>2, FirmwareMoves
       DEF Contract!Grow, Rest, ReadFetched, IInv, TypeOK, StreamTypeOK
  <2>4. QED
    BY <2>1, <2>3 DEF ContractStep, Contract!Next, Contract!Transfer
<1>2. ASSUME \/ Abort \/ InterfaceError \/ DeadlinePasses \/ SendGetsLate
             \/ ClockStops \/ SwitchInterface
      PROVE  ContractStep
  BY <1>2
     DEF ContractStep, Contract!vars, Contract!streams, Abort, InterfaceError,
         DeadlinePasses, SendGetsLate, ClockStops, SwitchInterface,
         backendVars, callerVars, firmwareVars
<1>3. QED
  BY <1>1, <1>2 DEF Environment

\* Every step of Spec is one of the contract's, or none.
LEMMA NextImplements ==
  IInv /\ IInv' /\ Rest /\ Rest' /\ [Next]_vars => ContractStep
<1>1. UNCHANGED vars => ContractStep
  BY DEF vars, ContractStep, Contract!vars, Contract!streams
<1>2. QED
  BY <1>1, CallerImplements, PollImplements, EnvironmentImplements DEF Next

\* A closed backend leaves the firmware nothing to do, so that bytes are moved
\* only while a connection lasts or after it has failed.
THEOREM RestHolds == Spec => []Rest
  BY InitRests, NextRests, Invariance, PTL DEF Spec

\* The Ultimate backend does what network.h promises of every backend, for every
\* caller that obeys it and whatever the firmware does.
THEOREM ContractHolds == Spec => ImplementsContract
<1>1. Init => Contract!Init
  BY DEF Init, Contract!Init, Contract!streams
<1>2. IInv /\ IInv' /\ Rest /\ Rest' /\ [Next]_vars
        => [Contract!Next]_(Contract!vars)
  BY NextImplements DEF ContractStep
<1>3. QED
  BY <1>1, <1>2, Invariance, RestHolds, PTL
     DEF Spec, ImplementsContract, Contract!Spec

-----------------------------------------------------------------------------
(* The sockets of the backend and those of the cartridge agree.               *)
(* The inductive invariant: which socket a command is for, what its answer    *)
(* says of it, and which sockets the firmware may hold.                       *)

\* The command op is with the firmware, or its answer waits to be seen.
InHand(op) == operation = op /\ stage = "BUSY" /\ request # NoRequest

\* A command the interface works on is one the driver waits for.
WorkAwaited ==
  iface \in {"busy", "answered"} /\ request # NoRequest => stage = "BUSY"

\* Commands about a socket are about the one the backend holds.
RequestSocket ==
  \A op \in {"READ_SOCKET", "WRITE_SOCKET", "CLOSE_SOCKET"} :
    InHand(op) => request.socket = socketId

\* The answer to a command is true of the sockets when it is seen.
AnswerTrue ==
  /\ InHand("OPEN") /\ answer.code = "ok" => answer.socket \in open
  /\ InHand("READ_SOCKET") /\ answer.code = "eof" => socketId \notin open
  /\ InHand("CLOSE_SOCKET") /\ answer.code = "ok" => socketId \notin open

\* The end of the stream is not left in the queues of a connected backend.
NoStaleEof ==
  connection = "CONNECTED" /\ operation = "NONE" => answer.code # "eof"

\* The sockets the backend holds, or is about to be told of.
Held ==
  (IF haveSocket THEN {socketId} ELSE {}) \cup
  (IF InHand("OPEN") /\ answer.code = "ok" THEN {answer.socket} ELSE {})

\* As long as nothing is abandoned, the firmware holds no other.
NothingLost ==
  ~abandoned =>
    /\ iface # "aborting"
    /\ open \subseteq Held
    /\ connection = "CLOSED" \/ operation = "OPEN" => ~haveSocket
    /\ present /\ operation = "NONE" => stage = "STOPPED"
    /\ ~present => open = {} /\ ~haveSocket

SInv ==
  /\ WorkAwaited /\ RequestSocket /\ AnswerTrue /\ NoStaleEof
  /\ ConnectedSocket /\ NothingLost

\* What the invariant speaks of.
socketState == <<present, iface, request, answer, stage, connection, operation,
                 haveSocket, socketId, open, abandoned>>

\* A step that changes nothing of it keeps it.
LEMMA SocketStateKept == SInv /\ UNCHANGED socketState => SInv'
  BY DEF socketState, SInv, WorkAwaited, RequestSocket, AnswerTrue, NoStaleEof,
         ConnectedSocket, NothingLost, Held, InHand

\* A command of the driver carries the socket it was made with.
LEMMA PushFor ==
  ASSUME NEW op, NEW s, NEW first, NEW count, Push(Command(op, s, first, count))
  PROVE  /\ request' # NoRequest => request'.socket = s
         /\ answer' = NoAnswer /\ stage' = "BUSY" /\ present' = present
         /\ iface' \in {"busy", "idle"}
  BY DEF Push, Command

\* start_close() with no command in progress closes the socket that is held.
LEMMA CloseIdleFor ==
  ASSUME TypeOK, StartCloseIdle
  PROVE  \/ /\ operation' = "CLOSE_SOCKET" /\ connection' = "CLOSING"
            /\ request' # NoRequest => request'.socket = socketId
            /\ answer' = NoAnswer /\ stage' = "BUSY" /\ present' = present
            /\ iface' \in {"busy", "idle"}
         \/ Failure /\ UNCHANGED channel
         \/ /\ connection' = "CLOSED" /\ operation' = "NONE" /\ ~haveSocket
            /\ UNCHANGED channel
<1>1. CASE haveSocket
  BY <1>1, PushFor
     DEF StartCloseIdle, Start, UciStart, CloseRequest, Command
<1>2. CASE ~haveSocket
  BY <1>2 DEF StartCloseIdle
<1>3. QED
  BY <1>1, <1>2

\* start_close() at the end of a command closes the socket that is held by then.
LEMMA CloseNextFor ==
  ASSUME NEW cstate, NEW have \in BOOLEAN, NEW s \in Socket \cup {NoSocket},
         StartCloseNext(cstate, have, s)
  PROVE  /\ answer' = NoAnswer /\ present' = present
         /\ iface' \in {"busy", "idle"}
         /\ \/ /\ have /\ operation' = "CLOSE_SOCKET" /\ connection' = cstate
               /\ request' # NoRequest => request'.socket = s
               /\ stage' = "BUSY"
            \/ /\ ~have /\ operation' = "NONE" /\ connection' = "CLOSED"
               /\ stage' = "STOPPED" /\ request' = NoRequest
<1>1. CASE have
  <2>1. CloseRequest(s) # NoRequest /\ CloseRequest(s).op = "CLOSE_SOCKET"
    BY DEF CloseRequest, Command, NoRequest
  <2>2. QED
    BY <1>1, <2>1, PushFor
       DEF StartCloseNext, StartNext, UciDone, CloseRequest
<1>2. CASE ~have
  BY <1>2, CompleteStops DEF StartCloseNext, Stopped
<1>3. QED
  BY <1>1, <1>2

\* The two ways out of the switch of completed().
LEMMA EndOfSwitchFor ==
  ASSUME NEW cstate, NEW have \in BOOLEAN, NEW s \in Socket \cup {NoSocket},
         NEW txl, NEW rxl, TypeOK,
         ThenCloseIfAsked(cstate, have, s, txl, rxl)
  PROVE  /\ haveSocket' = have /\ socketId' = s
         /\ answer' = NoAnswer /\ present' = present
         /\ iface' \in {"busy", "idle"}
         /\ \/ /\ have /\ closing
               /\ operation' = "CLOSE_SOCKET" /\ connection' = cstate
               /\ request' # NoRequest => request'.socket = s
               /\ stage' = "BUSY"
            \/ /\ operation' = "NONE"
               /\ stage' = "STOPPED" /\ request' = NoRequest
               /\ \/ ~have /\ closing /\ connection' = "CLOSED"
                  \/ ~closing /\ connection' = cstate
<1>1. CASE closing
  BY <1>1, CloseNextFor DEF ThenCloseIfAsked
<1>2. CASE ~closing
  BY <1>2, CompleteStops DEF ThenCloseIfAsked, Stopped
<1>3. QED
  BY <1>1, <1>2 DEF TypeOK, ConnectionTypeOK

-----------------------------------------------------------------------------
(* Every step keeps it.                                                       *)

\* Every call keeps it.
LEMMA CallerSockets ==
  ASSUME IInv, Rest, SInv, Caller PROVE SInv'
\* init() forgets the socket, which was none unless it says so.
<1>1. ASSUME Initialize PROVE SInv'
  <2>1. /\ ~haveSocket' /\ open' = open
        /\ abandoned' = (abandoned \/ haveSocket \/ iface # "idle")
        /\ \/ /\ UciReset
              /\ connection' = "INITIALIZING" /\ operation' = "RESET"
           \/ /\ ~present /\ UNCHANGED channel
              /\ connection' = "FAILED" /\ operation' = "NONE"
    BY <1>1 DEF Initialize, Failure, firmwareVars
  <2>2. (WorkAwaited /\ RequestSocket /\ AnswerTrue /\ NoStaleEof)'
    BY <2>1
       DEF SInv, WorkAwaited, RequestSocket, AnswerTrue, NoStaleEof, InHand,
           UciReset, channel
  <2>3. (ConnectedSocket /\ NothingLost)'
    <3>1. iface = "idle" /\ ~haveSocket => Held = {}
      BY DEF Held, InHand, IInv, ChannelAgrees
    <3>2. ~abandoned' => iface = "idle" /\ open = {} /\ ~abandoned
      BY <2>1, <3>1 DEF SInv, NothingLost
    <3>3. iface = "idle" => iface' = "idle"
      BY <2>1 DEF UciReset, channel
    <3>4. QED
      BY <2>1, <3>2, <3>3
         DEF ConnectedSocket, NothingLost, UciReset, channel
  <2>4. QED
    BY <2>2, <2>3 DEF SInv
\* connect() starts from a backend that holds no socket.
<1>2. ASSUME booted, Connect PROVE SInv'
  <2>1. /\ UNCHANGED <<haveSocket, socketId, open, abandoned, present>>
        /\ connection = "CLOSED" /\ operation = "NONE"
        /\ \/ /\ operation' = "OPEN" /\ connection' = "CONNECTING"
              /\ answer' = NoAnswer /\ stage' = "BUSY"
              /\ iface' \in {"busy", "idle"}
           \/ Failure /\ UNCHANGED channel
    BY <1>2, PushFor
       DEF Connect, Start, UciStart, IInv, PhaseAgrees, Command, socketVars,
           channel
  <2>2. (WorkAwaited /\ RequestSocket /\ AnswerTrue /\ NoStaleEof)'
    BY <2>1, NoAnswerIsNone
       DEF SInv, WorkAwaited, RequestSocket, AnswerTrue, NoStaleEof, InHand,
           Failure, channel
  <2>3. (ConnectedSocket /\ NothingLost)'
    BY <2>1
       DEF SInv, ConnectedSocket, NothingLost, Held, InHand, Failure, channel
  <2>4. QED
    BY <2>2, <2>3 DEF SInv
\* close() gives a socket that is held to the firmware to close.
<1>3. ASSUME booted, Close PROVE SInv'
  <2>1. UNCHANGED <<haveSocket, socketId, open>>
    BY <1>3 DEF Close, socketVars, firmwareVars
  <2>2. CASE /\ connection = "FAILED" /\ ~present /\ connection' = "CLOSED"
             /\ UNCHANGED <<operation, abandoned, channel>>
    BY <2>1, <2>2
       DEF SInv, WorkAwaited, RequestSocket, AnswerTrue, NoStaleEof,
           ConnectedSocket, NothingLost, Held, InHand, channel
  <2>3. CASE /\ connection = "FAILED" /\ UciReset
             /\ connection' = "CLOSING" /\ operation' = "CLOSE_RESET"
             /\ abandoned' = (abandoned \/ iface # "idle")
    <3>1. operation = "NONE"
      BY <1>3, <2>3 DEF IInv, PhaseAgrees
    <3>2. QED
      BY <2>1, <2>3, <3>1
         DEF SInv, WorkAwaited, RequestSocket, AnswerTrue, NoStaleEof,
             ConnectedSocket, NothingLost, Held, InHand, UciReset
  <2>4. CASE /\ operation # "NONE" /\ connection' = "CLOSING"
             /\ UNCHANGED <<operation, abandoned, channel>>
    BY <2>1, <2>4
       DEF SInv, WorkAwaited, RequestSocket, AnswerTrue, NoStaleEof,
           ConnectedSocket, NothingLost, Held, InHand, channel
  <2>5. CASE operation = "NONE" /\ StartCloseIdle /\ UNCHANGED abandoned
    <3>1. \/ /\ operation' = "CLOSE_SOCKET" /\ connection' = "CLOSING"
             /\ request' # NoRequest => request'.socket = socketId
             /\ answer' = NoAnswer /\ stage' = "BUSY" /\ present' = present
             /\ iface' \in {"busy", "idle"}
          \/ Failure /\ UNCHANGED channel
          \/ /\ connection' = "CLOSED" /\ operation' = "NONE" /\ ~haveSocket
             /\ UNCHANGED channel
      BY <2>5, CloseIdleFor DEF IInv
    <3>2. (WorkAwaited /\ RequestSocket /\ AnswerTrue /\ NoStaleEof)'
      BY <2>1, <3>1, NoAnswerIsNone
         DEF SInv, WorkAwaited, RequestSocket, AnswerTrue, NoStaleEof, InHand,
             Failure, channel
    <3>3. (ConnectedSocket /\ NothingLost)'
      BY <2>1, <2>5, <3>1
         DEF SInv, ConnectedSocket, NothingLost, Held, InHand, Failure, channel
    <3>4. QED
      BY <3>2, <3>3 DEF SInv
  <2>6. QED
    BY <1>3, <2>2, <2>3, <2>4, <2>5 DEF Close
\* Reading and writing the buffers is nothing to the sockets.
<1>4. ASSUME NEW n, Receive(n) PROVE SInv'
  BY <1>4, SocketStateKept
     DEF Receive, socketState, channel, socketVars, firmwareVars
<1>5. ASSUME NEW n, Transmit(n) PROVE SInv'
  BY <1>5, SocketStateKept
     DEF Transmit, socketState, channel, socketVars, firmwareVars
<1>6. QED
  BY <1>1, <1>2, <1>3, <1>4, <1>5 DEF Caller

\* A completed command leaves the channel idle or busy with the next, its
\* socket the one that is held, and no answer.
LEMMA CompletedSockets ==
  ASSUME IInv, Rest, SInv, Completed PROVE SInv'
<1>1. /\ booted /\ operation # "NONE" /\ UNCHANGED <<open, abandoned>>
  BY DEF Completed, CompletedReset, CompletedIdentify, CompletedAddress,
         CompletedOpen, CompletedRead, CompletedReadAgain, CompletedReadEof,
         CompletedWrite, CompletedClose, CompletedRejected, CompletedFrame,
         firmwareVars
<1>2. TypeOK /\ haveSocket \in BOOLEAN /\ socketId \in Socket \cup {NoSocket}
  BY DEF IInv, TypeOK, SocketTypeOK
<1>3. NoAnswer.code = "none"
  BY NoAnswerIsNone
\* The socket has been there all along.
<1>4. ASSUME /\ operation # "OPEN"
             /\ UNCHANGED <<haveSocket, socketId, present>>
             /\ answer' = NoAnswer /\ iface' \in {"busy", "idle"}
             /\ \/ /\ operation' \in {"CLOSE_SOCKET", "IDENTIFY", "ADDRESS"}
                   /\ request' # NoRequest /\ operation' = "CLOSE_SOCKET" =>
                        request'.socket = socketId
                   /\ stage' = "BUSY"
                \/ /\ operation' = "NONE" /\ stage' = "STOPPED"
                   /\ request' = NoRequest
             /\ connection' = "CLOSED" => ~haveSocket
             /\ connection' = "CONNECTED" => connection = "CONNECTED"
             /\ connection = "CONNECTED" => answer.code # "eof"
      PROVE  SInv'
  <2>1. (WorkAwaited /\ RequestSocket /\ AnswerTrue /\ NoStaleEof)'
    BY <1>3, <1>4
       DEF WorkAwaited, RequestSocket, AnswerTrue, NoStaleEof, InHand
  <2>2. ConnectedSocket'
    BY <1>1, <1>4 DEF SInv, ConnectedSocket
  <2>3. NothingLost'
    BY <1>1, <1>4 DEF SInv, NothingLost, Held, InHand
  <2>4. QED
    BY <2>1, <2>2, <2>3 DEF SInv
\* The socket is gone, and the answer says so.
<1>5. ASSUME /\ operation \in {"READ_SOCKET", "CLOSE_SOCKET"}
             /\ UciFinished /\ Complete /\ ~haveSocket'
             /\ connection' \in {"CLOSED", "EOF"}
             /\ operation = "READ_SOCKET" => answer.code = "eof"
             /\ operation = "CLOSE_SOCKET" => answer.code = "ok"
      PROVE  SInv'
  <2>1. InHand(operation)
    BY <1>1, <1>5, FinishedCommand DEF InHand, Commands
  <2>2. socketId \notin open
    BY <1>5, <2>1 DEF SInv, AnswerTrue
  <2>3. Stopped /\ operation' = "NONE"
    BY <1>5, CompleteStops
  <2>4. (WorkAwaited /\ RequestSocket /\ AnswerTrue /\ NoStaleEof)'
    BY <1>5, <2>3
       DEF Stopped, WorkAwaited, RequestSocket, AnswerTrue, NoStaleEof, InHand
  <2>5. (ConnectedSocket /\ NothingLost)'
    BY <1>1, <1>5, <2>2, <2>3
       DEF Stopped, SInv, ConnectedSocket, NothingLost, Held, InHand
  <2>6. QED
    BY <2>4, <2>5 DEF SInv
<1>6. CASE CompletedReset
  <2>1. UNCHANGED <<haveSocket, socketId>> /\ operation # "OPEN"
    BY <1>6 DEF CompletedReset, socketVars
  <2>2. connection # "CONNECTED" /\ (connection = "CLOSED" => ~haveSocket)
    BY <1>1, <1>6 DEF CompletedReset, IInv, PhaseAgrees
  <2>3. CASE StartCloseNext(connection, haveSocket, socketId)
    BY <1>2, <1>4, <2>1, <2>2, <2>3, CloseNextFor
  <2>4. CASE /\ StartNext(Command("IDENTIFY", NoSocket, 0, 0))
             /\ UNCHANGED connection
    <3>1. Issued("IDENTIFY", 0, 0)
      BY <2>4, StartNextIssues DEF Commands
    <3>2. QED
      BY <1>4, <2>1, <2>2, <2>4, <3>1 DEF Issued
  <2>5. QED
    BY <1>6, <2>3, <2>4 DEF CompletedReset
<1>7. CASE CompletedIdentify
  <2>1. Issued("ADDRESS", 0, 0)
    BY <1>7, StartNextIssues DEF CompletedIdentify, Commands
  <2>2. connection \notin {"CONNECTED", "CLOSED"}
    BY <1>1, <1>7 DEF CompletedIdentify, IInv, PhaseAgrees
  <2>3. QED
    BY <1>4, <1>7, <2>1, <2>2 DEF CompletedIdentify, Issued, socketVars
<1>8. CASE CompletedAddress
  <2>1. ~haveSocket /\ connection # "CONNECTED" /\ operation # "OPEN"
    BY <1>1, <1>8 DEF CompletedAddress, IInv, PhaseAgrees
  <2>2. QED
    BY <1>2, <1>4, <1>8, <2>1, EndOfSwitchFor DEF CompletedAddress
\* The answer of an OPEN names the socket, which the firmware holds.
<1>9. CASE CompletedOpen
  <2>1. /\ answer.code = "ok" /\ operation = "OPEN" /\ CompletedFrame
        /\ answer.socket \in Socket \cup {NoSocket}
    BY <1>2, <1>9, AnswerFields DEF CompletedOpen, Codes
  <2>2. /\ ThenCloseIfAsked(IF closing THEN "CLOSING" ELSE "CONNECTED", TRUE,
                            answer.socket, txLength, rxLength)
    BY <1>9 DEF CompletedOpen
  <2>3. /\ haveSocket' /\ socketId' = answer.socket
        /\ answer' = NoAnswer /\ present' = present
        /\ iface' \in {"busy", "idle"}
        /\ \/ /\ operation' = "CLOSE_SOCKET" /\ connection' = "CLOSING"
              /\ request' # NoRequest => request'.socket = socketId'
              /\ stage' = "BUSY"
           \/ /\ operation' = "NONE" /\ connection' = "CONNECTED"
              /\ stage' = "STOPPED" /\ request' = NoRequest
    BY <1>2, <2>1, <2>2, EndOfSwitchFor
  <2>4. InHand("OPEN")
    <3>1. UciFinished
      BY <1>2, <2>1, <2>2, EndOfSwitch
    <3>2. QED
      BY <1>1, <2>1, <3>1, FinishedCommand DEF InHand, Commands
  <2>5. answer.socket \in open /\ iface # "aborting"
    BY <1>1, <2>1, <2>4 DEF SInv, AnswerTrue, IInv, ChannelAgrees, InHand
  <2>6. ~abandoned => open \subseteq {answer.socket} /\ present
    BY <2>1, <2>4, <2>5 DEF SInv, NothingLost, Held
  <2>7. (WorkAwaited /\ RequestSocket /\ AnswerTrue /\ NoStaleEof)'
    BY <1>3, <2>3
       DEF WorkAwaited, RequestSocket, AnswerTrue, NoStaleEof, InHand
  <2>8. (ConnectedSocket /\ NothingLost)'
    BY <1>1, <2>3, <2>5, <2>6
       DEF ConnectedSocket, NothingLost, Held, InHand
  <2>9. QED
    BY <2>7, <2>8 DEF SInv
<1>10. CASE CompletedRead \/ CompletedReadAgain \/ CompletedWrite
  <2>1. /\ operation # "OPEN" /\ answer.code # "eof"
        /\ \E txl, rxl :
             ThenCloseIfAsked(connection, haveSocket, socketId, txl, rxl)
    BY <1>10 DEF CompletedRead, CompletedReadAgain, CompletedWrite
  <2>2. connection # "CLOSED"
    BY <1>1 DEF IInv, PhaseAgrees
  <2>3. QED
    BY <1>2, <1>4, <2>1, <2>2, EndOfSwitchFor
<1>11. CASE CompletedReadEof
  BY <1>5, <1>11, CompleteStops DEF CompletedReadEof
<1>12. CASE CompletedClose
  BY <1>5, <1>12, CompleteStops DEF CompletedClose
\* A rejected answer opens nothing and closes nothing.
<1>13. CASE CompletedRejected
  <2>1. /\ Stopped /\ connection' = "FAILED" /\ operation' = "NONE"
        /\ UNCHANGED <<haveSocket, socketId>>
        /\ ~(operation = "OPEN" /\ answer.code = "ok")
    BY <1>13
       DEF CompletedRejected, Rejected, Failure, UciDone, Stopped, socketVars
  <2>2. (WorkAwaited /\ RequestSocket /\ AnswerTrue /\ NoStaleEof)'
    BY <2>1
       DEF Stopped, WorkAwaited, RequestSocket, AnswerTrue, NoStaleEof, InHand
  <2>3. (ConnectedSocket /\ NothingLost)'
    BY <1>1, <2>1
       DEF Stopped, SInv, ConnectedSocket, NothingLost, Held, InHand
  <2>4. QED
    BY <2>2, <2>3 DEF SInv
<1>14. QED
  BY <1>6, <1>7, <1>8, <1>9, <1>10, <1>11, <1>12, <1>13 DEF Completed

\* Every poll keeps it.
LEMMA PollSockets ==
  ASSUME IInv, Rest, SInv, Poll PROVE SInv'
\* A command that is given up is abandoned.
<1>1. ASSUME PollStalled \/ PollAbandon PROVE SInv'
  <2>1. /\ connection' = "FAILED" /\ operation' = "NONE" /\ abandoned'
        /\ UNCHANGED <<request, answer>>
        /\ \/ UNCHANGED channel
           \/ Abandon
    BY <1>1
       DEF PollStalled, PollAbandon, Failure, UciTimeout, UciError, Abandon,
           channel
  <2>2. WorkAwaited'
    BY <2>1
       DEF SInv, WorkAwaited, Abandon, channel, Rest, AbsentIdle
  <2>3. QED
    BY <2>1, <2>2
       DEF SInv, RequestSocket, AnswerTrue, NoStaleEof, ConnectedSocket,
           NothingLost, InHand
<1>2. ASSUME PollPending \/ PollNothing PROVE SInv'
  BY <1>2, SocketStateKept
     DEF PollPending, UciPending, PollNothing, vars, socketState, socketVars,
         firmwareVars
\* A transfer is started on the socket that is held.
<1>3. ASSUME PollSend \/ PollFetch PROVE SInv'
  <2>1. /\ connection = "CONNECTED" /\ operation = "NONE"
        /\ UNCHANGED <<haveSocket, socketId, open, abandoned>>
        /\ \/ Failure /\ UNCHANGED channel
           \/ /\ operation' \in {"READ_SOCKET", "WRITE_SOCKET"}
              /\ connection' = "CONNECTED"
              /\ request' # NoRequest => request'.socket = socketId
              /\ answer' = NoAnswer /\ stage' = "BUSY" /\ present' = present
              /\ iface' \in {"busy", "idle"}
    BY <1>3, PushFor
       DEF PollSend, PollFetch, Start, UciStart, Command, socketVars,
           firmwareVars
  <2>2. (WorkAwaited /\ RequestSocket /\ AnswerTrue /\ NoStaleEof)'
    BY <2>1, NoAnswerIsNone
       DEF SInv, WorkAwaited, RequestSocket, AnswerTrue, NoStaleEof, InHand,
           Failure, channel
  <2>3. (ConnectedSocket /\ NothingLost)'
    BY <2>1
       DEF SInv, NoStaleEof, ConnectedSocket, NothingLost, Held, InHand,
           Failure, channel
  <2>4. QED
    BY <2>2, <2>3 DEF SInv
<1>4. QED
  BY <1>1, <1>2, <1>3, CompletedSockets DEF Poll

\* The firmware works on the command that is in progress, for the socket that
\* is held, and answers what it has done.
LEMMA FirmwareSockets ==
  ASSUME IInv, Rest, SInv, Firmware PROVE SInv'
<1>1. \E a, w, f : Serve(a, open', w, f)
  BY DEF Firmware, ServeBad, ServeInfo, ServeOpen, ServeClose, ServeWrite,
         ServeRead, ServeAgain, ServeEof, ServeExcess, Serve
<1>2. /\ UNCHANGED <<present, stage, connection, operation, haveSocket,
                     socketId, abandoned>>
      /\ request # NoRequest
  BY <1>1
     DEF Serve, FwAnswer, FwLate, backendVars, socketVars
\* An aborted command is one the backend has given up.
<1>3. CASE FwLate
  <2>1. /\ iface = "aborting" /\ stage # "BUSY" /\ abandoned
        /\ request' = NoRequest /\ UNCHANGED <<iface, answer>>
    BY <1>3 DEF FwLate, IInv, ChannelAgrees, SInv, NothingLost
  <2>2. connection # "CONNECTED"
    BY <1>2, <2>1 DEF IInv, InFlight, PhaseAgrees
  <2>3. QED
    BY <1>2, <2>1, <2>2
       DEF SInv, WorkAwaited, RequestSocket, AnswerTrue, NoStaleEof,
           ConnectedSocket, NothingLost, InHand
<1>4. CASE ~FwLate
  <2>1. /\ iface = "busy" /\ iface' = "answered" /\ UNCHANGED request
    BY <1>1, <1>4 DEF Serve, FwAnswer
  <2>2. stage = "BUSY" /\ booted /\ present /\ answer = NoAnswer
    BY <1>2, <2>1
       DEF SInv, WorkAwaited, IInv, ChannelAgrees, Rest, AbsentIdle
  <2>3. /\ operation = "NONE" =>
             abandoned /\ connection \notin {"CONNECTED", "EOF"}
        /\ operation # "NONE" => request.op = operation
    BY <1>2, <2>2 DEF SInv, NothingLost, IInv, InFlight, PhaseAgrees
  <2>4. /\ WorkAwaited' /\ RequestSocket'
    BY <1>2, <2>1, <2>2 DEF SInv, WorkAwaited, RequestSocket, InHand
  <2>5. ~abandoned => open \subseteq IF haveSocket THEN {socketId} ELSE {}
    BY <2>2, NoAnswerIsNone DEF SInv, NothingLost, Held
  <2>6. connection = "CONNECTED" => haveSocket /\ socketId \in open
    BY <2>1 DEF SInv, ConnectedSocket
  <2>7. \A op : InHand(op) <=> operation = op
    BY <1>2, <2>2 DEF InHand
  <2>8. ASSUME NEW s \in Socket, request.op = "OPEN", open' = open \cup {s},
               answer' = Reply("ok", s, 0, 0)
        PROVE  SInv'
    <3>1. answer'.code = "ok" /\ answer'.socket = s
      BY <2>8 DEF Reply
    <3>2. (AnswerTrue /\ NoStaleEof)'
      BY <1>2, <2>3, <2>8, <3>1 DEF AnswerTrue, NoStaleEof, InHand
    <3>3. (ConnectedSocket /\ NothingLost)'
      BY <1>2, <2>1, <2>2, <2>3, <2>5, <2>6, <2>8, <3>1
         DEF SInv, ConnectedSocket, NothingLost, Held, InHand
    <3>4. QED
      BY <2>4, <3>2, <3>3 DEF SInv
  <2>9. ASSUME NEW code, answer' = Reply(code, request.socket, 0, 0),
               open' = open \ {request.socket},
               \/ request.op = "CLOSE_SOCKET" /\ code = "ok"
               \/ request.op = "READ_SOCKET" /\ code = "eof"
        PROVE  SInv'
    <3>1. answer'.code = code
      BY <2>9 DEF Reply
    <3>2. operation # "NONE" => request.socket = socketId
      BY <2>3, <2>7, <2>9 DEF SInv, RequestSocket
    <3>3. (AnswerTrue /\ NoStaleEof)'
      BY <1>2, <2>3, <2>9, <3>1, <3>2 DEF AnswerTrue, NoStaleEof, InHand
    <3>4. connection = "CONNECTED" => answer'.code = "eof"
      BY <2>3, <2>9, <3>1 DEF IInv, PhaseAgrees
    <3>5. (ConnectedSocket /\ NothingLost)'
      BY <1>2, <2>1, <2>2, <2>3, <2>5, <2>6, <2>9, <3>4
         DEF SInv, ConnectedSocket, NothingLost, Held, InHand
    <3>6. QED
      BY <2>4, <3>3, <3>5 DEF SInv
  <2>10. ASSUME open' = open, answer'.code # "eof",
                answer'.code = "ok" =>
                  request.op \notin {"OPEN", "CLOSE_SOCKET"}
         PROVE  SInv'
    <3>1. (AnswerTrue /\ NoStaleEof)'
      BY <1>2, <2>3, <2>10 DEF AnswerTrue, NoStaleEof, InHand
    <3>2. (ConnectedSocket /\ NothingLost)'
      BY <1>2, <2>1, <2>2, <2>3, <2>5, <2>6, <2>10
         DEF SInv, ConnectedSocket, NothingLost, Held, InHand
    <3>3. QED
      BY <2>4, <3>1, <3>2 DEF SInv
  <2>11. \A code, s, first, n : Reply(code, s, first, n).code = code
    BY DEF Reply
  <2>12. CASE ServeBad \/ ServeInfo \/ ServeWrite \/ ServeRead \/ ServeAgain
    BY <1>4, <2>10, <2>11, <2>12
       DEF ServeBad, ServeInfo, ServeWrite, ServeRead, ServeAgain, Serve,
           FwAnswer
  <2>13. CASE ServeOpen
    BY <1>4, <2>8, <2>13 DEF ServeOpen, Serve, FwAnswer
  <2>14. CASE ServeClose \/ ServeEof
    BY <1>4, <2>9, <2>14 DEF ServeClose, ServeEof, Serve, FwAnswer
  <2>15. CASE ServeExcess
    <3>1. request.op \in {"READ_SOCKET", "WRITE_SOCKET"} /\ open' = open
      BY <2>15 DEF ServeExcess, Serve
    <3>2. \/ answer' = Reply("ok", request.socket, 0, request.count + 1)
          \/ answer' = TooLong
      BY <1>4, <2>15 DEF ServeExcess, Serve, FwAnswer
    <3>3. answer'.code = "ok" \/ answer'.code = "too long"
      <4>1. CASE answer' = Reply("ok", request.socket, 0, request.count + 1)
        BY <4>1 DEF Reply
      <4>2. CASE answer' = TooLong
        BY <4>2, NoAnswerIsNone
      <4>3. QED
        BY <3>2, <4>1, <4>2
    <3>4. QED
      BY <2>10, <3>1, <3>3
  <2>16. QED
    BY <2>12, <2>13, <2>14, <2>15 DEF Firmware
<1>5. QED
  BY <1>3, <1>4

\* The clock, the user and the interface touch no socket.
LEMMA EnvironmentSockets ==
  ASSUME IInv, Rest, SInv, Environment PROVE SInv'
<1>1. CASE Abort
  <2>1. /\ UNCHANGED <<present, stage, connection, operation, haveSocket,
                       socketId, open, abandoned>>
        /\ request' = NoRequest /\ answer' = NoAnswer
        /\ stage # "BUSY" \/ iface = "aborting"
        /\ \/ iface = "aborting" /\ iface' = "idle"
           \/ iface = "error" /\ iface' = "error" /\ stage = "STOPPED"
    BY <1>1 DEF Abort, FwAborted, backendVars, socketVars, firmwareVars
  <2>2. stage # "BUSY"
    BY <2>1 DEF IInv, ChannelAgrees
  <2>3. connection = "CONNECTED" => answer.code # "eof"
    BY <2>2 DEF SInv, NoStaleEof, IInv, InFlight, PhaseAgrees
  <2>4. (WorkAwaited /\ RequestSocket /\ AnswerTrue /\ NoStaleEof)'
    BY <2>1, NoAnswerIsNone
       DEF WorkAwaited, RequestSocket, AnswerTrue, NoStaleEof, InHand
  <2>5. (ConnectedSocket /\ NothingLost)'
    BY <2>1, <2>2, <2>3
       DEF SInv, ConnectedSocket, NothingLost, Held, InHand
  <2>6. QED
    BY <2>4, <2>5 DEF SInv
<1>2. CASE InterfaceError
  BY <1>2
     DEF InterfaceError, FwError, backendVars, socketVars, firmwareVars, SInv,
         WorkAwaited, RequestSocket, AnswerTrue, NoStaleEof, ConnectedSocket,
         NothingLost, Held, InHand
<1>3. CASE DeadlinePasses \/ SendGetsLate \/ ClockStops
  BY <1>3, SocketStateKept
     DEF DeadlinePasses, Expire, SendGetsLate, ClockStops, channel, backendVars,
         socketVars, firmwareVars, socketState
\* Switching the interface off loses what it held, and is no step of a backend
\* that has seen the end of a stream but not shown it.
<1>4. CASE SwitchInterface
  <2>1. /\ UNCHANGED <<stage, connection, operation, haveSocket, socketId,
                       open>>
        /\ request' = NoRequest /\ answer' = NoAnswer /\ iface' = "idle"
        /\ abandoned'
        /\ operation = "NONE" \/ ~booted
    BY <1>4 DEF SwitchInterface, TogglePresence, socketVars, firmwareVars
  <2>2. connection = "CONNECTED" => operation = "NONE"
    BY <2>1 DEF IInv, PhaseAgrees
  <2>3. QED
    BY <2>1, <2>2, NoAnswerIsNone
       DEF SInv, WorkAwaited, RequestSocket, AnswerTrue, NoStaleEof,
           ConnectedSocket, NothingLost, InHand
<1>5. QED
  BY <1>1, <1>2, <1>3, <1>4, FirmwareSockets DEF Environment

\* The firmware starts with no socket open.
LEMMA InitSockets == Init => SInv
  BY DEF Init, ChanInit, SInv, WorkAwaited, RequestSocket, AnswerTrue,
         NoStaleEof, ConnectedSocket, NothingLost, Held, InHand

\* Every step keeps it.
LEMMA NextSockets == IInv /\ Rest /\ SInv /\ [Next]_vars => SInv'
<1>1. UNCHANGED vars => UNCHANGED socketState
  BY DEF vars, socketState
<1>2. QED
  BY <1>1, SocketStateKept, CallerSockets, PollSockets, EnvironmentSockets
     DEF Next

-----------------------------------------------------------------------------
(* The theorems.                                                              *)

\* The sockets of the two sides agree in every run.
THEOREM SocketInvariance == Spec => []SInv
  BY InitSockets, NextSockets, Invariance, RestHolds, PTL DEF Spec

\* A connected backend holds a socket the firmware knows, until the firmware
\* has reported the end of the stream.
THEOREM ConnectedSocketHolds == Spec => []ConnectedSocket
<1>1. SInv => ConnectedSocket
  BY DEF SInv
<1>2. QED
  BY <1>1, SocketInvariance, PTL

\* A closed backend has left no socket open in the cartridge, a cancelled open
\* included, unless a command had to be abandoned.
THEOREM ClosedReleasesHolds == Spec => []ClosedReleases
<1>1. IInv /\ SInv => ClosedReleases
  BY DEF IInv, PhaseAgrees, SInv, NothingLost, Held, InHand, ClosedReleases
<1>2. QED
  BY <1>1, Invariance, SocketInvariance, PTL

\* The backend forgets a socket only when the firmware has closed it, or when
\* it is initialised again.
THEOREM ForgetsOnlyClosedHolds == Spec => ForgetsOnlyClosed
<1> DEFINE Forgets == haveSocket /\ ~haveSocket'
           Allowed == socketId \notin open \/ connection' = "INITIALIZING"
                        \/ ~present
<1>1. ASSUME IInv, SInv, Next, Forgets PROVE Allowed
  <2>1. haveSocket \in BOOLEAN /\ socketId \in Socket \cup {NoSocket} /\ TypeOK
    BY <1>1 DEF IInv, TypeOK, SocketTypeOK
  <2>2. CASE Caller
    BY <1>1, <2>2
       DEF Caller, Initialize, Failure, Connect, Close, Receive, Transmit,
           socketVars
  <2>3. CASE CompletedReadEof \/ CompletedClose
    <3>1. /\ booted /\ Complete
          /\ \/ operation = "READ_SOCKET" /\ answer.code = "eof"
             \/ operation = "CLOSE_SOCKET" /\ answer.code = "ok"
      BY <2>3 DEF CompletedReadEof, CompletedClose, CompletedFrame
    <3>2. InHand(operation)
      BY <1>1, <3>1, CompleteStops, FinishedCommand DEF InHand, Commands
    <3>3. QED
      BY <1>1, <3>1, <3>2 DEF SInv, AnswerTrue
  <2>4. CASE \/ CompletedReset \/ CompletedIdentify \/ CompletedAddress
             \/ CompletedOpen \/ CompletedRead \/ CompletedReadAgain
             \/ CompletedWrite \/ CompletedRejected
    BY <1>1, <2>4
       DEF CompletedReset, CompletedIdentify, CompletedAddress, CompletedOpen,
           CompletedRead, CompletedReadAgain, CompletedWrite,
           CompletedRejected, ThenCloseIfAsked, socketVars
  <2>5. CASE PollStalled \/ PollAbandon \/ PollPending \/ PollSend \/ PollFetch
               \/ PollNothing
    BY <1>1, <2>5
       DEF PollStalled, PollAbandon, PollPending, PollSend, PollFetch,
           PollNothing, vars, socketVars
  <2>6. CASE Environment
    BY <1>1, <2>6
       DEF Environment, Firmware, ServeBad, ServeInfo, ServeOpen, ServeClose,
           ServeWrite, ServeRead, ServeAgain, ServeEof, ServeExcess, Serve,
           Abort, InterfaceError, DeadlinePasses, SendGetsLate, ClockStops,
           SwitchInterface, backendVars, socketVars
  <2>7. QED
    BY <1>1, <2>2, <2>3, <2>4, <2>5, <2>6 DEF Next, Poll, Completed
<1>2. IInv /\ SInv /\ [Next]_vars => [Forgets => Allowed]_vars
  BY <1>1
<1>3. QED
  BY <1>2, Invariance, SocketInvariance, PTL DEF Spec, ForgetsOnlyClosed

-----------------------------------------------------------------------------
(* The main screen and the session as a caller of the Ultimate backend: what  *)
(* program.c and session.c do keeps to network.h, so every theorem about the  *)
(* backend holds of the program.                                              *)
(* The inductive invariant.                                                  *)

\* A close that goes on has a command in progress.
ClosingWorks == connection = "CLOSING" => operation # "NONE"

\* The states a backend may be in at the points of the program: the main screen
\* and the first dialog are reached only when nothing is going on, ...
RestPoints == {"main", "session", "exit"}
DrainPoints == {"restart", "quit", "drain"}
TerminalPoints == {"terminal", "write", "poll", "read", "key"}

PointStates ==
  /\ pc \in Points
  /\ pc = "boot" <=> ~booted
  /\ pc = "init" => connection \in {"INITIALIZING", "CLOSED", "FAILED"}
  /\ pc \in RestPoints => connection \in {"CLOSED", "FAILED"}
  /\ pc \in DrainPoints => connection \in {"CLOSING", "CLOSED", "FAILED"}
  /\ pc = "dialog" => connection = "CLOSED"
  /\ pc = "connect" => connection = "CONNECTING"
  /\ pc \in TerminalPoints => connection = "CONNECTED"

\* ... and the interface is initialised again only after a close.
ClosedFirst == pc \in {"restart", "quit"} => closeAsked

BackendInv == IInv /\ Rest /\ SInv /\ ClosingWorks
PInv == BackendInv /\ PointStates /\ ClosedFirst

-----------------------------------------------------------------------------
(* What the backend's calls make of the connection.                          *)

\* A backend with nothing in progress moves only to send, to ask for data, or
\* not at all.
LEMMA QuietPoll ==
  ASSUME IInv, booted, connection \in {"CLOSED", "EOF", "FAILED"}, Poll
  PROVE  UNCHANGED vars
<1>1. operation = "NONE"
  BY DEF IInv, PhaseAgrees
<1>2. ~Completed
  BY <1>1
     DEF Completed, CompletedReset, CompletedIdentify, CompletedAddress,
         CompletedOpen, CompletedRead, CompletedReadAgain, CompletedReadEof,
         CompletedWrite, CompletedClose, CompletedRejected, CompletedFrame
<1>3. QED
  BY <1>1, <1>2
     DEF Poll, PollStalled, LastStalledPoll, PollAbandon, PollPending,
         PollSend, PollFetch, PollNothing

\* What a poll may make of the connection.
LEMMA PollMoves ==
  ASSUME IInv, Poll
  PROVE  Moves /\ UNCHANGED <<booted, closeAsked>>
<1>1. CASE Completed
  <2>1. UNCHANGED <<booted, closeAsked>>
    BY <1>1
       DEF Completed, CompletedReset, CompletedIdentify, CompletedAddress,
           CompletedOpen, CompletedRead, CompletedReadAgain, CompletedReadEof,
           CompletedWrite, CompletedClose, CompletedRejected, CompletedFrame,
           callerVars
  <2>2. QED
    BY <1>1, <2>1, CompletedMoves
<1>2. CASE PollStalled \/ PollAbandon
  BY <1>2 DEF PollStalled, PollAbandon, Failure, Moves, callerVars
<1>3. CASE PollPending \/ PollNothing
  BY <1>3 DEF PollPending, PollNothing, Moves, callerVars, vars
<1>4. CASE PollSend \/ PollFetch
  BY <1>4 DEF PollSend, PollFetch, Start, Failure, Moves, callerVars
<1>5. QED
  BY <1>1, <1>2, <1>3, <1>4 DEF Poll

\* A command that completes while the backend closes is followed by another or
\* ends the close.
LEMMA CompletedWorks ==
  ASSUME IInv, Completed, connection' = "CLOSING"
  PROVE  operation' # "NONE"
<1>1. TypeOK /\ haveSocket \in BOOLEAN /\ socketId \in Socket \cup {NoSocket}
  BY DEF IInv, TypeOK, SocketTypeOK
<1>2. connection = "CLOSING" => closing
  BY DEF IInv, PhaseAgrees
<1>3. ASSUME NEW cstate, NEW have \in BOOLEAN,
             NEW s \in Socket \cup {NoSocket}, NEW txl, NEW rxl,
             ThenCloseIfAsked(cstate, have, s, txl, rxl),
             cstate = "CLOSING" => closing
      PROVE  operation' # "NONE"
  BY <1>1, <1>3, EndOfSwitch DEF Issued
<1>4. CASE CompletedReset \/ CompletedIdentify
  <2>1. ASSUME NEW op \in {"IDENTIFY", "ADDRESS"},
               StartNext(Command(op, NoSocket, 0, 0))
        PROVE  operation' # "NONE"
    BY <2>1 DEF StartNext, Command
  <2>2. ASSUME StartCloseNext(connection, haveSocket, socketId)
        PROVE  operation' # "NONE"
    BY <1>1, <2>2, CloseNextIssues DEF Issued
  <2>3. QED
    BY <1>4, <2>1, <2>2 DEF CompletedReset, CompletedIdentify
<1>5. CASE CompletedAddress
  BY <1>1, <1>3, <1>5 DEF CompletedAddress
<1>6. CASE CompletedOpen
  <2>1. answer.socket \in Socket \cup {NoSocket}
    BY <1>1, <1>6, AnswerFields DEF CompletedOpen, Codes
  <2> DEFINE cstate == IF closing THEN "CLOSING" ELSE "CONNECTED"
  <2>2. ThenCloseIfAsked(cstate, TRUE, answer.socket, txLength, rxLength)
    BY <1>6 DEF CompletedOpen
  <2>3. cstate = "CLOSING" => closing
    OBVIOUS
  <2>4. QED
    BY <1>3, <2>1, <2>2, <2>3
<1>7. CASE \/ CompletedRead \/ CompletedReadAgain \/ CompletedWrite
           \/ CompletedReadEof \/ CompletedClose \/ CompletedRejected
  <2>1. CASE CompletedRead \/ CompletedReadAgain \/ CompletedWrite
    <3>1. \E txl, rxl :
            ThenCloseIfAsked(connection, haveSocket, socketId, txl, rxl)
      BY <2>1 DEF CompletedRead, CompletedReadAgain, CompletedWrite
    <3>2. QED
      BY <1>1, <1>2, <1>3, <3>1
  <2>2. CASE CompletedReadEof \/ CompletedClose \/ CompletedRejected
    BY <2>2 DEF CompletedReadEof, CompletedClose, CompletedRejected, Failure
  <2>3. QED
    BY <1>7, <2>1, <2>2
<1>8. QED
  BY <1>4, <1>5, <1>6, <1>7 DEF Completed

\* The firmware, the user and the clock do nothing to the backend's state.
LEMMA EnvironmentMoves ==
  ASSUME IInv, Environment
  PROVE  UNCHANGED <<connection, operation, booted, closeAsked>>
<1>1. CASE Firmware
  BY <1>1
     DEF Firmware, ServeBad, ServeInfo, ServeOpen, ServeClose, ServeWrite,
         ServeRead, ServeAgain, ServeEof, ServeExcess, Serve, backendVars,
         callerVars
<1>2. CASE Environment /\ ~Firmware
  BY <1>2
     DEF Environment, Abort, InterfaceError, DeadlinePasses, SendGetsLate,
         ClockStops, SwitchInterface, backendVars, callerVars
<1>3. QED
  BY <1>1, <1>2

\* Every step of the backend and its environment keeps a close at work.
LEMMA WorkGoesOn ==
  ASSUME IInv, ClosingWorks, [Next]_vars
  PROVE  ClosingWorks'
<1>1. CASE Initialize \/ Connect
  BY <1>1 DEF Initialize, Failure, Connect, Start, ClosingWorks
<1>2. CASE Close
  <2>1. CASE StartCloseIdle
    BY <2>1, CloseIdleIssues
       DEF IInv, Issued, Failure, ClosingWorks
  <2>2. CASE ~StartCloseIdle
    BY <1>2, <2>2 DEF Close, ClosingWorks
  <2>3. QED
    BY <2>1, <2>2
<1>3. CASE \E n : Receive(n) \/ Transmit(n)
  BY <1>3 DEF Receive, Transmit, ClosingWorks
<1>4. CASE Poll
  <2>1. CASE Completed
    BY <2>1, CompletedWorks DEF ClosingWorks
  <2>2. CASE PollStalled \/ PollAbandon
    BY <2>2 DEF PollStalled, PollAbandon, Failure, ClosingWorks
  <2>3. CASE PollPending \/ PollNothing
    BY <2>3 DEF PollPending, PollNothing, vars, ClosingWorks
  <2>4. CASE PollSend \/ PollFetch
    BY <2>4 DEF PollSend, PollFetch, Start, Failure, ClosingWorks
  <2>5. QED
    BY <1>4, <2>1, <2>2, <2>3, <2>4 DEF Poll
<1>5. CASE Environment
  BY <1>5, EnvironmentMoves DEF ClosingWorks
<1>6. CASE UNCHANGED vars
  BY <1>6 DEF vars, ClosingWorks
<1>7. QED
  BY <1>1, <1>2, <1>3, <1>4, <1>5, <1>6 DEF Next, Caller

\* The backend's own invariant is kept by whoever calls it as network.h wants.
LEMMA BackendStays ==
  ASSUME BackendInv, [Next]_vars
  PROVE  BackendInv'
  BY NextPreserves, NextRests, NextSockets, WorkGoesOn DEF BackendInv

-----------------------------------------------------------------------------
(* What the program makes of it.                                             *)

\* Every poll the program makes is one of the backend's, and so is every other
\* call: it asks for nothing network.h does not allow where it asks.
LEMMA CallsObey ==
  ASSUME PInv, [ProgramNext]_programVars
  PROVE  [Next]_vars
<1>1. CallClose => [Next]_vars \/ ~booted
  BY DEF CallClose, Next, Caller
<1>2. CASE Boot \/ Restart
  <2>1. \/ Initialize /\ (booted => closeAsked /\ connection # "CLOSING")
        \/ Poll
    BY <1>2 DEF Boot, Restart, DrainLoop, CallInit, PInv, PointStates,
      ClosedFirst
  <2>2. QED
    BY <2>1 DEF Next, Caller
<1>3. CASE KeyF1 \/ KeyF8 \/ Shutdown
  BY <1>1, <1>3 DEF KeyF1, KeyF8, Shutdown, Goto, PInv, PointStates
<1>4. CASE InitLoop \/ Quit \/ Drain \/ SessionReady \/ SessionConnected
             \/ TerminalPoll
  BY <1>4
     DEF InitLoop, Quit, Drain, DrainLoop, SessionReady, SessionConnected,
         WaitReady, TerminalPoll, Next
<1>5. CASE CallConnect
  BY <1>5 DEF CallConnect, PInv, PointStates, Next, Caller
<1>6. CASE TerminalWrite
  BY <1>6 DEF TerminalWrite, Next, Caller
<1>7. CASE TerminalRead
  BY <1>7 DEF TerminalRead, Goto, PInv, PointStates, TerminalPoints, Next,
    Caller
<1>8. CASE \/ KeyF3 \/ CancelDialog \/ NoFont \/ StartTerminal \/ NoStop
           \/ KeyStop
  BY <1>8 DEF KeyF3, CancelDialog, NoFont, StartTerminal, NoStop, KeyStop
<1>9. CASE Environment \/ UNCHANGED programVars
  BY <1>9 DEF Next, programVars
<1>10. QED
  BY <1>2, <1>3, <1>4, <1>5, <1>6, <1>7, <1>8, <1>9 DEF ProgramNext, User, Run

\* close() leaves a backend closing, closed or failed, and has been asked for.
LEMMA CloseMoves ==
  ASSUME BackendInv, booted, CallClose
  PROVE  /\ connection' \in {"CLOSING", "CLOSED", "FAILED"}
         /\ connection # "CLOSING" => closeAsked'
         /\ booted'
<1>1. CASE connection = "CLOSING"
  BY <1>1 DEF CallClose, vars
<1>2. CASE Close /\ StartCloseIdle
  BY <1>2, CloseIdleIssues DEF BackendInv, IInv, Close, Failure
<1>3. CASE Close /\ ~StartCloseIdle
  BY <1>3 DEF Close
<1>4. QED
  BY <1>1, <1>2, <1>3 DEF CallClose

\* init() starts the initialisation, or fails without an interface.
LEMMA InitMoves ==
  ASSUME CallInit
  PROVE  /\ connection' \in {"INITIALIZING", "FAILED"} /\ booted'
         /\ pc' = "init" \/ (pc' = "main" /\ connection' = "FAILED")
  BY DEF CallInit, Initialize, Failure

\* While a close goes on a poll leaves it going on or ends it.
LEMMA DrainMoves ==
  ASSUME BackendInv, connection = "CLOSING", Poll
  PROVE  /\ connection' \in {"CLOSING", "CLOSED", "FAILED"}
         /\ UNCHANGED <<booted, closeAsked>>
  BY PollMoves DEF BackendInv, Moves

\* Each step leads to a point that allows the state the backend is in.
LEMMA PointsStay ==
  ASSUME PInv, [ProgramNext]_programVars
  PROVE  PointStates' /\ ClosedFirst'
<1> USE DEF Points, RestPoints, DrainPoints, TerminalPoints
<1>1. CASE Boot
  BY <1>1, InitMoves DEF Boot, PointStates, ClosedFirst
<1>2. CASE InitLoop
  BY <1>2, PollMoves DEF InitLoop, PInv, BackendInv, PointStates, ClosedFirst,
    Moves, vars
<1>3. CASE Restart
  <2>1. pc = "restart" /\ booted
        /\ connection \in {"CLOSING", "CLOSED", "FAILED"}
    BY <1>3 DEF Restart, DrainLoop, PInv, PointStates
  <2>2. CASE connection = "CLOSING"
    <3>1. Poll /\ UNCHANGED <<pc, ready>>
      BY <1>3, <2>2 DEF Restart, DrainLoop
    <3>2. QED
      BY <2>1, <2>2, <3>1, DrainMoves DEF PInv, PointStates, ClosedFirst
  <2>3. CASE connection # "CLOSING"
    BY <1>3, <2>1, <2>3, InitMoves
       DEF Restart, DrainLoop, PointStates, ClosedFirst
  <2>4. QED
    BY <2>2, <2>3
<1>4. CASE Quit
  <2>1. pc = "quit" /\ booted
        /\ connection \in {"CLOSING", "CLOSED", "FAILED"}
    BY <1>4 DEF Quit, DrainLoop, PInv, PointStates
  <2>2. CASE connection = "CLOSING"
    <3>1. Poll /\ UNCHANGED <<pc, ready>>
      BY <1>4, <2>2 DEF Quit, DrainLoop
    <3>2. QED
      BY <2>1, <2>2, <3>1, DrainMoves DEF PInv, PointStates, ClosedFirst
  <2>3. CASE connection # "CLOSING"
    BY <1>4, <2>1, <2>3
       DEF Quit, DrainLoop, PointStates, ClosedFirst, vars
  <2>4. QED
    BY <2>2, <2>3
<1>5. CASE Drain
  <2>1. pc = "drain" /\ booted
        /\ connection \in {"CLOSING", "CLOSED", "FAILED"}
    BY <1>5 DEF Drain, DrainLoop, PInv, PointStates
  <2>2. CASE connection = "CLOSING"
    <3>1. Poll /\ UNCHANGED <<pc, ready>>
      BY <1>5, <2>2 DEF Drain, DrainLoop
    <3>2. QED
      BY <2>1, <2>2, <3>1, DrainMoves DEF PInv, PointStates, ClosedFirst
  <2>3. CASE connection # "CLOSING"
    BY <1>5, <2>1, <2>3
       DEF Drain, DrainLoop, PointStates, ClosedFirst, vars
  <2>4. QED
    BY <2>2, <2>3
<1>6. CASE KeyF1 \/ KeyF8 \/ Shutdown
  BY <1>6, CloseMoves DEF KeyF1, KeyF8, Shutdown, Goto, PInv, PointStates,
    ClosedFirst
<1>7. CASE SessionReady
  <2>1. UNCHANGED vars /\ connection \in {"CLOSED", "FAILED"} /\ booted
    BY <1>7, QuietPoll
       DEF SessionReady, WaitReady, PInv, BackendInv, PointStates
  <2>2. QED
    BY <1>7, <2>1 DEF SessionReady, WaitReady, PointStates, ClosedFirst, vars
<1>8. CASE CallConnect
  BY <1>8 DEF CallConnect, Connect, PInv, PointStates, ClosedFirst
<1>9. CASE SessionConnected
  <2>1. pc = "connect" /\ booted /\ connection = "CONNECTING" /\ Poll
    BY <1>9 DEF SessionConnected, WaitReady, PInv, PointStates
  <2>2. /\ connection' \in {"CONNECTING", "CONNECTED", "CLOSING", "FAILED"}
        /\ booted'
    BY <2>1, PollMoves DEF PInv, BackendInv, Moves
  <2>3. \/ connection' = "CONNECTING" /\ pc' \in {"connect", "shutdown"}
        \/ connection' = "CONNECTED" /\ pc' = "terminal"
        \/ pc' = "shutdown"
    BY <1>9, <2>2 DEF SessionConnected, WaitReady
  <2>4. QED
    BY <2>2, <2>3 DEF PointStates, ClosedFirst
<1>10. CASE TerminalWrite
  <2>1. pc = "write" /\ booted /\ connection = "CONNECTED"
    BY <1>10 DEF TerminalWrite, PInv, PointStates
  <2>2. pc' = "poll" /\ UNCHANGED <<booted, connection>>
    BY <1>10, <2>1 DEF TerminalWrite, Transmit, callerVars, vars
  <2>3. QED
    BY <2>1, <2>2 DEF PointStates, ClosedFirst
<1>11. CASE TerminalPoll
  <2>1. pc = "poll" /\ booted /\ connection = "CONNECTED" /\ Poll
    BY <1>11 DEF TerminalPoll, PInv, PointStates
  <2>2. connection' \in {"CONNECTED", "EOF", "FAILED"} /\ booted'
    BY <2>1, PollMoves DEF PInv, BackendInv, Moves
  <2>3. \/ connection' = "CONNECTED" /\ pc' = "read"
        \/ pc' = "shutdown"
    BY <1>11, <2>2 DEF TerminalPoll
  <2>4. QED
    BY <2>2, <2>3 DEF PointStates, ClosedFirst
<1>12. CASE TerminalRead
  BY <1>12 DEF TerminalRead, Goto, Receive, PInv, PointStates, ClosedFirst,
    vars
<1>13. CASE KeyF3 \/ CancelDialog \/ NoFont \/ StartTerminal \/ NoStop
              \/ KeyStop
  BY <1>13 DEF KeyF3, CancelDialog, NoFont, StartTerminal, NoStop, KeyStop,
    Goto, PInv, PointStates, ClosedFirst, vars
<1>14. CASE Environment /\ UNCHANGED <<pc, ready>>
  BY <1>14, EnvironmentMoves DEF PInv, BackendInv, PointStates, ClosedFirst
<1>15. CASE UNCHANGED programVars
  BY <1>15 DEF programVars, vars, PInv, PointStates, ClosedFirst
<1>16. QED
  BY <1>1, <1>2, <1>3, <1>4, <1>5, <1>6, <1>7, <1>8, <1>9, <1>10, <1>11, <1>12,
    <1>13, <1>14, <1>15 DEF ProgramNext, User, Run

-----------------------------------------------------------------------------
(* The theorems.                                                             *)

LEMMA ProgramInitInv == ProgramInit => PInv
<1> SUFFICES ASSUME ProgramInit PROVE PInv
  OBVIOUS
<1>1. BackendInv
  BY InitEstablishes, InitRests, InitSockets
     DEF ProgramInit, BackendInv, ClosingWorks, Init
<1>2. PointStates /\ ClosedFirst
  BY DEF ProgramInit, Init, PointStates, ClosedFirst, Points, RestPoints,
    DrainPoints, TerminalPoints
<1>3. QED
  BY <1>1, <1>2 DEF PInv

\* The invariant holds in every run of the program.
THEOREM ProgramInvariance == ProgramSpec => []PInv
<1>1. PInv /\ [ProgramNext]_programVars => PInv'
  BY CallsObey, BackendStays, PointsStay DEF PInv
<1>2. QED
  BY <1>1, ProgramInitInv, PTL DEF ProgramSpec

\* program.c and session.c call the backend as network.h wants it: every run of
\* the program is one of the backend under a caller that obeys.
THEOREM ObeysContractHolds == ProgramSpec => ObeysContract
<1>1. ProgramInit => Init
  BY DEF ProgramInit
<1>2. PInv /\ [ProgramNext]_programVars => [Next]_vars
  BY CallsObey
<1>3. QED
  BY <1>1, <1>2, ProgramInvariance, PTL DEF ProgramSpec, ObeysContract, Spec

\* The terminal runs only on a connection, the dialog opens only with the
\* backend closed, and every loop that waits has a command to wait for.
THEOREM PointsAgreeHolds == ProgramSpec => []PointsAgree
<1>1. PInv => PointsAgree
  BY DEF PInv, BackendInv, IInv, PhaseAgrees, ClosingWorks, PointStates,
    PointsAgree, TerminalPoints
<1>2. QED
  BY <1>1, ProgramInvariance, PTL

\* When the program ends the cartridge has nothing to do, and holds no socket
\* unless a command had to be abandoned or the last close failed.
THEOREM QuitsCleanlyHolds == ProgramSpec => []QuitsCleanly
<1>1. PInv => QuitsCleanly
  BY DEF PInv, BackendInv, IInv, PhaseAgrees, SInv, NothingLost, Held, InHand,
    PointStates, RestPoints, QuitsCleanly
<1>2. QED
  BY <1>1, ProgramInvariance, PTL

\* What was proved of the backend under every obedient caller holds under this
\* one: both byte streams of a session are in order and complete.
THEOREM SessionsInOrder == ProgramSpec => [](SentInOrder /\ ReceivedInOrder)
  BY ObeysContractHolds, SentInOrderHolds, ReceivedInOrderHolds, PTL
     DEF ObeysContract
=============================================================================
