------------------------------- MODULE Ultimate -------------------------------
(* The 1541 Ultimate II+ network backend, src/net/ultimate/backend.c: one TCP  *)
(* socket driven through the command channel of UciChannel by calls to init,   *)
(* connect, poll, read, write, state and close (include/network.h).            *)
(*                                                                             *)
(* The two byte streams are modelled by positions.  `accepted' counts the      *)
(* bytes write() took from the caller, `written' those the firmware put on     *)
(* the connection, `fetched' those it took off it, `consumed' those read()     *)
(* gave to the caller; tx[0] is byte txFirst of the one stream and rx[0] byte  *)
(* rxFirst of the other.                                                       *)
(* The caller of Spec is any that obeys network.h: it calls init at the start  *)
(* or once a close has ended, reads and writes while connected, and connects,  *)
(* polls and closes at any time after init.  Module Program has the real one.  *)
EXTENDS Integers

CONSTANTS
  Socket,      \* the socket ids of the firmware
  NoSocket,    \* no socket id is carried
  PAYLOAD,     \* UCI_PAYLOAD: bytes per read or write command
  STALL_LIMIT, \* polls of one jiffy before init gives up (8192)
  MaxTx, MaxRx \* bound of the model: bytes sent and received per connection

ASSUME SocketAssumption == NoSocket \notin Socket
ASSUME PayloadAssumption == PAYLOAD \in Nat \ {0}
ASSUME StallAssumption == STALL_LIMIT \in Nat \ {0}
ASSUME BoundsAssumption == MaxTx \in Nat /\ MaxRx \in Nat

VARIABLES
  present, iface, request, answer, stage, expired,   \* UciChannel
  connection,  \* enum net_state
  operation,   \* the command in progress
  haveSocket, socketId, closing,
  txLength, txOffset, txFirst,
  txLate,      \* uci_ticks() - tx_started >= 600
  rxLength, rxOffset, rxFirst,
  stalled,     \* init_stalled_polls
  clock,       \* whether the KERNAL jiffy clock advances
  open,        \* the sockets the firmware holds open
  accepted, written, fetched, consumed,
  booted,      \* init has been called
  closeAsked,  \* close has been called since the last init or connect
  abandoned    \* a command was aborted, or a socket dropped by init

vars == <<present, iface, request, answer, stage, expired, connection,
          operation, haveSocket, socketId, closing, txLength, txOffset,
          txFirst, txLate, rxLength, rxOffset, rxFirst, stalled, clock, open,
          accepted, written, fetched, consumed, booted, closeAsked, abandoned>>

channel == <<present, iface, request, answer, stage, expired>>
socketVars == <<haveSocket, socketId>>
txVars == <<txLength, txOffset, txFirst, txLate>>
rxVars == <<rxLength, rxOffset, rxFirst>>
firmwareVars == <<open, written, fetched>>
callerVars == <<accepted, consumed, booted, closeAsked>>

-----------------------------------------------------------------------------
(* Commands and answers.                                                     *)

Commands == {"IDENTIFY", "ADDRESS", "OPEN", "READ_SOCKET", "WRITE_SOCKET",
             "CLOSE_SOCKET"}
Operations == Commands \cup {"RESET", "NONE", "CLOSE_RESET"}
States == {"CLOSED", "INITIALIZING", "CONNECTING", "CONNECTED", "CLOSING",
           "EOF", "FAILED"}

Command(op, s, first, count) ==
  [op |-> op, socket |-> s, first |-> first, count |-> count]
Request == [op : Commands, socket : Socket \cup {NoSocket}, first : Nat,
            count : Nat]
NoRequest == Command("NONE", NoSocket, 0, 0)

\* code: 00, 02 with errno 11, 01, or anything completed() rejects whatever
\* the operation (another status, a malformed or empty reply)
Codes == {"ok", "again", "eof", "bad"}
Reply(code, s, first, n) ==
  [code |-> code, socket |-> s, first |-> first, n |-> n]
Answer == [code : Codes, socket : Socket \cup {NoSocket}, first : Nat,
           n : Nat]
NoAnswer == Reply("none", NoSocket, 0, 0)
TooLong == Reply("too long", NoSocket, 0, 0)

INSTANCE UciChannel

-----------------------------------------------------------------------------
(* Helpers of backend.c.                                                     *)

(* The operation is not ended.                                               *)
FailureKeepsOperation == connection' = "FAILED" /\ UNCHANGED operation

\* failure(): the connection is FAILED and no operation is in progress.
Failure == connection' = "FAILED" /\ operation' = "NONE"

\* start() outside completed(): refused while the interface is busy.
Start(req, next) ==
  \/ /\ UciStart(req)
     /\ operation' = req.op
     /\ connection' = next
  \/ /\ ~UciCanStart
     /\ Failure
     /\ UNCHANGED channel

\* start() in completed(), whose command has just left the interface idle.
StartNext(req) == UciDone(req) /\ operation' = req.op

Complete == UciDone(NoRequest) /\ operation' = "NONE"

CloseRequest(s) == Command("CLOSE_SOCKET", s, 0, 0)

\* start_close() at the end of completed(), with the state and the socket held
\* by then; the transmit and receive lengths are cleared, their offsets are not.
StartCloseNext(cstate, have, s) ==
  /\ txLength' = 0 /\ rxLength' = 0
  /\ IF have THEN StartNext(CloseRequest(s)) /\ connection' = cstate
     ELSE Complete /\ connection' = "CLOSED"

ClearBuffers ==
  /\ txLength' = 0 /\ txOffset' = 0 /\ rxLength' = 0 /\ rxOffset' = 0
  /\ UNCHANGED <<txFirst, txLate, rxFirst>>

-----------------------------------------------------------------------------
(* The calls of network.h.                                                   *)

Initialize ==
  /\ haveSocket' = FALSE /\ closing' = FALSE
  /\ ClearBuffers
  /\ booted' = TRUE /\ closeAsked' = FALSE
  /\ abandoned' = (abandoned \/ haveSocket \/ iface # "idle")
  /\ IF present
     THEN /\ UciReset
          /\ connection' = "INITIALIZING"
          /\ operation' = "RESET"
          /\ stalled' = 0
     ELSE /\ Failure
          /\ UNCHANGED <<stalled, channel>>
  /\ UNCHANGED <<socketId, firmwareVars, accepted, consumed, clock>>

\* connect() in any other state than CLOSED returns NET_IO_ERROR, and with a
\* bad argument NET_BAD_ARGUMENT: both change nothing.
Connect ==
  /\ connection = "CLOSED"
  /\ Start(Command("OPEN", NoSocket, 0, 0), "CONNECTING")
  /\ accepted' = 0 /\ consumed' = 0 /\ written' = 0 /\ fetched' = 0
  /\ closeAsked' = FALSE
  /\ UNCHANGED <<socketVars, closing, txVars, rxVars, stalled, clock, open,
                 booted, abandoned>>

\* receive(): in 16 bits a receive offset beyond the length wraps around.
Receive(capacity) ==
  /\ connection # "FAILED"
  /\ LET held == rxLength - rxOffset
         n    == IF held < 0 \/ held > capacity THEN capacity ELSE held
     IN /\ n > 0
        /\ rxOffset' = rxOffset + n
        /\ consumed' = consumed + n
  /\ UNCHANGED <<channel, connection, operation, socketVars, closing, txVars,
                 rxLength, rxFirst, stalled, clock, firmwareVars, accepted,
                 booted, closeAsked, abandoned>>

\* transmit(): accepted when nothing is waiting, cut to one payload.
Transmit(length) ==
  /\ connection = "CONNECTED"
  /\ txLength = 0
  /\ accepted + length <= MaxTx
  /\ txLength' = IF length > PAYLOAD THEN PAYLOAD ELSE length
  /\ txOffset' = 0
  /\ txFirst' = accepted
  /\ txLate' = FALSE
  /\ accepted' = accepted + txLength'
  /\ UNCHANGED <<channel, connection, operation, socketVars, closing, rxVars,
                 stalled, clock, firmwareVars, consumed, booted, closeAsked,
                 abandoned>>

\* start_close() from close_inner(), with no command in progress.
StartCloseIdle ==
  /\ txLength' = 0 /\ rxLength' = 0
  /\ UNCHANGED <<txOffset, txFirst, txLate, rxOffset, rxFirst>>
  /\ IF haveSocket THEN Start(CloseRequest(socketId), "CLOSING")
     ELSE /\ connection' = "CLOSED" /\ operation' = "NONE"
          /\ UNCHANGED channel

Close ==
  /\ connection # "CLOSING"
  /\ closing' = TRUE
  /\ closeAsked' = TRUE
  /\ \/ /\ connection = "FAILED" /\ ~present
        /\ connection' = "CLOSED"
        /\ UNCHANGED <<operation, txVars, rxVars, abandoned, channel>>
     \/ /\ connection = "FAILED" /\ present
        /\ UciReset
        /\ connection' = "CLOSING" /\ operation' = "CLOSE_RESET"
        /\ abandoned' = (abandoned \/ iface # "idle")
        /\ UNCHANGED <<txVars, rxVars>>
     \/ /\ connection # "FAILED" /\ operation # "NONE"
        /\ connection' = "CLOSING"
        /\ UNCHANGED <<operation, txVars, rxVars, abandoned, channel>>
     \/ /\ connection # "FAILED" /\ operation = "NONE"
        /\ StartCloseIdle
        /\ UNCHANGED abandoned
  /\ UNCHANGED <<socketVars, stalled, clock, firmwareVars, accepted, consumed,
                 booted>>

-----------------------------------------------------------------------------
(* poll(), by what uci_poll reports of the operation in progress.            *)

(* The limit comes one poll too late, or the polls are not counted.          *)
OneStalledPollMore == connection = "INITIALIZING" /\ stalled = STALL_LIMIT
StalledPollsForgotten == UNCHANGED stalled

\* The independent limit on the polls of one jiffy during initialization; a
\* clock that runs ticks before the limit is reached.
LastStalledPoll == connection = "INITIALIZING" /\ stalled + 1 = STALL_LIMIT

CountStalled ==
  IF connection # "INITIALIZING" THEN UNCHANGED stalled
  ELSE \/ clock = "running" /\ stalled' = 0
       \/ ~LastStalledPoll /\ stalled' = stalled + 1

PollStalled ==
  /\ booted /\ LastStalledPoll /\ clock = "stopped"
  /\ Failure
  /\ stalled' = stalled + 1
  /\ abandoned' = TRUE
  /\ UNCHANGED <<channel, socketVars, closing, txVars, rxVars, clock,
                 firmwareVars, callerVars>>

PollAbandon ==
  /\ operation # "NONE" /\ CountStalled
  /\ UciTimeout \/ UciError
  /\ Failure
  /\ abandoned' = TRUE
  /\ UNCHANGED <<socketVars, closing, txVars, rxVars, clock, firmwareVars,
                 callerVars>>

PollPending ==
  /\ operation # "NONE" /\ CountStalled
  /\ UciPending
  /\ UNCHANGED <<connection, operation, socketVars, closing, txVars, rxVars,
                 clock, firmwareVars, callerVars, abandoned>>

\* What every case of completed() leaves alone.
CompletedFrame ==
  /\ booted /\ operation # "NONE" /\ CountStalled
  /\ UNCHANGED <<clock, firmwareVars, callerVars, abandoned>>

CompletedReset ==
  /\ CompletedFrame
  /\ operation \in {"RESET", "CLOSE_RESET"}
  /\ IF operation = "CLOSE_RESET" \/ closing
     THEN StartCloseNext(connection, haveSocket, socketId)
     ELSE /\ StartNext(Command("IDENTIFY", NoSocket, 0, 0))
          /\ UNCHANGED <<connection, txLength, rxLength>>
  /\ UNCHANGED <<socketVars, closing, txOffset, txFirst, txLate, rxOffset,
                 rxFirst>>

CompletedIdentify ==
  /\ CompletedFrame
  /\ operation = "IDENTIFY" /\ answer.code = "ok"
  /\ StartNext(Command("ADDRESS", NoSocket, 0, 0))
  /\ UNCHANGED <<connection, socketVars, closing, txVars, rxVars>>

\* The cases that break out of the switch, and go on to close if asked to:
\* cstate, have, s, txl and rxl are connection, have_socket, socket_id,
\* tx_length and rx_length at the end of the switch.
ThenCloseIfAsked(cstate, have, s, txl, rxl) ==
  /\ haveSocket' = have /\ socketId' = s
  /\ IF closing THEN StartCloseNext(cstate, have, s)
     ELSE /\ Complete
          /\ connection' = cstate
          /\ txLength' = txl /\ rxLength' = rxl
  /\ UNCHANGED <<closing, txFirst, txLate>>

CompletedAddress ==
  /\ CompletedFrame
  /\ operation = "ADDRESS" /\ answer.code = "ok"
  /\ ThenCloseIfAsked("CLOSED", haveSocket, socketId, txLength, rxLength)
  /\ UNCHANGED <<txOffset, rxOffset, rxFirst>>

(* have_socket is not set when the open was cancelled.                       *)
CompletedOpenForgets ==
  /\ CompletedFrame
  /\ operation = "OPEN" /\ answer.code = "ok"
  /\ ThenCloseIfAsked(IF closing THEN "CLOSING" ELSE "CONNECTED", ~closing,
                      answer.socket, txLength, rxLength)
  /\ UNCHANGED <<txOffset, rxOffset, rxFirst>>

CompletedOpen ==
  /\ CompletedFrame
  /\ operation = "OPEN" /\ answer.code = "ok"
  /\ ThenCloseIfAsked(IF closing THEN "CLOSING" ELSE "CONNECTED", TRUE,
                      answer.socket, txLength, rxLength)
  /\ UNCHANGED <<txOffset, rxOffset, rxFirst>>

(* The receive offset is not reset.                                          *)
CompletedReadKeepsOffset ==
  /\ CompletedFrame
  /\ operation = "READ_SOCKET" /\ answer.code = "ok" /\ answer.n <= PAYLOAD
  /\ ThenCloseIfAsked(connection, haveSocket, socketId, txLength, answer.n)
  /\ rxFirst' = answer.first
  /\ UNCHANGED <<txOffset, rxOffset>>

CompletedRead ==
  /\ CompletedFrame
  /\ operation = "READ_SOCKET" /\ answer.code = "ok" /\ answer.n <= PAYLOAD
  /\ ThenCloseIfAsked(connection, haveSocket, socketId, txLength, answer.n)
  /\ rxOffset' = 0 /\ rxFirst' = answer.first
  /\ UNCHANGED txOffset

CompletedReadAgain ==
  /\ CompletedFrame
  /\ operation = "READ_SOCKET" /\ answer.code = "again"
  /\ ThenCloseIfAsked(connection, haveSocket, socketId, txLength, rxLength)
  /\ UNCHANGED <<txOffset, rxOffset, rxFirst>>

(* The end of the stream is taken for no data.                               *)
CompletedReadEofIgnored ==
  /\ CompletedFrame
  /\ operation = "READ_SOCKET" /\ answer.code = "eof"
  /\ ThenCloseIfAsked(connection, haveSocket, socketId, txLength, rxLength)
  /\ UNCHANGED <<txOffset, rxOffset, rxFirst>>

CompletedReadEof ==
  /\ CompletedFrame
  /\ operation = "READ_SOCKET" /\ answer.code = "eof"
  /\ Complete
  /\ haveSocket' = FALSE
  /\ connection' = IF closing THEN "CLOSED" ELSE "EOF"
  /\ UNCHANGED <<socketId, closing, txVars, rxVars>>

(* What remains of a write is sent from the start again.                     *)
CompletedWriteRestarts ==
  /\ CompletedFrame
  /\ operation = "WRITE_SOCKET" /\ answer.code = "ok"
  /\ answer.n <= txLength - txOffset
  /\ txOffset' = 0
  /\ ThenCloseIfAsked(connection, haveSocket, socketId,
                      IF answer.n = txLength THEN 0 ELSE txLength, rxLength)
  /\ UNCHANGED <<rxOffset, rxFirst>>

CompletedWrite ==
  /\ CompletedFrame
  /\ operation = "WRITE_SOCKET" /\ answer.code = "ok"
  /\ answer.n <= txLength - txOffset
  /\ LET sent == txOffset + answer.n
         all  == sent = txLength
     IN /\ txOffset' = IF all THEN 0 ELSE sent
        /\ ThenCloseIfAsked(connection, haveSocket, socketId,
                            IF all THEN 0 ELSE txLength, rxLength)
  /\ UNCHANGED <<rxOffset, rxFirst>>

(* The status of the close is not looked at.                                 *)
CompletedCloseAnyway ==
  /\ CompletedFrame
  /\ operation = "CLOSE_SOCKET"
  /\ Complete
  /\ haveSocket' = FALSE
  /\ connection' = "CLOSED"
  /\ UNCHANGED <<socketId, closing, txVars, rxVars>>

CompletedClose ==
  /\ CompletedFrame
  /\ operation = "CLOSE_SOCKET" /\ answer.code = "ok"
  /\ Complete
  /\ haveSocket' = FALSE
  /\ connection' = "CLOSED"
  /\ UNCHANGED <<socketId, closing, txVars, rxVars>>

\* A status or a length that completed() does not accept.
Rejected ==
  \/ answer.code = "bad"
  \/ answer.code \in {"again", "eof"} /\ operation # "READ_SOCKET"
  \/ answer.code = "ok" /\ operation = "READ_SOCKET" /\ answer.n > PAYLOAD
  \/ answer.code = "ok" /\ operation = "WRITE_SOCKET"
       /\ answer.n > txLength - txOffset

CompletedRejected ==
  /\ CompletedFrame
  /\ operation \in Commands /\ Rejected
  /\ UciDone(NoRequest)
  /\ Failure
  /\ UNCHANGED <<socketVars, closing, txVars, rxVars>>

(* A send is tried for ever.                                                 *)
PollSendNeverLate ==
  /\ operation = "NONE" /\ connection = "CONNECTED" /\ txLength > 0
  /\ Start(Command("WRITE_SOCKET", socketId, txFirst + txOffset,
                   txLength - txOffset), "CONNECTED")
  /\ UNCHANGED <<socketVars, closing, txVars, rxVars, stalled, clock,
                 firmwareVars, callerVars, abandoned>>

\* With no operation in progress a connected backend sends what waits, or asks
\* for more once the receive buffer has been drained.
PollSend ==
  /\ operation = "NONE" /\ connection = "CONNECTED" /\ txLength > 0
  /\ IF txLate THEN Failure /\ UNCHANGED channel
     ELSE Start(Command("WRITE_SOCKET", socketId, txFirst + txOffset,
                        txLength - txOffset), "CONNECTED")
  /\ UNCHANGED <<socketVars, closing, txVars, rxVars, stalled, clock,
                 firmwareVars, callerVars, abandoned>>

(* More is asked for before the last has been read.                          *)
PollFetchUndrained ==
  /\ operation = "NONE" /\ connection = "CONNECTED" /\ txLength = 0
  /\ Start(Command("READ_SOCKET", socketId, 0, PAYLOAD), "CONNECTED")
  /\ UNCHANGED <<socketVars, closing, txVars, rxVars, stalled, clock,
                 firmwareVars, callerVars, abandoned>>

PollFetch ==
  /\ operation = "NONE" /\ connection = "CONNECTED" /\ txLength = 0
  /\ rxOffset = rxLength
  /\ Start(Command("READ_SOCKET", socketId, 0, PAYLOAD), "CONNECTED")
  /\ UNCHANGED <<socketVars, closing, txVars, rxVars, stalled, clock,
                 firmwareVars, callerVars, abandoned>>

\* Nothing is in progress and nothing is to be done.
PollNothing ==
  /\ operation = "NONE"
  /\ connection # "CONNECTED" \/ (txLength = 0 /\ rxOffset # rxLength)
  /\ UNCHANGED vars

Completed ==
  \/ CompletedReset \/ CompletedIdentify \/ CompletedAddress
  \/ CompletedOpen \/ CompletedRead \/ CompletedReadAgain
  \/ CompletedReadEof \/ CompletedWrite \/ CompletedClose
  \/ CompletedRejected

Poll ==
  \/ PollStalled \/ PollAbandon \/ PollPending \/ Completed
  \/ PollSend \/ PollFetch \/ PollNothing

-----------------------------------------------------------------------------
(* The firmware, the user and the clock.                                     *)

backendVars == <<connection, operation, socketVars, closing, txVars, rxVars,
                 stalled, callerVars, abandoned>>

\* The firmware completes the command with answer a, or, if it is being
\* aborted, without one; this leaves it with sockets opens, w bytes written
\* and f fetched.
Serve(a, opens, w, f) ==
  /\ FwAnswer(a) \/ FwLate
  /\ open' = opens /\ written' = w /\ fetched' = f
  /\ UNCHANGED <<backendVars, clock>>

\* Any failure, without an effect on the connection ...
ServeBad == Serve(Reply("bad", NoSocket, 0, 0), open, written, fetched)

ServeInfo ==
  /\ request.op \in {"IDENTIFY", "ADDRESS"}
  /\ Serve(Reply("ok", NoSocket, 0, 0), open, written, fetched)

ServeOpen ==
  /\ request.op = "OPEN"
  /\ \E s \in Socket \ open :
       Serve(Reply("ok", s, 0, 0), open \cup {s}, written, fetched)

ServeClose ==
  /\ request.op = "CLOSE_SOCKET" /\ request.socket \in open
  /\ Serve(Reply("ok", request.socket, 0, 0), open \ {request.socket},
           written, fetched)

\* Some of the bytes are sent, perhaps none.
ServeWrite ==
  /\ request.op = "WRITE_SOCKET" /\ request.socket \in open
  /\ \E n \in 0..request.count :
       Serve(Reply("ok", request.socket, 0, n), open, written + n, fetched)

ServeRead ==
  /\ request.op = "READ_SOCKET" /\ request.socket \in open
  /\ \E n \in 0..request.count :
       /\ fetched + n <= MaxRx
       /\ Serve(Reply("ok", request.socket, fetched, n), open, written,
                fetched + n)

\* recv() has nothing yet, or the remote host has closed the connection: then
\* the firmware closes the socket.
ServeAgain ==
  /\ request.op = "READ_SOCKET" /\ request.socket \in open
  /\ Serve(Reply("again", request.socket, 0, 0), open, written, fetched)

ServeEof ==
  /\ request.op = "READ_SOCKET" /\ request.socket \in open
  /\ Serve(Reply("eof", request.socket, 0, 0), open \ {request.socket},
           written, fetched)

\* A count beyond what was asked for, or a reply longer than the buffers.
ServeExcess ==
  /\ request.op \in {"READ_SOCKET", "WRITE_SOCKET"}
  /\ \/ Serve(Reply("ok", request.socket, 0, request.count + 1), open, written,
              fetched)
     \/ Serve(TooLong, open, written, fetched)

Firmware ==
  \/ ServeBad \/ ServeInfo \/ ServeOpen \/ ServeClose \/ ServeWrite
  \/ ServeRead \/ ServeAgain \/ ServeEof \/ ServeExcess

Abort ==
  /\ FwAborted
  /\ UNCHANGED <<backendVars, clock, firmwareVars>>

InterfaceError ==
  /\ FwError
  /\ UNCHANGED <<backendVars, clock, firmwareVars>>

DeadlinePasses ==
  /\ clock = "running"
  /\ Expire
  /\ UNCHANGED <<backendVars, clock, firmwareVars>>

SendGetsLate ==
  /\ clock = "running" /\ txLength > 0 /\ ~txLate
  /\ txLate' = TRUE
  /\ UNCHANGED <<channel, connection, operation, socketVars, closing,
                 txLength, txOffset, txFirst, rxVars, stalled, clock,
                 firmwareVars, callerVars, abandoned>>

ClockStops ==
  /\ clock = "running"
  /\ clock' = "stopped"
  /\ UNCHANGED <<channel, backendVars, firmwareVars>>

SwitchInterface ==
  /\ operation = "NONE" \/ ~booted
  /\ TogglePresence
  /\ abandoned' = TRUE
  /\ UNCHANGED <<connection, operation, socketVars, closing, txVars, rxVars,
                 stalled, callerVars, clock, firmwareVars>>

Environment ==
  \/ Firmware \/ Abort \/ InterfaceError
  \/ DeadlinePasses \/ SendGetsLate \/ ClockStops \/ SwitchInterface

-----------------------------------------------------------------------------
Init ==
  /\ ChanInit
  /\ connection = "CLOSED" /\ operation = "RESET"
  /\ haveSocket = FALSE /\ socketId = NoSocket /\ closing = FALSE
  /\ txLength = 0 /\ txOffset = 0 /\ txFirst = 0 /\ txLate = FALSE
  /\ rxLength = 0 /\ rxOffset = 0 /\ rxFirst = 0
  /\ stalled = 0 /\ clock = "running"
  /\ open = {}
  /\ accepted = 0 /\ written = 0 /\ fetched = 0 /\ consumed = 0
  /\ booted = FALSE /\ closeAsked = FALSE /\ abandoned = FALSE

Caller ==
  \/ (booted => closeAsked /\ connection # "CLOSING") /\ Initialize
  \/ booted /\ Connect
  \/ booted /\ Close
  \/ connection = "CONNECTED" /\ \E n \in 1..MaxRx : Receive(n)
  \/ \E n \in 1..MaxTx : Transmit(n)

Next == Caller \/ Poll \/ Environment

Spec == Init /\ [][Next]_vars

-----------------------------------------------------------------------------
(* Properties.                                                               *)

\* Every variable has its type.
ConnectionTypeOK ==
  /\ connection \in States /\ operation \in Operations
  /\ stalled \in 0..STALL_LIMIT
  /\ clock \in {"running", "stopped"}
  /\ closing \in BOOLEAN /\ txLate \in BOOLEAN
  /\ booted \in BOOLEAN /\ closeAsked \in BOOLEAN /\ abandoned \in BOOLEAN
SocketTypeOK ==
  /\ haveSocket \in BOOLEAN /\ socketId \in Socket \cup {NoSocket}
  /\ open \subseteq Socket
BufferTypeOK ==
  /\ txLength \in Nat /\ txOffset \in Nat /\ txFirst \in Nat
  /\ rxLength \in Nat /\ rxOffset \in Nat /\ rxFirst \in Nat
StreamTypeOK ==
  accepted \in Nat /\ written \in Nat /\ fetched \in Nat /\ consumed \in Nat

TypeOK ==
  ChanTypeOK /\ ConnectionTypeOK /\ SocketTypeOK /\ BufferTypeOK /\ StreamTypeOK

\* While a command is in progress the channel is waiting for it: no answer is
\* ever taken for that of another command, and a result left over from an
\* earlier command (uci.c: result) is never read as that of the current one.
InFlight ==
  booted /\ operation # "NONE" =>
    /\ stage = IF operation \in {"RESET", "CLOSE_RESET"} THEN "RESETTING"
               ELSE "BUSY"
    /\ (stage = "BUSY" /\ request # NoRequest) => request.op = operation
    /\ (stage = "BUSY" /\ iface = "answered") => request # NoRequest

\* Bytes on their way: answered by the firmware, not yet seen by the backend.
Arriving(op) ==
  IF operation = op /\ stage = "BUSY" /\ iface \in {"answered", "error"}
       /\ request # NoRequest /\ answer.code = "ok" /\ answer.n <= request.count
  THEN answer.n ELSE 0

\* However the firmware splits the writes, the next byte it is asked to send is
\* the one after the last it sent: none is skipped, none is sent twice.
SentInOrder ==
  connection = "CONNECTED" =>
    /\ txOffset <= txLength
    /\ accepted = written - Arriving("WRITE_SOCKET") + (txLength - txOffset)
    /\ txLength > 0 => txFirst + txLength = accepted
    /\ (iface = "busy" /\ request.op = "WRITE_SOCKET") =>
         request.first = written

\* Every byte taken from the connection reaches the caller, once and in order,
\* and the end of the stream is shown only after the last of them.
ReceivedInOrder ==
  /\ connection = "CONNECTED" =>
       /\ rxOffset <= rxLength
       /\ rxOffset < rxLength => rxFirst + rxOffset = consumed
       /\ consumed + (rxLength - rxOffset) + Arriving("READ_SOCKET") = fetched
  /\ connection = "EOF" => rxOffset = rxLength /\ consumed = fetched

\* A connected backend holds a socket the firmware knows, until the firmware
\* has reported the end of the stream.
ConnectedSocket ==
  connection = "CONNECTED" =>
    haveSocket /\ (socketId \in open \/ (iface # "busy" /\ answer.code = "eof"))

\* Unless a command had to be abandoned, a closed backend has left no socket
\* open in the cartridge: a cancelled open is closed when it completes.
ClosedReleases == connection = "CLOSED" /\ booted /\ ~abandoned => open = {}

\* The backend does what network.h promises.
Contract == INSTANCE NetContract
ImplementsContract == Contract!Spec

\* The backend forgets a socket only when the firmware has closed it, or when
\* it is initialised again.
ForgetsOnlyClosed ==
  [][haveSocket /\ ~haveSocket' =>
       socketId \notin open \/ connection' = "INITIALIZING" \/ ~present]_vars
=============================================================================
