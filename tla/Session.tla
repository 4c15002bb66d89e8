-------------------------------- MODULE Session --------------------------------
(* The terminal loop of src/app/session.c with its transmit queue, its two     *)
(* displays and keyboards, the Telnet machine below it, and at the other end   *)
(* of the connection a host.                                                   *)
(* The backend is seen through network.h only: write() takes some of the bytes *)
(* offered, read() gives some of those that have arrived, and the connection   *)
(* may be lost.  The host is external: it sends messages in one piece and      *)
(* decodes what it gets as Telnet (RFC 854) prescribes, confirming every       *)
(* option that is switched.                                                    *)
EXTENDS Telnet, Keyboard, SequencesExt

CONSTANTS
  QUEUE,        \* sizeof(outgoing)
  BATCH,        \* sizeof(incoming)
  PAYLOAD,      \* most bytes the backend's write() takes
  Keys,         \* the keys the user presses
  Inquiry, Report,  \* a byte the ANSI display answers, and its answer
  Messages,     \* what the host may send of its own accord
  MaxKeys, MaxMessages, MaxSessions  \* bounds of the model: each session has
                                     \* one message less than the one before

ASSUME QueueAssumption ==
  QUEUE \in Nat /\ BATCH \in Nat \ {0} /\ PAYLOAD \in Nat \ {0}
ASSUME KeysAssumption == Keys \subseteq Key
ASSUME ReportAssumption == Report \in Seq(Byte)

VARIABLES
  pc,           \* the point of terminal() that is reached
  asciiMode,    \* the session is ANSI, not PETSCII
  petsciiEscape, \* an ESC has come, which takes the next byte with it
  outgoing,     \* the first out_length bytes of the buffer
  outOffset, outOverflow,
  batch,        \* the bytes of incoming still to be processed
  polled,       \* the session has polled
  inbound,      \* bytes of the host not yet read
  wire,         \* bytes write() has accepted
  intended,     \* all that was handed to enqueue
  typed,        \* the bytes of the keys pressed and of the display's answers
  shown,        \* the bytes given to the display
  said,         \* the messages the host has sent
  confirmed,    \* how many of them confirm a command of the terminal
  keys, sessions

queueVars == <<outgoing, outOffset, outOverflow, intended>>
hostVars == <<inbound, said, confirmed>>
displayVars == <<asciiMode, petsciiEscape>>
vars == <<telnetVars, queueVars, hostVars, displayVars, pc, batch, polled, wire, typed,
          shown, keys, sessions>>

-----------------------------------------------------------------------------
\* Where step, a function of a state and an input, leads from a state when it is
\* taken for each input in turn: FoldLeft as a recursive function, which can be
\* reasoned about.
Run(step, start, inputs) ==
  LET after[i \in 0..Len(inputs)] ==
        IF i = 0 THEN start ELSE step[after[i - 1]][inputs[i]]
  IN after[Len(inputs)]

-----------------------------------------------------------------------------
(* The messages of a host and what it makes of the bytes it gets.            *)

Verb == {DO, DONT, WILL, WONT}

Data(b) == [kind |-> "data", byte |-> b]
Option(c, o) == [kind |-> "option", verb |-> c, option |-> o]
Sub(o, parameters) == [kind |-> "sub", option |-> o, parameters |-> parameters]

OptionMessage == [kind : {"option"}, verb : Verb, option : Byte]
Message ==
  [kind : {"data"}, byte : Byte] \cup OptionMessage
    \cup [kind : {"sub"}, option : Byte, parameters : Seq(Byte)]

ASSUME MessagesAssumption == Messages \subseteq Message

EscapeByte == [bytes \in Seq(Byte) |-> [b \in Byte |->
                 bytes \o IF b = IAC THEN <<IAC, IAC>> ELSE <<b>>]]
Escape(bytes) == Run(EscapeByte, <<>>, bytes)

Encode(m) ==
  CASE m.kind = "data"   -> Escape(<<m.byte>>)
    [] m.kind = "option" -> <<IAC, m.verb, m.option>>
    [] m.kind = "sub"    -> <<IAC, SB, m.option>> \o Escape(m.parameters) \o <<IAC, SE>>

\* A decoder's state: where it is, the verb of the last command, and the data and
\* the commands about options it has seen.
Decoder ==
  [at : {"data", "iac", "option", "suboption", "sub", "subiac", "error"},
   verb : Verb, data : Seq(Byte), options : Seq(OptionMessage)]

HostStart == [at |-> "data", verb |-> DO, data |-> <<>>, options |-> <<>>]

\* Where a byte takes it, and whether the byte is data.
HostGoes(at, b) ==
  CASE at = "data"      -> IF b = IAC THEN "iac" ELSE "data"
    [] at = "iac"       -> IF b = IAC THEN "data"
                           ELSE IF b = SB THEN "suboption"
                           ELSE IF b \in Verb THEN "option" ELSE "error"
    [] at = "option"    -> "data"
    [] at = "suboption" -> "sub"
    [] at = "sub"       -> IF b = IAC THEN "subiac" ELSE "sub"
    [] at = "subiac"    -> IF b = IAC THEN "sub"
                           ELSE IF b = SE THEN "data" ELSE "error"
    [] at = "error"     -> "error"
IsData(at, b) ==
  \/ at = "data" /\ b # IAC
  \/ at = "iac" /\ b = IAC

HostStep == [d \in Decoder |-> [b \in Byte |->
  [at      |-> HostGoes(d.at, b),
   verb    |-> IF d.at = "iac" /\ b \in Verb THEN b ELSE d.verb,
   data    |-> IF IsData(d.at, b) THEN Append(d.data, b) ELSE d.data,
   options |-> IF d.at = "option" THEN Append(d.options, Option(d.verb, b))
               ELSE d.options]]]

HostSees(bytes) == Run(HostStep, HostStart, bytes)
OptionsSeen(bytes) == HostSees(bytes).options

\* The confirmation of an option switched by the terminal.
Confirm(m) ==
  Option(CASE m.verb = DO -> WILL [] m.verb = WILL -> DO
           [] m.verb = DONT -> WONT [] m.verb = WONT -> DONT, m.option)

-----------------------------------------------------------------------------
(* The transmit queue.                                                       *)

Unsent == SubSeq(outgoing, outOffset + 1, Len(outgoing))

\* The queue, with all that was ever handed to it.
Queue == [bytes : Seq(Byte), offset : Nat, overflow : BOOLEAN, handed : Seq(Byte)]

(* A check missing.                                                          *)
EnqueueUnchecked(q, message) ==
  [q EXCEPT !.bytes = SubSeq(q.bytes, q.offset + 1, Len(q.bytes)) \o message,
            !.offset = 0, !.handed = @ \o message]

(* The buffer is moved down but the offset kept.                             *)
EnqueueKeepsOffset(q, message) ==
  IF Len(q.bytes) - q.offset + Len(message) > QUEUE
  THEN [q EXCEPT !.overflow = TRUE, !.handed = @ \o message]
  ELSE [q EXCEPT !.bytes = SubSeq(q.bytes, q.offset + 1, Len(q.bytes)) \o message,
                 !.handed = @ \o message]

\* enqueue(): the queue after a call.
Enqueue(q, message) ==
  LET waiting == SubSeq(q.bytes, q.offset + 1, Len(q.bytes))
      fits    == Len(waiting) + Len(message) <= QUEUE
  IN [bytes    |-> IF fits THEN waiting \o message ELSE waiting,
      offset   |-> 0,
      overflow |-> q.overflow \/ ~fits,
      handed   |-> q.handed \o message]

\* A call for each of some messages.
EnqueueEach == [q \in Queue |-> [message \in Seq(Byte) |-> Enqueue(q, message)]]

Send(messages) ==
  LET q == Run(EnqueueEach, [bytes |-> outgoing, offset |-> outOffset,
                             overflow |-> outOverflow, handed |-> intended],
               messages)
  IN /\ outgoing' = q.bytes /\ outOffset' = q.offset /\ outOverflow' = q.overflow
     /\ intended' = q.handed

\* ansi_send_terminal(), or the encoded key: a call for each byte.
Type(bytes) == [i \in DOMAIN bytes |-> SendByte(bytes[i])]

-----------------------------------------------------------------------------
(* terminal()                                                                *)

Goto(here, there) == pc = here /\ pc' = there

\* The ANSI terminal needs a font, which may not load.
Start ==
  /\ outgoing' = <<>> /\ outOffset' = 0 /\ outOverflow' = FALSE
  /\ TelnetReset
  /\ asciiMode' \in BOOLEAN /\ petsciiEscape' = FALSE
  /\ Goto("start", "write") \/ (asciiMode' /\ Goto("start", "ended"))
  /\ UNCHANGED <<intended, hostVars, batch, polled, wire, typed, shown, keys,
                 sessions>>

Acceptable == IF Len(Unsent) > PAYLOAD THEN PAYLOAD ELSE Len(Unsent)

(* What the backend did not take at once is never offered again.             *)
WriteOnce(n) ==
  /\ Goto("write", "poll")
  /\ n \in {0, IF outOffset = 0 THEN Acceptable ELSE 0}
  /\ wire' = wire \o SubSeq(Unsent, 1, n)
  /\ IF n = Len(Unsent) THEN outgoing' = <<>> /\ outOffset' = 0
     ELSE outOffset' = outOffset + n /\ UNCHANGED outgoing
  /\ UNCHANGED <<displayVars, telnetVars, outOverflow, intended, hostVars, batch, polled,
                 typed, shown, keys, sessions>>

\* write() takes n of the bytes: none when the last ones are still to be sent.
Write(n) ==
  /\ Goto("write", "poll")
  /\ n \in {0, Acceptable}
  /\ wire' = wire \o SubSeq(Unsent, 1, n)
  /\ IF n = Len(Unsent) THEN outgoing' = <<>> /\ outOffset' = 0
     ELSE outOffset' = outOffset + n /\ UNCHANGED outgoing
  /\ UNCHANGED <<displayVars, telnetVars, outOverflow, intended, hostVars, batch, polled,
                 typed, shown, keys, sessions>>

Poll ==
  /\ Goto("poll", "read")
  /\ polled' = TRUE
  /\ UNCHANGED <<displayVars, telnetVars, queueVars, hostVars, batch, wire, typed, shown,
                 keys, sessions>>

\* read() gives n bytes.
Read(n) ==
  /\ Goto("read", "receive")
  /\ n <= Len(inbound)
  /\ batch' = SubSeq(inbound, 1, n)
  /\ inbound' = SubSeq(inbound, n + 1, Len(inbound))
  /\ UNCHANGED <<displayVars, telnetVars, queueVars, said, confirmed, polled, wire, typed,
                 shown, keys, sessions>>

\* The byte is put out and the display is the ANSI terminal, or the other one.
ToAnsi(input) == IsOutput(input) /\ asciiMode
ToPetscii(input) == IsOutput(input) /\ ~asciiMode

\* What the display answers to the next byte of the batch.
Reports(input) == IF ToAnsi(input) /\ input = Inquiry THEN Report ELSE <<>>

(* An ESC is put aside, and the byte after it shown.                         *)
DisplaySkipsEscapeOnly(input) ==
  /\ shown' = IF ToAnsi(input) \/ (ToPetscii(input) /\ input # ESC)
              THEN Append(shown, input) ELSE shown
  /\ petsciiEscape' = IF ToPetscii(input) THEN input = ESC ELSE petsciiEscape

\* The byte goes to the display; on the PETSCII display an ESC is not shown, nor
\* the byte of data after it, which need not be in the same batch.
Display(input) ==
  /\ shown' = IF \/ ToAnsi(input)
                 \/ ToPetscii(input) /\ ~petsciiEscape /\ input # ESC
              THEN Append(shown, input) ELSE shown
  /\ petsciiEscape' = IF ToPetscii(input) THEN ~petsciiEscape /\ input = ESC
                      ELSE petsciiEscape

\* The next byte of the batch: the answers of the Telnet machine and of the
\* display go to the queue, behind what is there.
Receive ==
  /\ pc = "receive" /\ batch # <<>>
  /\ LET input == Head(batch)
     IN /\ TelnetReceive(input)
        /\ Send(Replies(input) \o Type(Reports(input)))
        /\ typed' = typed \o Reports(input)
        /\ Display(input)
  /\ batch' = Tail(batch)
  /\ UNCHANGED <<hostVars, pc, asciiMode, polled, wire, keys, sessions>>

BatchDone ==
  /\ pc = "receive" /\ batch = <<>>
  /\ pc' = "key"
  /\ UNCHANGED <<displayVars, telnetVars, queueVars, hostVars, batch, polled, wire, typed,
                 shown, keys, sessions>>

NoKey ==
  /\ Goto("key", "check")
  /\ UNCHANGED <<displayVars, telnetVars, queueVars, hostVars, batch, polled, wire, typed,
                 shown, keys, sessions>>

\* What a key is on the wire; the modes are the ANSI terminal's.
Encoded(key) ==
  IF asciiMode THEN {AnsiKey(key, application, newline) :
                       application, newline \in BOOLEAN}
  ELSE {KeyboardEncode(key, TRUE)}

Press(key) ==
  /\ Goto("key", "check")
  /\ keys < MaxKeys /\ keys' = keys + 1
  /\ \E bytes \in Encoded(key) :
       /\ Send(IF bytes = <<RETURN>> THEN <<SendEnter>> ELSE Type(bytes))
       /\ typed' = typed \o bytes
  /\ UNCHANGED <<displayVars, telnetVars, hostVars, batch, polled, wire, shown, sessions>>

\* The loop ends when the queue has overflowed.
Check ==
  /\ Goto("check", IF outOverflow THEN "ended" ELSE "write")
  /\ UNCHANGED <<displayVars, telnetVars, queueVars, hostVars, batch, polled, wire, typed,
                 shown, keys, sessions>>

\* RUN/STOP is pressed, or the connection is lost.
End ==
  /\ pc \in {"write", "read", "key"}
  /\ pc' = "ended"
  /\ UNCHANGED <<displayVars, telnetVars, queueVars, hostVars, batch, polled, wire, typed,
                 shown, keys, sessions>>

\* Another connection: its histories start from nothing.
Reconnect ==
  /\ Goto("ended", "start")
  /\ sessions < MaxSessions /\ sessions' = sessions + 1
  /\ inbound' = <<>> /\ wire' = <<>> /\ intended' = <<>> /\ typed' = <<>>
  /\ shown' = <<>> /\ confirmed' = 0 /\ said' = <<>> /\ keys' = 0
  /\ batch' = <<>> /\ polled' = FALSE
  /\ UNCHANGED <<displayVars, telnetVars, outgoing, outOffset, outOverflow>>

-----------------------------------------------------------------------------
(* The host                                                                  *)

HostSays(m) ==
  /\ pc # "start" /\ pc # "ended"
  /\ inbound' = inbound \o Encode(m)
  /\ said' = Append(said, m)
  /\ UNCHANGED <<displayVars, telnetVars, queueVars, pc, batch, polled, wire, typed, shown,
                 keys, sessions>>

HostSends(m) ==
  /\ Len(said) - confirmed + sessions <= MaxMessages
  /\ HostSays(m) /\ UNCHANGED confirmed

HostConfirms ==
  /\ confirmed < Len(OptionsSeen(wire)) /\ confirmed' = confirmed + 1
  /\ HostSays(Confirm(OptionsSeen(wire)[confirmed + 1]))

-----------------------------------------------------------------------------
Init ==
  /\ TelnetInit
  /\ asciiMode = TRUE /\ petsciiEscape = FALSE
  /\ pc = "start" /\ polled = FALSE /\ keys = 0 /\ sessions = 1
  /\ outgoing = <<>> /\ outOffset = 0 /\ outOverflow = FALSE
  /\ batch = <<>> /\ inbound = <<>> /\ wire = <<>> /\ intended = <<>>
  /\ typed = <<>> /\ shown = <<>> /\ confirmed = 0 /\ said = <<>>

Loop ==
  \/ Start \/ Poll \/ Receive \/ BatchDone \/ NoKey \/ Check
  \/ \E n \in 0..PAYLOAD : Write(n)
  \/ \E n \in 0..BATCH : Read(n)

Next ==
  \/ Loop \/ End \/ Reconnect \/ HostConfirms
  \/ \E key \in Keys : Press(key)
  \/ \E m \in Messages : HostSends(m)

\* The loop goes on, and the backend does not refuse every byte for ever.
Spec ==
  /\ Init /\ [][Next]_vars
  /\ WF_vars(Loop)
  /\ SF_vars(\E n \in 1..PAYLOAD : Write(n)) /\ SF_vars(\E n \in 1..BATCH : Read(n))

-----------------------------------------------------------------------------
(* Properties.                                                               *)

LoopTypeOK ==
  /\ asciiMode \in BOOLEAN /\ petsciiEscape \in BOOLEAN
  /\ pc \in {"start", "write", "poll", "read", "receive", "key", "check", "ended"}

QueueTypeOK ==
  /\ outgoing \in Seq(Byte) /\ Len(outgoing) <= QUEUE
  /\ outOffset \in 0..Len(outgoing) /\ outOverflow \in BOOLEAN
  /\ intended \in Seq(Byte)

StreamTypeOK ==
  /\ batch \in Seq(Byte) /\ Len(batch) <= BATCH
  /\ inbound \in Seq(Byte) /\ wire \in Seq(Byte) /\ typed \in Seq(Byte)
  /\ shown \in Seq(Byte) /\ said \in Seq(Message) /\ confirmed \in Nat

TypeOK == TelnetTypeOK /\ LoopTypeOK /\ QueueTypeOK /\ StreamTypeOK

\* What goes over the connection is what was handed to the queue, in order and
\* without a gap, however often the buffer is moved down and however little of
\* it the backend takes; after an overflow nothing is sent past the gap.
WireInOrder ==
  /\ IsPrefix(wire, intended)
  /\ pc # "start" /\ ~outOverflow => wire \o Unsent = intended

\* The host sees the bytes typed as data, none of them as a command and none of
\* the terminal's answers as data, wherever the answers fall between them.
TypedIsData ==
  /\ IsPrefix(HostSees(wire).data, typed)
  /\ HostSees(wire).at # "error"
  /\ HostSees(intended).data = typed

\* All that the host has sent has been processed.
Quiet == pc # "start" /\ inbound = <<>> /\ batch = <<>>

\* The data in some messages.
MessageData == [data \in Seq(Byte) |-> [m \in Message |->
                  IF m.kind = "data" THEN Append(data, m.byte) ELSE data]]
DataIn(messages) == Run(MessageData, <<>>, messages)

\* The commands about options in some messages.
MessageOptions == [options \in Seq(OptionMessage) |-> [m \in Message |->
                     IF m.kind = "option" THEN Append(options, m) ELSE options]]
OptionsIn(messages) == Run(MessageOptions, <<>>, messages)

\* What the PETSCII display shows of some data, and whether it ends in an ESC
\* that waits for a byte to take along.
PetsciiStep == [d \in [escape : BOOLEAN, shown : Seq(Byte)] |-> [b \in Byte |->
  [escape |-> ~d.escape /\ b = ESC,
   shown  |-> IF d.escape \/ b = ESC THEN d.shown ELSE Append(d.shown, b)]]]
PetsciiShows(data) == Run(PetsciiStep, [escape |-> FALSE, shown |-> <<>>], data)

\* The display gets the data of the host's messages and nothing else, without
\* the sequences the C128's screen editor would obey, wherever a batch or a
\* command of Telnet splits them; and the machine is never left inside a command
\* when a message has ended.
HostDataShown ==
  LET wanted == IF asciiMode THEN DataIn(said) ELSE PetsciiShows(DataIn(said)).shown
  IN /\ pc # "start" => IsPrefix(shown, wanted)
     /\ Quiet => shown = wanted /\ state = "DATA"

\* A host that confirms every command does not make the two ends answer each
\* other for ever: the terminal sends no more commands than the host has sent
\* of its own accord.
NoNegotiationLoop ==
  Len(OptionsSeen(intended)) <= Len(OptionsIn(said)) - confirmed

\* Whether the last command with one of these verbs, about option o, is verb.
LastIs(options, verb, other, o) ==
  \E i \in DOMAIN options :
    /\ options[i] = Option(verb, o)
    /\ \A j \in DOMAIN options : j > i => options[j] # Option(other, o)

\* However the commands of the host and its confirmations cross those of the
\* terminal, in the end an option is on if and only if the host asked for it
\* last, and the terminal never said that it is off.
OptionsAgree ==
  Quiet =>
    /\ \A o \in LocalAccepted :
         o \in localOptions <=> LastIs(OptionsIn(said), DO, DONT, o)
    /\ \A o \in RemoteAccepted :
         o \in remoteOptions <=> LastIs(OptionsIn(said), WILL, WONT, o)
    /\ \A o \in localOptions : LastIs(OptionsSeen(intended), WILL, WONT, o)
    /\ \A o \in remoteOptions : LastIs(OptionsSeen(intended), DO, DONT, o)

\* Every byte in the queue is sent, or the session ends.
QueueDrains == Unsent # <<>> ~> Unsent = <<>> \/ pc = "ended"

(* What the documentation says, and the code does not do.                    *)

\* terminal(): the Telnet identity is sent before the first receive poll.
IdentityFirst == polled => intended # <<>>
=============================================================================
