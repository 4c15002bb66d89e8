-------------------------------- MODULE Telnet --------------------------------
(* The Telnet protocol machine, src/core/telnet.c: every byte received is data *)
(* for the display or part of a command, and commands are answered through the *)
(* callback send_bytes.  A byte keeps its value.  Left out are the profile,    *)
(* which chooses the rows and the name in two of the answers (ANSI has 25 rows *)
(* and the name is one byte here), and the null callback, never used.          *)
EXTENDS Integers, Sequences

CONSTANT LENGTH_MOD  \* suboption_length is counted modulo this (256)

ASSUME LengthAssumption == LENGTH_MOD \in Nat \ {0, 1}

VARIABLES state, command, suboption, suboptionFirst, suboptionLength,
          remoteOptions, localOptions

telnetVars == <<state, command, suboption, suboptionFirst, suboptionLength,
                remoteOptions, localOptions>>

IAC == 255
DONT == 254
DO == 253
WONT == 252
WILL == 251
SB == 250
SE == 240

BINARY == 0
ECHO == 1
SGA == 3
TTYPE == 24
NAWS == 31
TTYPE_IS == 0
TTYPE_SEND == 1

Byte == 0..255
TelnetStates == {"DATA", "IAC", "NEGOTIATE", "SB_OPTION", "SB_DATA", "SB_IAC"}

\* The options the terminal lets the host use, and those it uses itself.
RemoteAccepted == {BINARY, ECHO, SGA}
LocalAccepted == {BINARY, SGA, TTYPE, NAWS}

TelnetTypeOK ==
  /\ state \in TelnetStates
  /\ command \in {0, DO, DONT, WILL, WONT}
  /\ suboption \in Byte /\ suboptionFirst \in Byte
  /\ suboptionLength \in 0..(LENGTH_MOD - 1)
  /\ remoteOptions \subseteq RemoteAccepted
  /\ localOptions \subseteq LocalAccepted

\* telnet_init
TelnetReset ==
  /\ state' = "DATA" /\ command' = 0
  /\ suboption' = 0 /\ suboptionFirst' = 0 /\ suboptionLength' = 0
  /\ remoteOptions' = {} /\ localOptions' = {}

TelnetInit ==
  /\ state = "DATA" /\ command = 0
  /\ suboption = 0 /\ suboptionFirst = 0 /\ suboptionLength = 0
  /\ remoteOptions = {} /\ localOptions = {}

-----------------------------------------------------------------------------
(* What is handed to send_bytes, one sequence for each call.                 *)

SendCommand(reply, option) == <<IAC, reply, option>>
WindowSize == <<IAC, SB, NAWS, 0, 80, 0, 25, IAC, SE>>
TerminalType == <<IAC, SB, TTYPE, TTYPE_IS, 65, IAC, SE>>

(* An IAC is not doubled.                                                    *)
SendByteRaw(value) == <<value>>

\* telnet_send_byte
SendByte(value) == IF value = IAC THEN <<IAC, IAC>> ELSE <<value>>

\* telnet_send_enter
SendEnter == SendByte(13)

-----------------------------------------------------------------------------
(* telnet_receive                                                            *)

\* The byte is put out: data, or an escaped IAC.
IsOutput(input) ==
  \/ state = "DATA" /\ input # IAC
  \/ state = "IAC" /\ input = IAC

(* Commands are answered although they change nothing.                       *)
AnswersAlways(option) ==
  IF command = WILL
  THEN <<SendCommand(IF option \in RemoteAccepted THEN DO ELSE DONT, option)>>
  ELSE IF command = DO
  THEN <<SendCommand(IF option \in LocalAccepted THEN WILL ELSE WONT, option)>>
  ELSE <<>>

\* The calls of send_bytes made by negotiate(option).
Answers(option) ==
  CASE command = WILL /\ option \notin RemoteAccepted ->
         <<SendCommand(DONT, option)>>
    [] command = WILL /\ option \in RemoteAccepted \ remoteOptions ->
         <<SendCommand(DO, option)>>
    [] command = DO /\ option \notin LocalAccepted ->
         <<SendCommand(WONT, option)>>
    [] command = DO /\ option \in LocalAccepted \ localOptions ->
         IF option = NAWS THEN <<SendCommand(WILL, option), WindowSize>>
         ELSE <<SendCommand(WILL, option)>>
    [] OTHER -> <<>>

(* A refusal of the host is not taken note of.                               *)
NegotiateKeeps(option) ==
  /\ remoteOptions' = IF command = WILL
                      THEN remoteOptions \cup (RemoteAccepted \cap {option})
                      ELSE remoteOptions
  /\ localOptions' = IF command = DO
                     THEN localOptions \cup (LocalAccepted \cap {option})
                     ELSE localOptions

\* What negotiate(option) does to the options.
Negotiate(option) ==
  /\ remoteOptions' =
       CASE command = WILL -> remoteOptions \cup (RemoteAccepted \cap {option})
         [] command = WONT -> remoteOptions \ {option}
         [] OTHER -> remoteOptions
  /\ localOptions' =
       CASE command = DO -> localOptions \cup (LocalAccepted \cap {option})
         [] command \in {WILL, WONT} -> localOptions
         [] OTHER -> localOptions \ {option}

\* finish_suboption
AsksTerminalType ==
  /\ suboption = TTYPE /\ suboptionLength # 0
  /\ suboptionFirst = TTYPE_SEND
  /\ TTYPE \in localOptions

\* The calls of send_bytes made by telnet_receive(input).
Replies(input) ==
  IF state = "NEGOTIATE" THEN Answers(input)
  ELSE IF state = "SB_IAC" /\ input = SE /\ AsksTerminalType
  THEN <<TerminalType>>
  ELSE <<>>

\* One more byte of the parameters of a subnegotiation.
Collect(input) ==
  /\ suboptionFirst' = IF suboptionLength = 0 THEN input ELSE suboptionFirst
  /\ suboptionLength' = (suboptionLength + 1) % LENGTH_MOD

NoOptions == UNCHANGED <<remoteOptions, localOptions>>
NoSuboption == UNCHANGED <<suboption, suboptionFirst, suboptionLength>>

InData(input) ==
  /\ state = "DATA"
  /\ state' = IF input = IAC THEN "IAC" ELSE "DATA"
  /\ UNCHANGED command /\ NoSuboption /\ NoOptions

InIac(input) ==
  /\ state = "IAC"
  /\ IF input \in {DO, DONT, WILL, WONT}
     THEN command' = input /\ state' = "NEGOTIATE"
     ELSE /\ state' = IF input = SB THEN "SB_OPTION" ELSE "DATA"
          /\ UNCHANGED command
  /\ NoSuboption /\ NoOptions

InNegotiate(option) ==
  /\ state = "NEGOTIATE"
  /\ Negotiate(option)
  /\ state' = "DATA"
  /\ UNCHANGED command /\ NoSuboption

InSbOption(input) ==
  /\ state = "SB_OPTION"
  /\ suboption' = input /\ suboptionFirst' = 0 /\ suboptionLength' = 0
  /\ state' = "SB_DATA"
  /\ UNCHANGED command /\ NoOptions

InSbData(input) ==
  /\ state = "SB_DATA"
  /\ IF input = IAC THEN state' = "SB_IAC" /\ NoSuboption
     ELSE Collect(input) /\ UNCHANGED <<state, suboption>>
  /\ UNCHANGED command /\ NoOptions

InSbIac(input) ==
  /\ state = "SB_IAC"
  /\ state' = IF input = SE THEN "DATA" ELSE "SB_DATA"
  /\ IF input = IAC THEN Collect(input) /\ UNCHANGED suboption ELSE NoSuboption
  /\ UNCHANGED command /\ NoOptions

TelnetReceive(input) ==
  \/ InData(input) \/ InIac(input) \/ InNegotiate(input) \/ InSbOption(input)
  \/ InSbData(input) \/ InSbIac(input)
=============================================================================
