-------------------------------- MODULE Program --------------------------------
(* The control flow of src/app/program.c and src/app/session.c around the      *)
(* Ultimate backend: the main screen initialises the interface, opens          *)
(* sessions one after another, and every wait is a loop that calls poll.       *)
(* The program is sequential; between two of its steps the firmware, the user  *)
(* and the clock move.  What is typed and shown is left out but for the keys   *)
(* that steer the program and for the line that says whether it is ready.      *)
EXTENDS Ultimate

VARIABLES
  pc,     \* the point of the program that is reached
  ready   \* program_run: ready, shown by draw_main

programVars == <<vars, pc, ready>>

Points == {"boot", "init", "main", "restart", "quit", "exit", "session",
           "dialog", "connect", "terminal", "write", "poll", "read", "key",
           "shutdown", "drain"}

Goto(here, there) == pc = here /\ pc' = there

-----------------------------------------------------------------------------
(* program.c                                                                 *)

\* initialize() up to the check of init()'s result
CallInit ==
  /\ Initialize
  /\ pc' = IF present THEN "init" ELSE "main"
  /\ ready' = FALSE

Boot == pc = "boot" /\ CallInit

\* while (state() == NET_INITIALIZING) poll();
InitLoop ==
  /\ pc = "init"
  /\ IF connection = "INITIALIZING" THEN Poll /\ UNCHANGED <<pc, ready>>
     ELSE /\ pc' = "main"
          /\ ready' = (connection = "CLOSED")
          /\ UNCHANGED vars

\* close() does nothing to a backend that is closing already.
CallClose == IF connection = "CLOSING" THEN UNCHANGED vars ELSE Close

\* while (state() == NET_CLOSING) poll(); and what follows the loop
DrainLoop(here, after) ==
  /\ pc = here
  /\ IF connection = "CLOSING" THEN Poll /\ UNCHANGED <<pc, ready>> ELSE after

KeyF1 == Goto("main", "restart") /\ CallClose /\ UNCHANGED ready
(* The interface is initialised while the close is still going on.           *)
RestartAtOnce == pc = "restart" /\ CallInit

Restart == DrainLoop("restart", CallInit)

KeyF3 == Goto("main", "session") /\ ready /\ UNCHANGED <<vars, ready>>

KeyF8 == Goto("main", "quit") /\ CallClose /\ UNCHANGED ready
(* The program ends without waiting for the close.                           *)
QuitAtOnce == Goto("quit", "exit") /\ UNCHANGED <<vars, ready>>

Quit == DrainLoop("quit", pc' = "exit" /\ UNCHANGED <<vars, ready>>)

-----------------------------------------------------------------------------
(* session.c                                                                 *)

(* A failure does not end the wait.                                          *)
WaitReadyForEver(here, ok, there) ==
  /\ pc = here
  /\ Poll
  /\ pc' = IF connection' = ok THEN there ELSE here
  /\ UNCHANGED ready

\* One turn of wait_ready(): poll, then leave the loop by the state, or because
\* the user presses RUN/STOP, F7 or ESC.
WaitReady(here, ok, there) ==
  /\ pc = here
  /\ Poll
  /\ \/ connection' \in {"INITIALIZING", "CONNECTING"} /\ pc' \in {here, "shutdown"}
     \/ connection' = ok /\ pc' = there
     \/ connection' \notin {"INITIALIZING", "CONNECTING", ok} /\ pc' = "shutdown"
  /\ UNCHANGED ready

\* Before the first dialog CLOSED is the state to wait for: no connection has
\* been asked for.
SessionReady == WaitReady("session", "CLOSED", "dialog")

CancelDialog == Goto("dialog", "shutdown") /\ UNCHANGED <<vars, ready>>

CallConnect ==
  /\ pc = "dialog"
  /\ Connect
  /\ pc' = IF connection' = "CONNECTING" THEN "connect" ELSE "shutdown"
  /\ UNCHANGED ready

SessionConnected == WaitReady("connect", "CONNECTED", "terminal")

\* terminal() gives up at once if the font cannot be loaded.
NoFont == Goto("terminal", "shutdown") /\ UNCHANGED <<vars, ready>>
StartTerminal == Goto("terminal", "write") /\ UNCHANGED <<vars, ready>>

\* One turn of its loop: write what is queued, poll, read, look for a key.
TerminalWrite ==
  /\ pc = "write"
  /\ pc' \in IF connection = "CONNECTED" THEN {"poll"} ELSE {"poll", "shutdown"}
  /\ UNCHANGED vars \/ \E n \in 1..MaxTx : Transmit(n)
  /\ UNCHANGED ready

(* The end of the stream does not end the terminal.                          *)
TerminalPollPastEof ==
  /\ pc = "poll"
  /\ Poll
  /\ pc' = IF connection' = "FAILED" THEN "shutdown" ELSE "read"
  /\ UNCHANGED ready

TerminalPoll ==
  /\ pc = "poll"
  /\ Poll
  /\ pc' = IF connection' \in {"FAILED", "EOF"} THEN "shutdown" ELSE "read"
  /\ UNCHANGED ready

TerminalRead ==
  /\ Goto("read", "key")
  /\ \/ rxOffset = rxLength /\ UNCHANGED vars
     \/ \E n \in 1..MaxRx : Receive(n)
  /\ UNCHANGED ready

\* RUN/STOP, or a key that overflows the queue
NoStop == Goto("key", "write") /\ UNCHANGED <<vars, ready>>
KeyStop == Goto("key", "shutdown") /\ UNCHANGED <<vars, ready>>

\* shutdown() and the return to the main screen
Shutdown == Goto("shutdown", "drain") /\ CallClose /\ UNCHANGED ready
Drain == DrainLoop("drain", pc' = "main" /\ UNCHANGED <<vars, ready>>)

-----------------------------------------------------------------------------
ProgramInit == Init /\ pc = "boot" /\ ready = FALSE

User ==
  \/ KeyF1 \/ KeyF3 \/ KeyF8 \/ CancelDialog \/ CallConnect
  \/ KeyStop \/ NoFont

\* What the program does of its own accord.
Run ==
  \/ Boot \/ InitLoop \/ Restart \/ Quit \/ SessionReady \/ SessionConnected
  \/ StartTerminal \/ TerminalWrite \/ TerminalPoll \/ TerminalRead \/ NoStop
  \/ Shutdown \/ Drain

ProgramNext == User \/ Run \/ (Environment /\ UNCHANGED <<pc, ready>>)

\* The program runs, and a clock that runs passes every deadline.  Nothing is
\* asked of the firmware or of the user.
Fairness ==
  /\ WF_programVars(Run)
  /\ WF_programVars(DeadlinePasses /\ UNCHANGED <<pc, ready>>)
  /\ WF_programVars(SendGetsLate /\ UNCHANGED <<pc, ready>>)

ProgramSpec == ProgramInit /\ [][ProgramNext]_programVars /\ Fairness

-----------------------------------------------------------------------------
(* Properties.                                                               *)

\* The program is a caller as network.h wants it: Ultimate's specification, and
\* so every property shown of it, holds of the program's calls.
ObeysContract == Spec

\* Nothing is read or written after the connection was lost, and the dialog is
\* reached only with the backend closed.
PointsAgree ==
  /\ pc \in Points
  /\ pc \in {"terminal", "write", "poll", "read", "key"} => connection = "CONNECTED"
  /\ pc = "dialog" => connection = "CLOSED"
  /\ pc \in {"init", "restart", "quit", "drain", "connect"} /\
     connection \in {"INITIALIZING", "CLOSING", "CONNECTING"} => operation # "NONE"

\* When the program has ended no command is under way in the cartridge; and
\* if the last close succeeded and no command had to be abandoned, no socket
\* is left open there.
QuitsCleanly ==
  pc = "exit" =>
    /\ connection \in {"CLOSED", "FAILED"} /\ operation = "NONE"
    /\ connection = "CLOSED" /\ ~abandoned => open = {}

\* Initialisation ends, even if the clock has stopped.
InitialisationEnds == pc = "init" ~> pc = "main"

\* The waits for a connection and for the end of a close end if the clock runs.
WaitsEnd ==
  \A here \in {"connect", "drain", "restart", "quit"} :
    pc = here ~> pc # here \/ clock = "stopped"

\* What write() accepted is sent or the session ends, even if the firmware
\* accepts nothing of it again and again.
SendsOrFails ==
  txLength > 0 ~> txLength = 0 \/ connection # "CONNECTED" \/ clock = "stopped"

(* What the documentation says, and the code does not do.                    *)

\* session.c: a pending open is closed when it completes if it was cancelled.
\* A connection is not closed unless the caller asked for it.
ClosesOnRequest == connection = "CLOSING" => closeAsked

\* The test of program.c: whenever a key is awaited, the main screen says it is
\* ready if and only if the backend is closed.
ReadyIsShown == pc = "main" => (ready <=> connection = "CLOSED")

\* program.c: each backend enforces its own deadlines, so closing ends.
CloseEnds == pc = "drain" ~> pc = "main"
=============================================================================
