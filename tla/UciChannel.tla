------------------------------ MODULE UciChannel ------------------------------
(* The command channel that src/net/ultimate/uci.h offers to the Ultimate     *)
(* backend: one command at a time is handed to the cartridge's firmware, and   *)
(* uci_poll is called until it reports UCI_DONE, UCI_ERROR or UCI_TIMEOUT.     *)
(* It is the abstract specification of the register driver (module Uci) and    *)
(* the half of the backend (module Ultimate) that talks to the hardware.       *)
(* The firmware is external: it is modelled from the waits and recoveries of   *)
(* uci.c.  An absent interface reads as an idle one that never answers.        *)
CONSTANTS
  Request,     \* the commands a caller may issue
  Answer,      \* what the firmware may answer and the driver can hold
  NoRequest,   \* no command is known to the firmware
  NoAnswer,    \* the reply queues are empty
  TooLong      \* an answer longer than the driver's buffers

VARIABLES
  present,     \* the identification register reads as an Ultimate's
  iface,       \* what the control/status register shows of the interface
  request,     \* the command the firmware has accepted and not forgotten
  answer,      \* the reply waiting in the queues
  stage,       \* uci.c: stage, with REPLY and ACKNOWLEDGE as one "BUSY"
  expired      \* uci_ticks() - started >= deadline

chanVars == <<present, iface, request, answer, stage, expired>>

ChanTypeOK ==
  /\ present \in BOOLEAN
  /\ iface \in {"idle", "busy", "answered", "aborting", "error"}
  /\ request \in Request \cup {NoRequest}
  /\ answer \in Answer \cup {NoAnswer, TooLong}
  /\ stage \in {"STOPPED", "RESETTING", "BUSY"}
  /\ expired \in BOOLEAN

ChanInit ==
  /\ present \in BOOLEAN
  /\ iface \in IF present THEN {"idle", "busy", "error"} ELSE {"idle"}
  /\ request = NoRequest
  /\ answer = NoAnswer
  /\ stage = "STOPPED"
  /\ expired = FALSE

-----------------------------------------------------------------------------
(* The driver's entry points.                                                *)

\* uci_reset: an idle interface is left alone, any other is aborted.  One whose
\* answer was read and acknowledged, but not yet reported done, may be idle.
UciReset ==
  /\ stage' = "RESETTING"
  /\ expired' = FALSE
  /\ \/ /\ iface' = IF iface = "idle" THEN "idle" ELSE "aborting"
        /\ UNCHANGED <<request, answer>>
     \/ /\ iface = "answered"
        /\ iface' = "idle" /\ request' = NoRequest /\ answer' = NoAnswer
  /\ UNCHANGED present

UciCanStart == stage = "STOPPED" /\ iface = "idle"

\* The part of a start that the interface sees.
Push(req) ==
  /\ stage' = "BUSY"
  /\ expired' = FALSE
  /\ iface' = IF present THEN "busy" ELSE "idle"
  /\ request' = IF present THEN req ELSE NoRequest
  /\ answer' = NoAnswer
  /\ UNCHANGED present

\* uci_start; with UciCanStart false it returns 0 and changes nothing.
UciStart(req) == UciCanStart /\ Push(req)

\* fail: abort whatever is going on; only CLR_ERR would clear an error.
Abandon ==
  /\ stage' = "STOPPED"
  /\ iface' = IF present /\ iface # "error" THEN "aborting" ELSE iface
  /\ expired' = FALSE
  /\ UNCHANGED <<present, request, answer>>

UciTimeout == stage # "STOPPED" /\ expired /\ Abandon

\* The deadline may pass while the reply is being read.
UciError ==
  /\ stage = "BUSY"
  /\ iface = "error" \/ (iface = "answered" /\ answer = TooLong)
  /\ Abandon

UciFinished ==
  /\ ~expired
  /\ \/ stage = "RESETTING" /\ iface = "idle"
     \/ stage = "BUSY" /\ iface = "answered" /\ answer # TooLong

\* uci_poll reports UCI_DONE, and the caller issues the command `next` at once
\* or, with NoRequest, leaves the channel stopped.
UciDone(next) ==
  /\ UciFinished
  /\ IF next # NoRequest THEN Push(next)
     ELSE /\ stage' = "STOPPED"
          /\ iface' = "idle"
          /\ request' = NoRequest
          /\ answer' = NoAnswer
          /\ expired' = FALSE
          /\ UNCHANGED present

\* UCI_PENDING: still busy, or the reply is drained over several polls.
UciPending == /\ stage # "STOPPED" /\ ~expired
              /\ UNCHANGED <<present, iface, request, answer, stage, expired>>

-----------------------------------------------------------------------------
(* The firmware, the user and the clock.                                     *)

\* The firmware completes the command with answer a ...
FwAnswer(a) ==
  /\ iface = "busy" /\ request # NoRequest
  /\ iface' = "answered"
  /\ answer' = a
  /\ UNCHANGED <<present, request, stage, expired>>

\* ... or was already executing it when the abort arrived: no answer is seen.
FwLate ==
  /\ iface = "aborting" /\ request # NoRequest
  /\ request' = NoRequest
  /\ UNCHANGED <<present, iface, answer, stage, expired>>

\* The firmware drops what it was doing; an error stays until it is cleared.
FwAborted ==
  /\ iface = "aborting" \/ (iface = "error" /\ stage = "STOPPED")
  /\ iface' = IF iface = "error" THEN "error" ELSE "idle"
  /\ request' = NoRequest
  /\ answer' = NoAnswer
  /\ UNCHANGED <<present, stage, expired>>

FwError ==
  /\ iface \in {"busy", "answered"}
  /\ iface' = "error"
  /\ UNCHANGED <<present, request, answer, stage, expired>>

\* The deadline of the command in progress passes.
Expire ==
  /\ stage # "STOPPED" /\ ~expired
  /\ expired' = TRUE
  /\ UNCHANGED <<present, iface, request, answer, stage>>

\* The user enables or disables the interface in the Ultimate's menu.
TogglePresence ==
  /\ stage = "STOPPED"
  /\ present' = ~present
  /\ iface' = "idle"
  /\ request' = NoRequest
  /\ answer' = NoAnswer
  /\ UNCHANGED <<stage, expired>>

-----------------------------------------------------------------------------
ChanFirmware ==
  \/ \E a \in Answer \cup {TooLong} : FwAnswer(a)
  \/ FwLate \/ FwAborted \/ FwError

ChanPoll ==
  \/ UciTimeout \/ UciError \/ UciPending
  \/ \E next \in Request \cup {NoRequest} : UciDone(next)

ChanNext ==
  \/ UciReset
  \/ \E req \in Request : UciStart(req)
  \/ ChanPoll \/ ChanFirmware \/ Expire \/ TogglePresence

ChanSpec == ChanInit /\ [][ChanNext]_chanVars
=============================================================================
