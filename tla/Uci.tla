---------------------------------- MODULE Uci ----------------------------------
(* The register driver of the Ultimate command interface,                    *)
(* src/net/ultimate/uci.c, against the registers at $DF1C.  A call of uci_poll *)
(* is several steps, one for each pass of its loops: the firmware, which sits*)
(* on the other side of the registers, moves between them.                   *)
(* An answer comes in any number of parts, each with so many bytes of data and *)
(* of status text in the two queues; the bytes are counted, their values left*)
(* out.                                                                      *)
(* The hardware is external, modelled from what uci.c and the device of      *)
(* tests/ultimate_test.c expect of it.                                       *)
EXTENDS Integers

CONSTANTS
  Request,      \* the commands
  NoRequest, NoAnswer, TooLong,
  REPLY_SIZE,   \* bytes of uci_reply
  STATUS_LIMIT, \* longest status text accepted (256)
  BUDGET,       \* bytes read in one poll
  MaxData, MaxText  \* bound of the model: data and status text of an answer

\* How much of the two an answer has.
Amount == [data : 0..MaxData, text : 0..MaxText]

ASSUME SizesAssumption ==
  /\ REPLY_SIZE \in Nat /\ STATUS_LIMIT \in Nat /\ BUDGET \in Nat \ {0}
  /\ MaxData \in Nat /\ MaxText \in Nat
ASSUME DistinctAssumption ==
  /\ NoRequest \notin Request
  /\ NoAnswer \notin Amount /\ TooLong \notin Amount /\ NoAnswer # TooLong

VARIABLES
  \* the registers and the firmware behind them
  present,
  hwState,            \* bits 5-4: "IDLE", "BUSY", "LAST", "MORE"
  cmdBusy, dataAcc, abort, error,      \* bits 0, 1, 2, 3
  dataLeft, textLeft, \* what the queues of the current part hold
  dataRest, textRest, \* what the parts of the answer still to come will hold
  command, whole,     \* the command accepted, and its answer once there is one
  \* uci.c
  stage, result, lastPart, replyLength, statusLength,
  pc, budget,         \* where in uci_poll the driver is
  expired

hardware == <<present, hwState, cmdBusy, dataAcc, abort, error, dataLeft,
              textLeft, dataRest, textRest, command, whole>>
driver == <<stage, result, lastPart, replyLength, statusLength, pc, budget,
            expired>>
vars == <<hardware, driver>>

-----------------------------------------------------------------------------
Fits(answer) == answer.data <= REPLY_SIZE /\ answer.text <= STATUS_LIMIT

\* READ(0) & 0x3f
Pending == hwState # "IDLE" \/ cmdBusy \/ dataAcc \/ abort \/ error

Queues(data, text) == dataLeft' = data /\ textLeft' = text

\* What an abort makes of the hardware, at last.
Cleared ==
  /\ hwState' = "IDLE" /\ cmdBusy' = FALSE /\ dataAcc' = FALSE
  /\ abort' = FALSE
  /\ Queues(0, 0) /\ dataRest' = 0 /\ textRest' = 0
  /\ command' = NoRequest /\ whole' = NoAnswer

-----------------------------------------------------------------------------
(* uci.c                                                                     *)

UciReset ==
  /\ pc = "out"
  /\ IF Pending
     THEN /\ abort' = TRUE /\ error' = FALSE
          /\ UNCHANGED <<command, whole>>
     ELSE /\ command' = NoRequest /\ whole' = NoAnswer
          /\ UNCHANGED <<abort, error>>
  /\ stage' = "RESETTING" /\ result' = "UCI_PENDING"
  /\ expired' = FALSE
  /\ replyLength' = 0 /\ statusLength' = 0
  /\ UNCHANGED <<present, hwState, cmdBusy, dataAcc, dataLeft, textLeft,
                 dataRest, textRest, lastPart, pc, budget>>

(* The counters of the last command are kept.                                *)
UciStartKeepsLengths(req) ==
  /\ pc = "out" /\ stage = "STOPPED" /\ ~Pending
  /\ stage' = "REPLY" /\ result' = "UCI_PENDING"
  /\ expired' = FALSE
  /\ IF present
     THEN hwState' = "BUSY" /\ cmdBusy' = TRUE /\ command' = req
     ELSE UNCHANGED <<hwState, cmdBusy, command>>
  /\ UNCHANGED <<present, dataAcc, abort, error, dataLeft, textLeft, dataRest,
                 textRest, whole, lastPart, replyLength, statusLength, pc,
                 budget>>

UciStart(req) ==
  /\ pc = "out" /\ stage = "STOPPED" /\ ~Pending
  /\ replyLength' = 0 /\ statusLength' = 0
  /\ stage' = "REPLY" /\ result' = "UCI_PENDING"
  /\ expired' = FALSE
  /\ IF present
     THEN hwState' = "BUSY" /\ cmdBusy' = TRUE /\ command' = req
     ELSE UNCHANGED <<hwState, cmdBusy, command>>
  /\ UNCHANGED <<present, dataAcc, abort, error, dataLeft, textLeft, dataRest,
                 textRest, whole, lastPart, pc, budget>>

(* The command is given up but not aborted.                                  *)
FailWithoutAbort(why) ==
  /\ stage' = "STOPPED" /\ result' = why /\ pc' = "out"
  /\ expired' = FALSE
  /\ UNCHANGED <<hardware, lastPart, replyLength, statusLength, budget>>

\* fail(): write ABORT, stop, and report the error.
Fail(why) ==
  /\ stage' = "STOPPED" /\ result' = why /\ pc' = "out"
  /\ expired' = FALSE
  /\ abort' = present
  /\ UNCHANGED <<present, hwState, cmdBusy, dataAcc, error, dataLeft, textLeft,
                 dataRest, textRest, command, whole, lastPart, replyLength,
                 statusLength, budget>>

(* The deadline covers the wait for the reply only.                          *)
PollTimeoutInReply ==
  /\ pc = "out" /\ stage \in {"RESETTING", "REPLY"} /\ expired
  /\ Fail("UCI_TIMEOUT")

PollTimeout == pc = "out" /\ stage # "STOPPED" /\ expired /\ Fail("UCI_TIMEOUT")

PollReset ==
  /\ pc = "out" /\ stage = "RESETTING" /\ ~expired /\ ~Pending
  /\ stage' = "STOPPED" /\ result' = "UCI_DONE"
  /\ UNCHANGED <<hardware, lastPart, replyLength, statusLength, pc, budget,
                 expired>>

PollError ==
  /\ pc = "out" /\ stage \in {"REPLY", "ACKNOWLEDGE"} /\ ~expired
  /\ error
  /\ Fail("UCI_ERROR")

\* The last part is acknowledged and the interface idle again.  Here the ghost
\* variables command and whole are laid down.
PollDone ==
  /\ pc = "out" /\ stage = "ACKNOWLEDGE" /\ ~expired /\ ~error
  /\ ~dataAcc /\ lastPart /\ hwState = "IDLE" /\ ~cmdBusy
  /\ stage' = "STOPPED" /\ result' = "UCI_DONE"
  /\ command' = NoRequest /\ whole' = NoAnswer
  /\ UNCHANGED <<present, hwState, cmdBusy, dataAcc, abort, error, dataLeft,
                 textLeft, dataRest, textRest, lastPart, replyLength,
                 statusLength, pc, budget, expired>>

\* A part is there to be read.
PollPart ==
  /\ pc = "out" /\ ~expired /\ ~error
  /\ \/ stage = "REPLY"
     \/ stage = "ACKNOWLEDGE" /\ ~dataAcc /\ ~lastPart
  /\ ~cmdBusy /\ hwState \in {"LAST", "MORE"}
  /\ stage' = "REPLY"
  /\ lastPart' = (hwState = "LAST")
  /\ pc' = "reply" /\ budget' = BUDGET
  /\ UNCHANGED <<hardware, result, replyLength, statusLength, expired>>

\* The part is acknowledged but the next one is not there yet.
PollNextPart ==
  /\ pc = "out" /\ stage = "ACKNOWLEDGE" /\ ~expired /\ ~error
  /\ ~dataAcc /\ ~lastPart
  /\ cmdBusy \/ hwState \notin {"LAST", "MORE"}
  /\ stage' = "REPLY"
  /\ UNCHANGED <<hardware, result, lastPart, replyLength, statusLength, pc,
                 budget, expired>>

(* A size check missing.                                                     *)
ReadReplyUnchecked ==
  /\ pc = "reply" /\ budget > 0 /\ dataLeft > 0
  /\ replyLength' = replyLength + 1
  /\ Queues(dataLeft - 1, textLeft)
  /\ budget' = budget - 1
  /\ UNCHANGED <<present, hwState, cmdBusy, dataAcc, abort, error, dataRest,
                 textRest, command, whole, stage, result, lastPart,
                 statusLength, pc, expired>>

\* The first loop: one byte of data, ...
ReadReply ==
  /\ pc = "reply" /\ budget > 0 /\ dataLeft > 0
  /\ IF replyLength = REPLY_SIZE THEN Fail("UCI_ERROR")
     ELSE /\ replyLength' = replyLength + 1
          /\ Queues(dataLeft - 1, textLeft)
          /\ budget' = budget - 1
          /\ UNCHANGED <<present, hwState, cmdBusy, dataAcc, abort, error,
                         dataRest, textRest, command, whole, stage, result,
                         lastPart, statusLength, pc, expired>>

\* ... and its end: come back if there is more than the budget.
ReplyRead ==
  /\ pc = "reply" /\ (budget = 0 \/ dataLeft = 0)
  /\ pc' = IF dataLeft > 0 THEN "out" ELSE "text"
  /\ UNCHANGED <<hardware, stage, result, lastPart, replyLength, statusLength,
                 budget, expired>>

\* The second loop: one byte of status text, ...
ReadText ==
  /\ pc = "text" /\ budget > 0 /\ textLeft > 0
  /\ statusLength' = statusLength + 1
  /\ Queues(dataLeft, textLeft - 1)
  /\ IF statusLength' > STATUS_LIMIT
     THEN /\ stage' = "STOPPED" /\ result' = "UCI_ERROR" /\ pc' = "out"
          /\ expired' = FALSE
          /\ abort' = TRUE
          /\ UNCHANGED budget
     ELSE /\ budget' = budget - 1
          /\ UNCHANGED <<stage, result, pc, expired, abort>>
  /\ UNCHANGED <<present, hwState, cmdBusy, dataAcc, error, dataRest, textRest,
                 command, whole, lastPart, replyLength>>

(* The part is acknowledged when the budget is used up.                      *)
TextReadAcknowledges ==
  /\ pc = "text" /\ (budget = 0 \/ textLeft = 0)
  /\ pc' = "out"
  /\ stage' = "ACKNOWLEDGE"
  /\ dataAcc' = TRUE
  /\ hwState' = IF hwState = "MORE" THEN "BUSY" ELSE "IDLE"
  /\ Queues(0, 0)
  /\ UNCHANGED <<present, cmdBusy, abort, error, dataRest, textRest, command,
                 whole, result, lastPart, replyLength, statusLength, budget,
                 expired>>

\* ... and its end: come back, or acknowledge the part.
TextRead ==
  /\ pc = "text" /\ (budget = 0 \/ textLeft = 0)
  /\ pc' = "out"
  /\ IF textLeft > 0
     THEN UNCHANGED <<hwState, dataAcc, dataLeft, textLeft, stage>>
     ELSE /\ stage' = "ACKNOWLEDGE"
          /\ dataAcc' = TRUE
          /\ hwState' = IF hwState = "MORE" THEN "BUSY" ELSE "IDLE"
          /\ Queues(0, 0)
  /\ UNCHANGED <<present, cmdBusy, abort, error, dataRest, textRest, command,
                 whole, result, lastPart, replyLength, statusLength, budget,
                 expired>>

Poll ==
  \/ PollTimeout \/ PollReset \/ PollError \/ PollDone \/ PollPart
  \/ PollNextPart \/ ReadReply \/ ReplyRead \/ ReadText \/ TextRead

-----------------------------------------------------------------------------
(* The hardware, the user and the clock.                                     *)

\* The firmware takes the command, at the latest before it can be pushed again.
HwTake ==
  /\ cmdBusy
  /\ cmdBusy' = FALSE
  /\ UNCHANGED <<driver, present, hwState, dataAcc, abort, error, dataLeft,
                 textLeft, dataRest, textRest, command, whole>>

HwAccept ==
  /\ dataAcc
  /\ dataAcc' = FALSE
  /\ UNCHANGED <<driver, present, hwState, cmdBusy, abort, error, dataLeft,
                 textLeft, dataRest, textRest, command, whole>>

\* Of what is left to come the next part, perhaps an empty one, is put into the
\* queues, and shown as the last one or not.
Post(data, text) ==
  /\ \E d \in 0..data, t \in 0..text :
       /\ Queues(d, t)
       /\ dataRest' = data - d /\ textRest' = text - t
  /\ \/ hwState' = "MORE"
     \/ hwState' = "LAST" /\ dataRest' = 0 /\ textRest' = 0
  /\ UNCHANGED <<driver, present, cmdBusy, dataAcc, abort, error, command>>

HwAnswer(w) ==
  /\ hwState = "BUSY" /\ ~abort /\ ~error
  /\ command # NoRequest /\ whole = NoAnswer
  /\ whole' = w
  /\ Post(w.data, w.text)

HwNextPart ==
  /\ hwState = "BUSY" /\ ~dataAcc /\ ~abort /\ ~error
  /\ whole # NoAnswer
  /\ Post(dataRest, textRest)
  /\ UNCHANGED whole

HwLate ==
  /\ abort /\ ~error /\ command # NoRequest
  /\ command' = NoRequest
  /\ UNCHANGED <<driver, present, hwState, cmdBusy, dataAcc, abort, error,
                 dataLeft, textLeft, dataRest, textRest, whole>>

HwAborted ==
  /\ abort
  /\ Cleared
  /\ UNCHANGED <<driver, present, error>>

HwError ==
  /\ hwState # "IDLE" /\ ~abort /\ ~error
  /\ error' = TRUE
  /\ UNCHANGED <<driver, present, hwState, cmdBusy, dataAcc, abort, dataLeft,
                 textLeft, dataRest, textRest, command, whole>>

Expire ==
  /\ stage # "STOPPED" /\ ~expired
  /\ expired' = TRUE
  /\ UNCHANGED <<hardware, stage, result, lastPart, replyLength, statusLength,
                 pc, budget>>

TogglePresence ==
  /\ pc = "out" /\ stage = "STOPPED"
  /\ present' = ~present
  /\ Cleared
  /\ error' = FALSE
  /\ UNCHANGED driver

Hardware ==
  \/ HwTake \/ HwAccept \/ HwNextPart \/ HwLate \/ HwAborted \/ HwError
  \/ \E w \in Amount : HwAnswer(w)

-----------------------------------------------------------------------------
\* The interface may have been left busy, or in error, by earlier software.
Init ==
  /\ present \in BOOLEAN
  /\ hwState \in IF present THEN {"IDLE", "BUSY", "LAST"} ELSE {"IDLE"}
  /\ cmdBusy = FALSE /\ dataAcc = FALSE /\ abort = FALSE
  /\ error \in IF present THEN BOOLEAN ELSE {FALSE}
  /\ dataLeft = 0 /\ textLeft = 0 /\ dataRest = 0 /\ textRest = 0
  /\ command = NoRequest /\ whole = NoAnswer
  /\ stage = "STOPPED" /\ result = "UCI_IDLE" /\ lastPart = FALSE
  /\ replyLength = 0 /\ statusLength = 0
  /\ pc = "out" /\ budget = 0 /\ expired = FALSE

Next ==
  \/ UciReset \/ (\E req \in Request : UciStart(req))
  \/ Poll \/ Hardware \/ Expire \/ TogglePresence

\* Every wait of the backend's callers polls, and the clock runs.
Spec == Init /\ [][Next]_vars /\ WF_vars(Poll) /\ WF_vars(Expire)

-----------------------------------------------------------------------------
(* Properties.                                                               *)

\* Every variable has its type, and the reply stays in its buffer.
FlagTypeOK ==
  /\ present \in BOOLEAN /\ cmdBusy \in BOOLEAN /\ dataAcc \in BOOLEAN
  /\ abort \in BOOLEAN /\ error \in BOOLEAN
  /\ lastPart \in BOOLEAN /\ expired \in BOOLEAN
StateTypeOK ==
  /\ hwState \in {"IDLE", "BUSY", "LAST", "MORE"}
  /\ stage \in {"STOPPED", "RESETTING", "REPLY", "ACKNOWLEDGE"}
  /\ result \in {"UCI_IDLE", "UCI_PENDING", "UCI_DONE", "UCI_ERROR",
                 "UCI_TIMEOUT"}
  /\ pc \in {"out", "reply", "text"}
  /\ command \in Request \cup {NoRequest} /\ whole \in Amount \cup {NoAnswer}
CountTypeOK ==
  /\ dataLeft \in Nat /\ textLeft \in Nat
  /\ dataRest \in Nat /\ textRest \in Nat
  /\ replyLength \in 0..REPLY_SIZE /\ statusLength \in 0..(STATUS_LIMIT + 1)
  /\ budget \in 0..BUDGET

TypeOK == FlagTypeOK /\ StateTypeOK /\ CountTypeOK

\* A part is acknowledged, which clears the queues, only when every byte of it
\* has been read, over however many polls that took.
AcknowledgesRead ==
  [][~dataAcc /\ dataAcc' => dataLeft = 0 /\ textLeft = 0]_vars

\* UCI_DONE means that the reply and the status are the whole of the answer to
\* this command: nothing of any part is missing, nothing is left from before.
DoneIsWhole ==
  [][result = "UCI_PENDING" /\ result' = "UCI_DONE" /\ stage # "RESETTING" =>
       /\ whole # NoAnswer
       /\ replyLength = whole.data /\ statusLength = whole.text]_vars

\* Every command and every reset ends, whatever the firmware does, unless the
\* caller resets the interface over and over.
CommandsEnd ==
  []<><<UciReset>>_vars \/ (stage # "STOPPED" ~> stage = "STOPPED")

\* What the channel of module UciChannel shows of the interface, of the answer
\* and of the driver.
shownIface ==
  CASE error -> "error"
    [] ~error /\ abort -> "aborting"
    [] ~error /\ ~abort /\ whole # NoAnswer -> "answered"
    [] OTHER -> IF hwState = "IDLE" THEN "idle" ELSE "busy"
shownAnswer == IF whole = NoAnswer \/ Fits(whole) THEN whole ELSE TooLong
shownStage == IF stage \in {"REPLY", "ACKNOWLEDGE"} THEN "BUSY" ELSE stage

Channel == INSTANCE UciChannel WITH
  Answer <- {w \in Amount : Fits(w)}, request <- command,
  iface <- shownIface, answer <- shownAnswer, stage <- shownStage

\* The driver keeps the promises of uci.h.
ImplementsChannel == Channel!ChanSpec
=============================================================================
