------------------------------- MODULE UciProofs -------------------------------
(* Proofs about the register driver of the Ultimate command interface, for    *)
(* every value of the constants that meets their assumptions: answers and     *)
(* buffers of every size, in any number of parts.                             *)
EXTENDS Uci, TLAPS

-----------------------------------------------------------------------------
(* The inductive invariant.                                                  *)

\* Between the passes of a poll's loops the part stays as the poll found it:
\* shown, unaborted, and the last one if lastPart says so.
PartIsShown ==
  /\ pc # "out" =>
       /\ stage = "REPLY" /\ ~abort /\ ~cmdBusy
       /\ hwState \in {"LAST", "MORE"} /\ (lastPart <=> hwState = "LAST")
  /\ pc = "text" => dataLeft = 0

\* While the driver waits for an answer nobody aborts it, a part shown belongs
\* to an answer, and the part acknowledged last leaves nothing behind.
AnswerIsShown ==
  /\ stage \in {"REPLY", "ACKNOWLEDGE"} =>
       /\ ~abort
       /\ hwState \in {"LAST", "MORE"} => whole # NoAnswer
  /\ stage = "ACKNOWLEDGE" =>
       /\ whole # NoAnswer
       /\ lastPart => hwState = "IDLE" /\ dataRest = 0 /\ textRest = 0

\* What has been read, what the queues hold and what is still to come are the
\* whole answer; there is nothing more to come once the last part is shown.
AnswerIsCounted ==
  /\ stage \in {"REPLY", "ACKNOWLEDGE"} =>
       /\ statusLength <= STATUS_LIMIT
       /\ whole = NoAnswer => replyLength = 0 /\ statusLength = 0
       /\ whole # NoAnswer =>
            /\ replyLength + dataLeft + dataRest = whole.data
            /\ statusLength + textLeft + textRest = whole.text
  /\ hwState = "LAST" /\ whole # NoAnswer => dataRest = 0 /\ textRest = 0

\* The queues are empty until a part is shown, and again after it.
QueuesEmpty == hwState \in {"IDLE", "BUSY"} => dataLeft = 0 /\ textLeft = 0

\* A driver that has stopped has aborted the interface or left it free.
StoppedIsFree ==
  stage \in {"STOPPED", "RESETTING"} =>
    abort \/ (whole = NoAnswer /\ command = NoRequest)

\* What the bits of the register say of the firmware.
RegisterAgrees ==
  /\ dataAcc => whole # NoAnswer
  /\ cmdBusy => hwState # "IDLE"
  /\ command # NoRequest => hwState # "IDLE" \/ whole # NoAnswer
  /\ abort /\ error => stage = "STOPPED"
  /\ ~present => /\ hwState = "IDLE" /\ ~cmdBusy /\ ~dataAcc
                 /\ ~abort /\ ~error
                 /\ command = NoRequest /\ whole = NoAnswer

UInv ==
  /\ TypeOK /\ PartIsShown /\ AnswerIsShown /\ AnswerIsCounted
  /\ QueuesEmpty /\ StoppedIsFree /\ RegisterAgrees

-----------------------------------------------------------------------------
(* What the firmware puts into the queues.                                   *)

\* The part put into the queues and what is still to come are what there was.
LEMMA PostSplits ==
  ASSUME NEW data \in Nat, NEW text \in Nat, Post(data, text)
  PROVE  /\ dataLeft' \in Nat /\ textLeft' \in Nat
         /\ dataRest' \in Nat /\ textRest' \in Nat
         /\ dataLeft' + dataRest' = data /\ textLeft' + textRest' = text
  BY DEF Post, Queues

\* The flags keep their type.
LEMMA FlagsStay ==
  ASSUME UInv, [Next]_vars
  PROVE  FlagTypeOK'
<1>1. CASE UciReset
  BY <1>1 DEF UInv, TypeOK, FlagTypeOK, UciReset, Pending
<1>2. ASSUME NEW req \in Request, UciStart(req)
      PROVE  FlagTypeOK'
  BY <1>2 DEF UInv, TypeOK, FlagTypeOK, UciStart, Pending
<1>3. CASE PollTimeout \/ PollError
  BY <1>3 DEF UInv, TypeOK, FlagTypeOK, PollTimeout, Fail, PollError
<1>4. CASE PollReset \/ PollDone
  BY <1>4 DEF UInv, TypeOK, FlagTypeOK, PollReset, Pending, hardware, PollDone
<1>5. CASE PollPart
  BY <1>5 DEF UInv, TypeOK, FlagTypeOK, PollPart, hardware
<1>6. CASE PollNextPart
  BY <1>6 DEF UInv, TypeOK, FlagTypeOK, PollNextPart, hardware
<1>7. CASE ReadReply
  BY <1>7 DEF UInv, TypeOK, FlagTypeOK, ReadReply, Fail, Queues
<1>8. CASE ReplyRead
  BY <1>8 DEF UInv, TypeOK, FlagTypeOK, ReplyRead, hardware
<1>9. CASE ReadText
  BY <1>9 DEF UInv, TypeOK, FlagTypeOK, ReadText, Queues
<1>10. CASE TextRead
  BY <1>10 DEF UInv, TypeOK, FlagTypeOK, TextRead, Queues
<1>11. CASE HwTake \/ HwAccept \/ HwLate \/ HwError
  BY <1>11 DEF UInv, TypeOK, FlagTypeOK, HwTake, driver, HwAccept, HwLate,
    HwError
<1>12. CASE HwNextPart
  BY <1>12 DEF UInv, TypeOK, FlagTypeOK, HwNextPart, Post, Queues, driver
<1>13. CASE HwAborted \/ TogglePresence
  BY <1>13 DEF UInv, TypeOK, FlagTypeOK, HwAborted, Cleared, Queues, driver,
    TogglePresence
<1>14. ASSUME NEW w \in Amount, HwAnswer(w)
      PROVE  FlagTypeOK'
  BY <1>14 DEF UInv, TypeOK, FlagTypeOK, HwAnswer, Post, Queues, Amount, driver
<1>15. CASE Expire \/ UNCHANGED vars
  BY <1>15 DEF UInv, TypeOK, FlagTypeOK, Expire, hardware, vars, driver
<1>16. QED
  BY <1>1, <1>2, <1>3, <1>4, <1>5, <1>6, <1>7, <1>8, <1>9, <1>10, <1>11, <1>12,
    <1>13, <1>14, <1>15
  DEF Next, Poll, Hardware

\* The states keep their type.
LEMMA StatesStay ==
  ASSUME UInv, [Next]_vars
  PROVE  StateTypeOK'
<1>1. CASE UciReset
  BY <1>1 DEF UInv, TypeOK, StateTypeOK, UciReset, Pending
<1>2. ASSUME NEW req \in Request, UciStart(req)
      PROVE  StateTypeOK'
  BY <1>2 DEF UInv, TypeOK, StateTypeOK, UciStart, Pending
<1>3. CASE PollTimeout \/ PollError
  BY <1>3 DEF UInv, TypeOK, StateTypeOK, PollTimeout, Fail, PollError
<1>4. CASE PollReset \/ PollDone
  BY <1>4 DEF UInv, TypeOK, StateTypeOK, PollReset, Pending, hardware, PollDone
<1>5. CASE PollPart
  BY <1>5 DEF UInv, TypeOK, StateTypeOK, PollPart, hardware
<1>6. CASE PollNextPart
  BY <1>6 DEF UInv, TypeOK, StateTypeOK, PollNextPart, hardware
<1>7. CASE ReadReply
  BY <1>7 DEF UInv, TypeOK, StateTypeOK, ReadReply, Fail, Queues
<1>8. CASE ReplyRead
  BY <1>8 DEF UInv, TypeOK, StateTypeOK, ReplyRead, hardware
<1>9. CASE ReadText
  BY <1>9 DEF UInv, TypeOK, StateTypeOK, ReadText, Queues
<1>10. CASE TextRead
  BY <1>10 DEF UInv, TypeOK, StateTypeOK, TextRead, Queues
<1>11. CASE HwTake \/ HwAccept \/ HwLate \/ HwError
  BY <1>11 DEF UInv, TypeOK, StateTypeOK, HwTake, driver, HwAccept, HwLate,
    HwError
<1>12. CASE HwNextPart
  BY <1>12 DEF UInv, TypeOK, StateTypeOK, HwNextPart, Post, Queues, driver
<1>13. CASE HwAborted \/ TogglePresence
  BY <1>13 DEF UInv, TypeOK, StateTypeOK, HwAborted, Cleared, Queues, driver,
    TogglePresence
<1>14. ASSUME NEW w \in Amount, HwAnswer(w)
      PROVE  StateTypeOK'
  BY <1>14 DEF UInv, TypeOK, StateTypeOK, HwAnswer, Post, Queues, Amount,
    driver
<1>15. CASE Expire \/ UNCHANGED vars
  BY <1>15 DEF UInv, TypeOK, StateTypeOK, Expire, hardware, vars, driver
<1>16. QED
  BY <1>1, <1>2, <1>3, <1>4, <1>5, <1>6, <1>7, <1>8, <1>9, <1>10, <1>11, <1>12,
    <1>13, <1>14, <1>15
  DEF Next, Poll, Hardware

\* The counters keep their type: the reply stays in its buffer.
LEMMA CountsStay ==
  ASSUME UInv, [Next]_vars
  PROVE  CountTypeOK'
<1>1. CASE UciReset
  BY <1>1, SizesAssumption DEF UInv, TypeOK, CountTypeOK, UciReset, Pending
<1>2. ASSUME NEW req \in Request, UciStart(req)
      PROVE  CountTypeOK'
  BY <1>2, SizesAssumption DEF UInv, TypeOK, CountTypeOK, UciStart, Pending
<1>3. CASE PollTimeout \/ PollError
  BY <1>3, SizesAssumption DEF UInv, TypeOK, CountTypeOK, PollTimeout, Fail,
    PollError
<1>4. CASE PollReset \/ PollDone
  BY <1>4, SizesAssumption DEF UInv, TypeOK, CountTypeOK, PollReset, Pending,
    hardware, PollDone
<1>5. CASE PollPart
  BY <1>5, SizesAssumption DEF UInv, TypeOK, CountTypeOK, PollPart, hardware
<1>6. CASE PollNextPart
  BY <1>6, SizesAssumption DEF UInv, TypeOK, CountTypeOK, PollNextPart,
    hardware
<1>7. CASE ReadReply
  BY <1>7, SizesAssumption DEF UInv, TypeOK, CountTypeOK, ReadReply, Fail,
    Queues
<1>8. CASE ReplyRead
  BY <1>8, SizesAssumption DEF UInv, TypeOK, CountTypeOK, ReplyRead, hardware
<1>9. CASE ReadText
  <2>1. statusLength <= STATUS_LIMIT
    BY <1>9 DEF UInv, PartIsShown, AnswerIsCounted, ReadText
  <2>2. QED
    BY <1>9, <2>1, SizesAssumption DEF UInv, TypeOK, CountTypeOK, ReadText,
      Queues
<1>10. CASE TextRead
  BY <1>10, SizesAssumption DEF UInv, TypeOK, CountTypeOK, TextRead, Queues
<1>11. CASE HwTake \/ HwAccept \/ HwLate \/ HwError
  BY <1>11, SizesAssumption DEF UInv, TypeOK, CountTypeOK, HwTake, driver,
    HwAccept, HwLate, HwError
<1>12. CASE HwNextPart
  BY <1>12, SizesAssumption DEF UInv, TypeOK, CountTypeOK, HwNextPart, Post,
    Queues, driver
<1>13. CASE HwAborted \/ TogglePresence
  BY <1>13, SizesAssumption DEF UInv, TypeOK, CountTypeOK, HwAborted, Cleared,
    Queues, driver, TogglePresence
<1>14. ASSUME NEW w \in Amount, HwAnswer(w)
      PROVE  CountTypeOK'
  BY <1>14, SizesAssumption DEF UInv, TypeOK, CountTypeOK, HwAnswer, Post,
    Queues, Amount, driver
<1>15. CASE Expire \/ UNCHANGED vars
  BY <1>15, SizesAssumption DEF UInv, TypeOK, CountTypeOK, Expire, hardware,
    vars, driver
<1>16. QED
  BY <1>1, <1>2, <1>3, <1>4, <1>5, <1>6, <1>7, <1>8, <1>9, <1>10, <1>11, <1>12,
    <1>13, <1>14, <1>15
  DEF Next, Poll, Hardware

\* Nobody but the driver changes the part it is reading.
LEMMA PartStays ==
  ASSUME UInv, [Next]_vars
  PROVE  PartIsShown'
<1>1. CASE UciReset
  BY <1>1 DEF UInv, TypeOK, StateTypeOK, FlagTypeOK, PartIsShown, UciReset,
    Pending
<1>2. ASSUME NEW req \in Request, UciStart(req)
      PROVE  PartIsShown'
  BY <1>2 DEF UInv, TypeOK, StateTypeOK, FlagTypeOK, PartIsShown, UciStart,
    Pending
<1>3. CASE PollTimeout \/ PollError
  BY <1>3 DEF UInv, TypeOK, StateTypeOK, FlagTypeOK, PartIsShown, PollTimeout,
    Fail, PollError
<1>4. CASE PollReset \/ PollDone
  BY <1>4 DEF UInv, TypeOK, StateTypeOK, FlagTypeOK, PartIsShown, PollReset,
    Pending, hardware, PollDone
<1>5. CASE PollPart
  <2>1. ~abort
    BY <1>5 DEF UInv, AnswerIsShown, PollPart
  <2>2. QED
    BY <1>5, <2>1 DEF PartIsShown, PollPart, hardware
<1>6. CASE PollNextPart
  BY <1>6 DEF UInv, TypeOK, StateTypeOK, FlagTypeOK, PartIsShown, PollNextPart,
    hardware
<1>7. CASE ReadReply
  BY <1>7 DEF UInv, TypeOK, StateTypeOK, FlagTypeOK, PartIsShown, ReadReply,
    Fail, Queues
<1>8. CASE ReplyRead
  <2>1. pc' = "text" => dataLeft = 0
    BY <1>8 DEF UInv, TypeOK, CountTypeOK, ReplyRead
  <2>2. QED
    BY <1>8, <2>1 DEF UInv, PartIsShown, ReplyRead, hardware
<1>9. CASE ReadText
  BY <1>9 DEF UInv, TypeOK, StateTypeOK, FlagTypeOK, PartIsShown, ReadText,
    Queues
<1>10. CASE TextRead
  BY <1>10 DEF UInv, TypeOK, StateTypeOK, FlagTypeOK, PartIsShown, TextRead,
    Queues
<1>11. CASE HwTake \/ HwAccept \/ HwLate \/ HwError
  BY <1>11 DEF UInv, TypeOK, StateTypeOK, FlagTypeOK, PartIsShown, HwTake,
    driver, HwAccept, HwLate, HwError
<1>12. CASE HwNextPart
  BY <1>12 DEF UInv, TypeOK, StateTypeOK, FlagTypeOK, PartIsShown, HwNextPart,
    Post, Queues, driver
<1>13. CASE HwAborted \/ TogglePresence
  BY <1>13 DEF UInv, TypeOK, StateTypeOK, FlagTypeOK, PartIsShown, HwAborted,
    Cleared, Queues, driver, TogglePresence
<1>14. ASSUME NEW w \in Amount, HwAnswer(w)
      PROVE  PartIsShown'
  BY <1>14 DEF UInv, TypeOK, StateTypeOK, FlagTypeOK, PartIsShown, HwAnswer,
    Post, Queues, Amount, driver
<1>15. CASE Expire \/ UNCHANGED vars
  BY <1>15 DEF UInv, TypeOK, StateTypeOK, FlagTypeOK, PartIsShown, Expire,
    hardware, vars, driver
<1>16. QED
  BY <1>1, <1>2, <1>3, <1>4, <1>5, <1>6, <1>7, <1>8, <1>9, <1>10, <1>11, <1>12,
    <1>13, <1>14, <1>15
  DEF Next, Poll, Hardware

\* The driver gives up an answer or acknowledges all of it.
LEMMA AnswerStays ==
  ASSUME UInv, [Next]_vars
  PROVE  AnswerIsShown'
<1>1. CASE UciReset
  BY <1>1, DistinctAssumption DEF UInv, TypeOK, FlagTypeOK, StateTypeOK,
    PartIsShown, AnswerIsShown, AnswerIsCounted, StoppedIsFree, RegisterAgrees,
    UciReset, Pending
<1>2. ASSUME NEW req \in Request, UciStart(req)
      PROVE  AnswerIsShown'
  BY <1>2, DistinctAssumption DEF UInv, TypeOK, FlagTypeOK, StateTypeOK,
    PartIsShown, AnswerIsShown, AnswerIsCounted, StoppedIsFree, RegisterAgrees,
    UciStart, Pending
<1>3. CASE PollTimeout \/ PollError
  BY <1>3, DistinctAssumption DEF UInv, TypeOK, FlagTypeOK, StateTypeOK,
    PartIsShown, AnswerIsShown, AnswerIsCounted, StoppedIsFree, RegisterAgrees,
    PollTimeout, Fail, PollError
<1>4. CASE PollReset \/ PollDone
  BY <1>4, DistinctAssumption DEF UInv, TypeOK, FlagTypeOK, StateTypeOK,
    PartIsShown, AnswerIsShown, AnswerIsCounted, StoppedIsFree, RegisterAgrees,
    PollReset, Pending, hardware, PollDone
<1>5. CASE PollPart
  BY <1>5, DistinctAssumption DEF UInv, TypeOK, FlagTypeOK, StateTypeOK,
    PartIsShown, AnswerIsShown, AnswerIsCounted, StoppedIsFree, RegisterAgrees,
    PollPart, hardware
<1>6. CASE PollNextPart
  BY <1>6, DistinctAssumption DEF UInv, TypeOK, FlagTypeOK, StateTypeOK,
    PartIsShown, AnswerIsShown, AnswerIsCounted, StoppedIsFree, RegisterAgrees,
    PollNextPart, hardware
<1>7. CASE ReadReply
  BY <1>7, DistinctAssumption DEF UInv, TypeOK, FlagTypeOK, StateTypeOK,
    PartIsShown, AnswerIsShown, AnswerIsCounted, StoppedIsFree, RegisterAgrees,
    ReadReply, Fail, Queues
<1>8. CASE ReplyRead
  BY <1>8, DistinctAssumption DEF UInv, TypeOK, FlagTypeOK, StateTypeOK,
    PartIsShown, AnswerIsShown, AnswerIsCounted, StoppedIsFree, RegisterAgrees,
    ReplyRead, hardware
<1>9. CASE ReadText
  BY <1>9, DistinctAssumption DEF UInv, TypeOK, FlagTypeOK, StateTypeOK,
    PartIsShown, AnswerIsShown, AnswerIsCounted, StoppedIsFree, RegisterAgrees,
    ReadText, Queues
<1>10. CASE TextRead
  BY <1>10, DistinctAssumption DEF UInv, TypeOK, FlagTypeOK, StateTypeOK,
    PartIsShown, AnswerIsShown, AnswerIsCounted, StoppedIsFree, RegisterAgrees,
    TextRead, Queues
<1>11. CASE HwTake \/ HwAccept \/ HwLate \/ HwError
  BY <1>11, DistinctAssumption DEF UInv, TypeOK, FlagTypeOK, StateTypeOK,
    PartIsShown, AnswerIsShown, AnswerIsCounted, StoppedIsFree, RegisterAgrees,
    HwTake, driver, HwAccept, HwLate, HwError
<1>12. CASE HwNextPart
  BY <1>12, DistinctAssumption DEF UInv, TypeOK, FlagTypeOK, StateTypeOK,
    PartIsShown, AnswerIsShown, AnswerIsCounted, StoppedIsFree, RegisterAgrees,
    HwNextPart, Post, Queues, driver
<1>13. CASE HwAborted \/ TogglePresence
  BY <1>13, DistinctAssumption DEF UInv, TypeOK, FlagTypeOK, StateTypeOK,
    PartIsShown, AnswerIsShown, AnswerIsCounted, StoppedIsFree, RegisterAgrees,
    HwAborted, Cleared, Queues, driver, TogglePresence
<1>14. ASSUME NEW w \in Amount, HwAnswer(w)
      PROVE  AnswerIsShown'
  BY <1>14, DistinctAssumption DEF UInv, TypeOK, FlagTypeOK, StateTypeOK,
    PartIsShown, AnswerIsShown, AnswerIsCounted, StoppedIsFree, RegisterAgrees,
    HwAnswer, Post, Queues, Amount, driver
<1>15. CASE Expire \/ UNCHANGED vars
  BY <1>15, DistinctAssumption DEF UInv, TypeOK, FlagTypeOK, StateTypeOK,
    PartIsShown, AnswerIsShown, AnswerIsCounted, StoppedIsFree, RegisterAgrees,
    Expire, hardware, vars, driver
<1>16. QED
  BY <1>1, <1>2, <1>3, <1>4, <1>5, <1>6, <1>7, <1>8, <1>9, <1>10, <1>11, <1>12,
    <1>13, <1>14, <1>15
  DEF Next, Poll, Hardware

\* Every byte of an answer is counted once.
LEMMA CountingStays ==
  ASSUME UInv, [Next]_vars
  PROVE  AnswerIsCounted'
<1>1. CASE UciReset
  BY <1>1, DistinctAssumption, SizesAssumption DEF UInv, TypeOK, CountTypeOK,
    PartIsShown, AnswerIsShown, AnswerIsCounted, StoppedIsFree, UciReset,
    Pending
<1>2. ASSUME NEW req \in Request, UciStart(req)
      PROVE  AnswerIsCounted'
  BY <1>2, DistinctAssumption, SizesAssumption DEF UInv, TypeOK, CountTypeOK,
    PartIsShown, AnswerIsShown, AnswerIsCounted, StoppedIsFree, UciStart,
    Pending
<1>3. CASE PollTimeout \/ PollError
  BY <1>3, DistinctAssumption, SizesAssumption DEF UInv, TypeOK, CountTypeOK,
    PartIsShown, AnswerIsShown, AnswerIsCounted, StoppedIsFree, PollTimeout,
    Fail, PollError
<1>4. CASE PollReset \/ PollDone
  BY <1>4, DistinctAssumption, SizesAssumption DEF UInv, TypeOK, CountTypeOK,
    PartIsShown, AnswerIsShown, AnswerIsCounted, StoppedIsFree, PollReset,
    Pending, hardware, PollDone
<1>5. CASE PollPart
  BY <1>5, DistinctAssumption, SizesAssumption DEF UInv, TypeOK, CountTypeOK,
    PartIsShown, AnswerIsShown, AnswerIsCounted, StoppedIsFree, PollPart,
    hardware
<1>6. CASE PollNextPart
  BY <1>6, DistinctAssumption, SizesAssumption DEF UInv, TypeOK, CountTypeOK,
    PartIsShown, AnswerIsShown, AnswerIsCounted, StoppedIsFree, PollNextPart,
    hardware
<1>7. CASE ReadReply
  BY <1>7, DistinctAssumption, SizesAssumption DEF UInv, TypeOK, CountTypeOK,
    PartIsShown, AnswerIsShown, AnswerIsCounted, StoppedIsFree, ReadReply,
    Fail, Queues
<1>8. CASE ReplyRead
  BY <1>8, DistinctAssumption, SizesAssumption DEF UInv, TypeOK, CountTypeOK,
    PartIsShown, AnswerIsShown, AnswerIsCounted, StoppedIsFree, ReplyRead,
    hardware
<1>9. CASE ReadText
  BY <1>9, DistinctAssumption, SizesAssumption DEF UInv, TypeOK, CountTypeOK,
    PartIsShown, AnswerIsShown, AnswerIsCounted, StoppedIsFree, ReadText,
    Queues
<1>10. CASE TextRead
  BY <1>10, DistinctAssumption, SizesAssumption DEF UInv, TypeOK, CountTypeOK,
    PartIsShown, AnswerIsShown, AnswerIsCounted, StoppedIsFree, TextRead,
    Queues
<1>11. CASE HwTake \/ HwAccept \/ HwLate \/ HwError
  BY <1>11, DistinctAssumption, SizesAssumption DEF UInv, TypeOK, CountTypeOK,
    PartIsShown, AnswerIsShown, AnswerIsCounted, StoppedIsFree, HwTake, driver,
    HwAccept, HwLate, HwError
<1>12. CASE HwNextPart
  <2>1. /\ dataLeft' \in Nat /\ textLeft' \in Nat
        /\ dataRest' \in Nat /\ textRest' \in Nat
        /\ dataLeft' + dataRest' = dataRest /\ textLeft' + textRest' = textRest
    BY <1>12, PostSplits DEF UInv, TypeOK, CountTypeOK, HwNextPart
  <2>2. stage' = stage /\ whole' = whole
        /\ replyLength' = replyLength /\ statusLength' = statusLength
    BY <1>12 DEF HwNextPart, Post, driver
  <2>3. hwState' = "LAST" => dataRest' = 0 /\ textRest' = 0
    BY <1>12 DEF HwNextPart, Post
  <2>4. stage \in {"REPLY", "ACKNOWLEDGE"} => dataLeft = 0 /\ textLeft = 0
    BY <1>12 DEF UInv, QueuesEmpty, HwNextPart
  <2>5. ASSUME stage \in {"REPLY", "ACKNOWLEDGE"}
        PROVE  /\ replyLength + dataLeft' + dataRest' = whole.data
               /\ statusLength + textLeft' + textRest' = whole.text
    <3>1. /\ replyLength + dataRest = whole.data
          /\ statusLength + textRest = whole.text
      BY <1>12, <2>4, <2>5
         DEF UInv, TypeOK, CountTypeOK, AnswerIsCounted, HwNextPart
    <3>2. replyLength \in Nat /\ statusLength \in Nat
      BY SizesAssumption DEF UInv, TypeOK, CountTypeOK
    <3>3. /\ replyLength + dataLeft' + dataRest' = replyLength + dataRest
          /\ statusLength + textLeft' + textRest' = statusLength + textRest
      BY <2>1, <3>2
    <3>4. QED
      BY <3>1, <3>3
  <2>6. QED
    BY <1>12, <2>2, <2>3, <2>5 DEF UInv, AnswerIsCounted, HwNextPart
<1>13. CASE HwAborted \/ TogglePresence
  BY <1>13, DistinctAssumption, SizesAssumption DEF UInv, TypeOK, CountTypeOK,
    PartIsShown, AnswerIsShown, AnswerIsCounted, StoppedIsFree, HwAborted,
    Cleared, Queues, driver, TogglePresence
<1>14. ASSUME NEW w \in Amount, HwAnswer(w)
      PROVE  AnswerIsCounted'
  BY <1>14, DistinctAssumption, SizesAssumption DEF UInv, TypeOK, CountTypeOK,
    PartIsShown, AnswerIsShown, AnswerIsCounted, StoppedIsFree, HwAnswer, Post,
    Queues, Amount, driver
<1>15. CASE Expire \/ UNCHANGED vars
  BY <1>15, DistinctAssumption, SizesAssumption DEF UInv, TypeOK, CountTypeOK,
    PartIsShown, AnswerIsShown, AnswerIsCounted, StoppedIsFree, Expire,
    hardware, vars, driver
<1>16. QED
  BY <1>1, <1>2, <1>3, <1>4, <1>5, <1>6, <1>7, <1>8, <1>9, <1>10, <1>11, <1>12,
    <1>13, <1>14, <1>15
  DEF Next, Poll, Hardware

\* The queues are emptied with the part that was in them.
LEMMA QueuesStay ==
  ASSUME UInv, [Next]_vars
  PROVE  QueuesEmpty'
<1>1. CASE UciReset
  BY <1>1 DEF UInv, TypeOK, StateTypeOK, PartIsShown, AnswerIsShown,
    QueuesEmpty, UciReset, Pending
<1>2. ASSUME NEW req \in Request, UciStart(req)
      PROVE  QueuesEmpty'
  BY <1>2 DEF UInv, TypeOK, StateTypeOK, PartIsShown, AnswerIsShown,
    QueuesEmpty, UciStart, Pending
<1>3. CASE PollTimeout \/ PollError
  BY <1>3 DEF UInv, TypeOK, StateTypeOK, PartIsShown, AnswerIsShown,
    QueuesEmpty, PollTimeout, Fail, PollError
<1>4. CASE PollReset \/ PollDone
  BY <1>4 DEF UInv, TypeOK, StateTypeOK, PartIsShown, AnswerIsShown,
    QueuesEmpty, PollReset, Pending, hardware, PollDone
<1>5. CASE PollPart
  BY <1>5 DEF UInv, TypeOK, StateTypeOK, PartIsShown, AnswerIsShown,
    QueuesEmpty, PollPart, hardware
<1>6. CASE PollNextPart
  BY <1>6 DEF UInv, TypeOK, StateTypeOK, PartIsShown, AnswerIsShown,
    QueuesEmpty, PollNextPart, hardware
<1>7. CASE ReadReply
  BY <1>7 DEF UInv, TypeOK, StateTypeOK, PartIsShown, AnswerIsShown,
    QueuesEmpty, ReadReply, Fail, Queues
<1>8. CASE ReplyRead
  BY <1>8 DEF UInv, TypeOK, StateTypeOK, PartIsShown, AnswerIsShown,
    QueuesEmpty, ReplyRead, hardware
<1>9. CASE ReadText
  BY <1>9 DEF UInv, TypeOK, StateTypeOK, PartIsShown, AnswerIsShown,
    QueuesEmpty, ReadText, Queues
<1>10. CASE TextRead
  BY <1>10 DEF UInv, TypeOK, StateTypeOK, PartIsShown, AnswerIsShown,
    QueuesEmpty, TextRead, Queues
<1>11. CASE HwTake \/ HwAccept \/ HwLate \/ HwError
  BY <1>11 DEF UInv, TypeOK, StateTypeOK, PartIsShown, AnswerIsShown,
    QueuesEmpty, HwTake, driver, HwAccept, HwLate, HwError
<1>12. CASE HwNextPart
  BY <1>12 DEF UInv, TypeOK, StateTypeOK, PartIsShown, AnswerIsShown,
    QueuesEmpty, HwNextPart, Post, Queues, driver
<1>13. CASE HwAborted \/ TogglePresence
  BY <1>13 DEF UInv, TypeOK, StateTypeOK, PartIsShown, AnswerIsShown,
    QueuesEmpty, HwAborted, Cleared, Queues, driver, TogglePresence
<1>14. ASSUME NEW w \in Amount, HwAnswer(w)
      PROVE  QueuesEmpty'
  BY <1>14 DEF UInv, TypeOK, StateTypeOK, PartIsShown, AnswerIsShown,
    QueuesEmpty, HwAnswer, Post, Queues, Amount, driver
<1>15. CASE Expire \/ UNCHANGED vars
  BY <1>15 DEF UInv, TypeOK, StateTypeOK, PartIsShown, AnswerIsShown,
    QueuesEmpty, Expire, hardware, vars, driver
<1>16. QED
  BY <1>1, <1>2, <1>3, <1>4, <1>5, <1>6, <1>7, <1>8, <1>9, <1>10, <1>11, <1>12,
    <1>13, <1>14, <1>15
  DEF Next, Poll, Hardware

\* The driver stops by aborting or when the interface is free.
LEMMA FreeStays ==
  ASSUME UInv, [Next]_vars
  PROVE  StoppedIsFree'
<1>1. CASE UciReset
  BY <1>1 DEF UInv, TypeOK, FlagTypeOK, StateTypeOK, PartIsShown,
    AnswerIsShown, StoppedIsFree, RegisterAgrees, UciReset, Pending
<1>2. ASSUME NEW req \in Request, UciStart(req)
      PROVE  StoppedIsFree'
  BY <1>2 DEF UInv, TypeOK, FlagTypeOK, StateTypeOK, PartIsShown,
    AnswerIsShown, StoppedIsFree, RegisterAgrees, UciStart, Pending
<1>3. CASE PollTimeout \/ PollError
  BY <1>3 DEF UInv, TypeOK, FlagTypeOK, StateTypeOK, PartIsShown,
    AnswerIsShown, StoppedIsFree, RegisterAgrees, PollTimeout, Fail, PollError
<1>4. CASE PollReset \/ PollDone
  BY <1>4 DEF UInv, TypeOK, FlagTypeOK, StateTypeOK, PartIsShown,
    AnswerIsShown, StoppedIsFree, RegisterAgrees, PollReset, Pending, hardware,
    PollDone
<1>5. CASE PollPart
  BY <1>5 DEF UInv, TypeOK, FlagTypeOK, StateTypeOK, PartIsShown,
    AnswerIsShown, StoppedIsFree, RegisterAgrees, PollPart, hardware
<1>6. CASE PollNextPart
  BY <1>6 DEF UInv, TypeOK, FlagTypeOK, StateTypeOK, PartIsShown,
    AnswerIsShown, StoppedIsFree, RegisterAgrees, PollNextPart, hardware
<1>7. CASE ReadReply
  BY <1>7 DEF UInv, TypeOK, FlagTypeOK, StateTypeOK, PartIsShown,
    AnswerIsShown, StoppedIsFree, RegisterAgrees, ReadReply, Fail, Queues
<1>8. CASE ReplyRead
  BY <1>8 DEF UInv, TypeOK, FlagTypeOK, StateTypeOK, PartIsShown,
    AnswerIsShown, StoppedIsFree, RegisterAgrees, ReplyRead, hardware
<1>9. CASE ReadText
  BY <1>9 DEF UInv, TypeOK, FlagTypeOK, StateTypeOK, PartIsShown,
    AnswerIsShown, StoppedIsFree, RegisterAgrees, ReadText, Queues
<1>10. CASE TextRead
  BY <1>10 DEF UInv, TypeOK, FlagTypeOK, StateTypeOK, PartIsShown,
    AnswerIsShown, StoppedIsFree, RegisterAgrees, TextRead, Queues
<1>11. CASE HwTake \/ HwAccept \/ HwLate \/ HwError
  BY <1>11 DEF UInv, TypeOK, FlagTypeOK, StateTypeOK, PartIsShown,
    AnswerIsShown, StoppedIsFree, RegisterAgrees, HwTake, driver, HwAccept,
    HwLate, HwError
<1>12. CASE HwNextPart
  BY <1>12 DEF UInv, TypeOK, FlagTypeOK, StateTypeOK, PartIsShown,
    AnswerIsShown, StoppedIsFree, RegisterAgrees, HwNextPart, Post, Queues,
    driver
<1>13. CASE HwAborted \/ TogglePresence
  BY <1>13 DEF UInv, TypeOK, FlagTypeOK, StateTypeOK, PartIsShown,
    AnswerIsShown, StoppedIsFree, RegisterAgrees, HwAborted, Cleared, Queues,
    driver, TogglePresence
<1>14. ASSUME NEW w \in Amount, HwAnswer(w)
      PROVE  StoppedIsFree'
  BY <1>14 DEF UInv, TypeOK, FlagTypeOK, StateTypeOK, PartIsShown,
    AnswerIsShown, StoppedIsFree, RegisterAgrees, HwAnswer, Post, Queues,
    Amount, driver
<1>15. CASE Expire \/ UNCHANGED vars
  BY <1>15 DEF UInv, TypeOK, FlagTypeOK, StateTypeOK, PartIsShown,
    AnswerIsShown, StoppedIsFree, RegisterAgrees, Expire, hardware, vars,
    driver
<1>16. QED
  BY <1>1, <1>2, <1>3, <1>4, <1>5, <1>6, <1>7, <1>8, <1>9, <1>10, <1>11, <1>12,
    <1>13, <1>14, <1>15
  DEF Next, Poll, Hardware

\* The register goes on to agree with the firmware.
LEMMA RegisterStays ==
  ASSUME UInv, [Next]_vars
  PROVE  RegisterAgrees'
<1>1. CASE UciReset
  BY <1>1, DistinctAssumption DEF UInv, TypeOK, FlagTypeOK, StateTypeOK,
    PartIsShown, AnswerIsShown, StoppedIsFree, RegisterAgrees, UciReset,
    Pending
<1>2. ASSUME NEW req \in Request, UciStart(req)
      PROVE  RegisterAgrees'
  BY <1>2, DistinctAssumption DEF UInv, TypeOK, FlagTypeOK, StateTypeOK,
    PartIsShown, AnswerIsShown, StoppedIsFree, RegisterAgrees, UciStart,
    Pending
<1>3. CASE PollTimeout \/ PollError
  BY <1>3, DistinctAssumption DEF UInv, TypeOK, FlagTypeOK, StateTypeOK,
    PartIsShown, AnswerIsShown, StoppedIsFree, RegisterAgrees, PollTimeout,
    Fail, PollError
<1>4. CASE PollReset \/ PollDone
  BY <1>4, DistinctAssumption DEF UInv, TypeOK, FlagTypeOK, StateTypeOK,
    PartIsShown, AnswerIsShown, StoppedIsFree, RegisterAgrees, PollReset,
    Pending, hardware, PollDone
<1>5. CASE PollPart
  BY <1>5, DistinctAssumption DEF UInv, TypeOK, FlagTypeOK, StateTypeOK,
    PartIsShown, AnswerIsShown, StoppedIsFree, RegisterAgrees, PollPart,
    hardware
<1>6. CASE PollNextPart
  BY <1>6, DistinctAssumption DEF UInv, TypeOK, FlagTypeOK, StateTypeOK,
    PartIsShown, AnswerIsShown, StoppedIsFree, RegisterAgrees, PollNextPart,
    hardware
<1>7. CASE ReadReply
  BY <1>7, DistinctAssumption DEF UInv, TypeOK, FlagTypeOK, StateTypeOK,
    PartIsShown, AnswerIsShown, StoppedIsFree, RegisterAgrees, ReadReply, Fail,
    Queues
<1>8. CASE ReplyRead
  BY <1>8, DistinctAssumption DEF UInv, TypeOK, FlagTypeOK, StateTypeOK,
    PartIsShown, AnswerIsShown, StoppedIsFree, RegisterAgrees, ReplyRead,
    hardware
<1>9. CASE ReadText
  BY <1>9, DistinctAssumption DEF UInv, TypeOK, FlagTypeOK, StateTypeOK,
    PartIsShown, AnswerIsShown, StoppedIsFree, RegisterAgrees, ReadText, Queues
<1>10. CASE TextRead
  BY <1>10, DistinctAssumption DEF UInv, TypeOK, FlagTypeOK, StateTypeOK,
    PartIsShown, AnswerIsShown, StoppedIsFree, RegisterAgrees, TextRead, Queues
<1>11. CASE HwTake \/ HwAccept \/ HwLate \/ HwError
  BY <1>11, DistinctAssumption DEF UInv, TypeOK, FlagTypeOK, StateTypeOK,
    PartIsShown, AnswerIsShown, StoppedIsFree, RegisterAgrees, HwTake, driver,
    HwAccept, HwLate, HwError
<1>12. CASE HwNextPart
  BY <1>12, DistinctAssumption DEF UInv, TypeOK, FlagTypeOK, StateTypeOK,
    PartIsShown, AnswerIsShown, StoppedIsFree, RegisterAgrees, HwNextPart,
    Post, Queues, driver
<1>13. CASE HwAborted \/ TogglePresence
  BY <1>13, DistinctAssumption DEF UInv, TypeOK, FlagTypeOK, StateTypeOK,
    PartIsShown, AnswerIsShown, StoppedIsFree, RegisterAgrees, HwAborted,
    Cleared, Queues, driver, TogglePresence
<1>14. ASSUME NEW w \in Amount, HwAnswer(w)
      PROVE  RegisterAgrees'
  BY <1>14, DistinctAssumption DEF UInv, TypeOK, FlagTypeOK, StateTypeOK,
    PartIsShown, AnswerIsShown, StoppedIsFree, RegisterAgrees, HwAnswer, Post,
    Queues, Amount, driver
<1>15. CASE Expire \/ UNCHANGED vars
  BY <1>15, DistinctAssumption DEF UInv, TypeOK, FlagTypeOK, StateTypeOK,
    PartIsShown, AnswerIsShown, StoppedIsFree, RegisterAgrees, Expire,
    hardware, vars, driver
<1>16. QED
  BY <1>1, <1>2, <1>3, <1>4, <1>5, <1>6, <1>7, <1>8, <1>9, <1>10, <1>11, <1>12,
    <1>13, <1>14, <1>15
  DEF Next, Poll, Hardware

LEMMA InitInv ==
  ASSUME Init
  PROVE  UInv
<1>1. FlagTypeOK
  BY DEF Init, FlagTypeOK
<1>2. StateTypeOK
  BY DEF Init, StateTypeOK
<1>3. CountTypeOK
  BY SizesAssumption DEF Init, CountTypeOK
<1>4. PartIsShown /\ AnswerIsShown /\ StoppedIsFree /\ RegisterAgrees
  BY DEF Init, PartIsShown, AnswerIsShown, StoppedIsFree, RegisterAgrees
<1>5. AnswerIsCounted /\ QueuesEmpty
  BY DEF Init, AnswerIsCounted, QueuesEmpty
<1>6. QED
  BY <1>1, <1>2, <1>3, <1>4, <1>5 DEF UInv, TypeOK

\* The invariant holds of every behaviour of the driver, the firmware, the
\* user's menu and the clock.
THEOREM Invariance == Spec => []UInv
<1>1. ASSUME UInv, [Next]_vars
      PROVE  UInv'
  BY <1>1, FlagsStay, StatesStay, CountsStay, PartStays, AnswerStays,
    CountingStays, QueuesStay, FreeStays, RegisterStays DEF UInv, TypeOK
<1>2. QED
  BY <1>1, InitInv, PTL DEF Spec

\* Every variable has its type: replyLength never leaves uci_reply, and
\* statusLength is at most one more than the text that is accepted (uci.c: fail
\* in the first loop, the check in the second).
THEOREM TypesHold == Spec => []TypeOK
<1>1. UInv => TypeOK
  BY DEF UInv
<1>2. QED
  BY <1>1, Invariance, PTL

-----------------------------------------------------------------------------
(* What the driver does with an answer.                                      *)

\* The driver acknowledges a part, which throws away what its queues hold, only
\* when it has read them to the end (uci.c: the end of the second loop).
LEMMA AcknowledgeStep ==
  ASSUME UInv, [Next]_vars, ~dataAcc, dataAcc'
  PROVE  dataLeft = 0 /\ textLeft = 0
<1>1. CASE TextRead
  <2>1. ~(textLeft > 0)
    BY <1>1 DEF TextRead
  <2>2. QED
    BY <1>1, <2>1 DEF UInv, TypeOK, CountTypeOK, PartIsShown, TextRead
<1>2. CASE Poll /\ ~TextRead
  BY <1>2 DEF Poll, PollTimeout, PollReset, PollError, PollDone, PollPart,
    PollNextPart, ReadReply, ReplyRead, ReadText, Fail, hardware
<1>3. CASE Hardware
  BY <1>3 DEF Hardware, HwTake, HwAccept, HwNextPart, HwLate, HwAborted,
    HwError, HwAnswer, Post, Cleared
<1>4. CASE Expire \/ TogglePresence \/ UNCHANGED vars
  BY <1>4 DEF Expire, TogglePresence, Cleared, vars, hardware
<1>5. CASE UciReset \/ \E req \in Request : UciStart(req)
  BY <1>5 DEF UciReset, UciStart
<1>6. QED
  BY <1>1, <1>2, <1>3, <1>4, <1>5 DEF Next

\* Over however many polls the driver reads a part, it acknowledges it whole.
THEOREM AcknowledgesReadHolds == Spec => AcknowledgesRead
<1>1. ASSUME UInv, [Next]_vars
      PROVE  [~dataAcc /\ dataAcc' => dataLeft = 0 /\ textLeft = 0]_vars
  BY <1>1, AcknowledgeStep
<1>2. QED
  BY <1>1, Invariance, PTL DEF Spec, AcknowledgesRead

\* Only the acknowledgement of the last part ends a command with UCI_DONE
\* (uci.c: stage ACKNOWLEDGE of uci_poll).
LEMMA OnlyPollDone ==
  ASSUME UInv, [Next]_vars, result = "UCI_PENDING", result' = "UCI_DONE",
         stage # "RESETTING"
  PROVE  PollDone
<1>1. CASE Poll /\ ~PollDone
  BY <1>1 DEF Poll, PollTimeout, PollReset, PollError, PollPart, PollNextPart,
    ReadReply, ReplyRead, ReadText, TextRead, Fail
<1>2. CASE Hardware
  BY <1>2 DEF Hardware, HwTake, HwAccept, HwNextPart, HwLate, HwAborted,
    HwError, HwAnswer, Post, driver
<1>3. CASE Expire \/ TogglePresence \/ UNCHANGED vars
  BY <1>3 DEF Expire, TogglePresence, vars, driver
<1>4. CASE UciReset \/ \E req \in Request : UciStart(req)
  BY <1>4 DEF UciReset, UciStart
<1>5. QED
  BY <1>1, <1>2, <1>3, <1>4 DEF Next

\* When the last part is acknowledged nothing of the answer is left anywhere
\* but in the driver's buffers.
LEMMA AllIsRead ==
  ASSUME UInv, PollDone
  PROVE  /\ whole # NoAnswer
         /\ replyLength = whole.data /\ statusLength = whole.text
<1>1. /\ stage = "ACKNOWLEDGE" /\ lastPart
      /\ hwState = "IDLE"
  BY DEF PollDone
<1>2. whole # NoAnswer /\ dataRest = 0 /\ textRest = 0
  BY <1>1 DEF UInv, AnswerIsShown
<1>3. dataLeft = 0 /\ textLeft = 0
  BY <1>1 DEF UInv, QueuesEmpty
<1>4. /\ replyLength + dataLeft + dataRest = whole.data
      /\ statusLength + textLeft + textRest = whole.text
  BY <1>1, <1>2 DEF UInv, AnswerIsCounted
<1>5. replyLength \in Nat /\ statusLength \in Nat
  BY SizesAssumption DEF UInv, TypeOK, CountTypeOK
<1>6. QED
  BY <1>2, <1>3, <1>4, <1>5

\* UCI_DONE means that the whole answer to this command has been received,
\* whatever its parts.
THEOREM DoneIsWholeHolds == Spec => DoneIsWhole
<1>1. ASSUME UInv, [Next]_vars
      PROVE  [result = "UCI_PENDING" /\ result' = "UCI_DONE" /\
              stage # "RESETTING" =>
                /\ whole # NoAnswer
                /\ replyLength = whole.data /\ statusLength = whole.text]_vars
  BY <1>1, OnlyPollDone, AllIsRead
<1>2. QED
  BY <1>1, Invariance, PTL DEF Spec, DoneIsWhole

-----------------------------------------------------------------------------
(* The driver implements the command channel.                                *)

ChannelStep == [Channel!ChanNext]_(Channel!chanVars)

\* What the caller does.
LEMMA CallsImplement ==
  ASSUME UInv, UInv', UciReset \/ \E req \in Request : UciStart(req)
  PROVE  ChannelStep
<1>1. CASE UciReset
  <2>1. Channel!UciReset
    BY <1>1, DistinctAssumption
       DEF UciReset, Channel!UciReset, Pending, shownIface, shownAnswer,
           shownStage, UInv, TypeOK, FlagTypeOK, StateTypeOK, RegisterAgrees
  <2>2. QED
    BY <2>1 DEF ChannelStep, Channel!ChanNext
<1>2. ASSUME NEW req \in Request, UciStart(req)
      PROVE  ChannelStep
  <2>1. Channel!UciStart(req)
    BY <1>2, DistinctAssumption
       DEF UciStart, Channel!UciStart, Channel!UciCanStart, Channel!Push,
           Pending, shownIface, shownAnswer, shownStage, UInv, TypeOK,
           FlagTypeOK, StateTypeOK, RegisterAgrees, StoppedIsFree
  <2>2. QED
    BY <1>2, <2>1 DEF ChannelStep, Channel!ChanNext
<1>3. QED
  BY <1>1, <1>2

\* What fail() does to the channel.
LEMMA FailImplements ==
  ASSUME UInv, UInv', NEW why \in {"UCI_ERROR", "UCI_TIMEOUT"}, Fail(why),
         stage # "STOPPED"
  PROVE  Channel!Abandon
  BY DEF Fail, Channel!Abandon, shownIface, shownAnswer, shownStage, UInv,
    TypeOK, FlagTypeOK, RegisterAgrees

\* The ends of a poll.
LEMMA EndsImplement ==
  ASSUME UInv, UInv', PollTimeout \/ PollReset \/ PollError \/ PollDone
  PROVE  ChannelStep
<1>1. CASE PollTimeout
  <2>1. Channel!UciTimeout
    BY <1>1, FailImplements DEF PollTimeout, Channel!UciTimeout, shownStage
  <2>2. QED
    BY <2>1 DEF ChannelStep, Channel!ChanNext, Channel!ChanPoll
<1>2. CASE PollError
  <2>1. Channel!UciError
    BY <1>2, FailImplements DEF PollError, Channel!UciError, shownStage,
      shownIface
  <2>2. QED
    BY <2>1 DEF ChannelStep, Channel!ChanNext, Channel!ChanPoll
<1>3. CASE PollReset
  <2>1. Channel!UciDone(NoRequest)
    BY <1>3
       DEF PollReset, Channel!UciDone, Channel!UciFinished, Pending, hardware,
           shownIface, shownAnswer, shownStage, UInv, TypeOK, FlagTypeOK,
           StoppedIsFree, RegisterAgrees
  <2>2. QED
    BY <2>1 DEF ChannelStep, Channel!ChanNext, Channel!ChanPoll
<1>4. CASE PollDone
  <2>1. Fits(whole)
    <3>1. stage = "ACKNOWLEDGE"
      BY <1>4 DEF PollDone
    <3>2. statusLength <= STATUS_LIMIT
      BY <3>1 DEF UInv, AnswerIsCounted
    <3>3. replyLength <= REPLY_SIZE
      BY SizesAssumption DEF UInv, TypeOK, CountTypeOK
    <3>4. QED
      BY <1>4, <3>2, <3>3, AllIsRead DEF Fits
  <2>2. Channel!UciFinished
    BY <1>4, <2>1, AllIsRead, DistinctAssumption
       DEF PollDone, Channel!UciFinished, shownIface, shownAnswer, shownStage,
           UInv, TypeOK, FlagTypeOK, StateTypeOK, AnswerIsShown
  <2>3. Channel!UciDone(NoRequest)
    BY <1>4, <2>2
       DEF PollDone, Channel!UciDone, shownIface, shownAnswer, shownStage,
           UInv, TypeOK, FlagTypeOK, AnswerIsShown
  <2>4. QED
    BY <2>3 DEF ChannelStep, Channel!ChanNext, Channel!ChanPoll
<1>5. QED
  BY <1>1, <1>2, <1>3, <1>4

\* A byte too many makes the answer one that the driver cannot hold.
LEMMA ReadsImplement ==
  ASSUME UInv, UInv', ReadReply \/ ReadText
  PROVE  ChannelStep
<1>1. stage = "REPLY" /\ whole # NoAnswer /\ ~abort
  BY DEF UInv, PartIsShown, AnswerIsShown, ReadReply, ReadText
<1>2. /\ replyLength + dataLeft + dataRest = whole.data
      /\ statusLength + textLeft + textRest = whole.text
  BY <1>1 DEF UInv, AnswerIsCounted
<1>3. /\ replyLength \in Nat /\ statusLength \in Nat
      /\ dataLeft \in Nat /\ dataRest \in Nat
      /\ textLeft \in Nat /\ textRest \in Nat
  BY SizesAssumption DEF UInv, TypeOK, CountTypeOK
<1>4. present
  BY DEF UInv, RegisterAgrees, PartIsShown, ReadReply, ReadText
<1>5. CASE ReadReply /\ replyLength = REPLY_SIZE
  <2>1. Fail("UCI_ERROR") /\ dataLeft > 0
    BY <1>5 DEF ReadReply
  <2>2. ~Fits(whole)
    BY <1>2, <1>3, <1>5, <2>1, SizesAssumption DEF Fits
  <2>3. Channel!UciError
    BY <1>1, <2>1, <2>2, FailImplements
       DEF Channel!UciError, shownIface, shownAnswer, shownStage, UInv, TypeOK,
           FlagTypeOK
  <2>4. QED
    BY <2>3 DEF ChannelStep, Channel!ChanNext, Channel!ChanPoll
<1>6. CASE ReadText /\ statusLength' > STATUS_LIMIT
  <2>1. statusLength + 1 > STATUS_LIMIT /\ textLeft > 0
    BY <1>6 DEF ReadText
  <2>2. ~Fits(whole)
    BY <1>2, <1>3, <2>1, SizesAssumption DEF Fits
  <2>3. Channel!Abandon
    BY <1>1, <1>4, <1>6
       DEF ReadText, Channel!Abandon, shownIface, shownAnswer, shownStage, UInv,
           TypeOK, FlagTypeOK
  <2>4. Channel!UciError
    BY <1>1, <2>2, <2>3
       DEF Channel!UciError, shownIface, shownAnswer, shownStage, UInv, TypeOK,
           FlagTypeOK
  <2>5. QED
    BY <2>4 DEF ChannelStep, Channel!ChanNext, Channel!ChanPoll
<1>7. CASE ReadReply /\ replyLength # REPLY_SIZE
  BY <1>7 DEF ReadReply, ChannelStep, Channel!chanVars, shownIface, shownAnswer,
    shownStage
<1>8. CASE ReadText /\ ~(statusLength' > STATUS_LIMIT)
  BY <1>8 DEF ReadText, ChannelStep, Channel!chanVars, shownIface, shownAnswer,
    shownStage
<1>9. QED
  BY <1>5, <1>6, <1>7, <1>8

\* The other passes of a poll are seen by nobody but the driver.
LEMMA PassesStutter ==
  ASSUME UInv, UInv', PollPart \/ PollNextPart \/ ReplyRead \/ TextRead
  PROVE  ChannelStep
<1>1. UNCHANGED <<present, error, abort, command, whole, expired>>
  BY DEF PollPart, PollNextPart, ReplyRead, TextRead, hardware
<1>2. shownStage' = shownStage
  BY DEF PollPart, PollNextPart, ReplyRead, TextRead, shownStage, UInv,
    PartIsShown
<1>3. hwState' = hwState \/ whole # NoAnswer
  BY DEF PollPart, PollNextPart, ReplyRead, TextRead, hardware, UInv,
    PartIsShown, AnswerIsShown
<1>4. shownIface' = shownIface /\ shownAnswer' = shownAnswer
  BY <1>1, <1>3 DEF shownIface, shownAnswer
<1>5. QED
  BY <1>1, <1>2, <1>4 DEF ChannelStep, Channel!chanVars

\* What the firmware does behind the registers.
LEMMA HardwareImplements ==
  ASSUME UInv, UInv', Hardware
  PROVE  ChannelStep
<1>1. CASE HwTake \/ HwAccept
  BY <1>1 DEF HwTake, HwAccept, driver, ChannelStep, Channel!chanVars,
    shownIface, shownAnswer, shownStage
<1>2. CASE HwNextPart
  BY <1>2 DEF HwNextPart, Post, driver, ChannelStep, Channel!chanVars,
    shownIface, shownAnswer, shownStage
<1>3. CASE HwLate
  <2>1. Channel!FwLate
    BY <1>3 DEF HwLate, driver, Channel!FwLate, shownIface, shownAnswer,
      shownStage
  <2>2. QED
    BY <2>1 DEF ChannelStep, Channel!ChanNext, Channel!ChanFirmware
<1>4. CASE HwAborted
  <2>1. Channel!FwAborted
    BY <1>4 DEF HwAborted, Cleared, driver, Channel!FwAborted, shownIface,
      shownAnswer, shownStage, UInv, TypeOK, FlagTypeOK, RegisterAgrees
  <2>2. QED
    BY <2>1 DEF ChannelStep, Channel!ChanNext, Channel!ChanFirmware
<1>5. CASE HwError
  <2>1. Channel!FwError
    BY <1>5 DEF HwError, driver, Channel!FwError, shownIface, shownAnswer,
      shownStage
  <2>2. QED
    BY <2>1 DEF ChannelStep, Channel!ChanNext, Channel!ChanFirmware
<1>6. ASSUME NEW w \in Amount, HwAnswer(w)
      PROVE  ChannelStep
  <2>1. Channel!FwAnswer(IF Fits(w) THEN w ELSE TooLong)
    BY <1>6, DistinctAssumption
       DEF HwAnswer, Post, driver, Channel!FwAnswer, shownIface, shownAnswer,
           shownStage, Fits
  <2>2. (IF Fits(w) THEN w ELSE TooLong)
          \in {v \in Amount : Fits(v)} \cup {TooLong}
    BY <1>6
  <2>3. QED
    BY <2>1, <2>2 DEF ChannelStep, Channel!ChanNext, Channel!ChanFirmware
<1>7. QED
  BY <1>1, <1>2, <1>3, <1>4, <1>5, <1>6 DEF Hardware

\* The clock and the user's menu.
LEMMA OthersImplement ==
  ASSUME UInv, UInv', Expire \/ TogglePresence \/ UNCHANGED vars
  PROVE  ChannelStep
<1>1. CASE Expire
  <2>1. Channel!Expire
    BY <1>1 DEF Expire, hardware, Channel!Expire, shownIface, shownAnswer,
      shownStage
  <2>2. QED
    BY <2>1 DEF ChannelStep, Channel!ChanNext
<1>2. CASE TogglePresence
  <2>1. Channel!TogglePresence
    BY <1>2 DEF TogglePresence, Cleared, driver, Channel!TogglePresence,
      shownIface, shownAnswer, shownStage
  <2>2. QED
    BY <2>1 DEF ChannelStep, Channel!ChanNext
<1>3. CASE UNCHANGED vars
  BY <1>3 DEF vars, hardware, driver, ChannelStep, Channel!chanVars, shownIface,
    shownAnswer, shownStage
<1>4. QED
  BY <1>1, <1>2, <1>3

\* The register driver is a command channel as the Ultimate backend (module
\* Ultimate) supposes it.
THEOREM ChannelHolds == Spec => ImplementsChannel
<1>1. ASSUME Init
      PROVE  Channel!ChanInit
  BY <1>1 DEF Init, Channel!ChanInit, shownIface, shownAnswer, shownStage
<1>2. ASSUME UInv, UInv', [Next]_vars
      PROVE  [Channel!ChanNext]_(Channel!chanVars)
  BY <1>2, CallsImplement, EndsImplement, ReadsImplement, PassesStutter,
    HardwareImplements, OthersImplement DEF Next, Poll, ChannelStep
<1>3. QED
  BY <1>1, <1>2, Invariance, PTL DEF Spec, ImplementsChannel, Channel!ChanSpec
=============================================================================
