# Verification of 80Terminal for the Commodore 128

80Terminal is a Telnet client for the C128. This directory holds TLA+ models
of its networking, session, screen and file transfer code, the configurations
that check them with TLC, and proofs checked with TLAPS about every part: the
driver, the two backends, the control flow, the terminal loop, the terminal on
the video chip and the XMODEM receiver. Paths are those of the repository.

## The system

A launcher (`src/app/main.c`) loads one network adapter and hands it to the
main screen (`src/app/program.c`), which initialises it and opens sessions
(`src/app/session.c`). Everything runs in one thread: every wait is a loop that
calls `poll()` of the adapter. What makes the system hard is at the other side
of the registers: the cartridge's firmware, the remote host, the user and the
clock move between any two steps of the program.

| component | state it keeps | operations | talks to |
|---|---|---|---|
| Ultimate command interface driver, `net/ultimate/uci.c` | stage, result, counters of reply and status text, deadline | `uci_reset`, `uci_start`, `uci_poll` | registers at $DF1C |
| Ultimate backend, `net/ultimate/backend.c` | connection state, command in progress, socket, send and receive buffers, `closing` | the eight calls of `struct net_backend` | the driver, by polling |
| main screen and session control | the point reached, `ready` | keys F1, F3, F8, RUN/STOP | the backend |
| terminal loop, `app/session.c` | transmit queue, one batch of input | write, poll, read, process, key | backend, Telnet, display, keyboard |
| Telnet machine, `core/telnet.c` | parser state, options of both ends | `telnet_receive`, `telnet_send_byte` | the queue, through a callback |
| ANSI terminal, `core/ansi_terminal.c` | cursor, margins, modes, parser | `ansi_terminal_receive`, `ansi_terminal_key` | VDC driver, the queue |
| VDC driver, `platform/c128/vdc_screen.c` | font saved or not | write, fill and copy runs | VDC registers |
| XMODEM receiver, `core/xmodem.c` | packet parser, expected block, errors | `xmodem_receive`, `xmodem_accept_block`, `xmodem_timeout` | not linked yet: its tests are the only caller |
| WiC64 backend and bridge | connection, buffer, retry deadline | the calls of `struct net_backend` | mailboxes, user port |
| keyboard encoding, `core/keyboard.c` | none | `keyboard_encode` | the terminal loop |
| phonebook records, `core/phonebook.c` | none | encode and decode | not linked yet |
| platform, RR-Net, launcher | little or none | register accesses | |

What should be right of each:

- driver: a reply read in parts over many polls is whole, belongs to the command
  that asked for it, and every command ends.
- backend: both byte streams complete and in order whatever the firmware splits;
  commands and answers matched; sockets neither leaked nor forgotten.
- control flow: `network.h` is obeyed, every wait ends, nothing is read or
  written after the connection is lost, the program leaves nothing running.
- terminal loop and Telnet: the wire carries what was queued; typed bytes are
  data to the host; host data reaches the display; options agree; no loops.
- ANSI/VDC: cursor and margins stay on the screen, block operations touch
  exactly their cells. XMODEM: each block stored once, in order. WiC64: the
  same contract as the Ultimate backend.

The hazards this code is exposed to are listed, with their lines and the
properties that cover them, in `PROJECT.json`. Six have no property, and their
notes say why: a socket that nothing can close, because its `OPEN` was abandoned
(`backend.c:182`) or its cartridge is gone (`backend.c:233`), which
`ClosedReleases` and `QuitsCleanly` exempt; bytes a failed backend no longer
hands out (`backend.c:213`); and three where the code does not say what should
come instead: the eight-bit length of a subnegotiation (`telnet.c:252`), what
`ESC[1J` and `ESC[256C` do (`ansi_terminal.c:145`), and a block thrown away by a
timeout before it was accepted (`xmodem.c:202`).

## The modules

    UciChannel            what the driver promises
      ^      ^
      |      |  refines (Channel == INSTANCE UciChannel WITH ...)
      |     Uci            the driver and the registers     MCUci, UciProofs
      |
    Ultimate              the backend over the channel      MCUltimate
      ^
    Program               main screen and session           MCProgram
      ^
    UltimateProofs        theorems about both

    NetContract           what network.h promises
      ^      ^  refine (Contract == INSTANCE NetContract)
      |     Ultimate
     Wic64                the WiC64 backend and its bridge  Wic64Proofs

    Telnet, Keyboard      the protocol machine, what keys become
      ^
    Session               terminal loop, queue, host        MCSession, SessionProofs

    Vdc                   the video chip, as its driver uses it
      ^
    AnsiTerminal          the terminal on the chip          MCAnsi, AnsiProofs
      |  refines (Glass == INSTANCE Screen WITH ...)
    Screen                what a terminal's screen promises

    Crc                   crc_add, and polynomial division
      ^
    Xmodem                receiver, line and sender         MCXmodem, XmodemProofs

    Phonebook             records of the phonebook file, with proofs
    BasicLemmas           induction, recursive functions, division

**UciChannel** is the command channel: `request` and `answer` are what the
firmware has accepted and answered, `iface` what the control register shows,
`stage` the driver's. Its actions are used by `Ultimate` as the calls of
`uci.h` (INSTANCE without renaming), and are what `Uci` implements.

**Uci** has one action for every pass of the loops of `uci_poll` (`pc` tells in
which loop it is), with the firmware moving between two register accesses.
The bytes of a reply are counted, since nothing in the driver looks at them;
the firmware splits an answer into parts as it likes.
The registers are external, modelled from the waits in `uci.c` and the device
in `tests/ultimate_test.c`. The mapping of `Uci` to `UciChannel` reads `iface`
off the error, abort and state bits, and calls an answer that does not fit the
buffers `TooLong`.

**Ultimate** has one action per call and one per case of `completed()`. The
two streams are modelled by positions: `accepted`, `written`, `fetched` and
`consumed` count bytes at the four places a byte passes, and each buffer knows
the position of its first byte, so a lost, repeated or reordered byte is a
wrong number. `closeAsked`, `abandoned` and the counters are ghost variables.
`start()` is two operators: `Start` for callers outside `completed()`, where
the interface may be busy and the call is refused, and `StartNext` inside it.
`Spec` lets any caller that keeps to `network.h` make the calls.

**Program** is that caller: it EXTENDS `Ultimate`, adds the point the program
has reached and its `ready`, and gives each wait its loop. Its run checks that
it is one of the callers of `Spec` (`ObeysContract`), so what holds of `Spec`
holds of the program. Text fields are left out,
and the font preview (F7) is in `AnsiTerminal`.

**Telnet** is `telnet_receive` byte by byte, with the answers as sequences of
bytes. **Session** puts the loop of `terminal()` around it, with a queue of
real bytes, a backend that accepts one payload or nothing and hands over input
in pieces of any size, and a host that decodes Telnet and naively confirms
every command. What a decoder, a display or the queue makes of a sequence is
`Run` of its step function (`HostStep`, `PetsciiStep`, `EnqueueEach`), a fold
written as a recursive function so that it can be proved about. The histories
`intended`, `wire`, `typed`, `shown` and `said` are what the properties compare. A session is ANSI or PETSCII: the ANSI
display answers one byte and shows the rest, the PETSCII display leaves out an
ESC and the byte after it (`petsciiEscape`, kept between batches), and keys are
encoded as **Keyboard** has it for the mode. The modes of the ANSI terminal that
a key depends on are the host's to set, so either is taken at each key.

**NetContract** is `include/network.h` and the comments of its fields as an
abstract machine: the states of a connection, in the order a caller may meet
them, and two streams of which nothing is lost, invented or repeated while the
connection lasts. `Ultimate` and `Wic64` have its five variables under the same
names, so both are checked against it as they stand.

**Wic64** has one action per call of `wic64/backend.c`. A command of the bridge
is one blocking transfer and one step, which succeeds or not; only a read is
followed transfer by transfer (`Transfer`, `ReadFails`, `ReadEnds`), since it
is there that the mailbox may overflow. The deadline and the clock, 16 bits
that wrap and are set to zero at midnight, are only ever subtracted: `remaining`
is their difference. What the ESP does is external.

**Xmodem** keeps `struct xmodem_receiver` as the record `rx` and has one action
for each case of `xmodem_receive`, between a line that loses and damages bytes
and a sender. Bytes are numbers here, since a byte of data may be taken for a
control character once a disturbance has lost a header. The file is one block
of each kind of data and size; `Bases` starts the transfer at block 1 or at 255,
so that the block number wraps. **Crc** is `crc_add` and `xmodem_crc16` of
`core/xmodem.c` bit by bit, the exclusive or written with `Bit` and `Flip` so
that it can be proved about, and beside it the remainder of the division by the
polynomial, which `CrcOfStored` compares it with.

**Vdc** has the chip as a record and the runs of `vdc_screen.c` as operators on
it, one chunk of the code at a time: `FillChunk` and `CopyChunk` are one pass of
the loop with what the word count register makes of it, `Before` the chip
before each pass. **AnsiTerminal** draws with them byte by byte what the host sends: `t` is
the terminal, `parser` its parser, `batch` and `pending` are the two flags that
keep the cursor hidden while data comes. Each action of a function builds the
chip the code would leave, two pages of characters and attributes in one RAM;
`Glass` reads them back as the grid of **Screen**, in which erasing, scrolling
and writing are a few lines of quantifiers, and no chunks or addresses.

## The runs

| run | shows | bounds |
|---|---|---|
| `uci` | replies whole and unmixed, commands end, the channel is implemented | one command in flight at a time, so one name; answers of up to four bytes of data and three of text in any number of parts, budget 2, buffers of 3 and 2: parts that fit, that take two polls, and that overflow |
| `ultimate` | streams, matching, sockets, the contract | two sockets (symmetric), payload 2, two bytes each way: partial and repeated writes, a reused send buffer, drained and half-drained buffers |
| `program` | contract, points, clean exit, and the liveness of the waits | one socket, payload 1, one byte each way; sessions, retries and failures are unbounded |
| `session` | wire, typing, display, negotiation | queue of 14 bytes (the longest answer takes 12, so a second one overflows), batches of 2, payload 5, both displays, one key of three (the code of IAC, RETURN, a cursor key) per session, two messages of the host in the first session and one in the second |
| `session_live` | the queue drains | as above, one message in the first session, none in the second |
| `wic64` | the contract, reads whole, no bytes of an earlier session, queries in time, data read | pages of 2 bytes, a mailbox of 2 pages, 6 bytes of the host: a response that fits, fills the mailbox, and exceeds it; two failed queries; a clock that counts modulo 64 with midnight after 8 ticks, so that it wraps between queries; a caller that may poll up to 3 ticks late |
| `xmodem` | what is saved is the file, the CRC, transfers end | blocks of 2 and 3 bytes holding EOT, CAN and SOH; one byte lost or damaged into any of six values, two answers lost, up to four errors |
| `ansi` | the screen, the fonts, the cursor | 3 by 3, word counts up to 4, so that a row, a screen and a scroll all take different numbers of chunks; from every cursor and region, three functions, of which the first may be a control sequence with numbers that overflow eight bits |

The other four runs each show one statement of the repository refuted:

- `closes_on_request`: `closing` is set by `close()` and cleared by `init()`
  alone (`backend.c:231`, `:48`). After one session the next connection opens
  and is closed at once. Pressing F1 first, which calls `init`, avoids it.
- `ready_is_shown`: a close that fails leaves the backend FAILED, but the main
  screen keeps showing `Ready for a connection.` (`program.c:71`), against the
  assertion in `tests/program_init_test.c:17`.
- `close_ends`: only initialisation is limited when the jiffy clock stands
  still (`backend.c:169`); a close then polls for ever.
- `identity_first`: the comment at `session.c:102` promises a Telnet identity
  before the first poll, but nothing is queued by then.

Symmetry is used for sockets in `ultimate` only, a run without liveness.
Deadlock is not checked: the models may stop, with the program ended
(`Program`), every bound of the host and the keys used up (`Session`) or an
absent interface and nothing asked of it (`Uci`, `Ultimate`), a backend left
closed (`Wic64`), a transfer at its end (`Xmodem`) or a message on the screen
and no key pressed (`AnsiTerminal`).

**Fairness.** The loop of the program is weakly fair: it is one thread that
never sleeps. Deadlines pass as long as the clock runs, which is why the waits
are stated with `clock = "stopped"` as an alternative and initialisation is
not. Nothing is assumed of the firmware or the user. In `Session` the backend
is strongly fair in taking some bytes when it is offered some again and again:
`SendsOrFails` of `Program` is the reason, the backend sends or fails, and
failing ends the session. In `Wic64` the terminal loop polls and reads, the
bridge's routines return and the clock runs, each weakly fair; the host and the
firmware owe nothing. In `Xmodem` the caller carries out events and calls
`xmodem_timeout`, the line delivers what it does not lose, and the sender
answers what it hears, all weakly fair; it may cancel at any time. In
`AnsiTerminal` only `Quiet` is fair, the loop that goes on while the host is
silent, and the property speaks of a host that has fallen silent for good.

## The proofs

What a theorem says holds for every value of the constants that meets the
assumptions of the module; they ask no more than that sizes are sizes, that the
deadlines of `Wic64` and the lateness of its caller stay below half a turn of
the clock, that keys are PETSCII codes, that a host sends Telnet messages, that a
block of the file has one of the two sizes, that the two pages of the video chip
do not overlap, and that what the KERNAL leaves in them are characters in colours.
Nearly none of the properties is inductive: each proof rests on an invariant,
checked with TLC on the module's run before it was proved, which holds
initially, is kept by every action (one lemma or step for each), and implies
the properties.

**UltimateProofs**: `Spec` implies the invariance of `TypeOK`, `InFlight`,
`SentInOrder` and `ReceivedInOrder`. The invariant `IInv` adds

- `ChannelAgrees`: what the interface shows follows from what the driver did;
- `PhaseAgrees`: each state of the connection has its operations, and a
  connected backend is not closing;
- `FreshAgrees`: from initialisation to the first bytes the buffers are empty,
  which is what lets the counters start from nothing at a connect;
- `TransferAgrees`: a read or write in flight is the one the buffers call for,
  and the answer of a read ends where the firmware's own count does.

`Spec` implements `NetContract` (`ContractHolds`), step by step. `IInv` does not
say enough for it: bytes that move after a failure are a transfer of the
contract, but not once the backend is closed. `Rest` adds that a closed backend
has left the firmware no command, that an absent interface is idle, and that no
more was read than fetched in any state.

`ConnectedSocket`, `ClosedReleases` and the action property
`ForgetsOnlyClosed` rest on `SInv`, which follows a socket through a command in
flight: `RequestSocket` (a command is about the socket held), `AnswerTrue` (an
answer that waits is still true: what it says is open is open, what it says is
closed is closed), `NoStaleEof` (a connected backend has no end of stream in its
queues, else it could forget a live socket), and `NothingLost`: as long as no
command had to be abandoned, the firmware has no socket open but the one held or
the one an answer is about to name.

The program is one of the callers those theorems speak of
(`ObeysContractHolds`), so the order of both streams holds of it
(`SessionsInOrder`); `PointsAgree` and `QuitsCleanly` are proved too.
`PointStates` gives the states the backend may be in at each point of
`program.c` and `session.c`, `ClosedFirst` that the interface is initialised
again only after a close, and `ClosingWorks` that a close that goes on has a
command to wait for.

**UciProofs**: `TypeOK`, the action properties `AcknowledgesRead` and
`DoneIsWhole`, and that `Uci` implements `UciChannel` (`ChannelHolds`), for
answers and buffers of every size. The heart of `UInv` is `AnswerIsCounted`:
what has been read, what the queues hold and what the firmware has not yet
shown are the whole answer. It is not inductive without `QueuesEmpty`: bytes
left in the queues while the firmware is busy would be counted into the next
part. Six lemmas (`PartStays` to `RegisterStays`) keep one conjunct each.

**Wic64Proofs**: `TypeOK`, `ReceivedInOrder`, `OnlyThisConnection`,
`AsksInTime`, and that `Wic64` implements `NetContract`. `WholePages` says that
the mailbox is filled page by page, which bounds the copy (`PageFits`);
`DeadlineAgrees` that the signed 16-bit difference of deadline and clock is the
true one, never further ahead than it may be set. A deadline set before midnight
is put off by what the clock loses there, `DAY`, and by the ticks the caller was
late in looking at it as well: without `MaxGap` in `PutOff` the bound of
`AsksInTime` is not true.

**SessionProofs**: all six invariants, `TypeOK`, `WireInOrder`, `TypedIsData`,
`HostDataShown`, `NoNegotiationLoop` and `OptionsAgree`, for queues, batches and
payloads of every size and for every sequence of keys and of messages. `LoopInv`
relates the ends of each stream:

- `QueueAgrees`: what was written, followed by what is still queued, is what
  was handed to `enqueue`, until an overflow; `OverflowEnds` adds that none is
  written after one;
- `HostAgrees`: a decoder that gets all that was handed over is between two
  messages and has seen the bytes typed and no other data;
- `DisplayAgrees`: some state of a decoder is where the Telnet machine is and has
  seen what the display shows, and from there the bytes still to be read lead
  to the data and the commands of all that the host has said;
- `Obeys`, in `DisplayAgrees`: the options are where the commands seen so far
  lead, and the answers to these are the commands that were handed over.
  `Negotiated` is what they lead to, a fold of `negotiate()`;
- `Bounded`: the commands of the host, without its confirmations, are at least as
  many as the answers they can bring about. Counting the answers is not inductive, for the confirmation of an
  answer to an option that has been switched off since switches it on and is
  answered again. `Weight` counts such options beside the answers: a command of
  the host raises it by one at most (`CommandKeeps`), a confirmation of a
  command that was sent never (`ConfirmKeeps`).

The lemmas are about the pieces of a byte stream: what the host makes of each
answer (`CommandIsSeen`, `WindowSizeSaysNothing`, `TerminalTypeSaysNothing`), of a
byte sent (`HostTakesByte`), that the machine takes each byte as the decoder
does (`MachineFollows`), that a message in any encoding is passed or taken
whole (`HostTakesMessage`), that more bytes take no data and no command back
(`HostOnlyAdds`), and that the last command about an option decides on it
(`LastDecides`). Sequences have no bound here, so they rest on an induction,
`SeqInduction` of **BasicLemmas**: by it `RunAppend`, `RunConcat` and `RunStays`
say what a fold does at the end of a sequence, over two, and with an invariant.

**XmodemProofs** has three parts. The first is about the operators of `Crc`:
`CrcIsRemainder`, that `crc_add`, byte after byte, computes the remainder of the
division by x^16 + x^12 + x^5 + 1 of data of any length, and within 16 bits.
Both are brought to one step, `Round`, a shift with the polynomial taken out of
a register: `crc_add` is eight rounds after the byte has been mixed into
the high half (`CrcAddIs`), a byte of the division eight rounds as its bits come in
at the low end (`RestStep`), and `MixedRounds` moves the bits from one end to
the other, since a round of an exclusive or is the exclusive or of the rounds.
The second part is the receiver under any disturbance of the line: `TypeOK`
(`TypesHold`), `CrcOfStored` (`CrcHolds`), and `SavesChecked`, that every block that
is saved is whole, is the next one, and came with the CRC of its data. `RInv`
says how much is stored in each state (`Stored`), which counter may be at its
limit in which call (`Counts`) and what is known of the check (`Checked`).
`CrcOfStored` had left out the state CHECKSUM and was not inductive without it;
that is no change of the code's promise, the CRC runs in checksum mode too.
The third part is receiver, line and sender together, `SavedIsFileHolds`: until
the first byte is lost or damaged, and with one answer on its way at a time,
what is saved is the file from its beginning, and all of it when the transfer
is complete, for every file, block sizes, numbering and limits, whatever answers are
lost, whatever times out and wherever the sender gives up. Its invariant is `Safe`:

- `InStep`: the sender is at the block saved last or the next one, with the numbers of
  the receiver (`Matched`), or is one ahead and will never be heard (`Ahead`);
- `Answer`: at most one answer is on its way, and then the receiver is between packets;
  an acknowledgement is one of the block the sender is at;
- `Taken` and `OnLine`: the receiver has taken the first `k` bytes of what was
  sent, `k` is what its state says (`Position`), and on the line are the rest
  and the CANs of a sender that gave up. So every packet that begins is whole,
  and no byte of data is read as a control character;
- `Modes`: a receiver that numbers its blocks as the sender does is not in
  checksum mode once the sender has been asked for CRCs, and at the start waits
  for a block that is on its way, so that it cannot time out into checksum mode.
  Without it a good packet could be refused, and the NAK would drop the rest.
  That the CRC of a whole packet is right rests on `CrcOfStored` and
  `CrcIsRemainder`; that repeats are known past block 255, on `NumberOf`.

**AnsiProofs** begins with the chip: `FillRunIs` and `CopyRunIs` give
`screen_fill_run` and `screen_copy_run` a closed form for runs of every length:
chunks of 256, a word count that is one less, and overlapping copies to lower
addresses do exactly what one assignment would. `PlaceUnique` and
`PlaceInRows` say which cell an address is. With these each function of the
terminal is one of six relations between two screens, whatever its parameters:
it steers (the cursor and modes only), clears, scrolls, feeds a line, sets the region
or puts a character. From them follow `TypeOK`, `RightFont`, the invariant `IInv`
(`Untouched`: no address outside the two pages is ever written) and
`ScreenImplemented`: every step is one of `Screen` or leaves the grid alone.

**Phonebook** has no steps and so no run: `EntryRoundTrip` proves of every valid
entry that it is read back from its record as it was, and `RewriteKeeps` that a
record which is accepted, an old one with profile 0 too, keeps its entry when it
is written again. Both rest on `FieldKeeps`: the zeros around a copied string
end it where it ended.

**BasicLemmas** holds what those share: the induction theorems of the library
take an operator and cannot be used, but the well-foundedness of the naturals
can, and from it come induction over a *set* of numbers or sequences
(`SetInduction`, `SeqInduction`, `UpTo`), the existence of a recursive function
whose step keeps to a set (`Recursion`), and division (`Division`, `Quotient`).

Only model-checked is every liveness property (`CommandsEnd`, `SendsOrFails`,
`InitialisationEnds`, `QueueDrains`, `DataIsRead`, `TransferEnds`,
`CursorReturns` and the waits of `Program`), since fairness and ENABLED are
outside the prover's reach. `SavedIsFile` after a first lost or damaged byte, or
with an answer that comes late (`MaxReplies` above 1), stays with TLC too: there
it depends on the constants, on what in the data may be taken for a control
character and on which damage keeps a checksum, and is not true of all of them.

## Abstractions worth knowing

- In `Uci` and `Ultimate` time is a flag per deadline that may be raised at any
  moment while the clock runs: the program polls in a tight loop, so a tick
  difference never grows to its 16-bit wrap after 18 minutes. The wrap is
  modelled in `Wic64`, whose deadlines are points on the clock and are compared
  across its wrap and the reset at midnight.
- The interface is switched on or off by the user only between commands.
- The firmware may answer anything, late, too long or not at all, but what it
  reports as sent or received is what it did.
- Status texts, screen layout and CPU speed are left out, except the line that
  says whether the interface is ready.
- The bytes of the window size and the terminal type are those of the ANSI
  profile, the name shortened to one byte, in a PETSCII session too.
- `Wic64`: a deadline set just before midnight lies 6656 ticks (111 seconds)
  further off than meant, which `AsksInTime` states as it is. A caller that does
  not poll for seven minutes could see the comparison wrap (`MaxGap`). The
  backend never reports EOF: the ESP has no command that tells it. A write that
  failed may have arrived, so `written` may exceed `accepted` once FAILED.
- `Xmodem`: `MaxFaults` is one because the protocol promises no more. Two faults
  can leave an EOT where a packet is expected and a stale acknowledgement after
  it, and the transfer is complete too early; two damaged bytes can have the sum
  of the right ones. Even one lost SOH exposes the data of a packet: CAN CAN in
  it cancels, a safe end. A packet numbered 0 before the first block is
  acknowledged as a repetition. The caller is assumed to wait for silence before
  a NAK, and never to call `xmodem_timeout` while a block waits, which would
  throw it away (`xmodem.c:202`); no caller exists yet that could be read.
- `AnsiTerminal` gives a sequence the digits of each parameter at once, knows `?`
  alone of the private marks, and forgets parameters where the code no longer
  reads them. What it shows of the code as it is, and `Screen` allows:
  `ESC 8` keeps the wrap flag of the place it leaves, so that the next
  character goes to the next row; `ESC[1J` in row 0 erases the whole row; a
  parameter of 256 counts as 0 and larger ones may be 255; and the cursor stays
  hidden while a host has stopped inside a sequence.
- What the KERNAL draws is a cleared page; the message and the menu are told
  apart by the font only.

## Not modelled

- SGR's tables and the texts of the reports of `ESC[n` and `ESC[c`: pure
  tables from bytes to bytes (`core/ansi_terminal.c`, in part).
- `platform/c128/platform.c` and `app/main.c`: CPU speed, clock and loading;
  the jiffy clock they read is in `Ultimate` and `Wic64`.
- RR-Net and the other adapters: their calls return an error at once.
- the WiC64 library under `bridge.asm`, assembly for the user port.

## Plan

1. *(done)* Driver, backend, control flow, Telnet and the terminal loop; the
   streams proved.
2. *(done)* `NetContract`, with `Ultimate` and `Wic64` refining it.
3. *(done)* `Xmodem` and `Crc`.
4. *(done)* `AnsiTerminal` and `Vdc` on `Screen`.
5. *(done)* `Keyboard`, with both displays in `Session`; `Phonebook`.
6. *(done)* Proofs: the streams, the sockets and the contract of `Ultimate`;
   `Uci` implements `UciChannel`; the invariants of `Wic64` and its contract;
   the program as an obedient caller; the terminal loop and its options; the
   CRC, the invariants of `Xmodem` and what it saves; the runs of `Vdc` and `AnsiTerminal` on
   `Screen`.
