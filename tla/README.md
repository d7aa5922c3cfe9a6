# Verification of the general purpose controller firmware

The repository holds the firmware of an STM32G474 board that drives the
machinery of a vehicle: a bootloader, an application, a configuration image in
flash, and the host tools that build and load them.  What the board does to its
pins is not in the C++ code but in the configuration, as *micro sequences* the
application interprets.  This directory models the parts of it that are hard to
test: the controller's states and the interpreters that run its sequences, the
CAN queues and USB buffers shared between the main loop and the interrupts, and
the programming of the board through its bootloader.

    tlasany M.tla                                   parse a module
    tlc -workers 2 -config X.cfg M                  check a run (table below)
    tlapm M_proofs.tla                              check the proofs of module M

## 1. Inventory

Paths are relative to `src/`.  One core runs everything: the *main loop*
(`applicationTick()`) polls, and interrupts (FDCAN, USB, DMA, SysTick) preempt
it between any two instructions, run to their end and do not preempt each
other.

| component | state it keeps | operations |
|---|---|---|
| controller state machine, `application/GpcController` | `state_`, `state_sequence_started_`, two executors | `tick`, `sendSetStateRequest`, `handleControllerStateCommand`, `moveToErrorState`, `moveToEmergencyState` |
| micro sequence executor, `application/MicroSequenceExecutor` | `state_`, active sequence, step index, loop flag, delay | `start`, `stop`, `tick`, `executeImmediateOp`, `runSequenceImmediate` |
| message handler, `application/BluewhiteMessageHandler` | a pending metadata and a pending version reply, with destination | `handleInbound`: programming, reset, state, micro and bound sequence commands, requests |
| main loop, `application/ApplicationMain` | the objects, when to pulse and to report | `applicationInit`, `applicationTick` |
| safety features, `application/SafetyFeatures` | keep-alive phase and its deadline | `tick`, `trigger`, `restore` |
| telemetry sender, `application/GpcTelemetrySender` | schedules and a round robin position | `tick` |
| variable store, `application/MicroVarStore` | an array of variables, one per slot | `get`, `set` |
| Bluewhite CAN and USB, `application/BluewhiteCanComm`, `BluewhiteUsbComm`, `UsbComm` | transmit flag, receive item | `tick`, direct sends, queued sends, filters |
| raw CAN, `application/RawCanInterface` | two buses for CAN micro ops | blocking send and receive |
| CAN messenger, `interfaces/interfaces_g474/CanMessenger` | a transmit and a receive ring: array, head, tail, count | enqueue, dequeue, tick, both interrupts |
| CAN driver, `interfaces/interfaces_g474/CommInterface` | `can_state_`, transmit flag, error count, timeout start | hand-over, completion, recovery, reception |
| USB buffers, `interfaces/interfaces_g474/CommHandler` | double buffers between the USB interrupt and the main loop | receive, transmit, completion |
| analog inputs, `interfaces/interfaces_g474/AdcManager` | DMA half/full flags, averages | `tick`, interrupt |
| non-volatile memory, `.../NonVolatileMemoryInterface` | the flash: configuration, metadata page | erase, program, rewrite of the metadata |
| services, `SchedulerInterface`, `SystemInterface`, `GpioInterface`, `PwmInterface`, `HardwareMap` | tick counters, registers | arithmetic on ticks, resets, pin access |
| bootloader, `bootloader_projects/bootloader_g474` | a seven-state machine, an address, a double word, a pending command, timeouts | programming over CAN and USB, jump to the application |
| programmer, `programmer/g474` | position in the image | sessions, one frame per four bytes, retries |
| configuration, `config_projects`, `configs` | constants linked at a flash address | none |
| host tools, `tools` | a configuration editor, a packet logger | editing, printing |
| vendored and generated code | HAL, CMSIS, USB stack, start-up | external |

How they interact.  A tick runs the safety pulse, the controller (main sequence,
then the sequence of the state), telemetry, CAN (up to four received messages,
the transmit queue, then the executor of powerup and command sequences) and USB.
Received messages call the handler, which calls the controller and the command
executor at once; a MOVE step of any executor calls back into the controller,
which stops an executor under the feet of its own `tick()`.  The CAN interrupts
share the queues, `can_state_`, the transmit flag and the transmit header with
the main loop.  Bootloader and application hand over through the metadata page
in flash and a reset.

What is hard here, and what makes each component correct:

* *Controller.*  Calls that re-enter: `tickStateSequence()` looks up a sequence,
  lets an executor run, and acts on what it looked up, though the executor may
  have moved the controller to another state.  Correct means: the states follow
  one another only as documented, EMERGENCY stays latched, a running sequence
  belongs to the state but for a known residue, transition states are left.
* *Executor.*  Branches, delays, failures and moves must never hang the main
  loop, and sequences sharing an executor must not run into each other.
* *CAN transmit queue.*  One insertion is done with interrupts enabled, and the
  driver's two flags are not written together.  Correct means: each message is
  sent once, in the order of its class, the driver never believes itself busy
  forever, and the queue drains.
* *CAN receive queue.*  Nothing polls the hardware, so a lost flag is a stuck
  frame.  Correct means: every frame accepted is handled once or dropped at a
  full queue, in order within its class.
* *Bootloader, flash and programmer.*  A lossy channel, retries, timeouts,
  resets between an erase and a write.  Correct means: an image marked FLASHED
  is whole, and programming ends or can be started again.
* *Safety pulse.*  Each phase of the keep-alive signal must lie in the window the
  external watchdog accepts, whatever else the loop does.
* *USB buffers.*  Sizes, flags and buffers shared with the interrupt without a
  lock, and a cable that may be pulled.  Correct means: a packet is handled once
  and in order, a buffer under transmission is not written, what was reported as
  written leaves whole, in order and once, or it is known when it does not.
* *ADC flags.*  Read-modify-write against an interrupt.

PROJECT.json lists each of these as hazards, at their lines.

## 2. Modules

| module | models | state | actions |
|---|---|---|---|
| `ControllerStateMachine` | what the controller promises about its state (abstract) | `state`, with "OFF" from a reset to the end of `applicationInit()` | Boot, Reset, Request, Complete, Fault, Emergency |
| `MicroSequenceExecutor` | the executor's data and what each operation does to it | none: an executor is a record | `Started`, `Failed`, `Waiting`, `Finished`, ... are functions of the record |
| `GpcController` | main loop, controller, three executors, message handler | `config`, `state`, `started`, `exec`, and the local variables of the functions under way: `pc`, `ctx`, `rxLeft`, `imm` | one per branch of the code, see below |
| `PriorityRing` | the arithmetic of CanMessenger's rings | none: a ring is a record | `Inserted`, `Dequeued`, `Placed`, `Strays` |
| `CanMessenger` | transmission: queue, driver, direct sends, transmit interrupt | `ring`, `can`, `available`, `errors`, `elapsed`; hardware `fifo`, `irq`; main loop `pc`, `held`, `header`, `processed`, `reg`, `forced` | main loop step by step, interrupt in one step |
| `CanReceiver` | reception: filters, FIFOs, receive interrupt, queue, main loop | `ring`, `fifo`, `irq`, `isr`, `read`, `pc`, `processed` | a frame arrives, the interrupt reads one frame, the main loop handles one message |
| `FlashMemory` | the two areas of flash: double words, pages, what may be programmed | none: a flash is a function | `Programmed`, `PageErased`, `Programmable` |
| `Bootloader` | `BootloaderMain`, the metadata page and the application as far as it touches them, in any environment | `flash`, `meta`, `unlocked`; `ram` (members), `age` (timers), `pc`, `todo` (a write or erase under way); `inbox`, `outbox` | one per branch of the handlers, one per flash operation, power loss |
| `FlashingSession` | the programmer's session composed with `Bootloader` over a lossy link | `host`, `target`, `hostLink`, `at`, `tries`, and the board's | start, data, done with their retries; lost replies; other tools |
| `UsbLink` | the application's USB buffers, replies and telemetries | `rxSize`, `rxBuffer`, `flag`, `pending`, `flight`, `armed`, `configured`; main loop `stage`, `step`, `msg`; `reply` | `read()` and `write()` step by step, and the interrupts |
| `MCGpcController`, `MCCanMessenger`, `MCCanReceiver`, `MCFlashingSession` | small instances | | |
| `GpcController_proofs`, `PriorityRing_proofs`, `CanMessenger_proofs`, `CanReceiver_proofs`, `Bootloader_proofs`, `FlashingSession_proofs`, `UsbLink_proofs`, `UsbOrder_proofs` | theorems | | |

**GpcController.**  `pc` follows `applicationTick()`: `mainTick` (the executor of
the main sequence, one pass of its loop per step), `mainRestart`
(`tickMainSequence()` after it), `stateEnter`, `stateTick`, `stateAfter`
(`tickStateSequence()` before, during and after its executor's tick), `canRx` and
`canImm` (messages, and the steps of a bound command), `commandTick`, `usbRx` and
`usbImm`.  `ctx` is the state `tickStateSequence()` read before the tick; that it
may be stale afterwards is the point.  `imm` is the loop over bindings and the
local step index of `runStepsImmediate()`.  A sequence keeps of each step its
kind and the number control depends on; what an I/O step does is success or
failure, a condition is either answer.  TRIGGER_SAFETY fails outside the command
executor because `setSafetyFeatures()` is called on that one only.  After a MOVE
step the loop of `tick()` reads `step_count` through a null pointer: address 0 is
the boot flash and the byte read is the low byte of the initial stack pointer,
zero for this linker script, so the loop ends.  A reset may come between any two
steps.  An erased configuration page (counts of 0xFFFF, not valid) is one of the
configurations.

**CanMessenger.**  The main loop is split wherever it touches, with interrupts
enabled, what the interrupt touches too: `isTransmitAvailable()`, the header, the
check of `can_state_`, the hand-over of a frame, `can_state_ = BUSY_TX`,
`*transmit_flag_ = false`, the three parts of a recovery (the abort,
`can_state_ = READY`, `*transmit_flag_ = true`), and the insertion of a message to
be retried, whose last two statements (`tail`, `count`) are a read and a write each.
A recovery is one step (`Recover`) only where no interrupt can come in between: in
`enqueueTxMessage()`, which has interrupts disabled, and in the interrupt itself.
Searching and
shifting within that insertion is one step; the interrupt may come before and
after it.  The interrupt is one step: on this core nothing else runs meanwhile.
Frames in the hardware are a count.  Aborting may lose a race with the bus, so
any number of them survives.  Messages are numbered as they are enqueued, and
`gone` records which were given to the hardware or cleared with a full queue.

`hits` records which of four things has happened since the queue was last
cleared: `insert`, the interrupt used the queue in the middle of an insertion;
`shift`, an insertion wrote past the array (below); `mark`, the interrupt came
between `can_state_ = BUSY_TX` and the flag and had nothing to send; `kick`, it came
between `can_state_ = READY` and the flag of a recovery and sent.  Each is a hole in the
code; the properties say that nothing *else* breaks the queue or the driver.

**PriorityRing.**  Both insertion loops are stated by what each slot holds
afterwards.  `to_pos` is the remainder of a negative `int` stored in a `uint8_t`
once the shift runs below slot 0: an index near 256 of an array of 32 or 16.  The
item that should have moved to that slot is overwritten by its neighbour later
in the same shift or stays as it was, so a message is lost or doubled; `Strays`
says when.  What the store beyond the array hits is not modelled.

**CanReceiver.**  Which FIFO takes a frame follows from what
`configureCanFilter()` writes: sixteen elements, of which `ExtFiltersNbr = 4` are
in the filter list, all four to FIFO 1, and unmatched frames to FIFO 1.  FIFO 0
is always empty.  The interrupt clears its flag, then reads up to three frames of
each FIFO; frames may arrive meanwhile and set the flag again.  Reading a frame
cannot fail, as the fill level was just seen above zero on a started peripheral.

**FlashMemory and Bootloader.**  A word of an image is named by its address, so a
flash is a function from addresses to contents: a word in its place, a word of
another place, erased, zero (the padding of an odd word), or what was there
before.  A double word can be programmed once after an erase.  One turn of
`run()` is `state`, `timeouts`, `tx`, `rx`; between any two steps a message or a
power loss may come, inside a metadata write or an erase of many pages too, and
time passes wherever a timer is read or restarted next.  `todo` says which write or erase is under way and where its
caller goes on.  Every flash operation and the start of CAN may fail.  The
environment of `Bootloader` alone sends any command, in any order, on either
link; that is the module the proofs are about.  The application appears with
`rewriteMetaData()` at its start, which marks the board FLASHED, and with the
hand-over of a programming command through the metadata page and a reset.

**FlashingSession.**  The programmer of `programmer/g474`: it asks for the
programming mode until it is acknowledged, sends the image word by word with a
number of tries each, and the done command, whose result it does not use.  Each
request and each reply may be lost, a request also in a full queue, and a request
is repeated when the host tries again.  Another
tool may ask for a checksum or start a session of its own.

**UsbLink.**  `read()` is four steps (size, copy, clear, arm), `write()` is the
test of the flag, the copy with the first half of `startTransmitInterrupt()`, and
the transmission; `DirectWrite` is the path that transmits the pending bytes from
where they are.  A bus reset frees the class and the transfer with it, and leaves
the application's flags alone, as the code does.  Writing into a buffer under
transmission leaves the old, the new or a torn unit, each possible.  The null
pointer `CDC_Transmit_FS()` reads after a reset makes it return BUSY: the word
behind address 0 is a vector, not zero.  `exposed` names the packets that came
within `read()` or over a reset, `dropped` the messages given up in an overflow,
`direct` that a transfer was started from the pending bytes: holes in the code,
and the properties say that nothing else loses, repeats or tears.  The Bluelink
library between `tick()` and the buffers is not in the repository; it is taken to
call `read()` once per tick, to write a message with one `write()`, and to flush
with a `write()` of nothing, a case `write()` provides for at each branch.

## 3. Runs

| run | properties | shows |
|---|---|---|
| `controller` | TypeOK, StaleSequenceOnlyAfterFault, RunningSequenceIsStarted, MainSequenceAlwaysRuns, CommandRunsAlone, EmergencyLatched, FailedSequenceStaysDown, ImplementsStateMachine, OneShotStateIsLeft, MainLoopReturns | over four configurations (empty, working, full of moves, erased flash) and every message, reset and timing; a transition state is left whatever its steps do, and no sequence hangs the loop |
| `transition_once`, `emergency_runs`, `manual_runs` | TransitionRunsOnEntry, EmergencySequenceRuns, ManualSequenceKeepsRunning | three claims of the configuration tool the firmware does not keep (section 6) |
| `can_messenger` | TypeOK, CountersAgree, MessagesAccountedFor, OnlyRetriesAreOvertaken, FramesKeepTheirHeader, FlagTellsState | every interleaving of the main loop with the transmit interrupt, up to the first interrupted insertion |
| `can_live` | BusyIsLeft, QueueDrains | a transmission that never completes is given up, also on a dead bus, as long as the flag says it is under way; on a bus that takes frames the queue empties |
| `can_receiver` | TypeOK, FramesAccountedFor, HandledInOrder, FifosAreEmptied, QueueIsHandled | from the FIFOs to the handler, including what a shift past slot 0 leaves possible |
| `can_fifo` | HighPriorityInFifo0 | the driver's comment on its FIFOs does not hold (section 6) |
| `programming` | TypeOK, UnlockedOnlyInProgress, NoForeignWords, NoHoles, AcknowledgedWordsAreSafe, CompleteMeansWhole, TouchedOnlyInProgress | the programmer flashing images through the bootloader, with lost and repeated messages, a mishap (power loss, failing flash or CAN) and a stray command |
| `programming_live` | SuccessIsFlashed, BoardSettles | success means a whole image in the end, and a board left alone starts what it has |
| `premature_jump` | NoPrematureJump | a timeout leaves for the application before the board is marked FLASHED (section 6) |
| `usb` | TypeOK, PacketsHandledOnce, StaleOnlyAfterReset, TransferStaysWhole, DeliveredInOrder, StuckOnlyAfterReset, RequestsAccountedFor, PendingLeaves | requests, replies and telemetries with interrupts and a bus reset between any two steps |

### Bounds

* `controller`: sequences of up to three steps, enough for a branch, a step to
  skip and one after it, and one step too many for the erased page; delays of
  one millisecond (waiting or not is all the code asks); four messages per tick,
  as in the code; two messages, one matching two bindings.  The configurations
  are chosen so that each kind of step appears in each executor that may run it.
* `can_messenger`: a queue of three slots, four messages of two classes (the most
  urgent and analog telemetry, so a demoted message meets both kinds of
  neighbours), two transmit buffers, two messages per tick, an error threshold
  of one and a timeout of one tick.  Three queued messages are needed for the
  interrupt to find one while the main loop has sent one and holds another; the
  fourth comes only to a full queue (`LastOverflows`).  After an interrupted
  insertion or a shift past slot 0 the queue holds stale items and nothing is
  claimed of it, so the constraint `Intact` stops there: every state reached by
  that step is still checked.  What a stray shift leaves possible is covered by
  `can_receiver`, whose ring is the same module.
* `can_live`: a queue of two slots, two messages and one transmit buffer, also cut by
  `Intact`, so the two properties are shown of behaviours in which no insertion
  is interrupted.
* `can_receiver`: a ring of three, two frames per FIFO and five arrivals of
  three classes: the ring fills, wraps, drops, and shifts across its end.  The
  code has FIFOs of three and an interrupt that reads three; the model keeps
  them equal at two, and the assumption that the interrupt reads at least as
  many as a FIFO holds is stated, because `FifosAreEmptied` needs it.
* `programming`: an application area of four words and a configuration area of
  two, images of three words and of one, so an area is erased in two steps or in
  one and an image ends in the middle of a pair; timeouts of one tick but two for
  the forced jump, so that one boot timeout passes unforced; queues of one message
  each way, two tries of the start command and of each word, one of the others;
  two sessions and one mishap, in any flash operation, at any CAN start or
  between any two steps.  The constraint `Troubles` allows one trouble per
  behaviour: a second session, a mishap or a stray command.  One transport
  here and the other in `programming_live`, which has one session.
* `premature_jump`: one session and no mishap are enough.
* `usb`: a buffer of two units, two packets, two telemetries, one bus reset.  A
  reply fits next to another, the telemetry of the variables fills the buffer and
  overflows it, a packet comes before, within and after `read()`, and a reset finds
  a packet unread, a transfer under way and a reply pending.

Deadlock is not checked in the CAN and programming runs: with no message, mishap
or session left, they stop.

### Fairness

* Main loop (`WF MainLoop`): the processor executes.  The same for `SysTick` and
  the interrupts: the clock runs, a pending interrupt is taken.
* Nothing is assumed of the bus in `CanMessenger`.  A bus that never takes a frame
  is what `CAN_TX_TIMEOUT_` is for, and `BusyIsLeft` holds on it.  `QueueDrains`
  cannot, and has `WF_vars(FrameLeaves)` as its hypothesis.
* `SF TickCanDone`: a CAN step retried in every tick is sent or fails in the end.
* `SF BeginTick` in `CanMessenger`: every round of the main loop calls
  `processQueueFromTick()`, however many direct sends it also makes.
* `SF HandOver`: a peripheral asked again and again accepts a frame.
* `SF MainLoop` in `CanReceiver`: interrupts end, and the loop goes on between
  them; a frame needs longer on the bus than its interrupt takes.
* `FlashingSession`: `WF` of the board's steps, of an application only while it is
  whole; `SF Tick`, since the clock runs in every state of the board; `WF` of the
  programmer's sends and of its giving up, since its receive calls have time-outs.
  Nothing makes a message arrive: `SendRequest` may lose each one.
* `UsbLink`: `WF MainLoop`, and `WF TransferCompletes`, a host that reads what it
  asked for.  Neither that the bus stays up nor that packets come is assumed.

`QueueDrains` is stated for behaviours in which direct sends do not keep coming
at the wrong moment: they compete with the queue for the transmitter, and the
code gives the queue no precedence.

## 4. Proofs

Each theorem is of the specification with any environment its module allows, for
every value of the constants.  Assumed are only the named ASSUMEs: sizes, limits,
priorities and timeouts are numbers and, where the code divides or waits by them,
positive; the configurations have the right shape; areas of flash are whole double
words.  Every safety property and action property of the passing runs, the type
invariants included, is stated by a theorem.

### GpcController_proofs

| theorem | property |
|---|---|
| TypeCorrect | TypeOK |
| StaleSequences | StaleSequenceOnlyAfterFault |
| RunningStarted | RunningSequenceIsStarted |
| MainRuns | MainSequenceAlwaysRuns |
| CommandAlone | CommandRunsAlone |
| EmergencyIsLatched | EmergencyLatched |
| FailedStaysDown | FailedSequenceStaysDown |
| Implements | ImplementsStateMachine |

The invariant.  None of the properties is inductive.  `TypeOK` needs to know that
a running executor runs a sequence of its own kind (else `Program(x)` has no
meaning), that only a waiting one has a delay, and that `ctx` names a state
while `tickStateSequence()` is inside its executor's tick: with these it is
`TInv`.  `StateInv` adds what ties the state executor to the controller: a
running state sequence is started, loops exactly if its state does, and belongs
to the state unless it has a move of its own or is ERROR's in EMERGENCY, and,
between the executor's tick and its evaluation, `ctx` is stale only in the same
way.  The second half is what carries the first across `StateStart`.  The lemmas
sort the actions by what they do to the state executor: leave it alone, stop it,
or make it take a step of its own, and treat each sort once.  `CommandInv` and
`BootInv` do the same for the command executor and for the time before
`applicationInit()` has returned.  `Implements` maps every step to a step of
`ControllerStateMachine` or to a stutter; the refinement mapping reads "OFF"
while `pc = "boot"`.

### CanMessenger_proofs

| theorem | property |
|---|---|
| MessengerStaysTyped | TypeOK |
| CountersStayAgreed | CountersAgree |
| NoMessageIsLost | MessagesAccountedFor |
| OnlyRetriesOvertaken | OnlyRetriesAreOvertaken |
| HeadersStayOwn | FramesKeepTheirHeader |
| FlagIsTold | FlagTellsState |

They hold for every queue size, class set and number of messages, and also in the
behaviours which the run cuts off with `Intact` and `LastOverflows`.
`MessengerInvariant` joins four invariants:

* `TypeInv` adds `Room` to the types: a message in hand was taken out of the
  queue or not yet added to it, so the queue has a slot for it, and
  `processQueueFromTick()` is within its bound.
* `DriverInv` adds `OneSender`: as long as no transmission was given up, frames
  and interrupts are outstanding only while the driver is busy, or about to say
  so.  A main loop that saw it ready is therefore alone; an interrupt that
  overwrites the header has left it busy.  `FlagFollows` and `KickFollows` say of
  the two lines between `can_state_` and the flag, at a hand-over and at the end of
  a recovery, what an interrupt there leaves behind.
* `CountersInv` says that what was read of `tail` and `count` is still true at
  the write, unless the interrupt used the queue between.
* `ContentsInv` holds until an insertion is interrupted or shifts past slot 0:
  the queue is sorted, without duplicates and in order of arrival within a
  class, items put back excepted (`Sound`); and the messages in the queue, in
  hand and gone are disjoint and all there are (`InOnePlace`).

Below them are the lemmas of `PriorityRing_proofs`, about rings of any items that
have a priority: where the i-th item lies, what each position holds after an
insertion that does not stray (`PlacedContents`) and after a removal
(`DequeuedContents`), that both keep a ring sorted and without duplicates, and
what becomes of the numbers in it.

### CanReceiver_proofs

| theorem | property |
|---|---|
| ReceiverStaysTyped | TypeOK |
| NoFrameIsLost | FramesAccountedFor |
| FramesKeepTheirOrder | HandledInOrder |

The same ring, filled by the interrupt and emptied by the main loop.  `TypeInv`
adds that `head`, `tail` and `count` agree, that FIFO 0 is never used, and that
whatever lies between head and tail was once a frame: the last also after a shift
past slot 0.  `OrderInv` says that the frames in FIFO 1 are the latest, numbered
without a gap, and, until such a shift (`InOnePlace`), that those read from it
are in the queue once or gone, that the queue is sorted and has the frames of a
class in the order of their arrival, and that the frame of a class handled last
is older than all of its class still queued.  `HandledInOrder`, about one step,
follows from the last clause alone, which needs all the others.

### Bootloader_proofs and FlashingSession_proofs

| theorem | property |
|---|---|
| BoardStaysTyped | BoardTypeOK |
| OpenOnlyInSession | UnlockedOnlyInProgress |
| TouchedOnlyInSession | TouchedOnlyInProgress |
| WordsStayHome | NoForeignWords |
| SessionImplementsBoard | the board in a session is the board of `Bootloader` |
| SessionStaysTyped | TypeOK of the composition |
| SessionIsSafe | the three safety properties above, in every session |
| NoHolesEver | NoHoles |
| AcknowledgedStay | AcknowledgedWordsAreSafe |
| CompleteIsWhole | CompleteMeansWhole |

A write or an erase is several steps, and what its end does depends on what its
beginning put into `todo`.  `BoardInv` therefore adds to the types `WriteLeadsOn`
(where a metadata write goes on, and that one before an erase writes IN_PROGRESS)
and `EraseInArea` (the page of an erase under way is even and inside the area
chosen).  `LockInv` adds that an erase begins only with IN_PROGRESS on the page;
only with it is the lock inductive, because the erase unlocks on the strength of
a page written steps before.  `NoForeignWords` needs that a pending word is
programmed only at its own address with its own neighbour or padding.  All of it
holds for an environment that sends anything, on both links; the programmer is
one such environment, which `SessionImplementsBoard` states: every step of a
session is a step of `Bootloader` or leaves the board alone.

The last three theorems are about both ends and all that is under way between
them: for any images, queue lengths, numbers of sessions, tries and stray commands,
and with power losses.  Their invariant, `SessionWhole`, has four parts: `BoardInv`,
`HostInv` (what the programmer has in mind), `PlaceInv` and `SessionInv`.
`PlaceInv` holds whatever fails: it says where in its code a board stands that has
a session or is about to begin one, and that an erase has left nothing of the pages
behind it.  `SessionInv` is claimed while no flash operation has failed, since a
board goes on after a failed erase (section 5):

* `Layout`: pairs are erased or written whole, and whatever word is held, in the
  flash or waiting for its pair, has the whole area before it in the flash;
* `WordsFit`: a data word in the inbox or taken from it is the next one the board
  needs or the last one again, or belongs to an area of which the board holds
  nothing.  It is what makes a repeated or late word harmless;
* `InboxOrdered`: words arrive in the order of their addresses, behind the command
  that names the area, and nothing comes before the programmer has asked for it;
* `Beginnings`: while a command that names an area is still about, a session may
  begin anew, so the programmer is at its first word and has none acknowledged;
* `HostBehind`: the programmer is never ahead of the board and at most one word
  behind it.

No part is inductive without the others: a session begun by a leftover command,
for instance, erases what the programmer believes written unless `Beginnings`
denies it an acknowledged word.

The proof attempt refuted an earlier form of `CompleteMeansWhole`, which did not
ask what the programmer was doing.  TLC had found nothing in the bounds of
`programming`; with three sessions, a stray start command and ready commands
sent twice it finds a behaviour of 59 steps.  It is described in section 5; the
property now excludes a programmer that has not been answered or has given up.

### UsbLink_proofs

| theorem | property |
|---|---|
| BuffersHold | TypeOK |
| TransfersStayWhole | TransferStaysWhole |
| OnlyResetsStick | StuckOnlyAfterReset |
| PacketsArriveOnce | PacketsHandledOnce |
| RequestsAreKept | RequestsAccountedFor |
| StaleOncePerReset | StaleOnlyAfterReset |
| HostGetsAll (`UsbOrder_proofs`) | DeliveredInOrder |

`LinkInv` says why `tx_buffer` needs no lock: a transfer out of it keeps the flag
down from start to end, and `StartTransmit` is reached only with the flag up.
`RxInv` says of every packet not exposed either that it waits, in the size and
buffer or in `read()`, in the way its step allows, or that all handled after it
are later.  `ReplyInv` says a request is settled at every step of `tick()`, also
while its reply is with `write()`, and that what `write()` holds is the reply
pending.

`StaleInv` counts: handled twice, plus debts, is at most the number of resets.  A
debt is a second handling to come, and it is in one of three places: a size that
will make `read()` take the same packet again (`KeptToRead`), a packet handled
before that `read()` has in hand (`OldTaken`), or a class that receives into the
callback's buffer after a reset (`ToUserBuffer`).  Only a reset makes a new one;
every other step pays a debt or moves it.

`DeliveredInOrder` rests on three more invariants of a link that is not reset.
`LineInv`: nothing waits before the device is configured, and the flag is down
only while a transfer starts or is under way, which is why
`startTransmitInterrupt()` refuses nothing.  `FreshInv`: no message is accepted
twice, because a request is handled once and its reply is cleared as it is
accepted.  `OrderInv`: there is a k such that the first k messages accepted have
left, whole (`Split(k)`), and those after them are what waits; an overflow gives
up exactly these, and none that has left, since no message occurs twice.  The
property compares with a flattened sequence.  What is needed of `FlattenSeq`,
that one more sequence is appended and that empty ones do not count, is proved by
the least-number principle over the set of lengths for which it holds, without an
induction theorem that takes an operator.

### Left to the model checker

Liveness, which needs fairness and ENABLED: `OneShotStateIsLeft`,
`MainLoopReturns`, `BusyIsLeft`, `QueueDrains`, `FifosAreEmptied`,
`QueueIsHandled`, `SuccessIsFlashed`, `BoardSettles` and `PendingLeaves`.  The
properties of section 6 are refuted, not proved.

## 5. What the models establish about the code

CAN:

* A message is lost or sent twice only after the retry of `processQueueFromTick()`
  was interrupted in `insertTxWithPriority()`, or after a shift past slot 0.
  Otherwise each is queued once, in hand, sent, or cleared.
* Only a full queue clears messages, all of them.
* A message is overtaken by a later one of its class only if it was put back:
  with two messages queued this happens in every tick, because the first makes
  the driver busy and the second is taken out, refused, and put back one class
  down (or, of the default class, one class up).
* Except between the writes of the two, the flag tells whether the driver is ready,
  but for two interrupts.  The driver stays ready but not available only if the
  completion interrupt came between lines 676 and 677 of `comm_interface.cpp` with nothing queued.  No
  timeout ends that: `recoverStuckTransmit()` sees neither BUSY_TX nor ERROR, and
  transmission resumes when the queue overflows and is cleared.
* It stays busy but available only if the interrupt came between `can_state_ = READY` (line 824) and the flag (line 746) of a recovery
  and sent a message.  If that frame completes, all is well.  If it does not, each
  tick finds the driver available, asks for no recovery and puts its message back;
  the transmission is given up when the queue overflows.
* Otherwise a transmission that does not complete is given up after the timeout,
  whether the frame was lost, its completion was missed or the bus is dead.
* A completion that comes before `can_state_ = BUSY_TX` costs the timeout, no
  more.
* The main loop's `tx_header_` is overwritten by an interrupt in between, but then
  the interrupt has sent and the main loop finds the driver busy.  The data of a
  message leaves under the identifier of another only when a recovery has given
  up a transmission that is still about: a frame that survived its abort, its
  interrupt, or a refusal within the interrupt.
* Because both rings are kept sorted, the search for the most urgent item in
  `dequeueTxMessage()` always ends at the head until one of the holes is hit.

USB:

* A message behind a busy link that overflows the buffer takes with it all that
  waits there, replies that were reported as written included: `BluewhiteUsbComm`
  has already cleared them and does not try again.
* After a bus reset in the middle of a transfer nothing sets the transmit flag
  again.  What is written waits until a message overflows the buffer; then
  `comm_->write()`, which asks for no flag, transmits it from where it is.
* That transfer is the only one whose bytes may change under way: the next
  message is put at the start of the same buffer at once.
* A packet is lost only if it comes within `read()`, between the size it reads and
  the size it clears, or over a bus reset; and after a reset the packet handled
  last is handled once more, because the interrupt received into another buffer.
* `startTransmitInterrupt()` refuses nothing on a link that is not reset, so the
  bytes dropped after a refusal (`comm_interrupts_handler.cpp:25`) are lost only then.

Bootloader and programmer:

* With a flash that works, lost and repeated messages leave no hole in an image,
  a word reaches the flash only at its own address, and PROGRAMMING_COMPLETE means
  the whole image of a programmer that the board has answered.  The last word of an odd image is flushed by a session
  that times out as well as by the done command, so it costs nothing that the
  programmer does not look at the result of `sendFinish()`.
* The command that names the area is not acknowledged, so a programmer whose start
  command was answered sends its words without knowing which area was erased.  If
  such a command of an earlier session is still in the queue, the board erases the
  earlier area and takes the words for the new one, which it acknowledges all the
  same; with the new area already erased they are programmed, otherwise they are
  not.  The done command then marks the board FLASHED although the earlier area is
  empty.  `NoHoles` and `AcknowledgedWordsAreSafe` speak only of a board whose area
  is the programmer's, and `CompleteMeansWhole` of a programmer with an answer.
* The board does not compare the address of a data word with the area of its
  session.  A word above the last one is taken wherever it lies in flash, and
  programmed if it happens to be erased there.
* A word whose pair cannot be programmed is acknowledged, and a session whose
  erase failed goes on: the properties about whole images are stated of a flash
  that works.
* A command other than start in WAITING_FOR_COMMAND leaves
  `is_programming_command_received_` set, which keeps both timeouts from starting
  the application until a start command or a reset comes (`IsDeaf`).
* ERROR_STATE with no area chosen, a CAN interface that did not start, marks the
  board FLASHED whatever is in the flash; then it jumps.
* A session that times out in the turn in which the second boot timeout is due
  becomes ERROR_STATE and then at once JUMP_TO_APP: `handleErrorState()`, which
  locks the flash and marks the page, is left out, and the application starts with
  the flash control register open and the page IN_PROGRESS until it rewrites it.
* A board without an application writes the metadata page at every boot timeout:
  each failed jump ends in `resetToWaitingForCommand()`.

## 6. Where the code and its documents differ

1. *A transition state's sequence runs once on entry* (the configuration tool).
   INIT's sequence with MOVE_TO_ERROR_STATE is started again, in ERROR, by the
   same tick that executed the move (`transition_once`).
2. *A repeatable state's sequence runs every tick while active.*  If MANUAL's
   sequence moves to EMERGENCY, it is restarted in EMERGENCY, and its second move
   leaves `state_sequence_started_` set: EMERGENCY's own sequence never starts
   (`emergency_runs`).
3. The same claim: one failed step stops a repeatable sequence for as long as
   the state lasts (`manual_runs`).
4. *High priority messages go to RxFifo0, low priority to RxFifo1*: every frame
   goes to FIFO 1 (`can_fifo`).
5. *The boot timeout is restarted to prevent a premature jump*
   (`bootloader_main.cpp:408`): PROGRAMMING_COMPLETE is no programming flow to
   `isInProgrammingFlow()`, so the timeout that is due in the same turn leaves for
   the application before FLASHED is written (`premature_jump`).

## 7. Not modelled, and what is left

Next, in this order: the pending metadata reply over CAN; `CanReceiver` composed
with `GpcController`, so that state commands reach the controller in their order.

Left out, and why:

* *Vendored and generated code.*  HAL, CMSIS and the USB middleware, three copies
  of each, are nearly all of the repository's 469,000 lines, and most of those are
  register definitions.  What the firmware uses of them is modelled from its use;
  only the functions of the CDC class that call the application, or decide what it
  sees after a reset, are translated (`UsbLink`).
* *Safety pulse.*  Whether a phase stays inside the window of the external
  watchdog depends on the length of a pass of the main loop and on the window:
  neither is in the repository, so there is nothing to compare.
* *Analog inputs.*  A missed half of a DMA buffer changes an average, on which no
  control of the model depends.
* *Telemetry schedules, variables, raw CAN buses, GPIO and PWM.*  Values and
  periods no property tells apart; conditions over them are a choice in
  `GpcController`, what is due is a choice in `UsbLink`.
* *The programmer's files and framing, metadata versions and component ids*: data
  that selects no other step than those modelled.
* *The Bluelink library*, whose sources are not in the repository.
* *Statistics and logging, the editor and the packet logger*, which keep no state
  of the firmware, and public functions of `CanMessenger` without a caller.
