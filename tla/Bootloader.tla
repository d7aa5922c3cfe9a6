----------------------------- MODULE Bootloader -----------------------------
(* BootloaderMain with the metadata page and the flash it programs, run      *)
(* against any environment: any programming command may arrive at any time,  *)
(* on either link, and power may fail between any two steps.  One turn of    *)
(* BootloaderMain::run() is the sequence of program counters                 *)
(*   state -> timeouts -> tx -> rx -> state,                                 *)
(* and each flash operation is a step of its own, so that an interrupt or a  *)
(* power loss falls between any two of them.  The application is modelled as *)
(* far as it touches the same flash: it rewrites the metadata when it starts *)
(* and hands over to the bootloader on a start command.                      *)
EXTENDS FlashMemory, Sequences

CONSTANTS BootTimeout, ForceTimeout, ProgrammingTimeout, \* the three timeouts
          InboxSize, OutboxSize,   \* messages in flight, each way
          MaxMishaps               \* power losses, and failing flash operations
                                   \* and CAN starts, together

ASSUME BoundsAssumption ==
  /\ BootTimeout \in Nat \ {0} /\ ForceTimeout \in Nat \ {0}
  /\ ProgrammingTimeout \in Nat \ {0}
  /\ InboxSize \in Nat /\ OutboxSize \in Nat
  /\ MaxMishaps \in Nat

VARIABLES
  flash,     \* both areas, word by word
  meta,      \* MetaData.programming_state in the metadata page
  unlocked,  \* the flash control register is unlocked
  pc,        \* where the board is
  todo,      \* a metadata write, or an area erase, under way
  ram,       \* the members of BootloaderMain
  age,       \* time since each SchedulerOnce was restarted, up to its period
  inbox,     \* messages to the board, on the link or in its receive queue
  outbox,    \* replies of the board on the link
  losses, faults

vars == <<flash, meta, unlocked, pc, todo, ram, age, inbox, outbox, losses, faults>>
-----------------------------------------------------------------------------
NoAddress == -1   \* a marker instead of an address: below every flash address
Links     == {"can", "usb"}
AreaOrNone == Areas \cup {"none"}

\* A programming command carries a marker or a flash address with its word;
\* the word of an image is named by its address, so the address stands for
\* both.  "toApp" is a start command addressed to the application.
Kinds    == {"start", "app", "config", "data", "checksum", "done", "toApp"}
Messages == [kind : Kinds, addr : Addresses \cup {NoAddress}, link : Links]
Message(kind, addr, link) == [kind |-> kind, addr |-> addr, link |-> link]
NoMessage == Message("toApp", NoAddress, "can")

\* MetaData.programming_state; "blank" is the page as an erase leaves it and
\* "unset" the page written back with the blank state.
MetaStates == {"WAIT_FOR_PROGRAM", "PROGRAMMING_COMMAND", "IN_PROGRESS",
               "FLASHED", "blank", "unset"}

BootloaderStates ==
  {"INIT", "WAITING_FOR_COMMAND", "PROGRAMMING_READY",
   "WAITING_FOR_PROGRAMMING_READY", "PROGRAMMING_IN_PROGRESS",
   "PROGRAMMING_COMPLETE", "ERROR_STATE", "JUMP_TO_APP"}

Counters == {"state", "decide", "readyTimers", "restart", "prepare", "erase",
             "metaErase", "metaProgram", "timeouts", "tx", "rx",
             "app", "appLoop", "reset"}

NothingToDo == [meta |-> "blank", next |-> "state", page |-> 0]

\* The members of BootloaderMain after its constructor; a CAN interface that
\* does not start leaves the bootloader in ERROR_STATE.
PoweredOn(state) ==
  [boot |-> state, area |-> "none", received |-> FALSE, command |-> NoMessage,
   last |-> NoAddress, pending |-> NoAddress, reply |-> NoMessage,
   replying |-> FALSE, heard |-> FALSE, link |-> "can"]

NewTimers == [boot |-> 0, force |-> 0, programming |-> 0]
-----------------------------------------------------------------------------
\* Any operation may succeed, and may fail instead.
MayFail == losses + faults < MaxMishaps
Outcome(ok) ==
  /\ ok \/ MayFail
  /\ faults' = IF ok THEN faults ELSE faults + 1

\* writeDataToFlash() begins: the state to write and where the caller goes on.
WriteMetaData(state, next) ==
  /\ todo' = [meta |-> state, next |-> next, page |-> 0]
  /\ pc' = "metaErase"

\* ... unlocks and erases the page; when that fails it locks and gives up.
EraseMetaData ==
  /\ pc = "metaErase"
  /\ \E ok \in BOOLEAN :
       /\ Outcome(ok)
       /\ meta' = IF ok THEN "blank" ELSE meta
       /\ unlocked' = ok
       /\ pc' = IF ok THEN "metaProgram" ELSE todo.next
       /\ todo' = IF ok THEN todo ELSE NothingToDo
  /\ UNCHANGED <<flash, ram, age, inbox, outbox, losses>>

\* mutant: the control register is left unlocked after the metadata.
ProgramMetaDataUnlocked ==
  /\ pc = "metaProgram"
  /\ \E ok \in BOOLEAN :
       /\ Outcome(ok)
       /\ meta' = IF ok THEN todo.meta ELSE meta
  /\ pc' = todo.next
  /\ todo' = NothingToDo
  /\ UNCHANGED <<flash, unlocked, ram, age, inbox, outbox, losses>>

\* ... and programs it and locks; no caller looks at the result.
ProgramMetaData ==
  /\ pc = "metaProgram"
  /\ \E ok \in BOOLEAN :
       /\ Outcome(ok)
       /\ meta' = IF ok THEN todo.meta ELSE meta
  /\ unlocked' = FALSE
  /\ pc' = todo.next
  /\ todo' = NothingToDo
  /\ UNCHANGED <<flash, ram, age, inbox, outbox, losses>>

\* flashProgram() of one double word: it fails on a locked, misaligned or used
\* one, and may fail by a fault.
FlashProgram(a, second, ok) ==
  /\ ok => unlocked /\ Programmable(flash, a)
  /\ ok \/ ~unlocked \/ ~Programmable(flash, a) \/ MayFail
  /\ flash' = IF ok THEN Programmed(flash, a, a, second) ELSE flash
  /\ faults' = IF ok \/ ~unlocked \/ ~Programmable(flash, a) THEN faults ELSE faults + 1

\* mutant: the pending word is forgotten.
FlushNothing(ok) == ok /\ UNCHANGED <<flash, faults>>

\* The pending first word is programmed with zero behind it; result ok.
FlushPending(ok) ==
  IF ram.pending = NoAddress THEN ok /\ UNCHANGED <<flash, faults>>
                             ELSE FlashProgram(ram.pending, Zero, ok)
-----------------------------------------------------------------------------
\* isInProgrammingFlow(), on the members r.
IsInProgrammingFlow(r) ==
  \/ r.boot \in {"PROGRAMMING_READY", "WAITING_FOR_PROGRAMMING_READY",
                 "PROGRAMMING_IN_PROGRESS"}
  \/ r.received
  \/ meta = "PROGRAMMING_COMMAND"

IsDue(timer) ==
  age[timer] = CASE timer = "boot"        -> BootTimeout
                 [] timer = "force"       -> ForceTimeout
                 [] timer = "programming" -> ProgrammingTimeout

Reply(r, kind, addr, link) ==
  [r EXCEPT !.reply = Message(kind, addr, link), !.replying = TRUE]

ResetToWaitingForCommand(r, next) ==
  /\ WriteMetaData("WAIT_FOR_PROGRAM", next)
  /\ ram' = [r EXCEPT !.boot = "WAITING_FOR_COMMAND", !.received = FALSE,
                      !.area = "none"]
  /\ age' = [age EXCEPT !.boot = 0]
  /\ UNCHANGED inbox

\* exitBootloader() stops both links and the jump leaves this program.
StartApplication ==
  /\ pc' = "app"
  /\ ram' = PoweredOn("INIT") /\ age' = NewTimers /\ inbox' = <<>>
  /\ UNCHANGED todo

\* jumpToApplication() with the members r, looking at the given flash.
JumpToApplication(force, image, r, next) ==
  LET allowed == force \/ (IsApplicationPresent(image) /\ meta = "FLASHED")
  IN  \/ allowed /\ HasResetVector(image) /\ StartApplication
      \/ ~(allowed /\ HasResetVector(image)) /\ ResetToWaitingForCommand(r, next)
-----------------------------------------------------------------------------
\* The state handlers: one of them runs at the top of each turn.
InState(state) == pc = "state" /\ ram.boot = state

\* handleInitState(): a page without this bootloader's version is rewritten,
\* with whatever state it holds.
HandleInit ==
  /\ InState("INIT")
  /\ IF meta = "blank" THEN WriteMetaData("unset", "decide")
                       ELSE pc' = "decide" /\ UNCHANGED todo
  /\ UNCHANGED <<flash, meta, unlocked, ram, age, inbox, outbox, losses, faults>>

DecideInit ==
  /\ pc = "decide"
  /\ pc' = "timeouts"
  /\ ram' = [ram EXCEPT !.boot = IF meta = "PROGRAMMING_COMMAND"
                                 THEN "PROGRAMMING_READY" ELSE "WAITING_FOR_COMMAND"]
  /\ UNCHANGED <<flash, meta, unlocked, todo, age, inbox, outbox, losses, faults>>

\* handleWaitingForCommandState(): a command flagged in an earlier state counts
\* when a start command has replaced it.
HandleWaitingForCommand ==
  LET started == ram.received /\ ram.command.kind = "start"
  IN  /\ InState("WAITING_FOR_COMMAND")
      /\ pc' = "timeouts"
      /\ ram' = [ram EXCEPT !.boot = IF started THEN "PROGRAMMING_READY" ELSE @,
                            !.received = @ /\ ~started]
      /\ UNCHANGED <<flash, meta, unlocked, todo, age, inbox, outbox, losses, faults>>

\* handleProgrammingReadyState(): the start reply goes to the last sender, or
\* over USB when nothing was heard since power-on; time may pass between the
\* restart of the programming timer and that of the two others.
HandleProgrammingReady ==
  /\ InState("PROGRAMMING_READY")
  /\ ram' = Reply(ram, "start", NoAddress, IF ram.heard THEN ram.link ELSE "usb")
  /\ age' = [age EXCEPT !.programming = 0]
  /\ pc' = "readyTimers"
  /\ UNCHANGED <<flash, meta, unlocked, todo, inbox, outbox, losses, faults>>

ResetTimeout ==
  /\ pc = "readyTimers"
  /\ age' = [age EXCEPT !.boot = 0, !.force = 0]
  /\ ram' = [ram EXCEPT !.boot = "WAITING_FOR_PROGRAMMING_READY"]
  /\ pc' = "timeouts"
  /\ UNCHANGED <<flash, meta, unlocked, todo, inbox, outbox, losses, faults>>

\* handleWaitingForProgrammingReadyState(): the metadata, then the erase.
IsProgrammingReadyCommand == ram.received /\ ram.command.kind \in Areas

\* mutant: the area is erased without a word in the metadata.
EraseUnmarked ==
  /\ InState("WAITING_FOR_PROGRAMMING_READY")
  /\ IF IsProgrammingReadyCommand
     THEN /\ ram' = [ram EXCEPT !.received = FALSE, !.area = ram.command.kind]
          /\ pc' = "prepare"
     ELSE pc' = "timeouts" /\ UNCHANGED ram
  /\ UNCHANGED <<flash, meta, unlocked, todo, age, inbox, outbox, losses, faults>>

HandleWaitingForProgrammingReady ==
  /\ InState("WAITING_FOR_PROGRAMMING_READY")
  /\ \/ /\ IsProgrammingReadyCommand
        /\ ram' = [ram EXCEPT !.received = FALSE, !.area = ram.command.kind]
        /\ WriteMetaData("IN_PROGRESS", "prepare")
     \/ /\ ~IsProgrammingReadyCommand
        /\ pc' = "timeouts" /\ UNCHANGED <<ram, todo>>
  /\ UNCHANGED <<flash, meta, unlocked, age, inbox, outbox, losses, faults>>

\* mutant: the first page of the area is left out.
PreparePastFirst ==
  /\ pc = "prepare"
  /\ unlocked' = TRUE
  /\ todo' = [NothingToDo EXCEPT !.page = AreaStart(ram.area) + 2]
  /\ pc' = "erase"
  /\ UNCHANGED <<flash, meta, ram, age, inbox, outbox, losses, faults>>

\* prepareFlashForProgramming() unlocks and erases the area page by page.
PrepareFlash ==
  /\ pc = "prepare"
  /\ unlocked' = TRUE
  /\ todo' = [NothingToDo EXCEPT !.page = AreaStart(ram.area)]
  /\ pc' = "erase"
  /\ UNCHANGED <<flash, meta, ram, age, inbox, outbox, losses, faults>>

\* The new session begins whether or not the erase succeeded; only after a
\* complete one is the pending word of the previous session forgotten.
BeginSession(keep) ==
  /\ ram' = [ram EXCEPT !.boot = "PROGRAMMING_IN_PROGRESS", !.last = NoAddress,
                        !.pending = IF keep THEN @ ELSE NoAddress]
  /\ age' = [age EXCEPT !.programming = 0]
  /\ pc' = "timeouts"
  /\ todo' = NothingToDo

ErasePage ==
  /\ pc = "erase"
  /\ \E ok \in BOOLEAN :
       /\ Outcome(ok)
       /\ flash' = IF ok THEN PageErased(flash, todo.page) ELSE flash
       /\ unlocked' = ok
       /\ \/ ok /\ todo.page + 2 < AreaEnd(ram.area)
             /\ todo' = [todo EXCEPT !.page = @ + 2]
             /\ UNCHANGED <<pc, ram, age>>
          \/ ok /\ todo.page + 2 >= AreaEnd(ram.area) /\ BeginSession(FALSE)
          \/ ~ok /\ BeginSession(TRUE)
  /\ UNCHANGED <<meta, inbox, outbox, losses>>
-----------------------------------------------------------------------------
\* handleProgrammingInProgressState(): every command it handles clears the
\* flag and restarts the programming timer, which the code does last.
Handling(kind) ==
  /\ InState("PROGRAMMING_IN_PROGRESS") /\ ram.received
  /\ ram.command.kind = kind
  /\ age' = [age EXCEPT !.programming = 0]
  /\ UNCHANGED <<inbox, outbox, losses>>
Taken == [ram EXCEPT !.received = FALSE]

NothingReceived ==
  /\ InState("PROGRAMMING_IN_PROGRESS") /\ ~ram.received
  /\ pc' = "timeouts"
  /\ UNCHANGED <<flash, meta, unlocked, todo, ram, age, inbox, outbox, losses, faults>>

\* mutant: the session completes with its last word still pending.
DoneWithoutFlush ==
  /\ Handling("done")
  /\ ram' = [Reply(Taken, "done", NoAddress, ram.link) EXCEPT
               !.pending = NoAddress, !.last = NoAddress, !.boot = "PROGRAMMING_COMPLETE"]
  /\ unlocked' = FALSE
  /\ pc' = "timeouts"
  /\ UNCHANGED <<flash, meta, todo, faults>>

\* handleProgrammingDone(): a word that cannot be flushed stays pending, and
\* the reply is the same.
HandleProgrammingDone ==
  /\ Handling("done")
  /\ \E ok \in BOOLEAN :
       /\ FlushPending(ok)
       /\ ram' = [Reply(Taken, "done", NoAddress, ram.link) EXCEPT
                    !.pending = IF ok THEN NoAddress ELSE @,
                    !.last = NoAddress, !.boot = "PROGRAMMING_COMPLETE"]
  /\ unlocked' = FALSE
  /\ pc' = "timeouts"
  /\ UNCHANGED <<meta, todo>>

\* handleProgrammingRestart(): a start command that replaced a flagged one.
\* The code resets the programming state twice.
HandleProgrammingRestart ==
  /\ Handling("start")
  /\ unlocked' = FALSE
  /\ ram' = [Taken EXCEPT !.pending = NoAddress, !.last = NoAddress]
  /\ WriteMetaData("PROGRAMMING_COMMAND", "restart")
  /\ UNCHANGED <<flash, meta, faults>>

RestartAgain ==
  /\ pc = "restart"
  /\ unlocked' = FALSE
  /\ ram' = [ram EXCEPT !.boot = "INIT"]
  /\ WriteMetaData("PROGRAMMING_COMMAND", "timeouts")
  /\ UNCHANGED <<flash, meta, age, inbox, outbox, losses, faults>>

\* handleProgrammingChecksum(): the marker becomes the last address.
HandleProgrammingChecksum ==
  /\ Handling("checksum")
  /\ ram' = [Reply(Taken, "checksum", NoAddress, ram.link) EXCEPT !.last = NoAddress]
  /\ pc' = "timeouts"
  /\ UNCHANGED <<flash, meta, unlocked, todo, faults>>

\* handleDataProgramming(): an address outside the flash areas (the marker of
\* a ready command among them) or not above the last one gets no answer.
IsStaleData == ram.command.addr \notin Addresses \/ ram.command.addr <= ram.last

IgnoreData ==
  /\ \E kind \in {"data"} \cup Areas : Handling(kind)
  /\ IsStaleData
  /\ ram' = Taken
  /\ pc' = "timeouts"
  /\ UNCHANGED <<flash, meta, unlocked, todo, faults>>

\* processDoubleWordProgramming(): the second word of a pair is programmed with
\* the first; a word that does not pair, or a pair that cannot be programmed,
\* makes the new word the first one, and it is acknowledged all the same.
\* mutants: any word completes the pair; the pair is one word early.
IsAnyWord       == ram.pending # NoAddress
IsFirstWordOnly == ram.pending # NoAddress /\ ram.command.addr = ram.pending

IsSecondWord == ram.pending # NoAddress /\ ram.command.addr = ram.pending + 1

ProgramData ==
  LET a == ram.command.addr
      Acknowledged(pending) == [Reply(Taken, "data", a, ram.link) EXCEPT
                                  !.last = a, !.pending = pending]
  IN  /\ Handling("data")
      /\ ~IsStaleData
      /\ \/ /\ IsSecondWord
            /\ \E ok \in BOOLEAN :
                 /\ FlashProgram(ram.pending, a, ok)
                 /\ ram' = Acknowledged(IF ok THEN NoAddress ELSE a)
         \/ /\ ~IsSecondWord
            /\ ram' = Acknowledged(a)
            /\ UNCHANGED <<flash, faults>>
      /\ pc' = "timeouts"
      /\ UNCHANGED <<meta, unlocked, todo>>

HandleProgrammingInProgress ==
  NothingReceived \/ HandleProgrammingDone \/ HandleProgrammingRestart
    \/ HandleProgrammingChecksum \/ IgnoreData \/ ProgramData
-----------------------------------------------------------------------------
HandleProgrammingComplete ==
  /\ InState("PROGRAMMING_COMPLETE")
  /\ unlocked' = FALSE
  /\ WriteMetaData("FLASHED", "timeouts")
  /\ ram' = [ram EXCEPT !.boot = "JUMP_TO_APP"]
  /\ UNCHANGED <<flash, meta, age, inbox, outbox, losses, faults>>

\* handleErrorState(): the pending word is flushed once more, and the metadata
\* waits for a program when this session had chosen an area.
HandleError ==
  /\ InState("ERROR_STATE")
  /\ \E ok \in BOOLEAN : FlushPending(ok)
  /\ unlocked' = FALSE
  /\ WriteMetaData(IF ram.area \in Areas THEN "WAIT_FOR_PROGRAM" ELSE "FLASHED", "timeouts")
  /\ ram' = [ram EXCEPT !.pending = NoAddress, !.boot = "JUMP_TO_APP"]
  /\ UNCHANGED <<meta, age, inbox, outbox, losses>>

HandleJumpToApp ==
  /\ InState("JUMP_TO_APP")
  /\ JumpToApplication(TRUE, flash, ram, "timeouts")
  /\ UNCHANGED <<flash, meta, unlocked, outbox, losses, faults>>

\* mutant: only a session not begun yet times out.
QuietBeforeErase == ram.boot = "WAITING_FOR_PROGRAMMING_READY" /\ IsDue("programming")

IsQuiet == /\ ram.boot \in {"WAITING_FOR_PROGRAMMING_READY", "PROGRAMMING_IN_PROGRESS"}
           /\ IsDue("programming")

\* handleTimeouts(): a session that went quiet keeps its pending word, flushed
\* or not, and becomes an error; then the boot timeout applies to whatever the
\* first half, or the handler before it, has decided.
HandleTimeouts ==
  LET r == IF IsQuiet THEN [ram EXCEPT !.boot = "ERROR_STATE"] ELSE ram
      leaves == IsDue("boot") /\ ~IsInProgrammingFlow(r)
  IN  /\ pc = "timeouts"
      /\ \/ IsQuiet /\ \E ok \in BOOLEAN : FlushPending(ok)
         \/ ~IsQuiet /\ UNCHANGED <<flash, faults>>
      /\ \/ /\ ~leaves
            /\ ram' = r
            /\ pc' = "tx" /\ UNCHANGED <<age, todo, inbox>>
         \/ /\ leaves /\ IsDue("force")
            /\ ram' = [r EXCEPT !.boot = "JUMP_TO_APP"]
            /\ age' = [age EXCEPT !.boot = 0]
            /\ pc' = "tx" /\ UNCHANGED <<todo, inbox>>
         \/ /\ leaves /\ ~IsDue("force")
            /\ JumpToApplication(FALSE, flash', r, "tx")
      /\ UNCHANGED <<meta, unlocked, outbox, losses>>
-----------------------------------------------------------------------------
\* mutant: the reply leaves whether or not there is room for it.
SendReplyUnchecked(link, here, next) ==
  /\ pc = here
  /\ pc' = next
  /\ IF ram.replying /\ ram.reply.link = link
     THEN /\ outbox' = Append(outbox, ram.reply)
          /\ ram' = [ram EXCEPT !.replying = FALSE, !.reply = NoMessage]
     ELSE UNCHANGED <<outbox, ram>>
  /\ UNCHANGED <<flash, meta, unlocked, todo, age, inbox, losses, faults>>

\* A pending reply leaves on its link when there is room, and else stays.
SendReply(link, here, next) ==
  /\ pc = here
  /\ pc' = next
  /\ \/ /\ ram.replying /\ ram.reply.link = link /\ Len(outbox) < OutboxSize
        /\ outbox' = Append(outbox, ram.reply)
        /\ ram' = [ram EXCEPT !.replying = FALSE, !.reply = NoMessage]
     \/ /\ ~(ram.replying /\ ram.reply.link = link /\ Len(outbox) < OutboxSize)
        /\ UNCHANGED <<outbox, ram>>
  /\ UNCHANGED <<flash, meta, unlocked, todo, age, inbox, losses, faults>>

ProcessTxQueue == SendReply("can", "tx", "rx")

\* processProgrammingCommand(): the command always replaces the one before it.
ProcessProgrammingCommand(m) ==
  LET heard == [ram EXCEPT !.heard = TRUE, !.link = m.link, !.command = m]
      isStateCommand == m.kind \in {"start"} \cup Areas
      listening == {"WAITING_FOR_COMMAND", "WAITING_FOR_PROGRAMMING_READY"}
  IN  \/ /\ m.kind = "start" /\ ram.boot = "WAITING_FOR_COMMAND"
         /\ ram' = [heard EXCEPT !.boot = "PROGRAMMING_READY"]
      \/ /\ m.kind = "start" /\ ram.boot = "WAITING_FOR_PROGRAMMING_READY"
         /\ ram' = Reply(heard, "start", NoAddress, m.link)
      \/ /\ isStateCommand /\ ram.boot \notin listening
         /\ ram' = heard
      \/ /\ m.kind # "toApp"
         /\ m.kind # "start" /\ (isStateCommand => ram.boot \in listening)
         /\ ram' = [heard EXCEPT !.received = TRUE]
      \/ /\ m.kind = "toApp"      \* addressed to another component: filtered
         /\ UNCHANGED ram

\* The CAN queue is drained, then the USB one; a turn may take any number of
\* messages, as those left behind may also have come later.
ProcessRxQueuedMessage ==
  /\ pc = "rx" /\ inbox # <<>>
  /\ ProcessProgrammingCommand(Head(inbox))
  /\ inbox' = Tail(inbox)
  /\ UNCHANGED <<flash, meta, unlocked, pc, todo, age, outbox, losses, faults>>

HandlePendingUsbReplies == SendReply("usb", "rx", "state")
-----------------------------------------------------------------------------
\* applicationInit() rewrites the metadata page, which by default says FLASHED.
ApplicationInit ==
  /\ pc = "app"
  /\ WriteMetaData("FLASHED", "appLoop")
  /\ UNCHANGED <<flash, meta, unlocked, ram, age, inbox, outbox, losses, faults>>

\* The application's handler of a start command, and a reset.
ApplicationReceive ==
  /\ pc = "appLoop" /\ inbox # <<>>
  /\ inbox' = Tail(inbox)
  /\ \/ /\ Head(inbox).kind = "toApp"
        /\ WriteMetaData("PROGRAMMING_COMMAND", "reset")
     \/ /\ Head(inbox).kind # "toApp"
        /\ UNCHANGED <<pc, todo>>
  /\ UNCHANGED <<flash, meta, unlocked, ram, age, outbox, losses, faults>>

\* A reset: the bootloader's constructor runs.
Reset ==
  /\ \E ok \in BOOLEAN :
       /\ Outcome(ok)
       /\ ram' = PoweredOn(IF ok THEN "INIT" ELSE "ERROR_STATE")
  /\ pc' = "state" /\ todo' = NothingToDo
  /\ unlocked' = FALSE /\ age' = NewTimers /\ inbox' = <<>>
  /\ UNCHANGED <<flash, meta, outbox>>

MoveToBootloader == pc = "reset" /\ Reset /\ UNCHANGED losses

BoardStep ==
  \/ EraseMetaData \/ ProgramMetaData
  \/ HandleInit \/ DecideInit \/ HandleWaitingForCommand
  \/ HandleProgrammingReady \/ ResetTimeout
  \/ HandleWaitingForProgrammingReady \/ PrepareFlash \/ ErasePage
  \/ HandleProgrammingInProgress \/ RestartAgain
  \/ HandleProgrammingComplete \/ HandleError \/ HandleJumpToApp
  \/ HandleTimeouts
  \/ ProcessTxQueue \/ ProcessRxQueuedMessage \/ HandlePendingUsbReplies
  \/ ApplicationInit \/ ApplicationReceive \/ MoveToBootloader
-----------------------------------------------------------------------------
\* SysTick.  Time only matters where a timer is read or restarted; the two
\* timers that handleTimeouts() reads are read in one go.
Older(timer, limit) == IF age[timer] < limit THEN age[timer] + 1 ELSE limit

Tick ==
  /\ pc \in {"state", "readyTimers", "timeouts"}
  /\ age' = [boot |-> Older("boot", BootTimeout),
             force |-> Older("force", ForceTimeout),
             programming |-> Older("programming", ProgrammingTimeout)]
  /\ UNCHANGED <<flash, meta, unlocked, pc, todo, ram, inbox, outbox, losses, faults>>

PowerLoss ==
  /\ losses' = losses + 1
  /\ Reset
  /\ losses' + faults' <= MaxMishaps

\* The other end of the links.
Send(m) ==
  /\ Len(inbox) < InboxSize
  /\ inbox' = Append(inbox, m)
  /\ UNCHANGED <<flash, meta, unlocked, pc, todo, ram, age, outbox, losses, faults>>

Collect ==
  /\ outbox # <<>>
  /\ outbox' = Tail(outbox)
  /\ UNCHANGED <<flash, meta, unlocked, pc, todo, ram, age, inbox, losses, faults>>

\* It hangs up: what it has not collected goes nowhere.
DropReplies ==
  /\ outbox' = <<>>
  /\ UNCHANGED <<flash, meta, unlocked, pc, todo, ram, age, inbox, losses, faults>>

\* A board with an application or with none, and the metadata as linked.
Init ==
  /\ flash \in {[a \in Addresses |-> Old], [a \in Addresses |-> Erased]}
  /\ meta = "FLASHED" /\ unlocked = FALSE /\ pc = "state" /\ todo = NothingToDo
  /\ ram = PoweredOn("INIT") /\ age = NewTimers
  /\ inbox = <<>> /\ outbox = <<>> /\ losses = 0 /\ faults = 0

Next == \/ BoardStep \/ Tick \/ PowerLoss \/ Collect \/ DropReplies
        \/ \E m \in Messages : Send(m)

Spec == Init /\ [][Next]_vars
-----------------------------------------------------------------------------
Works == [meta : MetaStates, next : Counters, page : Addresses]
Members ==
  [boot : BootloaderStates, area : AreaOrNone, received : BOOLEAN, command : Messages,
   last : Addresses \cup {NoAddress}, pending : Addresses \cup {NoAddress},
   reply : Messages, replying : BOOLEAN, heard : BOOLEAN, link : Links]
Ages == [boot : 0 .. BootTimeout, force : 0 .. ForceTimeout,
         programming : 0 .. ProgrammingTimeout]

\* Type invariant of the board and its links.
BoardTypeOK ==
  /\ flash \in Flashes /\ meta \in MetaStates /\ unlocked \in BOOLEAN /\ pc \in Counters
  /\ todo \in Works /\ ram \in Members /\ age \in Ages
  /\ inbox \in Seq(Messages) /\ Len(inbox) <= InboxSize
  /\ outbox \in Seq(Messages) /\ Len(outbox) <= OutboxSize
  /\ losses \in Nat /\ faults \in Nat /\ losses + faults <= MaxMishaps

\* Both areas change only while the metadata page says IN_PROGRESS, so that a
\* power loss during a session always leaves a page that tells of it
\* (handleWaitingForProgrammingReadyState writes the page before the erase).
TouchedOnlyInProgress ==
  [][flash' # flash /\ faults' = 0 => meta = "IN_PROGRESS"]_vars

\* The flash control register is unlocked only then, the moment of a metadata
\* write apart: a stale pending word cannot reach the flash at any other time
\* (every path out of the session locks, or is on its way to).
UnlockedOnlyInProgress ==
  unlocked /\ faults = 0 /\ pc # "metaProgram" => meta = "IN_PROGRESS"

\* A word only ever reaches its own address, alone in its pair only with the
\* padding: no pending word of an earlier session and no second word of
\* another pair is programmed (processDoubleWordProgramming).
NoForeignWords ==
  \A a \in Addresses : flash[a] \in {Erased, Old, a} \/ (flash[a] = Zero /\ a % 2 = 1)

\* What the comment at the ready state promises ("to prevent premature jump"):
\* a session that completed is left for the application only by the handler
\* that marks it FLASHED, never by a timeout.  The code does not keep it.
NoPrematureJump ==
  [][ram.boot = "PROGRAMMING_COMPLETE" /\ ram'.boot = "JUMP_TO_APP"
       => todo'.meta = "FLASHED"]_vars
=============================================================================
