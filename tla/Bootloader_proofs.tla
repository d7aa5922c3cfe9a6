------------------------- MODULE Bootloader_proofs --------------------------
(* What the bootloader does in any environment, proved: whatever commands    *)
(* arrive, in whatever order and on whatever link, and whenever power fails. *)
(* The invariant that carries the proofs says where an erase may stand, and  *)
(* what the metadata page says while the flash control register is open.     *)
EXTENDS Bootloader, TLAPS

-----------------------------------------------------------------------------
(* The metadata writes that lead to an erase are those of a session, and the *)
(* pages of an erase are the pages of the area chosen.                       *)
WriteLeadsOn ==
  pc \in {"metaErase", "metaProgram"} =>
    /\ todo.next \notin {"erase", "metaErase", "metaProgram"}
    /\ todo.next = "prepare" => todo.meta = "IN_PROGRESS" /\ ram.area \in Areas
EraseInArea ==
  /\ pc = "prepare" => ram.area \in Areas
  /\ pc = "erase" => /\ ram.area \in Areas
                     /\ todo.page % 2 = 0
                     /\ todo.page + 2 <= AreaEnd(ram.area)
BoardInv == BoardTypeOK /\ WriteLeadsOn /\ EraseInArea

LEMMA Sizes ==
  /\ AppWords \in Nat /\ ConfigWords \in Nat
  /\ AppWords % 2 = 0 /\ ConfigWords % 2 = 0 /\ (AppWords + ConfigWords) % 2 = 0
  /\ AppWords >= 2 /\ ConfigWords >= 2
  /\ 0 \in Addresses /\ 1 \in Addresses /\ NoAddress \notin Addresses
BY AreasAssumption DEF Addresses, NoAddress

LEMMA AreaBounds ==
  ASSUME NEW area \in Areas
  PROVE  /\ AreaStart(area) \in Nat /\ AreaEnd(area) \in Nat
         /\ AreaStart(area) % 2 = 0 /\ AreaEnd(area) % 2 = 0
         /\ AreaStart(area) + 2 <= AreaEnd(area)
         /\ AreaEnd(area) <= AppWords + ConfigWords
BY Sizes DEF AreaStart, AreaEnd, Areas

(* The second word of a pair is in the flash when the first one is.         *)
LEMMA PairInside ==
  ASSUME NEW a \in Addresses, a % 2 = 0
  PROVE  a + 1 \in Addresses
BY Sizes DEF Addresses

LEMMA AddressesAreContents ==
  /\ \A a \in Addresses : a \in Contents /\ a \in Nat
  /\ Erased \in Contents /\ Zero \in Contents /\ Old \in Contents
BY Sizes DEF Contents, Addresses

(* A double word written with contents leaves a flash.                      *)
LEMMA ProgrammedIsFlash ==
  ASSUME NEW f \in Flashes, NEW a, NEW x \in Contents, NEW y \in Contents
  PROVE  Programmed(f, a, x, y) \in Flashes
BY DEF Programmed, Flashes

LEMMA MessagesBuilt ==
  /\ NoMessage \in Messages
  /\ \A kind \in Kinds, addr \in Addresses \cup {NoAddress}, link \in Links :
       Message(kind, addr, link) \in Messages
BY DEF NoMessage, Messages, Message, Kinds, Links

LEMMA MembersBuilt ==
  /\ PoweredOn("INIT") \in Members /\ PoweredOn("ERROR_STATE") \in Members
  /\ \A r \in Members, kind \in Kinds, addr \in Addresses \cup {NoAddress}, link \in Links :
       Reply(r, kind, addr, link) \in Members
<1>1. PoweredOn("INIT") \in Members /\ PoweredOn("ERROR_STATE") \in Members
  BY MessagesBuilt DEF PoweredOn, Members, BootloaderStates, AreaOrNone, Links
<1>2. ASSUME NEW r \in Members, NEW kind \in Kinds, NEW addr \in Addresses \cup {NoAddress},
             NEW link \in Links
      PROVE  Reply(r, kind, addr, link) \in Members
  BY MessagesBuilt DEF Reply, Members
<1> QED
  BY <1>1, <1>2

LEMMA TimersBuilt ==
  /\ NewTimers \in Ages
  /\ \A t \in Ages : /\ [t EXCEPT !.boot = 0] \in Ages
                     /\ [t EXCEPT !.programming = 0] \in Ages
                     /\ [t EXCEPT !.boot = 0, !.force = 0] \in Ages
<1>1. 0 \in 0 .. BootTimeout /\ 0 \in 0 .. ForceTimeout /\ 0 \in 0 .. ProgrammingTimeout
  BY BoundsAssumption
<1>2. ASSUME NEW t \in Ages
      PROVE  /\ [t EXCEPT !.boot = 0] \in Ages
             /\ [t EXCEPT !.programming = 0] \in Ages
             /\ [t EXCEPT !.boot = 0, !.force = 0] \in Ages
  BY <1>1 DEF Ages
<1> QED
  BY <1>1, <1>2 DEF NewTimers, Ages

LEMMA WorkBuilt ==
  /\ NothingToDo \in Works
  /\ \A state \in MetaStates, next \in Counters :
       [meta |-> state, next |-> next, page |-> 0] \in Works
BY Sizes DEF NothingToDo, Works, MetaStates, Counters

LEMMA InitBoardInv == Init => BoardInv
<1> SUFFICES ASSUME Init PROVE BoardInv
  OBVIOUS
<1>1. flash \in Flashes
  BY AddressesAreContents DEF Init, Flashes
<1>2. todo \in Works /\ ram \in Members /\ age \in Ages
  BY WorkBuilt, MembersBuilt, TimersBuilt DEF Init
<1>3. /\ inbox \in Seq(Messages) /\ Len(inbox) <= InboxSize
      /\ outbox \in Seq(Messages) /\ Len(outbox) <= OutboxSize
  BY BoundsAssumption DEF Init
<1>4. losses \in Nat /\ faults \in Nat /\ losses + faults <= MaxMishaps
  BY BoundsAssumption DEF Init
<1>5. meta \in MetaStates /\ unlocked \in BOOLEAN /\ pc \in Counters
  BY DEF Init, MetaStates, Counters
<1>6. BoardTypeOK
  BY <1>1, <1>2, <1>3, <1>4, <1>5 DEF BoardTypeOK
<1> QED
  BY <1>6 DEF BoardInv, WriteLeadsOn, EraseInArea, Init
-----------------------------------------------------------------------------
(* What the operators that actions share leave behind.                      *)
LEMMA OutcomeKept ==
  ASSUME BoardTypeOK, NEW ok \in BOOLEAN, Outcome(ok)
  PROVE  /\ faults' \in Nat /\ losses + faults' <= MaxMishaps
         /\ faults' = 0 => faults = 0 /\ ok
BY BoundsAssumption DEF BoardTypeOK, Outcome, MayFail

LEMMA FlashProgramKept ==
  ASSUME BoardTypeOK, NEW a \in Addresses, NEW second \in Contents, NEW ok \in BOOLEAN,
         FlashProgram(a, second, ok)
  PROVE  /\ flash' \in Flashes
         /\ faults' \in Nat /\ losses + faults' <= MaxMishaps
         /\ faults' = 0 => faults = 0
         /\ flash' # flash => unlocked
<1>1. flash' \in Flashes
  BY ProgrammedIsFlash, AddressesAreContents DEF BoardTypeOK, FlashProgram
<1>2. faults' \in Nat /\ losses + faults' <= MaxMishaps /\ (faults' = 0 => faults = 0)
  BY BoundsAssumption DEF BoardTypeOK, FlashProgram, MayFail
<1>3. flash' # flash => unlocked
  BY DEF FlashProgram
<1> QED
  BY <1>1, <1>2, <1>3

LEMMA FlushKept ==
  ASSUME BoardTypeOK, NEW ok \in BOOLEAN, FlushPending(ok)
  PROVE  /\ flash' \in Flashes
         /\ faults' \in Nat /\ losses + faults' <= MaxMishaps
         /\ faults' = 0 => faults = 0
         /\ flash' # flash => unlocked
<1>1. CASE ram.pending = NoAddress
  BY <1>1 DEF FlushPending, BoardTypeOK
<1>2. CASE ram.pending # NoAddress
  <2>1. ram.pending \in Addresses
    BY <1>2 DEF BoardTypeOK, Members
  <2> QED
    BY <1>2, <2>1, FlashProgramKept, AddressesAreContents DEF FlushPending
<1> QED
  BY <1>1, <1>2

LEMMA WriteKept ==
  ASSUME NEW state \in MetaStates,
         NEW next \in Counters \ {"erase", "metaErase", "metaProgram"},
         WriteMetaData(state, next),
         next = "prepare" => state = "IN_PROGRESS" /\ ram'.area \in Areas
  PROVE  todo' \in Works /\ pc' \in Counters /\ WriteLeadsOn' /\ EraseInArea' /\ pc' = "metaErase"
<1>1. todo' \in Works /\ pc' \in Counters
  BY WorkBuilt DEF WriteMetaData, Counters
<1> QED
  BY <1>1 DEF WriteMetaData, WriteLeadsOn, EraseInArea

(* Between the operations on the flash nothing is left to say.              *)
LEMMA ElsewhereKept ==
  ASSUME pc' \in Counters \ {"prepare", "erase", "metaErase", "metaProgram"}
  PROVE  WriteLeadsOn' /\ EraseInArea'
BY DEF WriteLeadsOn, EraseInArea

LEMMA SamePlaceKept ==
  ASSUME BoardInv, pc' = pc, todo' = todo, ram'.area = ram.area
  PROVE  WriteLeadsOn' /\ EraseInArea'
BY DEF BoardInv, WriteLeadsOn, EraseInArea

LEMMA ResetKept ==
  ASSUME BoardTypeOK, NEW r \in Members,
         NEW next \in Counters \ {"prepare", "erase", "metaErase", "metaProgram"},
         ResetToWaitingForCommand(r, next)
  PROVE  /\ todo' \in Works /\ pc' = "metaErase" /\ ram' \in Members /\ age' \in Ages
         /\ inbox' = inbox
         /\ WriteLeadsOn' /\ EraseInArea'
<1>1. "WAIT_FOR_PROGRAM" \in MetaStates
  BY DEF MetaStates
<1>2. todo' \in Works /\ pc' = "metaErase" /\ WriteLeadsOn' /\ EraseInArea'
  BY <1>1, WriteKept DEF ResetToWaitingForCommand
<1>3. ram' \in Members
  BY DEF ResetToWaitingForCommand, Members, BootloaderStates, AreaOrNone
<1> QED
  BY <1>2, <1>3, TimersBuilt DEF ResetToWaitingForCommand, BoardTypeOK

LEMMA JumpKept ==
  ASSUME BoardTypeOK, NEW r \in Members, NEW force \in BOOLEAN, NEW image,
         NEW next \in Counters \ {"prepare", "erase", "metaErase", "metaProgram"},
         JumpToApplication(force, image, r, next)
  PROVE  /\ todo' \in Works /\ pc' \in {"app", "metaErase"} /\ ram' \in Members /\ age' \in Ages
         /\ inbox' \in Seq(Messages) /\ Len(inbox') <= InboxSize
         /\ WriteLeadsOn' /\ EraseInArea'
<1>1. CASE StartApplication
  <2>1. ram' \in Members /\ age' \in Ages
    BY <1>1, MembersBuilt, TimersBuilt DEF StartApplication
  <2>2. inbox' \in Seq(Messages) /\ Len(inbox') <= InboxSize
    BY <1>1, BoundsAssumption DEF StartApplication
  <2>3. pc' = "app" /\ todo' \in Works
    BY <1>1 DEF StartApplication, BoardTypeOK
  <2> QED
    BY <2>1, <2>2, <2>3, ElsewhereKept DEF Counters
<1>2. CASE ResetToWaitingForCommand(r, next)
  BY <1>2, ResetKept DEF BoardTypeOK
<1> QED
  BY <1>1, <1>2 DEF JumpToApplication
-----------------------------------------------------------------------------
(* Each action keeps the invariant.  First the writes of the metadata page. *)
LEMMA MetaDataKept ==
  ASSUME BoardInv, EraseMetaData \/ ProgramMetaData
  PROVE  BoardInv'
<1>1. todo \in Works /\ todo.next \in Counters \ {"erase", "metaErase", "metaProgram"}
  BY DEF BoardInv, BoardTypeOK, WriteLeadsOn, Works, EraseMetaData, ProgramMetaData
<1>2. NothingToDo \in Works /\ {"metaProgram", "blank"} \subseteq Counters \cup MetaStates
      /\ "metaProgram" \in Counters /\ "blank" \in MetaStates /\ todo.meta \in MetaStates
  BY <1>1, WorkBuilt DEF Counters, MetaStates, Works
<1>3. CASE EraseMetaData
  <2>1. PICK ok \in BOOLEAN : /\ Outcome(ok)
                              /\ meta' = IF ok THEN "blank" ELSE meta
                              /\ unlocked' = ok
                              /\ pc' = IF ok THEN "metaProgram" ELSE todo.next
                              /\ todo' = IF ok THEN todo ELSE NothingToDo
    BY <1>3 DEF EraseMetaData
  <2>2. faults' \in Nat /\ losses + faults' <= MaxMishaps
    BY <2>1, OutcomeKept DEF BoardInv
  <2>3. BoardTypeOK'
    BY <1>1, <1>2, <1>3, <2>1, <2>2 DEF BoardInv, BoardTypeOK, EraseMetaData
  <2>4. WriteLeadsOn' /\ EraseInArea'
    BY <1>1, <1>3, <2>1 DEF BoardInv, WriteLeadsOn, EraseInArea, EraseMetaData
  <2> QED
    BY <2>3, <2>4 DEF BoardInv
<1>4. CASE ProgramMetaData
  <2>1. PICK ok \in BOOLEAN : Outcome(ok) /\ meta' = IF ok THEN todo.meta ELSE meta
    BY <1>4 DEF ProgramMetaData
  <2>2. faults' \in Nat /\ losses + faults' <= MaxMishaps
    BY <2>1, OutcomeKept DEF BoardInv
  <2>3. BoardTypeOK'
    BY <1>1, <1>2, <1>4, <2>1, <2>2 DEF BoardInv, BoardTypeOK, ProgramMetaData
  <2>4. WriteLeadsOn' /\ EraseInArea'
    BY <1>1, <1>4 DEF BoardInv, WriteLeadsOn, EraseInArea, ProgramMetaData
  <2> QED
    BY <2>3, <2>4 DEF BoardInv
<1> QED
  BY <1>3, <1>4

(* The handlers up to the erase.                                             *)
LEMMA StartHandlersKept ==
  ASSUME BoardInv,
         HandleInit \/ DecideInit \/ HandleWaitingForCommand \/ HandleProgrammingReady
           \/ ResetTimeout \/ HandleWaitingForProgrammingReady
  PROVE  BoardInv'
<1> USE DEF BoardInv
<1>1. CASE HandleInit
  <2>1. CASE meta = "blank"
    <3>1. todo' \in Works /\ pc' \in Counters /\ WriteLeadsOn' /\ EraseInArea'
      BY <1>1, <2>1, WriteKept DEF HandleInit, MetaStates, Counters
    <3> QED
      BY <1>1, <3>1 DEF HandleInit, BoardTypeOK
  <2>2. CASE meta # "blank"
    <3>1. pc' \in Counters \ {"prepare", "erase", "metaErase", "metaProgram"}
      BY <1>1, <2>2 DEF HandleInit, Counters
    <3> QED
      BY <1>1, <2>2, <3>1, ElsewhereKept DEF HandleInit, BoardTypeOK
  <2> QED
    BY <2>1, <2>2
<1>2. CASE DecideInit
  <2>1. pc' \in Counters \ {"prepare", "erase", "metaErase", "metaProgram"}
    BY <1>2 DEF DecideInit, Counters
  <2>2. ram' \in Members
    BY <1>2 DEF DecideInit, BoardTypeOK, Members, BootloaderStates
  <2> QED
    BY <1>2, <2>1, <2>2, ElsewhereKept DEF DecideInit, BoardTypeOK
<1>3. CASE HandleWaitingForCommand
  <2>1. pc' \in Counters \ {"prepare", "erase", "metaErase", "metaProgram"}
    BY <1>3 DEF HandleWaitingForCommand, Counters
  <2>2. ram' \in Members
    BY <1>3 DEF HandleWaitingForCommand, BoardTypeOK, Members, BootloaderStates
  <2> QED
    BY <1>3, <2>1, <2>2, ElsewhereKept DEF HandleWaitingForCommand, BoardTypeOK
<1>4. CASE HandleProgrammingReady
  <2>1. pc' \in Counters \ {"prepare", "erase", "metaErase", "metaProgram"}
    BY <1>4 DEF HandleProgrammingReady, Counters
  <2>2. ram.link \in Links /\ "usb" \in Links /\ "start" \in Kinds
    BY DEF BoardTypeOK, Members, Links, Kinds
  <2>3. ram' \in Members /\ age' \in Ages
    BY <1>4, <2>2, MembersBuilt, TimersBuilt DEF HandleProgrammingReady, BoardTypeOK
  <2> QED
    BY <1>4, <2>1, <2>3, ElsewhereKept DEF HandleProgrammingReady, BoardTypeOK
<1>5. CASE ResetTimeout
  <2>1. pc' \in Counters \ {"prepare", "erase", "metaErase", "metaProgram"}
    BY <1>5 DEF ResetTimeout, Counters
  <2>2. ram' \in Members /\ age' \in Ages
    BY <1>5, TimersBuilt DEF ResetTimeout, BoardTypeOK, Members, BootloaderStates
  <2> QED
    BY <1>5, <2>1, <2>2, ElsewhereKept DEF ResetTimeout, BoardTypeOK
<1>6. CASE HandleWaitingForProgrammingReady
  <2>1. CASE IsProgrammingReadyCommand
    <3>1. ram' = [ram EXCEPT !.received = FALSE, !.area = ram.command.kind]
          /\ WriteMetaData("IN_PROGRESS", "prepare") /\ ram.command.kind \in Areas
      BY <1>6, <2>1 DEF HandleWaitingForProgrammingReady, IsProgrammingReadyCommand
    <3>2. ram' \in Members /\ ram'.area \in Areas
      BY <3>1 DEF BoardTypeOK, Members, AreaOrNone
    <3>3. todo' \in Works /\ pc' \in Counters /\ WriteLeadsOn' /\ EraseInArea'
      BY <3>1, <3>2, WriteKept DEF MetaStates, Counters
    <3> QED
      BY <1>6, <3>2, <3>3 DEF HandleWaitingForProgrammingReady, BoardTypeOK
  <2>2. CASE ~IsProgrammingReadyCommand
    <3>1. pc' \in Counters \ {"prepare", "erase", "metaErase", "metaProgram"}
      BY <1>6, <2>2 DEF HandleWaitingForProgrammingReady, Counters
    <3> QED
      BY <1>6, <2>2, <3>1, ElsewhereKept DEF HandleWaitingForProgrammingReady, BoardTypeOK
  <2> QED
    BY <2>1, <2>2
<1> QED
  BY <1>1, <1>2, <1>3, <1>4, <1>5, <1>6

(* The erase.                                                                *)
LEMMA EraseKept ==
  ASSUME BoardInv, PrepareFlash \/ ErasePage
  PROVE  BoardInv'
<1> USE DEF BoardInv
<1>1. CASE PrepareFlash
  <2>1. ram.area \in Areas /\ ram' = ram
    BY <1>1 DEF PrepareFlash, EraseInArea
  <2>2. AreaStart(ram.area) \in Addresses
    BY <2>1, AreaBounds, Sizes DEF Addresses
  <2>3. todo' \in Works /\ todo'.page = AreaStart(ram.area)
    BY <1>1, <2>2, WorkBuilt DEF PrepareFlash, Works
  <2>4. BoardTypeOK'
    BY <1>1, <2>3 DEF PrepareFlash, BoardTypeOK, Counters
  <2>5. WriteLeadsOn' /\ EraseInArea'
    BY <1>1, <2>1, <2>3, AreaBounds DEF PrepareFlash, WriteLeadsOn, EraseInArea
  <2> QED
    BY <2>4, <2>5
<1>2. CASE ErasePage
  <2>1. PICK ok \in BOOLEAN :
          /\ Outcome(ok)
          /\ flash' = IF ok THEN PageErased(flash, todo.page) ELSE flash
          /\ unlocked' = ok
          /\ \/ ok /\ todo.page + 2 < AreaEnd(ram.area)
                /\ todo' = [todo EXCEPT !.page = @ + 2]
                /\ UNCHANGED <<pc, ram, age>>
             \/ ok /\ todo.page + 2 >= AreaEnd(ram.area) /\ BeginSession(FALSE)
             \/ ~ok /\ BeginSession(TRUE)
    BY <1>2 DEF ErasePage
  <2>2. faults' \in Nat /\ losses + faults' <= MaxMishaps
    BY <2>1, OutcomeKept
  <2>3. flash' \in Flashes
    BY <2>1, ProgrammedIsFlash, AddressesAreContents DEF PageErased, BoardTypeOK
  <2>4. ram.area \in Areas /\ todo.page % 2 = 0 /\ todo.page + 2 <= AreaEnd(ram.area)
        /\ todo.page \in Nat /\ todo \in Works
    BY <1>2, AddressesAreContents DEF ErasePage, EraseInArea, BoardTypeOK, Works
  <2>5. CASE todo.page + 2 < AreaEnd(ram.area) /\ todo' = [todo EXCEPT !.page = @ + 2]
             /\ UNCHANGED <<pc, ram, age>>
    <3>1. todo.page + 2 \in Addresses /\ (todo.page + 2) % 2 = 0
      BY <2>4, <2>5, AreaBounds, Sizes DEF Addresses
    <3>2. todo' \in Works /\ todo'.page = todo.page + 2
      BY <2>4, <2>5, <3>1 DEF Works
    <3>3. todo'.page + 2 <= AreaEnd(ram.area)
      <4>1. AreaEnd(ram.area) \in Nat /\ AreaEnd(ram.area) % 2 = 0
        BY <2>4, AreaBounds
      <4> QED
        BY <2>4, <2>5, <3>2, <4>1
    <3>4. BoardTypeOK'
      BY <1>2, <2>1, <2>2, <2>3, <2>5, <3>2 DEF ErasePage, BoardTypeOK
    <3>5. WriteLeadsOn' /\ EraseInArea'
      BY <1>2, <2>4, <2>5, <3>1, <3>2, <3>3 DEF ErasePage, WriteLeadsOn, EraseInArea
    <3> QED
      BY <3>4, <3>5
  <2>6. ASSUME NEW keep \in BOOLEAN, BeginSession(keep) PROVE BoardInv'
    <3>1. ram' \in Members
      BY <2>6 DEF BeginSession, BoardTypeOK, Members, BootloaderStates
    <3>2. pc' \in Counters \ {"prepare", "erase", "metaErase", "metaProgram"}
      BY <2>6 DEF BeginSession, Counters
    <3>3. BoardTypeOK'
      BY <1>2, <2>1, <2>2, <2>3, <2>6, <3>1, <3>2, WorkBuilt, TimersBuilt
         DEF ErasePage, BeginSession, BoardTypeOK
    <3> QED
      BY <3>2, <3>3, ElsewhereKept
  <2> QED
    BY <2>1, <2>5, <2>6
<1> QED
  BY <1>1, <1>2
(* The handlers of a session.                                                *)
LEMMA SessionHandlersKept ==
  ASSUME BoardInv, HandleProgrammingInProgress \/ RestartAgain
  PROVE  BoardInv'
<1> USE DEF BoardInv
<1>1. ram \in Members /\ Taken \in Members /\ ram.link \in Links /\ ram.command \in Messages
  BY DEF BoardTypeOK, Members, Taken
<1>2. {"done", "checksum", "data"} \subseteq Kinds
  BY DEF Kinds
<1>3. ASSUME pc' = "timeouts" PROVE WriteLeadsOn' /\ EraseInArea' /\ pc' \in Counters
  BY <1>3, ElsewhereKept DEF Counters
<1>4. [age EXCEPT !.programming = 0] \in Ages
  BY TimersBuilt DEF BoardTypeOK
<1>5. CASE NothingReceived
  BY <1>3, <1>5 DEF NothingReceived, BoardTypeOK
<1>6. CASE HandleProgrammingDone
  <2>1. PICK ok \in BOOLEAN :
          /\ FlushPending(ok)
          /\ ram' = [Reply(Taken, "done", NoAddress, ram.link) EXCEPT
                       !.pending = IF ok THEN NoAddress ELSE @,
                       !.last = NoAddress, !.boot = "PROGRAMMING_COMPLETE"]
    BY <1>6 DEF HandleProgrammingDone
  <2>2. ram' \in Members
    <3>1. Reply(Taken, "done", NoAddress, ram.link) \in Members
      BY <1>1, <1>2, MembersBuilt
    <3> QED
      BY <2>1, <3>1 DEF Members, BootloaderStates
  <2>3. flash' \in Flashes /\ faults' \in Nat /\ losses + faults' <= MaxMishaps
    BY <2>1, FlushKept
  <2> QED
    BY <1>3, <1>4, <1>6, <2>2, <2>3 DEF HandleProgrammingDone, Handling, BoardTypeOK
<1>7. CASE HandleProgrammingRestart
  <2>1. ram' \in Members
    BY <1>1, <1>7 DEF HandleProgrammingRestart, Members
  <2>2. todo' \in Works /\ pc' \in Counters /\ WriteLeadsOn' /\ EraseInArea'
    BY <1>7, WriteKept DEF HandleProgrammingRestart, MetaStates, Counters
  <2> QED
    BY <1>4, <1>7, <2>1, <2>2 DEF HandleProgrammingRestart, Handling, BoardTypeOK
<1>8. CASE HandleProgrammingChecksum
  <2>1. ram' \in Members
    <3>1. Reply(Taken, "checksum", NoAddress, ram.link) \in Members
      BY <1>1, <1>2, MembersBuilt
    <3> QED
      BY <1>8, <3>1 DEF HandleProgrammingChecksum, Members
  <2> QED
    BY <1>3, <1>4, <1>8, <2>1 DEF HandleProgrammingChecksum, Handling, BoardTypeOK
<1>9. CASE IgnoreData
  BY <1>1, <1>3, <1>4, <1>9 DEF IgnoreData, Handling, BoardTypeOK
<1>10. CASE ProgramData
  <2> DEFINE a == ram.command.addr
             Acknowledged(pending) == [Reply(Taken, "data", a, ram.link) EXCEPT
                                         !.last = a, !.pending = pending]
  <2>1. a \in Addresses
    BY <1>10 DEF ProgramData, IsStaleData
  <2>2. ASSUME NEW p \in Addresses \cup {NoAddress} PROVE Acknowledged(p) \in Members
    <3>1. Reply(Taken, "data", a, ram.link) \in Members
      BY <1>1, <1>2, <2>1, MembersBuilt
    <3> QED
      BY <2>1, <2>2, <3>1 DEF Members
  <2>3. CASE IsSecondWord
    <3>1. PICK ok \in BOOLEAN : /\ FlashProgram(ram.pending, a, ok)
                                /\ ram' = Acknowledged(IF ok THEN NoAddress ELSE a)
      BY <1>10, <2>3 DEF ProgramData
    <3>2. ram.pending \in Addresses
      BY <1>1, <2>3 DEF IsSecondWord, Members
    <3>3. flash' \in Flashes /\ faults' \in Nat /\ losses + faults' <= MaxMishaps
      BY <2>1, <3>1, <3>2, FlashProgramKept, AddressesAreContents
    <3>4. ram' \in Members
      BY <2>1, <2>2, <3>1
    <3> QED
      BY <1>3, <1>4, <1>10, <3>3, <3>4 DEF ProgramData, Handling, BoardTypeOK
  <2>4. CASE ~IsSecondWord
    <3>1. ram' = Acknowledged(a) /\ UNCHANGED <<flash, faults>>
      BY <1>10, <2>4 DEF ProgramData
    <3>2. ram' \in Members
      BY <2>1, <2>2, <3>1
    <3> QED
      BY <1>3, <1>4, <1>10, <3>1, <3>2 DEF ProgramData, Handling, BoardTypeOK
  <2> QED
    BY <2>3, <2>4
<1>11. CASE RestartAgain
  <2>1. ram' \in Members
    BY <1>1, <1>11 DEF RestartAgain, Members, BootloaderStates
  <2>2. todo' \in Works /\ pc' \in Counters /\ WriteLeadsOn' /\ EraseInArea'
    BY <1>11, WriteKept DEF RestartAgain, MetaStates, Counters
  <2> QED
    BY <1>11, <2>1, <2>2 DEF RestartAgain, BoardTypeOK
<1> QED
  BY <1>5, <1>6, <1>7, <1>8, <1>9, <1>10, <1>11 DEF HandleProgrammingInProgress

(* The ways out of a session.                                                *)
LEMMA EndHandlersKept ==
  ASSUME BoardInv,
         HandleProgrammingComplete \/ HandleError \/ HandleJumpToApp \/ HandleTimeouts
  PROVE  BoardInv'
<1> USE DEF BoardInv
<1>1. ram \in Members
  BY DEF BoardTypeOK
<1>2. ASSUME NEW state \in BootloaderStates
      PROVE  /\ [ram EXCEPT !.boot = state] \in Members
             /\ [ram EXCEPT !.pending = NoAddress, !.boot = state] \in Members
  BY <1>1, <1>2 DEF Members
<1>3. {"state", "timeouts", "tx"} \subseteq
         Counters \ {"prepare", "erase", "metaErase", "metaProgram"}
  BY DEF Counters
<1>4. CASE HandleProgrammingComplete
  <2>1. todo' \in Works /\ pc' \in Counters /\ WriteLeadsOn' /\ EraseInArea'
    BY <1>4, WriteKept DEF HandleProgrammingComplete, MetaStates, Counters
  <2> QED
    BY <1>2, <1>4, <2>1 DEF HandleProgrammingComplete, BoardTypeOK, BootloaderStates
<1>5. CASE HandleError
  <2>1. PICK ok \in BOOLEAN : FlushPending(ok)
    BY <1>5 DEF HandleError
  <2>2. flash' \in Flashes /\ faults' \in Nat /\ losses + faults' <= MaxMishaps
    BY <2>1, FlushKept
  <2>3. todo' \in Works /\ pc' \in Counters /\ WriteLeadsOn' /\ EraseInArea'
    <3>1. (IF ram.area \in Areas THEN "WAIT_FOR_PROGRAM" ELSE "FLASHED") \in MetaStates
      BY DEF MetaStates
    <3> QED
      BY <1>3, <1>5, <3>1, WriteKept DEF HandleError
  <2> QED
    BY <1>2, <1>5, <2>2, <2>3 DEF HandleError, BoardTypeOK, BootloaderStates
<1>6. CASE HandleJumpToApp
  <2>1. JumpToApplication(TRUE, flash, ram, "timeouts")
    BY <1>6 DEF HandleJumpToApp
  <2>2. /\ todo' \in Works /\ pc' \in Counters /\ ram' \in Members /\ age' \in Ages
        /\ inbox' \in Seq(Messages) /\ Len(inbox') <= InboxSize
        /\ WriteLeadsOn' /\ EraseInArea'
    BY <1>1, <1>3, <2>1, JumpKept DEF Counters
  <2> QED
    BY <1>6, <2>2 DEF HandleJumpToApp, BoardTypeOK
<1>7. CASE HandleTimeouts
  <2> DEFINE r == IF IsQuiet THEN [ram EXCEPT !.boot = "ERROR_STATE"] ELSE ram
  <2>1. r \in Members
    BY <1>1, <1>2 DEF BootloaderStates
  <2>2. flash' \in Flashes /\ faults' \in Nat /\ losses + faults' <= MaxMishaps
    BY <1>7, FlushKept DEF HandleTimeouts, BoardTypeOK
  <2>3. CASE ram' = r /\ pc' = "tx" /\ UNCHANGED <<age, todo, inbox>>
    BY <1>3, <1>7, <2>1, <2>2, <2>3, ElsewhereKept DEF HandleTimeouts, BoardTypeOK
  <2>4. CASE /\ ram' = [r EXCEPT !.boot = "JUMP_TO_APP"]
             /\ age' = [age EXCEPT !.boot = 0]
             /\ pc' = "tx" /\ UNCHANGED <<todo, inbox>>
    <3>1. ram' \in Members /\ age' \in Ages
      BY <2>1, <2>4, TimersBuilt DEF Members, BootloaderStates, BoardTypeOK
    <3> QED
      BY <1>3, <1>7, <2>2, <2>4, <3>1, ElsewhereKept DEF HandleTimeouts, BoardTypeOK
  <2>5. CASE JumpToApplication(FALSE, flash', r, "tx")
    <3>1. /\ todo' \in Works /\ pc' \in Counters /\ ram' \in Members /\ age' \in Ages
          /\ inbox' \in Seq(Messages) /\ Len(inbox') <= InboxSize
          /\ WriteLeadsOn' /\ EraseInArea'
      BY <1>3, <2>1, <2>5, JumpKept DEF Counters
    <3> QED
      BY <1>7, <2>2, <3>1 DEF HandleTimeouts, BoardTypeOK
  <2> QED
    BY <1>7, <2>3, <2>4, <2>5 DEF HandleTimeouts
<1> QED
  BY <1>4, <1>5, <1>6, <1>7
(* The links, on the board's side.                                           *)
LEMMA SendReplyKept ==
  ASSUME BoardInv, NEW link \in Links,
         NEW here \in {"tx", "rx"}, NEW next \in {"rx", "state"},
         SendReply(link, here, next)
  PROVE  BoardInv'
<1> USE DEF BoardInv
<1>1. pc' \in Counters \ {"prepare", "erase", "metaErase", "metaProgram"}
  BY DEF SendReply, Counters
<1>2. CASE UNCHANGED <<outbox, ram>>
  BY <1>1, <1>2, ElsewhereKept DEF SendReply, BoardTypeOK
<1>3. CASE /\ Len(outbox) < OutboxSize /\ outbox' = Append(outbox, ram.reply)
           /\ ram' = [ram EXCEPT !.replying = FALSE, !.reply = NoMessage]
  <2>1. ram' \in Members /\ ram.reply \in Messages
    BY <1>3, MessagesBuilt DEF BoardTypeOK, Members
  <2>2. outbox' \in Seq(Messages) /\ Len(outbox') <= OutboxSize
    BY <1>3, <2>1, BoundsAssumption DEF BoardTypeOK
  <2> QED
    BY <1>1, <2>1, <2>2, ElsewhereKept DEF SendReply, BoardTypeOK
<1> QED
  BY <1>2, <1>3 DEF SendReply

LEMMA ReceiveKept ==
  ASSUME BoardInv, ProcessRxQueuedMessage
  PROVE  BoardInv'
<1> USE DEF BoardInv
<1> DEFINE m == Head(inbox)
<1>1. m \in Messages /\ inbox' \in Seq(Messages) /\ Len(inbox') <= InboxSize
  BY BoundsAssumption DEF ProcessRxQueuedMessage, BoardTypeOK
<1>2. m.link \in Links /\ "start" \in Kinds
  BY <1>1 DEF Messages, Kinds
<1> DEFINE heard == [ram EXCEPT !.heard = TRUE, !.link = m.link, !.command = m]
<1>3. heard \in Members
  BY <1>1, <1>2 DEF BoardTypeOK, Members
<1>4. ram' \in {[heard EXCEPT !.boot = "PROGRAMMING_READY"],
                Reply(heard, "start", NoAddress, m.link), heard,
                [heard EXCEPT !.received = TRUE], ram}
  BY DEF ProcessRxQueuedMessage, ProcessProgrammingCommand
<1>5. ram' \in Members
  <2>1. Reply(heard, "start", NoAddress, m.link) \in Members
    BY <1>2, <1>3, MembersBuilt
  <2>2. [heard EXCEPT !.boot = "PROGRAMMING_READY"] \in Members
        /\ [heard EXCEPT !.received = TRUE] \in Members
    BY <1>3 DEF Members, BootloaderStates
  <2> QED
    BY <1>3, <1>4, <2>1, <2>2 DEF BoardTypeOK
<1>6. pc' \in Counters \ {"prepare", "erase", "metaErase", "metaProgram"}
  BY DEF ProcessRxQueuedMessage, BoardTypeOK
<1> QED
  BY <1>1, <1>5, <1>6, ElsewhereKept DEF ProcessRxQueuedMessage, BoardTypeOK

LEMMA ConstructorKept ==
  ASSUME BoardInv, Reset, losses' \in Nat, losses' + faults' <= MaxMishaps
  PROVE  BoardInv'
<1> USE DEF BoardInv
<1>1. faults' \in Nat
  BY DEF Reset, Outcome, BoardTypeOK
<1>2. ram' \in Members /\ age' \in Ages /\ todo' \in Works
  BY MembersBuilt, TimersBuilt, WorkBuilt DEF Reset
<1>3. inbox' \in Seq(Messages) /\ Len(inbox') <= InboxSize
  BY BoundsAssumption DEF Reset
<1>4. pc' \in Counters \ {"prepare", "erase", "metaErase", "metaProgram"}
  BY DEF Reset, Counters
<1> QED
  BY <1>1, <1>2, <1>3, <1>4, ElsewhereKept DEF Reset, BoardTypeOK

LEMMA ApplicationKept ==
  ASSUME BoardInv, ApplicationInit \/ ApplicationReceive \/ MoveToBootloader
  PROVE  BoardInv'
<1> USE DEF BoardInv
<1>1. {"FLASHED", "PROGRAMMING_COMMAND"} \subseteq MetaStates
      /\ {"appLoop", "reset"} \subseteq Counters \ {"prepare", "erase", "metaErase", "metaProgram"}
  BY DEF MetaStates, Counters
<1>2. CASE ApplicationInit
  <2>1. todo' \in Works /\ pc' \in Counters /\ WriteLeadsOn' /\ EraseInArea'
    BY <1>1, <1>2, WriteKept DEF ApplicationInit
  <2> QED
    BY <1>2, <2>1 DEF ApplicationInit, BoardTypeOK
<1>3. CASE ApplicationReceive
  <2>1. inbox' \in Seq(Messages) /\ Len(inbox') <= InboxSize
    BY <1>3, BoundsAssumption DEF ApplicationReceive, BoardTypeOK
  <2>2. CASE WriteMetaData("PROGRAMMING_COMMAND", "reset")
    <3>1. todo' \in Works /\ pc' \in Counters /\ WriteLeadsOn' /\ EraseInArea'
      BY <1>1, <2>2, WriteKept
    <3> QED
      BY <1>3, <2>1, <3>1 DEF ApplicationReceive, BoardTypeOK
  <2>3. CASE UNCHANGED <<pc, todo>>
    <3>1. pc' \in Counters \ {"prepare", "erase", "metaErase", "metaProgram"}
      BY <1>1, <1>3, <2>3 DEF ApplicationReceive
    <3> QED
      BY <1>3, <2>1, <2>3, <3>1, ElsewhereKept DEF ApplicationReceive, BoardTypeOK
  <2> QED
    BY <1>3, <2>2, <2>3 DEF ApplicationReceive
<1>4. CASE MoveToBootloader
  <2>1. PICK ok \in BOOLEAN : Outcome(ok)
    BY <1>4 DEF MoveToBootloader, Reset
  <2>2. losses' \in Nat /\ losses' + faults' <= MaxMishaps
    BY <1>4, <2>1, OutcomeKept DEF MoveToBootloader, BoardTypeOK
  <2> QED
    BY <1>4, <2>2, ConstructorKept DEF MoveToBootloader
<1> QED
  BY <1>2, <1>3, <1>4

LEMMA BoardStepKept ==
  ASSUME BoardInv, BoardStep
  PROVE  BoardInv'
<1>1. CASE ProcessTxQueue \/ HandlePendingUsbReplies
  BY <1>1, SendReplyKept DEF ProcessTxQueue, HandlePendingUsbReplies, Links
<1> QED
  BY <1>1, MetaDataKept, StartHandlersKept, EraseKept, SessionHandlersKept, EndHandlersKept,
     ReceiveKept, ApplicationKept DEF BoardStep

(* Time, power, and the other end of the links.                              *)
LEMMA EnvironmentKept ==
  ASSUME BoardInv,
         Tick \/ PowerLoss \/ Collect \/ DropReplies \/ \E m \in Messages : Send(m)
  PROVE  BoardInv'
<1> USE DEF BoardInv
<1>1. CASE Tick
  <2>1. ASSUME NEW n \in 0 .. BootTimeout PROVE (IF n < BootTimeout THEN n + 1 ELSE BootTimeout) \in 0 .. BootTimeout
    BY BoundsAssumption
  <2>2. ASSUME NEW n \in 0 .. ForceTimeout PROVE (IF n < ForceTimeout THEN n + 1 ELSE ForceTimeout) \in 0 .. ForceTimeout
    BY BoundsAssumption
  <2>3. ASSUME NEW n \in 0 .. ProgrammingTimeout
        PROVE  (IF n < ProgrammingTimeout THEN n + 1 ELSE ProgrammingTimeout) \in 0 .. ProgrammingTimeout
    BY BoundsAssumption
  <2>4. /\ age.boot \in 0 .. BootTimeout /\ age.force \in 0 .. ForceTimeout
        /\ age.programming \in 0 .. ProgrammingTimeout
    BY DEF BoardTypeOK, Ages
  <2>5. age' \in Ages
    BY <1>1, <2>1, <2>2, <2>3, <2>4 DEF Tick, Older, Ages
  <2>6. BoardTypeOK'
    BY <1>1, <2>5 DEF Tick, BoardTypeOK
  <2> QED
    BY <1>1, <2>6, SamePlaceKept DEF Tick
<1>2. CASE PowerLoss
  BY <1>2, ConstructorKept DEF PowerLoss, BoardTypeOK
<1>3. CASE Collect
  <2>1. outbox' \in Seq(Messages) /\ Len(outbox') <= OutboxSize
    BY <1>3, BoundsAssumption DEF Collect, BoardTypeOK
  <2> QED
    BY <1>3, <2>1, SamePlaceKept DEF Collect, BoardTypeOK
<1>4. CASE DropReplies
  <2>1. outbox' \in Seq(Messages) /\ Len(outbox') <= OutboxSize
    BY <1>4, BoundsAssumption DEF DropReplies
  <2> QED
    BY <1>4, <2>1, SamePlaceKept DEF DropReplies, BoardTypeOK
<1>5. ASSUME NEW m \in Messages, Send(m) PROVE BoardInv'
  <2>1. inbox' \in Seq(Messages) /\ Len(inbox') <= InboxSize
    BY <1>5, BoundsAssumption DEF Send, BoardTypeOK
  <2> QED
    BY <1>5, <2>1, SamePlaceKept DEF Send, BoardTypeOK
<1> QED
  BY <1>1, <1>2, <1>3, <1>4, <1>5

LEMMA NextBoardInv == BoardInv /\ [Next]_vars => BoardInv'
<1> SUFFICES ASSUME BoardInv, [Next]_vars PROVE BoardInv'
  OBVIOUS
<1>1. CASE Next
  BY <1>1, BoardStepKept, EnvironmentKept DEF Next
<1>2. CASE UNCHANGED vars
  BY <1>2 DEF vars, BoardInv, BoardTypeOK, WriteLeadsOn, EraseInArea
<1> QED
  BY <1>1, <1>2

(* For every size of the areas, every timeout and every number of mishaps:   *)
(* the board's state stays one BootloaderMain can have, an erase stays       *)
(* inside the area it was asked for, and only a session's metadata write     *)
(* leads to it.                                                              *)
THEOREM BoardStaysTyped == Spec => []BoardTypeOK
<1>1. BoardInv => BoardTypeOK
  BY DEF BoardInv
<1> QED
  BY <1>1, InitBoardInv, NextBoardInv, PTL DEF Spec
-----------------------------------------------------------------------------
(* UnlockedOnlyInProgress is not inductive: the area is unlocked and erased   *)
(* on the strength of a metadata page written before.                        *)
ErasedOnlyInProgress == pc \in {"prepare", "erase"} /\ faults = 0 => meta = "IN_PROGRESS"
LockInv == UnlockedOnlyInProgress /\ ErasedOnlyInProgress

LEMMA InitLockInv == Init => LockInv
BY DEF Init, LockInv, UnlockedOnlyInProgress, ErasedOnlyInProgress

(* A step that writes no metadata and neither unlocks nor goes to an erase.   *)
LEMMA LockKept ==
  ASSUME BoardInv, LockInv, pc # "metaProgram",
         faults' = 0 => faults = 0, meta' = meta, unlocked' => unlocked,
         pc' \in {"prepare", "erase"} => pc \in {"prepare", "erase"}
  PROVE  LockInv'
BY DEF LockInv, UnlockedOnlyInProgress, ErasedOnlyInProgress

LEMMA DataTouches ==
  ASSUME BoardTypeOK, ProgramData
  PROVE  (faults' = 0 => faults = 0) /\ (flash' # flash => unlocked)
<1>1. CASE UNCHANGED <<flash, faults>>
  BY <1>1
<1>2. CASE \E ok \in BOOLEAN : FlashProgram(ram.pending, ram.command.addr, ok)
  <2>1. PICK ok \in BOOLEAN : FlashProgram(ram.pending, ram.command.addr, ok)
    BY <1>2
  <2>2. flash' # flash => unlocked
    BY <2>1 DEF FlashProgram
  <2>3. faults' = faults \/ faults' = faults + 1
    BY <2>1 DEF FlashProgram
  <2>4. faults \in Nat
    BY DEF BoardTypeOK
  <2> QED
    BY <2>2, <2>3, <2>4
<1> QED
  BY <1>1, <1>2 DEF ProgramData

LEMMA NextLockInv == BoardInv /\ LockInv /\ [Next]_vars => LockInv'
<1> SUFFICES ASSUME BoardInv, LockInv, [Next]_vars PROVE LockInv'
  OBVIOUS
<1> USE DEF BoardInv
<1>1. CASE EraseMetaData
  <2>1. PICK ok \in BOOLEAN : /\ Outcome(ok)
                              /\ meta' = IF ok THEN "blank" ELSE meta
                              /\ unlocked' = ok
                              /\ pc' = IF ok THEN "metaProgram" ELSE todo.next
    BY <1>1 DEF EraseMetaData
  <2>2. faults' = 0 => ok
    BY <2>1, OutcomeKept
  <2> QED
    BY <2>1, <2>2 DEF LockInv, UnlockedOnlyInProgress, ErasedOnlyInProgress
<1>2. CASE ProgramMetaData
  <2>1. PICK ok \in BOOLEAN : Outcome(ok) /\ meta' = IF ok THEN todo.meta ELSE meta
    BY <1>2 DEF ProgramMetaData
  <2>2. faults' = 0 => ok
    BY <2>1, OutcomeKept
  <2>3. pc' = todo.next /\ unlocked' = FALSE /\ pc = "metaProgram"
    BY <1>2 DEF ProgramMetaData
  <2> QED
    BY <2>1, <2>2, <2>3 DEF LockInv, UnlockedOnlyInProgress, ErasedOnlyInProgress, WriteLeadsOn
<1>3. CASE \/ HandleInit \/ DecideInit \/ HandleWaitingForCommand \/ HandleProgrammingReady
           \/ ResetTimeout \/ HandleWaitingForProgrammingReady
  BY <1>3, LockKept
     DEF HandleInit, DecideInit, HandleWaitingForCommand, HandleProgrammingReady, ResetTimeout,
         HandleWaitingForProgrammingReady, WriteMetaData, InState
<1>4. CASE PrepareFlash
  BY <1>4 DEF PrepareFlash, LockInv, UnlockedOnlyInProgress, ErasedOnlyInProgress
<1>5. CASE ErasePage
  <2>1. PICK ok \in BOOLEAN : Outcome(ok)
    BY <1>5 DEF ErasePage
  <2>2. faults' = 0 => faults = 0
    BY <2>1, <1>5 DEF ErasePage, Outcome, BoardTypeOK
  <2> QED
    BY <1>5, <2>2 DEF ErasePage, BeginSession, LockInv, UnlockedOnlyInProgress, ErasedOnlyInProgress
<1>6. CASE HandleProgrammingInProgress \/ RestartAgain
  <2>1. CASE HandleProgrammingDone
    <3>1. faults' = 0 => faults = 0
      BY <2>1, FlushKept DEF HandleProgrammingDone
    <3> QED
      BY <2>1, <3>1, LockKept DEF HandleProgrammingDone, Handling, InState
  <2>2. CASE ProgramData
    <3>1. faults' = 0 => faults = 0
      BY <2>2, DataTouches
    <3> QED
      BY <2>2, <3>1, LockKept DEF ProgramData, Handling, InState
  <2> QED
    BY <1>6, <2>1, <2>2, LockKept
       DEF HandleProgrammingInProgress, NothingReceived, HandleProgrammingRestart, RestartAgain,
           HandleProgrammingChecksum, IgnoreData, Handling, InState, WriteMetaData
<1>7. CASE HandleProgrammingComplete \/ HandleError \/ HandleJumpToApp \/ HandleTimeouts
  <2>1. CASE HandleError \/ HandleTimeouts
    <3>1. faults' = 0 => faults = 0
      BY <2>1, FlushKept DEF HandleError, HandleTimeouts
    <3> QED
      BY <2>1, <3>1, LockKept
         DEF HandleError, HandleTimeouts, InState, WriteMetaData, JumpToApplication,
             StartApplication, ResetToWaitingForCommand
  <2> QED
    BY <1>7, <2>1, LockKept
       DEF HandleProgrammingComplete, HandleJumpToApp, InState, WriteMetaData,
           JumpToApplication, StartApplication, ResetToWaitingForCommand
<1>8. CASE \/ ProcessTxQueue \/ ProcessRxQueuedMessage \/ HandlePendingUsbReplies
           \/ ApplicationInit \/ ApplicationReceive
  BY <1>8, LockKept
     DEF ProcessTxQueue, HandlePendingUsbReplies, SendReply, ProcessRxQueuedMessage,
         ApplicationInit, ApplicationReceive, WriteMetaData
<1>9. CASE MoveToBootloader \/ PowerLoss
  BY <1>9 DEF MoveToBootloader, PowerLoss, Reset, LockInv, UnlockedOnlyInProgress,
              ErasedOnlyInProgress
<1>10. CASE \/ Tick \/ Collect \/ DropReplies \/ (\E m \in Messages : Send(m))
            \/ UNCHANGED vars
  BY <1>10 DEF Tick, Collect, DropReplies, Send, vars, LockInv, UnlockedOnlyInProgress,
               ErasedOnlyInProgress
<1> QED
  BY <1>1, <1>2, <1>3, <1>4, <1>5, <1>6, <1>7, <1>8, <1>9, <1>10 DEF Next, BoardStep

(* Whatever arrives and whenever power fails: without a fault of the flash,   *)
(* the control register is open only while the metadata page tells of a      *)
(* session, the moment of a metadata write apart.                            *)
THEOREM OpenOnlyInSession == Spec => []UnlockedOnlyInProgress
<1>1. LockInv => UnlockedOnlyInProgress
  BY DEF LockInv
<1> QED
  BY <1>1, InitBoardInv, NextBoardInv, InitLockInv, NextLockInv, PTL DEF Spec

(* What changes the areas: an erase, and a double word in an open flash.      *)
LEMMA WhatTouches ==
  ASSUME BoardInv, [Next]_vars, flash' # flash
  PROVE  (pc = "erase" \/ (unlocked /\ pc # "metaProgram")) /\ (faults' = 0 => faults = 0)
<1> USE DEF BoardInv
<1>1. CASE ErasePage
  BY <1>1, BoundsAssumption DEF ErasePage, Outcome, BoardTypeOK
<1>2. CASE ProgramData
  BY <1>2, DataTouches DEF ProgramData, Handling, InState
<1>3. CASE HandleProgrammingDone \/ HandleError \/ HandleTimeouts
  <2>1. PICK ok \in BOOLEAN : FlushPending(ok)
    BY <1>3 DEF HandleProgrammingDone, HandleError, HandleTimeouts
  <2> QED
    BY <1>3, <2>1, FlushKept DEF HandleProgrammingDone, HandleError, HandleTimeouts, Handling, InState
<1> QED
  BY <1>1, <1>2, <1>3
     DEF Next, BoardStep, vars, EraseMetaData, ProgramMetaData, HandleInit, DecideInit,
         HandleWaitingForCommand, HandleProgrammingReady, ResetTimeout,
         HandleWaitingForProgrammingReady, PrepareFlash, HandleProgrammingInProgress,
         NothingReceived, HandleProgrammingRestart, RestartAgain, HandleProgrammingChecksum,
         IgnoreData, HandleProgrammingComplete, HandleJumpToApp, ProcessTxQueue,
         HandlePendingUsbReplies, SendReply, ProcessRxQueuedMessage, ApplicationInit,
         ApplicationReceive, MoveToBootloader, PowerLoss, Reset, Tick, Collect, DropReplies, Send

(* The two areas are touched only while the metadata page says so: a power    *)
(* loss at any point of a session finds a page that tells of it.             *)
THEOREM TouchedOnlyInSession == Spec => TouchedOnlyInProgress
<1>1. BoardInv /\ LockInv /\ [Next]_vars
        => [flash' # flash /\ faults' = 0 => meta = "IN_PROGRESS"]_vars
  BY WhatTouches DEF LockInv, UnlockedOnlyInProgress, ErasedOnlyInProgress
<1> QED
  BY <1>1, InitBoardInv, NextBoardInv, InitLockInv, NextLockInv, PTL
     DEF Spec, TouchedOnlyInProgress
-----------------------------------------------------------------------------
(* A double word of the image, of the image and padding, or erased, leaves   *)
(* every word at home.                                                       *)
LEMMA PairAtHome ==
  ASSUME BoardTypeOK, NoForeignWords, NEW a \in Addresses, a % 2 = 0,
         NEW x \in {Erased, a}, NEW y \in {Erased, Zero, a + 1},
         flash' = Programmed(flash, a, x, y)
  PROVE  NoForeignWords'
<1>1. a + 1 \in Addresses /\ (a + 1) % 2 = 1 /\ a # a + 1
  BY PairInside, AddressesAreContents
<1>2. flash' = [flash EXCEPT ![a] = x, ![a + 1] = y] /\ flash \in [Addresses -> Contents]
  BY DEF Programmed, BoardTypeOK, Flashes
<1>3. SUFFICES ASSUME NEW b \in Addresses
               PROVE  flash'[b] \in {Erased, Old, b} \/ (flash'[b] = Zero /\ b % 2 = 1)
  BY DEF NoForeignWords
<1>4. CASE b = a
  BY <1>1, <1>2, <1>4
<1>5. CASE b = a + 1
  BY <1>1, <1>2, <1>5
<1>6. CASE b # a /\ b # a + 1
  BY <1>2, <1>6 DEF NoForeignWords
<1> QED
  BY <1>4, <1>5, <1>6

LEMMA ProgramAtHome ==
  ASSUME BoardTypeOK, NoForeignWords, NEW a \in Addresses, NEW y \in {Zero, a + 1},
         NEW ok \in BOOLEAN, FlashProgram(a, y, ok)
  PROVE  NoForeignWords'
<1>1. CASE flash' = flash
  BY <1>1 DEF NoForeignWords
<1>2. CASE flash' = Programmed(flash, a, a, y) /\ a % 2 = 0
  BY <1>2, PairAtHome
<1> QED
  BY <1>1, <1>2 DEF FlashProgram, Programmable

LEMMA FlushAtHome ==
  ASSUME BoardTypeOK, NoForeignWords, NEW ok \in BOOLEAN, FlushPending(ok)
  PROVE  NoForeignWords'
<1>1. CASE ram.pending = NoAddress
  BY <1>1 DEF FlushPending, NoForeignWords
<1>2. CASE ram.pending # NoAddress
  <2>1. ram.pending \in Addresses
    BY <1>2 DEF BoardTypeOK, Members
  <2> QED
    BY <1>2, <2>1, ProgramAtHome DEF FlushPending
<1> QED
  BY <1>1, <1>2

LEMMA NextAtHome == BoardInv /\ NoForeignWords /\ [Next]_vars => NoForeignWords'
<1> SUFFICES ASSUME BoardInv, NoForeignWords, [Next]_vars PROVE NoForeignWords'
  OBVIOUS
<1> USE DEF BoardInv
<1>1. CASE flash' = flash
  BY <1>1 DEF NoForeignWords
<1>2. CASE ErasePage
  <2>1. flash' = flash \/ flash' = Programmed(flash, todo.page, Erased, Erased)
    BY <1>2 DEF ErasePage, PageErased
  <2>2. todo.page \in Addresses /\ todo.page % 2 = 0
    BY <1>2 DEF ErasePage, EraseInArea, BoardTypeOK, Works
  <2> QED
    BY <1>1, <2>1, <2>2, PairAtHome
<1>3. CASE HandleProgrammingDone \/ HandleError \/ HandleTimeouts
  <2>1. flash' = flash \/ \E ok \in BOOLEAN : FlushPending(ok)
    BY <1>3 DEF HandleProgrammingDone, HandleError, HandleTimeouts
  <2> QED
    BY <1>1, <2>1, FlushAtHome
<1>4. CASE ProgramData
  <2>1. CASE IsSecondWord
    <3>1. ram.pending \in Addresses /\ ram.command.addr = ram.pending + 1
      BY <2>1 DEF IsSecondWord, BoardTypeOK, Members
    <3>2. PICK ok \in BOOLEAN : FlashProgram(ram.pending, ram.command.addr, ok)
      BY <1>4, <2>1 DEF ProgramData
    <3> QED
      BY <3>1, <3>2, ProgramAtHome
  <2>2. CASE ~IsSecondWord
    BY <1>1, <1>4, <2>2 DEF ProgramData
  <2> QED
    BY <2>1, <2>2
<1> QED
  BY <1>1, <1>2, <1>3, <1>4
     DEF Next, BoardStep, vars, EraseMetaData, ProgramMetaData, HandleInit, DecideInit,
         HandleWaitingForCommand, HandleProgrammingReady, ResetTimeout,
         HandleWaitingForProgrammingReady, PrepareFlash, HandleProgrammingInProgress,
         NothingReceived, HandleProgrammingRestart, RestartAgain, HandleProgrammingChecksum,
         IgnoreData, HandleProgrammingComplete, HandleJumpToApp, ProcessTxQueue,
         HandlePendingUsbReplies, SendReply, ProcessRxQueuedMessage, ApplicationInit,
         ApplicationReceive, MoveToBootloader, PowerLoss, Reset, Tick, Collect, DropReplies, Send

(* Data words in any order, twice, from two tools at once, across resets and *)
(* failing erases: no word is ever programmed at another's address, nor next *)
(* to a word it does not belong with.                                        *)
THEOREM WordsStayHome == Spec => []NoForeignWords
<1>1. Init => NoForeignWords
  BY DEF Init, NoForeignWords
<1> QED
  BY <1>1, InitBoardInv, NextBoardInv, NextAtHome, PTL DEF Spec
=============================================================================
