----------------------- MODULE FlashingSession_proofs -----------------------
(* The programmer is one environment of the bootloader: each of its steps is *)
(* a step of Bootloader's specification, or changes nothing of it, so that   *)
(* what holds of the bootloader in any environment holds in every session.   *)
(* Then what only the two together promise: no holes, no acknowledged word   *)
(* lost, nothing complete that is not whole, however messages are delayed,   *)
(* lost and repeated, sessions follow each other and power fails.            *)
EXTENDS FlashingSession, Bootloader_proofs

-----------------------------------------------------------------------------
HostTypeOK ==
  /\ host \in HostStates /\ target \in Areas /\ hostLink \in HostLinks
  /\ at \in Addresses \cup {AppWords + ConfigWords}
  /\ tries \in 0 .. 2 * StartTries + ReadySends + DataTries + DoneTries
  /\ sessions \in 0 .. MaxSessions /\ strays \in 0 .. MaxStrays

(* While it programs, the address is one of the image it was given.          *)
AtItsImage ==
  /\ host \in {"waitAck", "ready"} => at = AreaStart(target)
  /\ host = "data" => at \in Image(target)
HostInv == HostTypeOK /\ AtItsImage

LEMMA Images ==
  ASSUME NEW area \in Areas
  PROVE  /\ ImageEnd(area) \in Nat
         /\ AreaStart(area) \in Image(area)
         /\ Image(area) \subseteq Addresses
         /\ \A a \in Image(area) : a + 1 < ImageEnd(area) => a + 1 \in Image(area)
<1>1. /\ AppImage \in Nat /\ ConfigImage \in Nat
      /\ AppImage >= 1 /\ AppImage <= AppWords
      /\ ConfigImage >= 1 /\ ConfigImage <= ConfigWords
  BY SessionAssumption, Sizes
<1>2. CASE area = "app"
  BY <1>1, <1>2, Sizes DEF ImageEnd, Image, AreaStart, Addresses
<1>3. CASE area = "config"
  BY <1>1, <1>3, Sizes DEF ImageEnd, Image, AreaStart, Addresses
<1> QED
  BY <1>2, <1>3 DEF Areas

LEMMA Tries ==
  /\ StartTries \in Nat /\ ReadySends \in Nat /\ DataTries \in Nat /\ DoneTries \in Nat
  /\ MaxSessions \in Nat /\ MaxStrays \in Nat
  /\ 0 \in 0 .. 2 * StartTries + ReadySends + DataTries + DoneTries
BY SessionAssumption

LEMMA RequestIsMessage ==
  ASSUME HostInv, Waiting
  PROVE  Request \in Messages
<1>1. hostLink \in Links /\ target \in Kinds
  BY SessionAssumption DEF HostInv, HostTypeOK, Areas, Kinds
<1>2. {"toApp", "start", "data", "done"} \subseteq Kinds
  BY DEF Kinds
<1>3. host = "data" => at \in Addresses
  BY Images DEF HostInv, HostTypeOK, AtItsImage
<1>4. CASE host = "waitAck"
  BY <1>1, <1>2, <1>4, MessagesBuilt DEF Request
<1>5. CASE host = "ready"
  BY <1>1, <1>5, MessagesBuilt DEF Request
<1>6. CASE host = "data"
  BY <1>1, <1>2, <1>3, <1>6, MessagesBuilt DEF Request
<1>7. CASE host = "finish"
  BY <1>1, <1>2, <1>7, MessagesBuilt DEF Request
<1> QED
  BY <1>4, <1>5, <1>6, <1>7 DEF Waiting

(* Every step of the composition is a step of the board or its environment.  *)
LEMMA SessionStepIsBoardStep ==
  ASSUME HostInv, [SessionNext]_allVars
  PROVE  [Next]_vars
<1>1. CASE StartSession
  BY <1>1 DEF StartSession, Next
<1>2. CASE SendRequest
  BY <1>2, RequestIsMessage DEF SendRequest, Next
<1>3. CASE ReceiveReply
  BY <1>3 DEF ReceiveReply, Next
<1>4. CASE GiveUp
  BY <1>4 DEF GiveUp
<1>5. CASE LoseReply
  BY <1>5 DEF LoseReply, Next
<1>6. CASE SendStray
  <2>1. PICK kind \in {"checksum", "start"}, link \in HostLinks :
          Send(Message(kind, NoAddress, link))
    BY <1>6 DEF SendStray
  <2>2. Message(kind, NoAddress, link) \in Messages
    BY <2>1, SessionAssumption, MessagesBuilt DEF Kinds
  <2> QED
    BY <2>1, <2>2 DEF Next
<1>7. CASE BoardStep \/ Tick \/ PowerLoss
  BY <1>7 DEF Next
<1>8. CASE UNCHANGED allVars
  BY <1>8 DEF allVars
<1> QED
  BY <1>1, <1>2, <1>3, <1>4, <1>5, <1>6, <1>7, <1>8 DEF SessionNext, HostStep

LEMMA InitHostInv == SessionInit => HostInv
<1> SUFFICES ASSUME SessionInit PROVE HostInv
  OBVIOUS
<1>1. 0 \in 0 .. MaxSessions /\ 0 \in 0 .. MaxStrays
  BY Tries
<1>2. HostTypeOK
  BY <1>1, Tries, Sizes DEF SessionInit, HostTypeOK, HostStates, Areas
<1> QED
  BY <1>2 DEF HostInv, AtItsImage, SessionInit

LEMMA NextHostInv == HostInv /\ [SessionNext]_allVars => HostInv'
<1> SUFFICES ASSUME HostInv, [SessionNext]_allVars PROVE HostInv'
  OBVIOUS
<1> USE DEF HostInv
<1>1. CASE StartSession
  <2>1. AreaStart(target') \in Addresses
    BY <1>1, Images DEF StartSession
  <2>2. sessions' \in 0 .. MaxSessions
    BY <1>1, Tries DEF StartSession, HostTypeOK
  <2> QED
    BY <1>1, <2>1, <2>2, Tries DEF StartSession, HostTypeOK, AtItsImage, HostStates
<1>2. CASE SendRequest
  <2>1. Limit \in 0 .. 2 * StartTries + ReadySends + DataTries + DoneTries
    BY <1>2, Tries DEF SendRequest, Waiting, Limit
  <2>2. tries' \in 0 .. 2 * StartTries + ReadySends + DataTries + DoneTries
    BY <1>2, <2>1, Tries DEF SendRequest, HostTypeOK
  <2> QED
    BY <1>2, <2>2 DEF SendRequest, HostTypeOK, AtItsImage, Image, ImageEnd
<1>3. CASE ReceiveReply
  <2>1. CASE host = "waitAck" /\ host' = "ready" /\ at' = at
    BY <1>3, <2>1, Tries DEF ReceiveReply, HostTypeOK, AtItsImage, HostStates
  <2>2. CASE host = "data" /\ at' = at + 1 /\ host' = AfterWord(at + 1)
    <3>1. at \in Image(target) /\ target' = target
      BY <1>3, <2>2 DEF ReceiveReply, AtItsImage
    <3>2. at' \in Addresses \cup {AppWords + ConfigWords}
      BY <2>2, <3>1, Images, Sizes DEF HostTypeOK, Addresses
    <3>3. host' \in {"data", "finish"} /\ (host' = "data" => at' \in Image(target))
      BY <2>2, <3>1, Images DEF HostTypeOK, AfterWord
    <3>4. HostTypeOK'
      BY <1>3, <2>2, <3>1, <3>2, <3>3, Tries DEF ReceiveReply, HostTypeOK, HostStates
    <3>5. AtItsImage'
      BY <3>1, <3>3 DEF AtItsImage, Image, ImageEnd
    <3> QED
      BY <3>4, <3>5
  <2>3. CASE host = "finish" /\ host' = "ok" /\ at' = at
    BY <1>3, <2>3, Tries DEF ReceiveReply, HostTypeOK, AtItsImage, HostStates
  <2>4. CASE UNCHANGED <<tries, host, at>>
    BY <1>3, <2>4 DEF ReceiveReply, HostTypeOK, AtItsImage, Image, ImageEnd
  <2> QED
    BY <1>3, <2>1, <2>2, <2>3, <2>4 DEF ReceiveReply
<1>4. CASE GiveUp
  <2>1. host = "ready" => at \in Image(target)
    BY Images DEF HostTypeOK, AtItsImage
  <2> QED
    BY <1>4, <2>1, Tries DEF GiveUp, Waiting, HostTypeOK, AtItsImage, HostStates, Image, ImageEnd
<1>5. CASE SendStray
  BY <1>5, Tries DEF SendStray, HostTypeOK, AtItsImage, Image, ImageEnd
<1>6. CASE UNCHANGED hostVars
  BY <1>6 DEF hostVars, HostTypeOK, AtItsImage, Image, ImageEnd
<1> QED
  BY <1>1, <1>2, <1>3, <1>4, <1>5, <1>6 DEF SessionNext, HostStep, LoseReply, allVars, hostVars

(* The programmer and the board together do nothing the board's own           *)
(* specification does not allow.                                             *)
THEOREM SessionImplementsBoard == SessionSpec => Spec
<1>1. SessionInit => Init
  BY DEF SessionInit
<1>2. HostInv /\ [SessionNext]_allVars => [Next]_vars
  BY SessionStepIsBoardStep
<1> QED
  BY <1>1, <1>2, InitHostInv, NextHostInv, PTL DEF SessionSpec, Spec

(* Both stay in the states they can be in, for all sizes and bounds.          *)
THEOREM SessionStaysTyped == SessionSpec => []TypeOK
<1>1. HostInv /\ BoardTypeOK => TypeOK
  BY DEF HostInv, HostTypeOK, TypeOK
<1> QED
  BY <1>1, InitHostInv, NextHostInv, SessionImplementsBoard, BoardStaysTyped, PTL DEF SessionSpec

(* And so what is proved of the board holds of every session.                 *)
THEOREM SessionIsSafe ==
  SessionSpec => /\ []UnlockedOnlyInProgress
                 /\ []NoForeignWords
                 /\ TouchedOnlyInProgress
BY SessionImplementsBoard, OpenOnlyInSession, WordsStayHome, TouchedOnlyInSession, PTL
-----------------------------------------------------------------------------
(* NoHoles, AcknowledgedWordsAreSafe and CompleteMeansWhole are about one     *)
(* session on the board.  Where it stands while there is one, and that an     *)
(* erase which comes to its end has left nothing of the area.                 *)
Turn == {"state", "timeouts", "tx", "rx"}
Writing == pc \in {"metaErase", "metaProgram"}
Starting == pc \in {"prepare", "erase"} \/ (Writing /\ todo.next = "prepare")
Programming == ram.boot = "PROGRAMMING_IN_PROGRESS" /\ pc \in Turn
Complete == ram.boot = "PROGRAMMING_COMPLETE"

Placed ==
  /\ ram.boot = "PROGRAMMING_IN_PROGRESS" =>
       /\ ram.area \in Areas
       /\ pc \in Turn \cup {"restart"} \/ (Writing /\ todo.next = "restart")
  /\ Complete => ram.area \in Areas /\ pc \in Turn
  /\ Starting => /\ ram.boot = "WAITING_FOR_PROGRAMMING_READY" /\ ~ram.received
                 /\ ram.area \in Areas /\ ram.command.kind = ram.area
ErasedSoFar ==
  pc = "erase" =>
    /\ unlocked
    /\ \A a \in AreaStart(ram.area) .. todo.page - 1 : flash[a] = Erased
PlaceInv == Placed /\ ErasedSoFar

LEMMA InitPlaceInv == Init => PlaceInv
BY DEF Init, PlaceInv, Placed, ErasedSoFar, PoweredOn, Complete, Starting, Writing

(* Outside a session there is nothing to say.                                *)
LEMMA PlaceLeft ==
  ASSUME ram'.boot \notin {"PROGRAMMING_IN_PROGRESS", "PROGRAMMING_COMPLETE"},
         pc' \notin {"prepare", "erase"}, pc' \in {"metaErase", "metaProgram"} => todo'.next # "prepare"
  PROVE  PlaceInv'
BY DEF PlaceInv, Placed, ErasedSoFar, Complete, Starting, Writing

(* A step inside the turn of the main loop.                                  *)
LEMMA PlaceInTurn ==
  ASSUME PlaceInv, pc' \in Turn, ram'.area = ram.area,
         ram'.boot \in {"PROGRAMMING_IN_PROGRESS", "PROGRAMMING_COMPLETE"}
           => ram.boot \in {"PROGRAMMING_IN_PROGRESS", "PROGRAMMING_COMPLETE"}
  PROVE  PlaceInv'
BY DEF PlaceInv, Placed, ErasedSoFar, Complete, Starting, Writing, Turn

LEMMA PlaceMetaData ==
  ASSUME BoardInv, PlaceInv, EraseMetaData \/ ProgramMetaData
  PROVE  PlaceInv'
<1> USE DEF BoardInv
<1>1. todo.next \notin {"erase", "metaErase", "metaProgram"} /\ ram' = ram /\ Writing
  BY DEF WriteLeadsOn, EraseMetaData, ProgramMetaData, Writing
<1>2. (pc' = "metaProgram" /\ todo' = todo) \/ pc' = todo.next
  BY DEF EraseMetaData, ProgramMetaData
<1> QED
  BY <1>1, <1>2 DEF PlaceInv, Placed, ErasedSoFar, Complete, Starting, Writing, Turn

LEMMA PlaceErase ==
  ASSUME BoardInv, PlaceInv, PrepareFlash \/ ErasePage
  PROVE  PlaceInv'
<1> USE DEF BoardInv
<1>1. CASE PrepareFlash
  <2>1. ram' = ram /\ pc' = "erase" /\ unlocked' /\ todo'.page = AreaStart(ram.area)
        /\ ram.area \in Areas
    BY <1>1 DEF PrepareFlash, NothingToDo, EraseInArea
  <2>2. Placed'
    BY <1>1, <2>1 DEF PlaceInv, Placed, PrepareFlash, Starting, Writing, Complete, Turn
  <2> QED
    BY <2>1, <2>2, AreaBounds DEF PlaceInv, ErasedSoFar
<1>2. CASE ErasePage
  <2>1. PICK ok \in BOOLEAN :
          /\ flash' = IF ok THEN PageErased(flash, todo.page) ELSE flash
          /\ unlocked' = ok
          /\ \/ ok /\ todo.page + 2 < AreaEnd(ram.area)
                /\ todo' = [todo EXCEPT !.page = @ + 2]
                /\ UNCHANGED <<pc, ram, age>>
             \/ BeginSession(FALSE) \/ BeginSession(TRUE)
    BY <1>2 DEF ErasePage
  <2>2. CASE UNCHANGED <<pc, ram, age>> /\ ok /\ todo' = [todo EXCEPT !.page = @ + 2]
    <3>1. todo.page \in Addresses /\ todo'.page = todo.page + 2 /\ todo.page \in Nat
      BY <2>2, AddressesAreContents DEF BoardTypeOK, Works
    <3>2. todo.page + 1 \in Addresses
      BY <1>2, <3>1, PairInside DEF ErasePage, EraseInArea
    <3>3. ASSUME NEW a \in AreaStart(ram.area) .. todo'.page - 1 PROVE flash'[a] = Erased
      <4>0. ram.area \in Areas /\ AreaStart(ram.area) \in Nat
        BY <1>2, AreaBounds DEF ErasePage, EraseInArea
      <4>1. flash' = [flash EXCEPT ![todo.page] = Erased, ![todo.page + 1] = Erased]
            /\ flash \in [Addresses -> Contents]
        BY <2>1, <2>2 DEF PageErased, Programmed, BoardTypeOK, Flashes
      <4>2. a \in AreaStart(ram.area) .. todo.page - 1 \/ a = todo.page \/ a = todo.page + 1
        BY <3>1, <3>3, <4>0
      <4>3. CASE a \in AreaStart(ram.area) .. todo.page - 1
        <5>1. flash[a] = Erased /\ a # todo.page /\ a # todo.page + 1 /\ a \in Addresses
          BY <1>2, <3>1, <4>0, <4>3, Sizes DEF PlaceInv, ErasedSoFar, ErasePage, Addresses
        <5> QED
          BY <4>1, <5>1
      <4> QED
        BY <3>1, <3>2, <4>1, <4>2, <4>3
    <3>4. Placed'
      BY <1>2, <2>2 DEF PlaceInv, Placed, ErasePage, Starting, Writing, Complete, Turn
    <3> QED
      BY <2>1, <2>2, <3>3, <3>4 DEF PlaceInv, ErasedSoFar
  <2>3. ASSUME NEW keep \in BOOLEAN, BeginSession(keep) PROVE PlaceInv'
    <3>1. pc' = "timeouts" /\ ram'.area = ram.area /\ ram'.boot = "PROGRAMMING_IN_PROGRESS"
      BY <2>3 DEF BeginSession, BoardTypeOK, Members
    <3> QED
      BY <1>2, <3>1 DEF ErasePage, EraseInArea, PlaceInv, Placed, ErasedSoFar, Starting,
                        Writing, Complete, Turn
  <2> QED
    BY <2>1, <2>2, <2>3
<1> QED
  BY <1>1, <1>2

LEMMA PlaceSession ==
  ASSUME BoardInv, PlaceInv, HandleProgrammingInProgress
  PROVE  PlaceInv'
<1> USE DEF BoardInv
<1>1. ram \in Members
  BY DEF BoardTypeOK
<1>2. CASE HandleProgrammingRestart
  BY <1>1, <1>2 DEF HandleProgrammingRestart, Handling, InState, Taken, WriteMetaData, Members,
                    PlaceInv, Placed, ErasedSoFar, Starting, Writing, Complete, Turn
<1>3. CASE ~HandleProgrammingRestart
  <2>1. ram.boot = "PROGRAMMING_IN_PROGRESS" /\ pc' = "timeouts" /\ ram'.area = ram.area
    BY <1>1, <1>3
       DEF HandleProgrammingInProgress, NothingReceived, HandleProgrammingDone,
           HandleProgrammingChecksum, IgnoreData, ProgramData, Handling, InState, Taken, Reply,
           Members
  <2> QED
    BY <2>1, PlaceInTurn DEF Turn
<1> QED
  BY <1>2, <1>3
(* Jumping, or staying because nothing is there to jump to.                  *)
LEMMA JumpLeaves ==
  ASSUME BoardTypeOK, NEW r \in Members, NEW force \in BOOLEAN, NEW image,
         NEW next \in {"timeouts", "tx"}, JumpToApplication(force, image, r, next)
  PROVE  /\ ram'.boot \in {"INIT", "WAITING_FOR_COMMAND"}
         /\ pc' = "app" \/ (pc' = "metaErase" /\ todo'.next = next)
         /\ inbox' = inbox \/ inbox' = <<>>
         /\ ram' = PoweredOn("INIT") \/ (ram'.command = r.command /\ ram'.replying = r.replying
                                          /\ ram'.reply = r.reply)
<1>1. CASE StartApplication
  BY <1>1 DEF StartApplication, PoweredOn
<1>2. CASE ResetToWaitingForCommand(r, next)
  BY <1>2 DEF ResetToWaitingForCommand, WriteMetaData, Members
<1> QED
  BY <1>1, <1>2 DEF JumpToApplication

(* What handleTimeouts() does: nothing, or it leaves the session.            *)
LEMMA TimeoutsLeave ==
  ASSUME BoardInv, HandleTimeouts
  PROVE  \/ /\ pc' = "tx" /\ UNCHANGED <<flash, ram, inbox, faults>>
            /\ ~IsQuiet
         \/ /\ ram'.boot \in {"ERROR_STATE", "JUMP_TO_APP", "INIT", "WAITING_FOR_COMMAND"}
            /\ pc' \in {"tx", "app"} \/ (pc' = "metaErase" /\ todo'.next = "tx")
            /\ inbox' = inbox \/ inbox' = <<>>
            /\ ram' = PoweredOn("INIT") \/ (ram'.command = ram.command /\ ram'.replying = ram.replying
                                             /\ ram'.reply = ram.reply)
<1> DEFINE r == IF IsQuiet THEN [ram EXCEPT !.boot = "ERROR_STATE"] ELSE ram
<1>1. r \in Members /\ ram \in Members /\ r.command = ram.command /\ r.replying = ram.replying
      /\ r.reply = ram.reply /\ (IsQuiet => r.boot = "ERROR_STATE")
  BY DEF BoardInv, BoardTypeOK, Members, BootloaderStates
<1>2. CASE ram' = r /\ pc' = "tx" /\ inbox' = inbox
  BY <1>1, <1>2 DEF HandleTimeouts
<1>3. CASE ram' = [r EXCEPT !.boot = "JUMP_TO_APP"] /\ pc' = "tx" /\ inbox' = inbox
  BY <1>1, <1>3 DEF Members
<1>4. CASE JumpToApplication(FALSE, flash', r, "tx")
  BY <1>1, <1>4, JumpLeaves DEF BoardInv
<1> QED
  BY <1>2, <1>3, <1>4 DEF HandleTimeouts

LEMMA PlaceBoardStep ==
  ASSUME BoardInv, PlaceInv, BoardStep
  PROVE  PlaceInv'
<1> USE DEF BoardInv
<1>1. ram \in Members
  BY DEF BoardTypeOK
<1>2. CASE HandleInit
  BY <1>2, PlaceLeft DEF HandleInit, InState, WriteMetaData
<1>3. CASE DecideInit
  BY <1>1, <1>3, PlaceLeft DEF DecideInit, Members
<1>4. CASE HandleWaitingForCommand
  BY <1>1, <1>4, PlaceLeft DEF HandleWaitingForCommand, InState, Members
<1>5. CASE HandleProgrammingReady
  BY <1>1, <1>5, PlaceLeft DEF HandleProgrammingReady, InState, Members, Reply
<1>6. CASE ResetTimeout
  BY <1>1, <1>6, PlaceLeft DEF ResetTimeout, Members
<1>7. CASE HandleWaitingForProgrammingReady
  <2>1. CASE IsProgrammingReadyCommand
    BY <1>1, <1>7, <2>1 DEF HandleWaitingForProgrammingReady, IsProgrammingReadyCommand, InState,
       WriteMetaData, Members, PlaceInv, Placed, ErasedSoFar, Starting, Writing, Complete, Turn
  <2>2. CASE ~IsProgrammingReadyCommand
    BY <1>1, <1>7, <2>2, PlaceLeft DEF HandleWaitingForProgrammingReady, InState
  <2> QED
    BY <2>1, <2>2
<1>8. CASE RestartAgain
  BY <1>1, <1>8, PlaceLeft DEF RestartAgain, WriteMetaData, Members
<1>9. CASE HandleProgrammingComplete
  BY <1>1, <1>9, PlaceLeft DEF HandleProgrammingComplete, WriteMetaData, Members
<1>10. CASE HandleError
  BY <1>1, <1>10, PlaceLeft DEF HandleError, WriteMetaData, Members
<1>11. CASE HandleJumpToApp
  BY <1>1, <1>11, JumpLeaves, PlaceLeft DEF HandleJumpToApp
<1>12. CASE HandleTimeouts
  <2>1. CASE pc' = "tx" /\ ram' = ram
    BY <2>1, PlaceInTurn DEF Turn
  <2> QED
    BY <1>12, <2>1, TimeoutsLeave, PlaceLeft
<1>13. CASE ProcessTxQueue \/ HandlePendingUsbReplies
  <2>1. pc' \in Turn /\ ram'.area = ram.area /\ ram'.boot = ram.boot
    BY <1>1, <1>13 DEF ProcessTxQueue, HandlePendingUsbReplies, SendReply, Turn, Members
  <2> QED
    BY <2>1, PlaceInTurn
<1>14. CASE ProcessRxQueuedMessage
  <2>1. pc' \in Turn /\ ram'.area = ram.area
        /\ (ram'.boot = ram.boot \/ ram'.boot = "PROGRAMMING_READY")
    BY <1>1, <1>14 DEF ProcessRxQueuedMessage, ProcessProgrammingCommand, Turn, Members, Reply
  <2> QED
    BY <2>1, PlaceInTurn
<1>15. CASE ApplicationInit
  BY <1>15, PlaceLeft DEF ApplicationInit, WriteMetaData, PlaceInv, Placed, Complete, Turn, Writing
<1>16. CASE ApplicationReceive
  BY <1>16, PlaceLeft DEF ApplicationReceive, WriteMetaData, PlaceInv, Placed, Complete, Turn, Writing
<1>17. CASE MoveToBootloader
  BY <1>17, PlaceLeft DEF MoveToBootloader, Reset, PoweredOn
<1> QED
  BY <1>2, <1>3, <1>4, <1>5, <1>6, <1>7, <1>8, <1>9, <1>10, <1>11, <1>12, <1>13, <1>14, <1>15,
     <1>16, <1>17, PlaceMetaData, PlaceErase, PlaceSession DEF BoardStep

LEMMA NextPlaceInv == BoardInv /\ PlaceInv /\ [Next]_vars => PlaceInv'
<1> SUFFICES ASSUME BoardInv, PlaceInv, [Next]_vars PROVE PlaceInv'
  OBVIOUS
<1>1. CASE PowerLoss
  BY <1>1, PlaceLeft DEF PowerLoss, Reset, PoweredOn
<1>2. CASE UNCHANGED <<flash, unlocked, pc, todo, ram>>
  BY <1>2 DEF PlaceInv, Placed, ErasedSoFar, Complete, Starting, Writing
<1> QED
  BY <1>1, <1>2, PlaceBoardStep DEF Next, vars, Tick, Collect, DropReplies, Send
-----------------------------------------------------------------------------
(* What the messages under way mean to a session, as long as no operation on  *)
(* the flash has failed.  A word is held when it is in the flash or waits for *)
(* its pair.                                                                 *)
AreaWords(area) == AreaStart(area) .. AreaEnd(area) - 1
InArea          == AreaWords(ram.area)
IsWritten(a)    == flash[a] = a
IsHeld(a)       == IsWritten(a) \/ ram.pending = a
NothingHeld     == \A a \in InArea : ~IsHeld(a)

(* Pairs are programmed whole while a session is open, and whatever is held   *)
(* has the whole of the area before it in the flash.                          *)
Layout ==
  /\ Programming =>
       /\ unlocked
       /\ \A a \in InArea : a % 2 = 0 =>
            \/ flash[a] = Erased /\ flash[a + 1] = Erased
            \/ IsWritten(a) /\ IsWritten(a + 1)
       /\ \A a \in InArea : IsHeld(a) => \A b \in AreaStart(ram.area) .. a - 1 : IsWritten(b)
  /\ Complete =>
       \A a \in InArea : IsHeld(a) => \A b \in AreaStart(ram.area) .. a : IsWritten(b)

(* A data word on its way goes on exactly where the session is: it is the     *)
(* next word or the last one again; or it is not for this area, of which then *)
(* nothing has been written.                                                 *)
Fits(x) ==
  IF x \in InArea
  THEN /\ \A b \in AreaStart(ram.area) .. x - 1 : IsHeld(b)
       /\ \A a \in InArea : IsHeld(a) => a <= x
  ELSE NothingHeld
IsData(m) == m.kind = "data"
Talking == {"ready", "data", "finish", "ok"}
HasWord == ram.received /\ ram.command.kind = "data"

WordsFit ==
  Programming =>
    /\ \A i \in 1 .. Len(inbox) : IsData(inbox[i]) => Fits(inbox[i].addr)
    /\ HasWord =>
         /\ Fits(ram.command.addr)
         /\ \A i \in 1 .. Len(inbox) : IsData(inbox[i]) =>
              ram.command.addr \in Image(target) /\ ram.command.addr <= inbox[i].addr
         /\ host \in Talking => ram.command.addr \in Image(target) /\ ram.command.addr <= at

(* The inbox holds the words in the order of their addresses, behind the      *)
(* command that names the area.                                              *)
Chatter == {"toApp", "start", "checksum"}
InboxOrdered ==
  /\ \A i \in 1 .. Len(inbox) : IsData(inbox[i]) =>
       inbox[i].addr \in Image(target) /\ inbox[i].addr <= at
  /\ \A i, j \in 1 .. Len(inbox) : i < j /\ IsData(inbox[i]) =>
       /\ IsData(inbox[j]) => inbox[i].addr <= inbox[j].addr
       /\ inbox[j].kind \notin Areas
  /\ \A i \in 1 .. Len(inbox) :
       /\ host \in {"idle", "waitAck"} => inbox[i].kind \in Chatter
       /\ host = "ready" => inbox[i].kind \in Chatter \cup {target}
       /\ host = "data" => inbox[i].kind # "done"

(* A session can still begin while a command that names an area is in the     *)
(* inbox, or was the last to be taken: the programmer is at its first word    *)
(* then, and has no word acknowledged.                                        *)
ReadyAhead ==
  ram.command.kind \in Areas \/ \E i \in 1 .. Len(inbox) : inbox[i].kind \in Areas
WordReply   == ram.replying /\ ram.reply.kind = "data"
NoWordAcked == ~WordReply /\ \A i \in 1 .. Len(outbox) : ~IsData(outbox[i])
Untouched ==
  /\ Programming => NothingHeld /\ ~(ram.received /\ ram.command.kind \in {"data", "done"})
  /\ ~Complete
StartSeen ==
  \/ ram.replying /\ ram.reply.kind = "start"
  \/ \E i \in 1 .. Len(outbox) : outbox[i].kind = "start"

Beginnings ==
  /\ ReadyAhead =>
       /\ \A i \in 1 .. Len(inbox) : IsData(inbox[i]) => inbox[i].addr = AreaStart(target)
       /\ host \notin {"finish", "ok"}
       /\ host = "data" => at = AreaStart(target) /\ NoWordAcked /\ Untouched
  /\ host = "ready" => NoWordAcked /\ Untouched
  /\ host = "waitAck" => \A i, j \in 1 .. Len(outbox) :
       i < j /\ outbox[i].kind = "start" => ~IsData(outbox[j])
  /\ host = "waitAck" /\ StartSeen => ~WordReply /\ Untouched
  /\ host \in {"idle", "ready", "data"} =>
       /\ ~Complete
       /\ Programming => ~(ram.received /\ ram.command.kind = "done")

(* The programmer is never ahead of the board, and at most one word behind.   *)
HostBehind ==
  /\ host \in {"finish", "ok"} => at = ImageEnd(target)
  /\ host \in {"data", "finish", "ok"} /\ (Programming \/ Complete) =>
       /\ ram.area = target =>
            /\ \A a \in AreaStart(target) .. at - 1 : IsHeld(a)
            /\ Programming => \A a \in InArea : IsHeld(a) => a <= at
       /\ Programming /\ ram.area # target => NothingHeld
  /\ host = "data" /\ (Programming \/ Complete) /\ ram.area = target =>
       /\ \A i \in 1 .. Len(outbox) : IsData(outbox[i]) /\ outbox[i].addr \in InArea
            => IsHeld(outbox[i].addr)
       /\ WordReply /\ ram.reply.addr \in InArea => IsHeld(ram.reply.addr)

SessionParts == Layout /\ WordsFit /\ InboxOrdered /\ Beginnings /\ HostBehind
SessionInv == faults = 0 => SessionParts

LEMMA InitSessionParts == SessionInit => SessionParts
BY DEF SessionInit, Init, PoweredOn, SessionParts, Layout, WordsFit, InboxOrdered, Beginnings,
       HostBehind, Programming, Complete, HasWord, Untouched, StartSeen, ReadyAhead, NoMessage,
       Message, Areas

(* The kinds of numbers about.                                               *)
LEMMA Bounds ==
  ASSUME BoardTypeOK, HostTypeOK
  PROVE  /\ target \in Areas /\ at \in Int
         /\ AreaStart(target) \in Int /\ ImageEnd(target) \in Int
         /\ Image(target) \subseteq AreaWords(target) /\ AreaWords(target) \subseteq Addresses
         /\ \A i \in 1 .. Len(inbox) : inbox[i] \in Messages /\ inbox[i].addr \in Int
         /\ \A i \in 1 .. Len(outbox) : outbox[i] \in Messages /\ outbox[i].addr \in Int
         /\ ram \in Members /\ ram.command \in Messages /\ ram.reply \in Messages
         /\ ram.command.addr \in Int /\ ram.pending \in Int /\ ram.reply.addr \in Int
         /\ Len(inbox) \in Nat /\ Len(outbox) \in Nat
<1>1. \A m \in Messages : m.addr \in Int
  BY AddressesAreContents DEF Messages, NoAddress
<1>2. \A i \in 1 .. Len(inbox) : inbox[i] \in Messages
  BY DEF BoardTypeOK
<1>3. \A i \in 1 .. Len(outbox) : outbox[i] \in Messages
  BY DEF BoardTypeOK
<1>4. ram \in Members /\ ram.command \in Messages /\ ram.reply \in Messages /\ ram.pending \in Int
  BY AddressesAreContents DEF BoardTypeOK, Members, NoAddress
<1>5. target \in Areas /\ at \in Int
  BY Sizes, AddressesAreContents DEF HostTypeOK
<1>6. /\ AreaStart(target) \in Int /\ ImageEnd(target) \in Int
      /\ Image(target) \subseteq AreaWords(target) /\ AreaWords(target) \subseteq Addresses
  <2>1. /\ AppImage \in Nat /\ ConfigImage \in Nat
        /\ AppImage >= 1 /\ AppImage <= AppWords
        /\ ConfigImage >= 1 /\ ConfigImage <= ConfigWords
    BY SessionAssumption, Sizes
  <2>2. CASE target = "app"
    BY <2>1, <2>2, Sizes DEF ImageEnd, Image, AreaStart, AreaEnd, AreaWords, Addresses
  <2>3. CASE target = "config"
    BY <2>1, <2>3, Sizes DEF ImageEnd, Image, AreaStart, AreaEnd, AreaWords, Addresses
  <2> QED
    BY <1>5, <2>2, <2>3 DEF Areas
<1>7. Len(inbox) \in Nat /\ Len(outbox) \in Nat
  BY DEF BoardTypeOK
<1> QED
  BY <1>1, <1>2, <1>3, <1>4, <1>5, <1>6, <1>7

(* What is left of the inbox is in the same order.                           *)
Later ==
  inbox' = inbox \/ inbox' = <<>> \/ (inbox # <<>> /\ inbox' = Tail(inbox))
LEMMA LaterMessages ==
  ASSUME inbox \in Seq(Messages), Later
  PROVE  \E d \in Nat : /\ Len(inbox') \in Nat /\ Len(inbox) \in Nat
                        /\ Len(inbox') + d <= Len(inbox)
                        /\ \A i \in 1 .. Len(inbox') : inbox'[i] = inbox[i + d] /\ i + d \in 1 .. Len(inbox)
<1>1. CASE inbox' = inbox \/ inbox' = <<>>
  <2>1. /\ Len(inbox') \in Nat /\ Len(inbox) \in Nat /\ Len(inbox') + 0 <= Len(inbox)
        /\ \A i \in 1 .. Len(inbox') : inbox'[i] = inbox[i + 0] /\ i + 0 \in 1 .. Len(inbox)
    BY <1>1
  <2> QED
    BY <2>1
<1>2. CASE inbox # <<>> /\ inbox' = Tail(inbox)
  <2>1. /\ Len(inbox') \in Nat /\ Len(inbox) \in Nat /\ Len(inbox') + 1 <= Len(inbox)
        /\ \A i \in 1 .. Len(inbox') : inbox'[i] = inbox[i + 1] /\ i + 1 \in 1 .. Len(inbox)
    BY <1>2
  <2> QED
    BY <2>1
<1> QED
  BY <1>1, <1>2 DEF Later

LEMMA InboxShorter ==
  ASSUME BoardTypeOK, InboxOrdered, Later, UNCHANGED <<host, target, at>>
  PROVE  InboxOrdered'
<1>1. inbox \in Seq(Messages)
  BY DEF BoardTypeOK
<1>2. PICK d \in Nat : /\ Len(inbox') \in Nat /\ Len(inbox) \in Nat
                      /\ Len(inbox') + d <= Len(inbox)
                      /\ \A i \in 1 .. Len(inbox') : inbox'[i] = inbox[i + d] /\ i + d \in 1 .. Len(inbox)
  BY <1>1, LaterMessages
<1>3. \A i \in 1 .. Len(inbox') : IsData(inbox'[i]) =>
        inbox'[i].addr \in Image(target') /\ inbox'[i].addr <= at'
  BY <1>2 DEF InboxOrdered, Image, ImageEnd
<1>4. ASSUME NEW i \in 1 .. Len(inbox'), NEW j \in 1 .. Len(inbox'), i < j, IsData(inbox'[i])
      PROVE  /\ IsData(inbox'[j]) => inbox'[i].addr <= inbox'[j].addr
             /\ inbox'[j].kind \notin Areas
  <2>1. i + d \in 1 .. Len(inbox) /\ j + d \in 1 .. Len(inbox) /\ i + d < j + d
        /\ inbox'[i] = inbox[i + d] /\ inbox'[j] = inbox[j + d]
    BY <1>2, <1>4
  <2> QED
    BY <1>4, <2>1 DEF InboxOrdered
<1>5. \A i \in 1 .. Len(inbox') :
        /\ host' \in {"idle", "waitAck"} => inbox'[i].kind \in Chatter
        /\ host' = "ready" => inbox'[i].kind \in Chatter \cup {target'}
        /\ host' = "data" => inbox'[i].kind # "done"
  BY <1>2 DEF InboxOrdered
<1> QED
  BY <1>3, <1>4, <1>5 DEF InboxOrdered, IsData

(* A step that ends outside a session, whatever it did to the flash.         *)
LEMMA OutsideKept ==
  ASSUME BoardTypeOK, SessionParts, ~Programming', ~Complete', Later,
         UNCHANGED <<outbox, host, target, at>>,
         ram'.command.kind \in Areas => ReadyAhead, WordReply' => WordReply
  PROVE  SessionParts'
<1>1. inbox \in Seq(Messages)
  BY DEF BoardTypeOK
<1>2. PICK d \in Nat : \A i \in 1 .. Len(inbox') : inbox'[i] = inbox[i + d] /\ i + d \in 1 .. Len(inbox)
  BY <1>1, LaterMessages
<1>3. Layout' /\ WordsFit' /\ Untouched'
  BY DEF Layout, WordsFit, Untouched
<1>4. InboxOrdered'
  BY InboxShorter DEF SessionParts
<1>5. ReadyAhead' => ReadyAhead
  BY <1>2 DEF ReadyAhead
<1>6. \A i \in 1 .. Len(inbox') : IsData(inbox'[i]) /\ ReadyAhead' => inbox'[i].addr = AreaStart(target')
  BY <1>2, <1>5 DEF SessionParts, Beginnings
<1>7. NoWordAcked => NoWordAcked'
  BY DEF NoWordAcked
<1>8. host = "waitAck" /\ StartSeen' => ~WordReply'
  BY DEF SessionParts, Beginnings, StartSeen, WordReply
<1>9. Beginnings'
  BY <1>3, <1>5, <1>6, <1>7, <1>8 DEF SessionParts, Beginnings
<1>10. HostBehind'
  BY DEF SessionParts, HostBehind, ImageEnd
<1> QED
  BY <1>3, <1>4, <1>9, <1>10 DEF SessionParts

(* A step of the turn that touches neither the session nor a message.        *)
LEMMA TurnKept ==
  ASSUME SessionParts, pc \in Turn, pc' \in Turn,
         UNCHANGED <<flash, unlocked, ram, inbox, outbox, host, target, at>>
  PROVE  SessionParts'
<1>1. /\ Programming' = Programming /\ Complete' = Complete /\ WordReply' = WordReply
      /\ NothingHeld' = NothingHeld /\ HasWord' = HasWord /\ ReadyAhead' = ReadyAhead
      /\ NoWordAcked' = NoWordAcked /\ StartSeen' = StartSeen
      /\ InArea' = InArea /\ \A a : IsHeld(a)' = IsHeld(a)
      /\ \A a : Fits(a)' = Fits(a) /\ IsWritten(a)' = IsWritten(a)
  BY DEF Programming, Complete, NothingHeld, HasWord, ReadyAhead, NoWordAcked, WordReply,
         StartSeen, Fits, InArea, IsHeld, IsWritten, IsData
<1> QED
  BY <1>1 DEF SessionParts, Layout, WordsFit, InboxOrdered, Beginnings, HostBehind, Untouched,
              Image, ImageEnd
-----------------------------------------------------------------------------
(* The programmer and the links.  What depends on the board only.            *)
SameBoard == UNCHANGED <<flash, unlocked, pc, ram>>
LEMMA BoardUntouched ==
  ASSUME SameBoard
  PROVE  /\ Programming' = Programming /\ Complete' = Complete /\ WordReply' = WordReply
         /\ NothingHeld' = NothingHeld /\ HasWord' = HasWord /\ Untouched' = Untouched
         /\ Layout' = Layout /\ InArea' = InArea
         /\ \A a : (IsHeld(a)' <=> IsHeld(a)) /\ (Fits(a)' <=> Fits(a))
<1>1. /\ Programming' = Programming /\ Complete' = Complete /\ WordReply' = WordReply
      /\ HasWord' = HasWord /\ InArea' = InArea
      /\ \A a : (IsHeld(a)' <=> IsHeld(a)) /\ (IsWritten(a)' <=> IsWritten(a))
  BY DEF SameBoard, Programming, Complete, WordReply, HasWord, IsHeld, IsWritten, InArea
<1>2. NothingHeld' = NothingHeld
  BY <1>1 DEF NothingHeld
<1>3. \A a : Fits(a)' <=> Fits(a)
  BY <1>1, <1>2 DEF Fits, SameBoard
<1>4. Untouched' = Untouched /\ Layout' = Layout
  BY <1>1, <1>2 DEF SameBoard, Untouched, Layout
<1> QED
  BY <1>1, <1>2, <1>3, <1>4

LEMMA AreasApart ==
  ASSUME NEW one \in Areas, NEW other \in Areas, one # other, NEW a \in AreaWords(one)
  PROVE  a \notin AreaWords(other)
BY Sizes DEF AreaWords, AreaStart, AreaEnd, Areas

(* A message goes out: small talk, or the one the programmer is at.          *)
LEMMA SentKept ==
  ASSUME BoardTypeOK, HostInv, Placed, SessionParts, SameBoard,
         UNCHANGED <<outbox, host, target, at>>,
         NEW m \in Messages, inbox' = Append(inbox, m),
         \/ m.kind \in Chatter
         \/ host = "ready" /\ m.kind = target
         \/ host = "data" /\ m.kind = "data" /\ m.addr = at
         \/ host = "finish" /\ m.kind = "done"
  PROVE  SessionParts'
<1> USE DEF SessionParts, HostInv
<1>0. /\ inbox \in Seq(Messages) /\ Len(inbox) \in Nat /\ Len(inbox') = Len(inbox) + 1
      /\ inbox'[Len(inbox) + 1] = m
      /\ \A i \in 1 .. Len(inbox) : inbox'[i] = inbox[i]
  BY DEF BoardTypeOK
<1>1. \A i \in 1 .. Len(inbox') : i \in 1 .. Len(inbox) \/ (i = Len(inbox) + 1 /\ inbox'[i] = m)
  BY <1>0
<1>2. IsData(m) => m.addr = at /\ host = "data" /\ at \in Image(target) /\ at \in AreaWords(target)
  BY Bounds DEF IsData, Chatter, AtItsImage, HostTypeOK, Areas
<1>3. m.kind \in Areas => host = "ready"
  BY DEF Areas, Chatter
<1>4. Layout'
  BY BoardUntouched
<1>5. Programming /\ IsData(m) => Fits(at)
  <2>1. SUFFICES ASSUME Programming, IsData(m), host = "data" PROVE Fits(at)
    BY <1>2
  <2>2. CASE ram.area = target
    BY <1>2, <2>1, <2>2 DEF HostBehind, Fits, InArea
  <2>3. CASE ram.area # target
    <3>1. ram.area \in Areas /\ target \in Areas
      BY <2>1, Bounds DEF Placed, Programming
    <3>2. at \notin InArea
      BY <1>2, <2>1, <2>3, <3>1, AreasApart DEF InArea
    <3> QED
      BY <2>1, <2>3, <3>2 DEF HostBehind, Fits
  <2> QED
    BY <2>2, <2>3
<1>6. WordsFit'
  <2>1. SUFFICES ASSUME Programming PROVE WordsFit'
    BY BoardUntouched DEF WordsFit
  <2>2. \A i \in 1 .. Len(inbox') : IsData(inbox'[i]) => Fits(inbox[i].addr)'
    BY <1>0, <1>1, <1>2, <1>5, <2>1, BoundsAssumption, BoardUntouched DEF WordsFit, IsData
  <2>3. ASSUME HasWord
        PROVE  /\ Fits(ram.command.addr)'
               /\ host \in Talking => ram.command.addr \in Image(target) /\ ram.command.addr <= at
               /\ \A i \in 1 .. Len(inbox') : IsData(inbox'[i]) =>
                    ram.command.addr \in Image(target) /\ ram.command.addr <= inbox'[i].addr
    <3>1. Fits(ram.command.addr)' /\ (host \in Talking => ram.command.addr \in Image(target) /\ ram.command.addr <= at)
      BY <2>1, <2>3, BoardUntouched DEF WordsFit, SameBoard
    <3>2. ASSUME NEW i \in 1 .. Len(inbox'), IsData(inbox'[i])
          PROVE  ram.command.addr \in Image(target) /\ ram.command.addr <= inbox'[i].addr
      <4>1. CASE i \in 1 .. Len(inbox)
        BY <1>0, <2>1, <2>3, <3>2, <4>1 DEF WordsFit
      <4>2. CASE inbox'[i] = m
        BY <1>2, <3>1, <3>2, <4>2 DEF Talking
      <4> QED
        BY <1>1, <4>1, <4>2
    <3> QED
      BY <3>1, <3>2
  <2> QED
    BY <2>2, <2>3, BoardUntouched DEF WordsFit, SameBoard, IsData, Image, ImageEnd
<1>7. InboxOrdered'
  <2>1. \A i \in 1 .. Len(inbox') : IsData(inbox'[i]) =>
          inbox'[i].addr \in Image(target) /\ inbox'[i].addr <= at
    BY <1>0, <1>1, <1>2, Bounds DEF InboxOrdered
  <2>2. ASSUME NEW i \in 1 .. Len(inbox'), NEW j \in 1 .. Len(inbox'), i < j, IsData(inbox'[i])
        PROVE  /\ IsData(inbox'[j]) => inbox'[i].addr <= inbox'[j].addr
               /\ inbox'[j].kind \notin Areas
    <3>1. i \in 1 .. Len(inbox) /\ inbox'[i] = inbox[i]
      BY <1>0, <2>2
    <3>2. CASE j \in 1 .. Len(inbox)
      BY <1>0, <2>2, <3>1, <3>2 DEF InboxOrdered
    <3>3. CASE inbox'[j] = m
      <4>1. inbox[i].addr <= at /\ host # "ready"
        BY <2>2, <3>1, Bounds DEF InboxOrdered, IsData, Chatter, Areas
      <4> QED
        BY <1>2, <1>3, <3>1, <3>3, <4>1
    <3> QED
      BY <1>1, <3>2, <3>3
  <2>3. \A i \in 1 .. Len(inbox') :
          /\ host \in {"idle", "waitAck"} => inbox'[i].kind \in Chatter
          /\ host = "ready" => inbox'[i].kind \in Chatter \cup {target}
          /\ host = "data" => inbox'[i].kind # "done"
    BY <1>0, <1>1 DEF InboxOrdered, Chatter
  <2> QED
    BY <2>1, <2>2, <2>3 DEF InboxOrdered, IsData, Image, ImageEnd
<1>8. Beginnings'
  <2>1. StartSeen' = StartSeen /\ NoWordAcked' = NoWordAcked
    BY DEF SameBoard, StartSeen, NoWordAcked, WordReply
  <2>2. ReadyAhead' => ReadyAhead \/ host = "ready"
    BY <1>0, <1>1, <1>3 DEF ReadyAhead, SameBoard
  <2>3. ASSUME ReadyAhead', NEW i \in 1 .. Len(inbox'), IsData(inbox'[i])
        PROVE  inbox'[i].addr = AreaStart(target)
    <3>1. CASE i \in 1 .. Len(inbox)
      <4>1. IsData(inbox[i]) /\ host # "ready"
        BY <1>0, <2>3, <3>1, Bounds DEF InboxOrdered, IsData, Chatter, Areas
      <4> QED
        BY <1>0, <2>2, <2>3, <3>1, <4>1 DEF Beginnings
    <3>2. CASE inbox'[i] = m
      BY <1>2, <2>2, <2>3, <3>2 DEF Beginnings
    <3> QED
      BY <1>1, <3>1, <3>2
  <2>4. ReadyAhead' => host \notin {"finish", "ok"}
    BY <2>2 DEF Beginnings
  <2>5. ReadyAhead' /\ host = "data" => at = AreaStart(target) /\ NoWordAcked /\ Untouched
    BY <2>2 DEF Beginnings
  <2> QED
    BY <2>1, <2>3, <2>4, <2>5, BoardUntouched DEF Beginnings, IsData, SameBoard
<1>9. HostBehind'
  BY BoardUntouched DEF HostBehind, SameBoard, ImageEnd, IsData
<1> QED
  BY <1>4, <1>6, <1>7, <1>8, <1>9

(* A reply is collected, for whatever the programmer makes of it.            *)
LEMMA Collected ==
  ASSUME outbox \in Seq(Messages), outbox # <<>>, outbox' = Tail(outbox)
  PROVE  /\ Len(outbox) \in Nat /\ Len(outbox) >= 1 /\ Len(outbox') = Len(outbox) - 1
         /\ Head(outbox) = outbox[1]
         /\ \A i \in 1 .. Len(outbox') : outbox'[i] = outbox[i + 1] /\ i + 1 \in 1 .. Len(outbox)
OBVIOUS

LEMMA CollectedKept ==
  ASSUME BoardTypeOK, SessionParts, SameBoard, UNCHANGED <<inbox, target, at>>,
         host' = host \/ (host = "finish" /\ host' = "ok"),
         outbox # <<>>, outbox' = Tail(outbox)
  PROVE  SessionParts'
<1> USE DEF SessionParts
<1>0. /\ Len(outbox) \in Nat /\ Len(outbox) >= 1 /\ Len(outbox') = Len(outbox) - 1
      /\ \A i \in 1 .. Len(outbox') : outbox'[i] = outbox[i + 1] /\ i + 1 \in 1 .. Len(outbox)
  BY Collected DEF BoardTypeOK
<1>1. Layout' /\ WordsFit' /\ InboxOrdered'
  BY BoardUntouched DEF WordsFit, InboxOrdered, SameBoard, IsData, Talking, Image, ImageEnd
<1>2. /\ StartSeen' => StartSeen
      /\ NoWordAcked => NoWordAcked'
      /\ ReadyAhead' = ReadyAhead
  BY <1>0 DEF SameBoard, StartSeen, NoWordAcked, WordReply, IsData, ReadyAhead
<1>3. host = "waitAck" => \A i, j \in 1 .. Len(outbox') :
        i < j /\ outbox'[i].kind = "start" => ~IsData(outbox'[j])
  <2>1. SUFFICES ASSUME host = "waitAck", NEW i \in 1 .. Len(outbox'), NEW j \in 1 .. Len(outbox'),
                        i < j, outbox'[i].kind = "start"
                 PROVE  ~IsData(outbox'[j])
    OBVIOUS
  <2>2. i + 1 \in 1 .. Len(outbox) /\ j + 1 \in 1 .. Len(outbox) /\ i + 1 < j + 1
        /\ outbox[i + 1].kind = "start" /\ outbox'[j] = outbox[j + 1]
    BY <1>0, <2>1
  <2> QED
    BY <2>1, <2>2 DEF Beginnings
<1>4. Beginnings'
  BY <1>2, <1>3, BoardUntouched DEF Beginnings, IsData, SameBoard
<1>5. \A i \in 1 .. Len(outbox') :
        host = "data" /\ (Programming \/ Complete) /\ ram.area = target
          /\ IsData(outbox'[i]) /\ outbox'[i].addr \in InArea => IsHeld(outbox'[i].addr)
  BY <1>0 DEF HostBehind
<1>6. HostBehind'
  BY <1>5, BoardUntouched DEF HostBehind, SameBoard, ImageEnd, IsData
<1> QED
  BY <1>1, <1>4, <1>6

(* The start reply: nothing has been written for this programmer yet.        *)
LEMMA StartReplied ==
  ASSUME BoardTypeOK, HostInv, SessionParts, SameBoard, UNCHANGED <<inbox, target, at>>,
         outbox # <<>>, outbox' = Tail(outbox), Head(outbox).kind = "start",
         host = "waitAck", host' = "ready"
  PROVE  SessionParts'
<1> USE DEF SessionParts
<1>0. /\ Len(outbox) \in Nat /\ Len(outbox) >= 1 /\ Len(outbox') = Len(outbox) - 1
      /\ Head(outbox) = outbox[1]
      /\ \A i \in 1 .. Len(outbox') : outbox'[i] = outbox[i + 1] /\ i + 1 \in 1 .. Len(outbox)
  BY Collected DEF BoardTypeOK
<1>1. StartSeen
  BY <1>0 DEF StartSeen
<1>2. ~WordReply /\ Untouched
  BY <1>1 DEF Beginnings
<1>3. NoWordAcked'
  BY <1>0, <1>2, BoardUntouched DEF Beginnings, NoWordAcked, IsData
<1>4. Layout' /\ InboxOrdered'
  BY BoardUntouched DEF InboxOrdered, IsData, Image, ImageEnd
<1>5. WordsFit'
  <2>1. Programming => ~HasWord
    BY <1>2 DEF Untouched, HasWord
  <2> QED
    BY <2>1, BoardUntouched DEF WordsFit, IsData
<1>6. Beginnings'
  <2>1. ReadyAhead' = ReadyAhead
    BY DEF ReadyAhead, SameBoard
  <2> QED
    BY <1>2, <1>3, <2>1, BoardUntouched DEF Beginnings, Untouched, IsData, SameBoard
<1>7. HostBehind'
  BY DEF HostBehind
<1> QED
  BY <1>4, <1>5, <1>6, <1>7

(* The reply to the word it is at: the board holds that word.                *)
LEMMA WordReplied ==
  ASSUME BoardTypeOK, HostInv, SessionParts, SameBoard, UNCHANGED <<inbox, target>>,
         outbox # <<>>, outbox' = Tail(outbox), IsData(Head(outbox)), Head(outbox).addr = at,
         host = "data", at' = at + 1, host' = AfterWord(at + 1)
  PROVE  SessionParts'
<1> USE DEF SessionParts, HostInv
<1>0. /\ Len(outbox) \in Nat /\ Len(outbox) >= 1 /\ Len(outbox') = Len(outbox) - 1
      /\ Head(outbox) = outbox[1]
      /\ \A i \in 1 .. Len(outbox') : outbox'[i] = outbox[i + 1] /\ i + 1 \in 1 .. Len(outbox)
  BY Collected DEF BoardTypeOK
<1>1. /\ at \in Image(target) /\ at \in AreaWords(target) /\ at \in Int
      /\ AreaStart(target) \in Int /\ ImageEnd(target) \in Int
  BY Bounds DEF AtItsImage
<1>2. /\ host' \in {"data", "finish"}
      /\ host' = "finish" => at' = ImageEnd(target)
  BY <1>1 DEF AfterWord, Image
<1>3. ~ReadyAhead
  BY <1>0 DEF Beginnings, NoWordAcked
<1>4. Layout'
  BY BoardUntouched
<1>5. ImageEnd(target') = ImageEnd(target) /\ Image(target') = Image(target)
      /\ AreaStart(target') = AreaStart(target)
  BY DEF Image, ImageEnd
<1>6. InboxOrdered'
  <2>1. \A i \in 1 .. Len(inbox) : IsData(inbox[i]) => inbox[i].addr <= at + 1
    BY <1>1, Bounds DEF InboxOrdered
  <2> QED
    BY <1>2, <1>5, <2>1 DEF InboxOrdered, IsData
<1>7. WordsFit'
  <2>1. HasWord /\ Programming => ram.command.addr \in Image(target) /\ ram.command.addr <= at + 1
    BY <1>1, Bounds DEF WordsFit, Talking
  <2> QED
    BY <1>5, <2>1, BoardUntouched DEF WordsFit, IsData, SameBoard
<1>8. Beginnings'
  <2>1. ReadyAhead' = ReadyAhead
    BY DEF ReadyAhead, SameBoard
  <2> QED
    BY <1>2, <1>3, <2>1, BoardUntouched DEF Beginnings, SameBoard
<1>9. ASSUME Programming \/ Complete, ram.area = target
      PROVE  /\ \A a \in AreaStart(target) .. at' - 1 : IsHeld(a)
             /\ Programming => \A a \in InArea : IsHeld(a) => a <= at'
             /\ \A i \in 1 .. Len(outbox') : IsData(outbox'[i]) /\ outbox'[i].addr \in InArea
                  => IsHeld(outbox'[i].addr)
             /\ WordReply /\ ram.reply.addr \in InArea => IsHeld(ram.reply.addr)
  <2>1. IsHeld(at)
    BY <1>0, <1>1, <1>9 DEF HostBehind, InArea
  <2>2. \A a \in AreaStart(target) .. at' - 1 : a = at \/ a \in AreaStart(target) .. at - 1
    BY <1>1
  <2>3. \A a \in InArea : a \in Int
    BY <1>9, Bounds, AreaBounds DEF InArea, AreaWords
  <2> QED
    BY <1>0, <1>1, <1>9, <2>1, <2>2, <2>3 DEF HostBehind
<1>10. HostBehind'
  BY <1>2, <1>5, <1>9, BoardUntouched DEF HostBehind, SameBoard, IsData
<1> QED
  BY <1>4, <1>6, <1>7, <1>8, <1>10
-----------------------------------------------------------------------------
(* The board.  What a handler may leave of the members without disturbing a   *)
(* session: the flag, the last address, and a reply that carries no word.     *)
LEMMA CommandTaken ==
  ASSUME BoardTypeOK, SessionParts, Programming, Programming',
         UNCHANGED <<flash, unlocked, inbox, outbox, host, target, at>>,
         ram'.boot = ram.boot, ram'.area = ram.area, ram'.pending = ram.pending,
         ram'.command = ram.command, ~ram'.received,
         ram'.replying /\ ram'.reply.kind \in {"data", "start"}
           => ram.replying /\ ram'.reply = ram.reply
  PROVE  SessionParts'
<1> USE DEF SessionParts
<1>1. /\ ~Complete /\ ~Complete' /\ InArea' = InArea /\ ~HasWord'
      /\ \A a : (IsHeld(a)' <=> IsHeld(a)) /\ (IsWritten(a)' <=> IsWritten(a))
  BY DEF Programming, Complete, InArea, HasWord, IsHeld, IsWritten
<1>2. NothingHeld' = NothingHeld
  BY <1>1 DEF NothingHeld
<1>3. \A a : Fits(a)' <=> Fits(a)
  BY <1>1, <1>2 DEF Fits
<1>4. Layout'
  BY <1>1 DEF Layout
<1>5. WordsFit'
  BY <1>1, <1>3 DEF WordsFit, IsData
<1>6. InboxOrdered'
  BY DEF InboxOrdered, IsData, Image, ImageEnd
<1>7. /\ ReadyAhead' = ReadyAhead /\ (WordReply' => WordReply) /\ (NoWordAcked => NoWordAcked')
      /\ (StartSeen' => StartSeen) /\ (Untouched => Untouched')
  BY <1>1, <1>2 DEF ReadyAhead, WordReply, NoWordAcked, StartSeen, Untouched, IsData
<1>8. Beginnings'
  BY <1>1, <1>7 DEF Beginnings, IsData
<1>9. WordReply' => ram'.reply = ram.reply
  BY DEF WordReply
<1>10. HostBehind'
  BY <1>1, <1>2, <1>7, <1>9 DEF HostBehind, IsData, ImageEnd
<1> QED
  BY <1>4, <1>5, <1>6, <1>8, <1>10

(* A reply leaves.                                                           *)
LEMMA ReplySent ==
  ASSUME BoardTypeOK, SessionParts, pc \in Turn, pc' \in Turn, ram.replying,
         outbox' = Append(outbox, ram.reply),
         ram' = [ram EXCEPT !.replying = FALSE, !.reply = NoMessage],
         UNCHANGED <<flash, unlocked, inbox, host, target, at>>
  PROVE  SessionParts'
<1> USE DEF SessionParts
<1>0. /\ ram \in Members /\ Len(outbox) \in Nat /\ Len(outbox') = Len(outbox) + 1
      /\ outbox'[Len(outbox) + 1] = ram.reply
      /\ \A i \in 1 .. Len(outbox) : outbox'[i] = outbox[i]
      /\ \A i \in 1 .. Len(outbox') : i \in 1 .. Len(outbox) \/ (i = Len(outbox) + 1 /\ outbox'[i] = ram.reply)
  BY DEF BoardTypeOK, Members
<1>1. /\ ram'.boot = ram.boot /\ ram'.area = ram.area /\ ram'.pending = ram.pending
      /\ ram'.command = ram.command /\ ram'.received = ram.received /\ ~ram'.replying
  BY <1>0 DEF Members
<1>2. /\ Programming' = Programming /\ Complete' = Complete /\ ~WordReply'
      /\ HasWord' = HasWord /\ InArea' = InArea /\ ReadyAhead' = ReadyAhead
      /\ \A a : (IsHeld(a)' <=> IsHeld(a)) /\ (IsWritten(a)' <=> IsWritten(a))
  BY <1>1 DEF Programming, Complete, WordReply, HasWord, ReadyAhead, IsHeld, IsWritten, InArea
<1>3. NothingHeld' = NothingHeld
  BY <1>2 DEF NothingHeld
<1>4. (\A a : Fits(a)' <=> Fits(a)) /\ Untouched' = Untouched
  BY <1>1, <1>2, <1>3 DEF Fits, Untouched
<1>5. Layout'
  BY <1>1, <1>2 DEF Layout
<1>6. WordsFit'
  BY <1>1, <1>2, <1>4 DEF WordsFit, IsData, Image, ImageEnd
<1>7. InboxOrdered'
  BY DEF InboxOrdered, IsData, Image, ImageEnd
<1>8. StartSeen' => StartSeen
  BY <1>0, <1>1 DEF StartSeen
<1>9. NoWordAcked => NoWordAcked'
  BY <1>0, <1>2 DEF NoWordAcked, WordReply, IsData
<1>10. host = "waitAck" => \A i, j \in 1 .. Len(outbox') :
         i < j /\ outbox'[i].kind = "start" => ~IsData(outbox'[j])
  <2>1. SUFFICES ASSUME host = "waitAck", NEW i \in 1 .. Len(outbox'), NEW j \in 1 .. Len(outbox'),
                        i < j, outbox'[i].kind = "start"
                 PROVE  ~IsData(outbox'[j])
    OBVIOUS
  <2>2. i \in 1 .. Len(outbox) /\ outbox[i].kind = "start"
    BY <1>0, <2>1
  <2>3. CASE j \in 1 .. Len(outbox)
    BY <1>0, <2>1, <2>2, <2>3 DEF Beginnings
  <2>4. CASE outbox'[j] = ram.reply
    BY <2>1, <2>2, <2>4 DEF Beginnings, StartSeen, WordReply, IsData
  <2> QED
    BY <1>0, <2>3, <2>4
<1>11. Beginnings'
  BY <1>1, <1>2, <1>4, <1>8, <1>9, <1>10 DEF Beginnings, IsData
<1>12. ASSUME host = "data", Programming \/ Complete, ram.area = target,
              NEW i \in 1 .. Len(outbox'), IsData(outbox'[i]), outbox'[i].addr \in InArea
       PROVE  IsHeld(outbox'[i].addr)
  BY <1>0, <1>12 DEF HostBehind, WordReply, IsData
<1>13. HostBehind'
  BY <1>1, <1>2, <1>3, <1>12 DEF HostBehind, IsData, ImageEnd
<1> QED
  BY <1>5, <1>6, <1>7, <1>11, <1>13

(* A message is taken while a session is open, or complete.                  *)
LEMMA MessageTaken ==
  ASSUME BoardTypeOK, HostInv, SessionParts, pc \in Turn, pc' = pc, Programming \/ Complete,
         UNCHANGED <<flash, unlocked, outbox, host, target, at>>,
         inbox # <<>>, inbox' = Tail(inbox),
         ProcessProgrammingCommand(Head(inbox))
  PROVE  SessionParts'
<1> USE DEF SessionParts, HostInv
<1> DEFINE m == Head(inbox)
<1>0. /\ ram \in Members /\ inbox \in Seq(Messages) /\ m = inbox[1] /\ 1 \in 1 .. Len(inbox)
      /\ m \in Messages /\ Len(inbox) \in Nat /\ Len(inbox') = Len(inbox) - 1
      /\ \A i \in 1 .. Len(inbox') : inbox'[i] = inbox[i + 1] /\ i + 1 \in 1 .. Len(inbox)
      /\ Later
  BY DEF BoardTypeOK, Later
<1>1. /\ ram'.boot = ram.boot /\ ram'.area = ram.area /\ ram'.pending = ram.pending
      /\ ram'.reply = ram.reply /\ ram'.replying = ram.replying
      /\ \/ ram'.command = ram.command /\ ram'.received = ram.received
         \/ ram'.command = m /\ (ram'.received = ram.received \/ m.kind \in {"data", "done", "checksum"})
  <2>1. ram.boot \in {"PROGRAMMING_IN_PROGRESS", "PROGRAMMING_COMPLETE"}
    BY DEF Programming, Complete
  <2>2. m.kind \in {"start", "app", "config", "data", "checksum", "done", "toApp"}
    BY <1>0 DEF Messages, Kinds
  <2> QED
    BY <1>0, <2>1, <2>2 DEF ProcessProgrammingCommand, Members, Areas
<1>2. /\ Programming' = Programming /\ Complete' = Complete /\ WordReply' = WordReply
      /\ InArea' = InArea
      /\ \A a : (IsHeld(a)' <=> IsHeld(a)) /\ (IsWritten(a)' <=> IsWritten(a))
  BY <1>1 DEF Programming, Complete, WordReply, IsHeld, IsWritten, InArea
<1>3. NothingHeld' = NothingHeld
  BY <1>2 DEF NothingHeld
<1>4. \A a : Fits(a)' <=> Fits(a)
  BY <1>1, <1>2, <1>3 DEF Fits
<1>5. Layout'
  BY <1>1, <1>2 DEF Layout
<1>6. InboxOrdered'
  BY <1>0, InboxShorter
<1>7. WordsFit'
  <2>1. SUFFICES ASSUME Programming PROVE WordsFit'
    BY <1>2 DEF WordsFit
  <2>2. \A i \in 1 .. Len(inbox') : IsData(inbox'[i]) => Fits(inbox[i].addr)'
    BY <1>0, <1>4, <2>1 DEF WordsFit, IsData
  <2>3. CASE ram'.command = ram.command /\ ram'.received = ram.received
    <3>1. HasWord' => Fits(ram.command.addr)'
      BY <1>4, <2>1, <2>3 DEF WordsFit, HasWord
    <3> QED
      BY <1>0, <2>1, <2>2, <2>3, <3>1 DEF WordsFit, HasWord, IsData, Image, ImageEnd
  <2>4. CASE ram'.command = m
    <3>1. ASSUME HasWord'
          PROVE  /\ Fits(ram.command.addr)'
                 /\ host \in Talking => m.addr \in Image(target) /\ m.addr <= at
                 /\ \A i \in 1 .. Len(inbox') : IsData(inbox'[i]) =>
                      m.addr \in Image(target) /\ m.addr <= inbox'[i].addr
      <4>1. IsData(m)
        BY <2>4, <3>1 DEF HasWord, IsData
      <4>2. Fits(m.addr) /\ m.addr \in Image(target) /\ m.addr <= at
        BY <1>0, <2>1, <4>1 DEF WordsFit, InboxOrdered
      <4>3. \A i \in 1 .. Len(inbox') : IsData(inbox'[i]) => m.addr <= inbox'[i].addr
        <5>1. \A i \in 1 .. Len(inbox') : 1 < i + 1
          OBVIOUS
        <5> QED
          BY <1>0, <4>1, <5>1 DEF InboxOrdered
      <4> QED
        BY <1>4, <2>4, <4>2, <4>3
    <3> QED
      BY <2>1, <2>2, <2>4, <3>1 DEF WordsFit, IsData, Image, ImageEnd
  <2> QED
    BY <1>1, <2>3, <2>4
<1>8. ReadyAhead' => ReadyAhead
  BY <1>0, <1>1 DEF ReadyAhead
<1>9. ReadyAhead' => ~(ram'.command = m /\ IsData(m))
  <2>1. \A i \in 1 .. Len(inbox') : 1 < i + 1
    OBVIOUS
  <2>2. IsData(m) => \A i \in 1 .. Len(inbox') : inbox'[i].kind \notin Areas
    BY <1>0, <2>1 DEF InboxOrdered
  <2> QED
    BY <2>2 DEF ReadyAhead, IsData, Areas
<1>10. host \in {"idle", "waitAck", "ready"} => m.kind \notin {"data", "done"}
  BY <1>0, Bounds DEF InboxOrdered, Chatter, Areas
<1>11. host = "data" => m.kind # "done"
  BY <1>0 DEF InboxOrdered
<1>12. Untouched /\ (ram'.command = m => m.kind \notin {"data", "done"}) => Untouched'
  BY <1>1, <1>2, <1>3 DEF Untouched
<1>13. /\ StartSeen' = StartSeen
       /\ NoWordAcked' = NoWordAcked
  BY <1>1, <1>2 DEF StartSeen, NoWordAcked, IsData
<1>14. ReadyAhead' => /\ \A i \in 1 .. Len(inbox') : IsData(inbox'[i]) => inbox'[i].addr = AreaStart(target)
                      /\ host \notin {"finish", "ok"}
                      /\ host = "data" => at = AreaStart(target) /\ NoWordAcked' /\ Untouched'
  BY <1>0, <1>8, <1>9, <1>11, <1>12, <1>13 DEF Beginnings, IsData
<1>15. Beginnings'
  BY <1>1, <1>2, <1>10, <1>11, <1>12, <1>13, <1>14 DEF Beginnings, IsData
<1>16. HostBehind'
  BY <1>1, <1>2, <1>3 DEF HostBehind, IsData, ImageEnd
<1> QED
  BY <1>5, <1>6, <1>7, <1>15, <1>16
-----------------------------------------------------------------------------
(* The last page is erased: the session is open and holds nothing.           *)
LEMMA SessionBegun ==
  ASSUME BoardInv, HostInv, PlaceInv, SessionParts, ErasePage, faults' = 0, pc' # "erase",
         UNCHANGED <<host, target, at>>
  PROVE  SessionParts'
<1> USE DEF SessionParts, BoardInv, HostInv
<1>1. /\ ram \in Members /\ todo.page \in Addresses /\ todo.page \in Nat
      /\ todo.page % 2 = 0 /\ todo.page + 2 <= AreaEnd(ram.area)
      /\ ram.area \in Areas /\ ~ram.received /\ ram.command.kind = ram.area /\ pc = "erase"
  BY AddressesAreContents DEF BoardTypeOK, Works, ErasePage, EraseInArea, PlaceInv, Placed, Starting
<1>2. /\ flash' = PageErased(flash, todo.page) /\ unlocked'
      /\ todo.page + 2 >= AreaEnd(ram.area) /\ BeginSession(FALSE)
  <2>1. PICK ok \in BOOLEAN :
          /\ Outcome(ok)
          /\ flash' = IF ok THEN PageErased(flash, todo.page) ELSE flash
          /\ unlocked' = ok
          /\ \/ ok /\ UNCHANGED <<pc, ram, age>>
             \/ ok /\ todo.page + 2 >= AreaEnd(ram.area) /\ BeginSession(FALSE)
             \/ ~ok
    BY DEF ErasePage
  <2>2. ok
    BY <2>1, OutcomeKept
  <2> QED
    BY <1>1, <2>1, <2>2
<1>3. /\ pc' = "timeouts" /\ ram'.boot = "PROGRAMMING_IN_PROGRESS" /\ ram'.area = ram.area
      /\ ram'.pending = NoAddress /\ ~ram'.received /\ ram'.command = ram.command
      /\ ram'.replying = ram.replying /\ ram'.reply = ram.reply
      /\ inbox' = inbox /\ outbox' = outbox
  BY <1>1, <1>2 DEF BeginSession, Members, ErasePage
<1>4. Programming' /\ ~Complete' /\ ~HasWord' /\ InArea' = InArea
  BY <1>3 DEF Programming, Complete, HasWord, InArea, Turn
<1>5. \A a \in InArea : a \in Addresses /\ flash'[a] = Erased
  <2>1. SUFFICES ASSUME NEW a \in InArea PROVE a \in Addresses /\ flash'[a] = Erased
    OBVIOUS
  <2>2. /\ AreaStart(ram.area) \in Nat /\ AreaEnd(ram.area) \in Nat
        /\ AreaEnd(ram.area) <= AppWords + ConfigWords
    BY <1>1, AreaBounds
  <2>3. a \in Addresses /\ a \in Nat /\ a >= AreaStart(ram.area) /\ a < AreaEnd(ram.area)
    BY <2>1, <2>2, Sizes DEF InArea, AreaWords, Addresses
  <2>4. todo.page + 1 \in Addresses
    BY <1>1, PairInside
  <2>5. flash' = [flash EXCEPT ![todo.page] = Erased, ![todo.page + 1] = Erased]
        /\ flash \in [Addresses -> Contents]
    BY <1>2 DEF PageErased, Programmed, BoardTypeOK, Flashes
  <2>6. CASE a < todo.page
    <3>1. flash[a] = Erased
      BY <1>1, <2>2, <2>3, <2>6 DEF PlaceInv, ErasedSoFar
    <3> QED
      BY <1>1, <2>3, <2>5, <2>6, <3>1
  <2>7. CASE a >= todo.page
    <3>1. a = todo.page \/ a = todo.page + 1
      BY <1>1, <1>2, <2>2, <2>3, <2>7
    <3> QED
      BY <1>1, <2>3, <2>4, <2>5, <3>1
  <2> QED
    BY <1>1, <2>3, <2>6, <2>7
<1>6. \A a \in InArea : ~IsHeld(a)'
  BY <1>3, <1>5, AddressesAreContents, Sizes DEF IsHeld, IsWritten, Erased
<1>7. NothingHeld'
  BY <1>4, <1>6 DEF NothingHeld
<1>8. Layout'
  <2>1. \A a \in InArea : a % 2 = 0 => a + 1 \in InArea
    <3>1. AreaStart(ram.area) \in Nat /\ AreaEnd(ram.area) \in Nat /\ AreaEnd(ram.area) % 2 = 0
      BY <1>1, AreaBounds
    <3> QED
      BY <3>1 DEF InArea, AreaWords
  <2> QED
    BY <1>2, <1>4, <1>5, <1>6, <2>1 DEF Layout
<1>9. ReadyAhead /\ ReadyAhead' = ReadyAhead
  BY <1>1, <1>3 DEF ReadyAhead
<1>10. WordsFit'
  <2>1. SUFFICES ASSUME NEW i \in 1 .. Len(inbox), IsData(inbox[i]) PROVE Fits(inbox[i].addr)'
    BY <1>3, <1>4 DEF WordsFit, IsData
  <2>2. inbox[i].addr = AreaStart(target)
    BY <1>9, <2>1 DEF Beginnings
  <2>3. CASE inbox[i].addr \in InArea
    <3>1. target = ram.area
      <4>1. inbox[i].addr \in AreaWords(target) /\ target \in Areas
        BY <2>1, Bounds DEF InboxOrdered
      <4> QED
        BY <1>1, <2>3, <4>1, AreasApart DEF InArea
    <3>2. AreaStart(target) \in Int
      BY Bounds
    <3> QED
      BY <1>3, <1>4, <1>6, <2>2, <2>3, <3>1, <3>2 DEF Fits
  <2>4. CASE inbox[i].addr \notin InArea
    BY <1>3, <1>4, <1>7, <2>4 DEF Fits
  <2> QED
    BY <2>3, <2>4
<1>11. InboxOrdered'
  BY <1>3 DEF InboxOrdered, IsData, Image, ImageEnd
<1>12. /\ WordReply' = WordReply /\ StartSeen' = StartSeen /\ NoWordAcked' = NoWordAcked
       /\ Untouched'
  BY <1>3, <1>4, <1>7 DEF WordReply, StartSeen, NoWordAcked, Untouched, IsData
<1>13. Beginnings'
  BY <1>3, <1>4, <1>9, <1>12 DEF Beginnings, IsData
<1>14. HostBehind'
  <2>1. host \notin {"finish", "ok"}
    BY <1>9 DEF Beginnings
  <2>2. host = "data" => at = AreaStart(target) /\ ~WordReply /\ \A i \in 1 .. Len(outbox) : ~IsData(outbox[i])
    BY <1>9 DEF Beginnings, NoWordAcked
  <2>3. AreaStart(target) \in Int
    BY Bounds
  <2> QED
    BY <1>3, <1>4, <1>6, <1>7, <1>12, <2>1, <2>2, <2>3 DEF HostBehind, IsData
<1> QED
  BY <1>8, <1>10, <1>11, <1>13, <1>14

(* A pending word of the area that cannot be programmed is there already.    *)
LEMMA PendingWritten ==
  ASSUME BoardTypeOK, Layout, Programming, ram.area \in Areas,
         ram.pending \in InArea, ~Programmable(flash, ram.pending)
  PROVE  IsWritten(ram.pending)
<1> DEFINE p == ram.pending
<1>1. /\ AreaStart(ram.area) \in Nat /\ AreaEnd(ram.area) \in Nat /\ AreaStart(ram.area) % 2 = 0
      /\ p \in Nat /\ p >= AreaStart(ram.area) /\ p < AreaEnd(ram.area)
  BY AreaBounds DEF InArea, AreaWords
<1>2. \A b \in AreaStart(ram.area) .. p - 1 : IsWritten(b)
  BY DEF Layout, IsHeld
<1>3. CASE p % 2 = 0
  BY <1>3 DEF Layout, Programmable
<1>4. CASE p % 2 # 0
  <2>1. p - 1 \in InArea /\ (p - 1) % 2 = 0 /\ p - 1 \in AreaStart(ram.area) .. p - 1
    BY <1>1, <1>4 DEF InArea, AreaWords
  <2>2. IsWritten(p - 1) /\ p - 1 \in Nat /\ (p - 1) + 1 = p
    BY <1>1, <1>2, <2>1
  <2> QED
    BY <2>1, <2>2 DEF Layout, IsWritten, Erased
<1> QED
  BY <1>3, <1>4

(* Done: the pending word goes to the flash, unless it is there already.     *)
LEMMA Flushed ==
  ASSUME BoardTypeOK, Layout, Programming, ram.area \in Areas,
         NEW ok \in BOOLEAN, FlushPending(ok), faults' = 0
  PROVE  \A a \in InArea : /\ IsHeld(a) => flash'[a] = a
                           /\ flash'[a] = a => IsHeld(a)
                           /\ ~ok /\ ram.pending = a => flash'[a] = a
<1> DEFINE p == ram.pending
<1>1. /\ AreaStart(ram.area) \in Nat /\ AreaEnd(ram.area) \in Nat
      /\ AreaStart(ram.area) % 2 = 0 /\ AreaEnd(ram.area) % 2 = 0
      /\ AreaEnd(ram.area) <= AppWords + ConfigWords
  BY AreaBounds
<1>2. /\ InArea \subseteq Addresses /\ \A a \in InArea : a \in Nat
      /\ flash \in [Addresses -> Contents] /\ p \in Addresses \cup {NoAddress}
  <2>1. InArea \subseteq Addresses /\ \A a \in InArea : a \in Nat
    BY <1>1, Sizes DEF InArea, AreaWords, Addresses
  <2> QED
    BY <2>1 DEF BoardTypeOK, Flashes, Members
<1>3. CASE p \notin InArea
  <2>1. CASE flash' = flash
    BY <1>2, <1>3, <2>1, Sizes DEF IsHeld, IsWritten
  <2>2. CASE flash' # flash
    <3>1. p \in Addresses /\ p % 2 = 0 /\ flash' = Programmed(flash, p, p, Zero)
      BY <1>2, <2>2 DEF FlushPending, FlashProgram, Programmable
    <3>2. p + 1 \notin InArea
      BY <1>1, <1>3, <3>1, Sizes DEF InArea, AreaWords, Addresses
    <3>3. \A a \in InArea : flash'[a] = flash[a]
      BY <1>2, <1>3, <3>1, <3>2 DEF Programmed
    <3> QED
      BY <1>3, <3>3 DEF IsHeld, IsWritten
  <2> QED
    BY <2>1, <2>2
<1>4. CASE p \in InArea
  <2>1. p \in Addresses /\ p \in Nat /\ FlashProgram(p, Zero, ok) /\ p # NoAddress
    BY <1>2, <1>4, Sizes DEF FlushPending
  <2>2. \A b \in AreaStart(ram.area) .. p - 1 : IsWritten(b)
    BY <1>4 DEF Layout, IsHeld
  <2>3. faults = 0 /\ unlocked
    BY <2>1 DEF FlashProgram, Layout, BoardTypeOK
  <2>4. CASE Programmable(flash, p)
    <3>1. ok /\ flash' = Programmed(flash, p, p, Zero) /\ p % 2 = 0
      BY <2>1, <2>3, <2>4 DEF FlashProgram, Programmable
    <3>2. p + 1 \in Addresses /\ flash[p + 1] = Erased
      BY <2>1, <2>4, <3>1, PairInside DEF Programmable
    <3>3. \A a \in InArea : a # p /\ a # p + 1 => flash'[a] = flash[a]
      BY <1>2, <3>1 DEF Programmed
    <3>4. flash'[p] = p /\ flash'[p + 1] = Zero
      BY <1>2, <2>1, <3>1, <3>2 DEF Programmed
    <3> QED
      BY <1>2, <2>1, <3>1, <3>2, <3>3, <3>4 DEF IsHeld, IsWritten, Erased, Zero
  <2>5. CASE ~Programmable(flash, p)
    <3>1. flash' = flash
      BY <2>1, <2>5 DEF FlashProgram
    <3>2. IsWritten(p)
      BY <1>4, <2>5, PendingWritten
    <3> QED
      BY <3>1, <3>2 DEF IsHeld, IsWritten
  <2> QED
    BY <2>4, <2>5
<1> QED
  BY <1>3, <1>4

LEMMA SessionDone ==
  ASSUME BoardInv, HostInv, PlaceInv, SessionParts, HandleProgrammingDone, pc \in Turn, faults' = 0,
         UNCHANGED <<host, target, at>>
  PROVE  SessionParts'
<1> USE DEF SessionParts, BoardInv, HostInv
<1>1. PICK ok \in BOOLEAN :
        /\ FlushPending(ok)
        /\ ram' = [Reply(Taken, "done", NoAddress, ram.link) EXCEPT
                     !.pending = IF ok THEN NoAddress ELSE @,
                     !.last = NoAddress, !.boot = "PROGRAMMING_COMPLETE"]
  BY DEF HandleProgrammingDone
<1>2. /\ ram \in Members /\ Programming /\ ram.area \in Areas
      /\ ram.received /\ ram.command.kind = "done"
  BY DEF BoardTypeOK, HandleProgrammingDone, Handling, InState, Programming, PlaceInv, Placed
<1>3. /\ ram'.boot = "PROGRAMMING_COMPLETE" /\ ram'.area = ram.area
      /\ ram'.pending = (IF ok THEN NoAddress ELSE ram.pending) /\ ram'.command = ram.command
      /\ ram'.replying /\ ram'.reply.kind = "done"
      /\ inbox' = inbox /\ outbox' = outbox
  BY <1>1, <1>2 DEF Reply, Taken, Message, Members, HandleProgrammingDone, Handling
<1>4. ~Programming' /\ Complete' /\ InArea' = InArea /\ ~WordReply'
  BY <1>3 DEF Programming, Complete, InArea, WordReply
<1>5. \A a \in InArea : /\ IsHeld(a) => flash'[a] = a
                        /\ flash'[a] = a => IsHeld(a)
                        /\ ~ok /\ ram.pending = a => flash'[a] = a
  BY <1>1, <1>2, Flushed
<1>6. \A a \in InArea : IsHeld(a)' <=> IsHeld(a)
  BY <1>3, <1>5, AreaBounds, <1>2 DEF IsHeld, IsWritten, InArea, AreaWords, NoAddress
<1>7. Layout'
  <2>1. SUFFICES ASSUME NEW a \in InArea, IsHeld(a), NEW b \in AreaStart(ram.area) .. a
                 PROVE  IsWritten(b)'
    BY <1>3, <1>4, <1>6 DEF Layout
  <2>2. b \in InArea /\ (b = a \/ b \in AreaStart(ram.area) .. a - 1)
    BY <1>2, <2>1, AreaBounds DEF InArea, AreaWords
  <2>3. IsHeld(b)
    BY <1>2, <2>1, <2>2 DEF Layout, IsHeld
  <2> QED
    BY <1>5, <2>2, <2>3 DEF IsWritten
<1>8. WordsFit'
  BY <1>4 DEF WordsFit
<1>9. InboxOrdered'
  BY <1>3 DEF InboxOrdered, IsData, Image, ImageEnd
<1>10. host \notin {"idle", "ready", "data"}
  BY <1>2 DEF Beginnings
<1>11. ~(host = "waitAck" /\ StartSeen)
  BY <1>2 DEF Beginnings, Untouched
<1>12. ReadyAhead' = ReadyAhead /\ (StartSeen' => StartSeen)
  BY <1>3 DEF ReadyAhead, StartSeen
<1>13. Beginnings'
  BY <1>3, <1>10, <1>11, <1>12 DEF Beginnings, IsData
<1>14. HostBehind'
  <2>1. ASSUME host \in {"finish", "ok"}, ram.area = target
        PROVE  \A a \in AreaStart(target) .. at - 1 : IsHeld(a)'
    <3>1. AreaStart(target) .. at - 1 = Image(target) /\ Image(target) \subseteq InArea
      BY <2>1, Bounds DEF HostBehind, Image, InArea
    <3> QED
      BY <1>2, <1>6, <2>1, <3>1 DEF HostBehind
  <2> QED
    BY <1>3, <1>4, <1>10, <2>1 DEF HostBehind, ImageEnd
<1> QED
  BY <1>7, <1>8, <1>9, <1>13, <1>14
-----------------------------------------------------------------------------
(* A data word: it is held from then on, and so is all that was held before.  *)
LEMMA WordStored ==
  ASSUME BoardTypeOK, Layout, Programming, ram.area \in Areas,
         ProgramData, Fits(ram.command.addr), faults' = 0
  PROVE  /\ Layout'
         /\ \A b \in InArea : IsHeld(b)' <=> IsHeld(b) \/ b = ram.command.addr
         /\ IsHeld(ram.command.addr)'
         /\ ram'.boot = ram.boot /\ ram'.area = ram.area /\ ram'.command = ram.command
         /\ ~ram'.received /\ ram'.reply.kind = "data" /\ ram'.reply.addr = ram.command.addr
<1> DEFINE a == ram.command.addr
           p == ram.pending
           Acknowledged(pending) == [Reply(Taken, "data", a, ram.link) EXCEPT
                                       !.last = a, !.pending = pending]
<1>1. /\ AreaStart(ram.area) \in Nat /\ AreaEnd(ram.area) \in Nat
      /\ AreaStart(ram.area) % 2 = 0 /\ AreaEnd(ram.area) % 2 = 0
      /\ InArea \subseteq Addresses /\ \A b \in InArea : b \in Nat
  BY AreaBounds, Sizes DEF InArea, AreaWords, Addresses
<1>2. /\ a \in Addresses /\ a \in Nat /\ p \in Addresses \cup {NoAddress} /\ p \in Int
      /\ flash \in [Addresses -> Contents] /\ ram \in Members
  <2>1. a \in Addresses
    BY DEF ProgramData, IsStaleData
  <2>2. p \in Addresses \cup {NoAddress}
    BY DEF BoardTypeOK, Members
  <2> QED
    BY <2>1, <2>2, AddressesAreContents DEF BoardTypeOK, Flashes, NoAddress
<1>3. ASSUME NEW q, ram' = Acknowledged(q)
      PROVE  /\ ram'.boot = ram.boot /\ ram'.area = ram.area /\ ram'.command = ram.command
             /\ ~ram'.received /\ ram'.reply.kind = "data" /\ ram'.reply.addr = a
             /\ ram'.pending = q
  BY <1>2, <1>3 DEF Reply, Taken, Message, Members
<1>4. \/ /\ p \in Addresses /\ a = p + 1 /\ p % 2 = 0 /\ flash[p] = Erased /\ flash[p + 1] = Erased
         /\ flash' = Programmed(flash, p, p, a) /\ ram' = Acknowledged(NoAddress)
      \/ p \in Addresses /\ a = p + 1 /\ ~Programmable(flash, p) /\ flash' = flash /\ ram' = Acknowledged(a)
      \/ (p \notin Addresses \/ a # p + 1) /\ flash' = flash /\ ram' = Acknowledged(a)
  <2>1. CASE IsSecondWord
    <3>1. PICK ok \in BOOLEAN : /\ FlashProgram(p, a, ok)
                                /\ ram' = Acknowledged(IF ok THEN NoAddress ELSE a)
      BY <2>1 DEF ProgramData
    <3>2. p \in Addresses /\ a = p + 1
      BY <1>2, <2>1 DEF IsSecondWord
    <3>3. unlocked /\ faults \in Nat
      BY DEF Layout, BoardTypeOK
    <3>4. CASE ok
      BY <3>1, <3>2, <3>4 DEF FlashProgram, Programmable
    <3>5. CASE ~ok
      BY <3>1, <3>2, <3>3, <3>5 DEF FlashProgram
    <3> QED
      BY <3>4, <3>5
  <2>2. CASE ~IsSecondWord
    <3>1. flash' = flash /\ ram' = Acknowledged(a)
      BY <2>2 DEF ProgramData
    <3>2. p \notin Addresses \/ a # p + 1
      BY <2>2, Sizes DEF IsSecondWord
    <3> QED
      BY <3>1, <3>2
  <2> QED
    BY <2>1, <2>2
<1>5. Programming' /\ ~Complete /\ ~Complete' /\ InArea' = InArea /\ unlocked'
  <2>1. unlocked' /\ pc' = "timeouts"
    BY DEF ProgramData, Layout
  <2> QED
    BY <1>3, <1>4, <2>1 DEF Programming, Complete, InArea, Turn
<1>6. IsHeld(a)' /\ ram'.pending \in {a, NoAddress}
  <2>1. CASE flash' = Programmed(flash, p, p, a) /\ a = p + 1 /\ p \in Addresses /\ ram' = Acknowledged(NoAddress)
    <3>1. flash'[a] = a
      BY <1>2, <2>1 DEF Programmed
    <3> QED
      BY <1>3, <1>4, <2>1, <3>1 DEF IsHeld, IsWritten
  <2>2. CASE ram' = Acknowledged(a)
    BY <1>3, <2>2 DEF IsHeld
  <2> QED
    BY <1>4, <2>1, <2>2
<1>7. CASE a \notin InArea
  <2>1. NothingHeld
    BY <1>7 DEF Fits
  <2>2. \A b \in InArea : flash'[b] = flash[b]
    <3>1. CASE flash' = Programmed(flash, p, p, a) /\ a = p + 1
      <4>1. p \notin InArea
        BY <2>1 DEF NothingHeld, IsHeld
      <4> QED
        BY <1>1, <1>2, <1>7, <3>1, <4>1 DEF Programmed
    <3> QED
      BY <1>4, <3>1
  <2>3. \A b \in InArea : ~IsHeld(b)'
    BY <1>1, <1>6, <1>7, <2>1, <2>2, Sizes DEF NothingHeld, IsHeld, IsWritten
  <2>4. \A b \in InArea : b % 2 = 0 => b + 1 \in InArea
    BY <1>1 DEF InArea, AreaWords
  <2>5. Layout'
    BY <1>5, <2>2, <2>3, <2>4 DEF Layout, IsWritten
  <2> QED
    BY <1>3, <1>4, <1>6, <1>7, <2>1, <2>3, <2>5 DEF NothingHeld
<1>8. CASE a \in InArea
  <2>1. /\ \A b \in AreaStart(ram.area) .. a - 1 : b \in InArea /\ IsHeld(b)
        /\ \A b \in InArea : IsHeld(b) => b <= a
    BY <1>1, <1>8 DEF Fits, InArea, AreaWords
  <2>2. \A b \in InArea : b % 2 = 0 => b + 1 \in InArea
    BY <1>1 DEF InArea, AreaWords
  <2>3. CASE /\ p \in Addresses /\ a = p + 1 /\ p % 2 = 0 /\ flash[p] = Erased
             /\ flash' = Programmed(flash, p, p, a) /\ ram' = Acknowledged(NoAddress)
    <3>1. p \in Nat /\ p \in InArea /\ IsHeld(p)
      BY <1>1, <1>2, <1>8, <2>3, AddressesAreContents DEF InArea, AreaWords, IsHeld
    <3>2. \A b \in AreaStart(ram.area) .. p - 1 : IsWritten(b)
      BY <3>1 DEF Layout
    <3>3. /\ flash'[p] = p /\ flash'[a] = a
          /\ \A b \in InArea : b # p /\ b # a => flash'[b] = flash[b]
      BY <1>1, <1>2, <2>3, <3>1 DEF Programmed
    <3>4. ram'.pending = NoAddress
      BY <1>3, <2>3
    <3>5. \A b \in InArea : IsHeld(b)' <=> IsWritten(b)'
      BY <1>1, <3>4, Sizes DEF IsHeld
    <3>6. \A b \in AreaStart(ram.area) .. a : IsWritten(b)'
      <4>1. SUFFICES ASSUME NEW b \in AreaStart(ram.area) .. a PROVE IsWritten(b)'
        OBVIOUS
      <4>2. b \in AreaStart(ram.area) .. p - 1 \/ b = p \/ b = a
        BY <1>1, <1>2, <2>3, <3>1, <4>1
      <4>3. CASE b \in AreaStart(ram.area) .. p - 1
        <5>1. b \in InArea /\ b # p /\ b # a
          BY <1>1, <1>2, <1>8, <2>3, <3>1, <4>3 DEF InArea, AreaWords
        <5> QED
          BY <3>2, <3>3, <4>3, <5>1 DEF IsWritten
      <4> QED
        BY <3>3, <4>2, <4>3 DEF IsWritten
    <3>7. \A b \in InArea : IsHeld(b)' <=> IsHeld(b) \/ b = a
      <4>1. SUFFICES ASSUME NEW b \in InArea PROVE IsHeld(b)' <=> IsHeld(b) \/ b = a
        OBVIOUS
      <4>2. CASE b = p \/ b = a
        BY <3>1, <3>3, <3>5, <4>1, <4>2 DEF IsWritten
      <4>3. CASE b # p /\ b # a
        BY <3>3, <3>5, <4>1, <4>3 DEF IsWritten, IsHeld
      <4> QED
        BY <4>2, <4>3
    <3>8. \A b \in InArea : IsHeld(b)' => b <= a
      BY <1>2, <2>1, <3>7
    <3>9. \A b \in InArea : IsHeld(b)' => \A c \in AreaStart(ram.area) .. b - 1 : IsWritten(c)'
      <4>1. SUFFICES ASSUME NEW b \in InArea, b <= a, NEW c \in AreaStart(ram.area) .. b - 1
                     PROVE  IsWritten(c)'
        BY <3>8
      <4>2. c \in AreaStart(ram.area) .. a
        BY <1>1, <1>2, <4>1
      <4> QED
        BY <3>6, <4>2
    <3>10. \A b \in InArea : b % 2 = 0 =>
             \/ flash'[b] = Erased /\ flash'[b + 1] = Erased
             \/ IsWritten(b)' /\ IsWritten(b + 1)'
      <4>1. SUFFICES ASSUME NEW b \in InArea, b % 2 = 0
                     PROVE  \/ flash'[b] = Erased /\ flash'[b + 1] = Erased
                            \/ IsWritten(b)' /\ IsWritten(b + 1)'
        OBVIOUS
      <4>2. b \in Nat /\ b + 1 \in InArea
        BY <1>1, <2>2, <4>1
      <4>3. CASE b = p
        BY <2>3, <3>3, <4>3 DEF IsWritten
      <4>4. CASE b # p
        <5>1. b # a /\ b + 1 # p /\ b + 1 # a
          BY <2>3, <3>1, <4>1, <4>2, <4>4
        <5> QED
          BY <3>3, <4>1, <4>2, <4>4, <5>1 DEF Layout, IsWritten
      <4> QED
        BY <4>3, <4>4
    <3>11. Layout'
      BY <1>3, <1>4, <1>5, <3>9, <3>10 DEF Layout
    <3> QED
      BY <1>3, <1>6, <2>3, <3>7, <3>11
  <2>4. CASE flash' = flash /\ ram' = Acknowledged(a)
             /\ (p \notin Addresses \/ a # p + 1 \/ ~Programmable(flash, p))
    <3>1. \A b \in AreaStart(ram.area) .. a - 1 : IsWritten(b)
      <4>1. SUFFICES ASSUME NEW b \in AreaStart(ram.area) .. a - 1, b = p PROVE IsWritten(b)
        BY <2>1 DEF IsHeld
      <4>2. b \in InArea /\ b \in Nat /\ b \in Addresses
        BY <1>1, <2>1, <4>1
      <4>3. CASE a = p + 1
        <5>1. ~Programmable(flash, p) /\ p \in InArea
          BY <2>4, <4>1, <4>2, <4>3
        <5> QED
          BY <4>1, <5>1, PendingWritten
      <4>4. CASE a # p + 1
        <5>1. b + 1 \in AreaStart(ram.area) .. a - 1 /\ b \in AreaStart(ram.area) .. (b + 1) - 1
          BY <1>1, <1>2, <4>1, <4>2, <4>4
        <5>2. b + 1 \in InArea /\ IsHeld(b + 1)
          BY <2>1, <5>1
        <5> QED
          BY <5>1, <5>2 DEF Layout
      <4> QED
        BY <4>3, <4>4
    <3>2. ram'.pending = a
      BY <1>3, <2>4
    <3>3. \A b \in InArea : IsHeld(b)' <=> IsWritten(b) \/ b = a
      BY <2>4, <3>2 DEF IsHeld, IsWritten
    <3>4. \A b \in InArea : IsHeld(b) /\ b # a => IsWritten(b)
      <4>1. SUFFICES ASSUME NEW b \in InArea, b <= a, b # a PROVE IsWritten(b)
        BY <2>1
      <4>2. b \in AreaStart(ram.area) .. a - 1
        BY <1>1, <1>2, <4>1 DEF InArea, AreaWords
      <4> QED
        BY <3>1, <4>2
    <3>5. \A b \in InArea : IsHeld(b)' <=> IsHeld(b) \/ b = a
      BY <3>3, <3>4 DEF IsHeld
    <3>6. \A b \in InArea : IsHeld(b)' => \A c \in AreaStart(ram.area) .. b - 1 : IsWritten(c)
      BY <3>1, <3>3 DEF Layout, IsHeld
    <3>7. Layout'
      BY <1>3, <1>5, <2>4, <3>6 DEF Layout, IsWritten
    <3> QED
      BY <1>3, <1>6, <2>4, <3>5, <3>7
  <2> QED
    BY <1>4, <2>3, <2>4
<1> QED
  BY <1>7, <1>8
-----------------------------------------------------------------------------
LEMMA WordKept ==
  ASSUME BoardInv, HostInv, PlaceInv, SessionParts, ProgramData, pc \in Turn, faults' = 0,
         UNCHANGED <<host, target, at>>
  PROVE  SessionParts'
<1> USE DEF SessionParts, BoardInv, HostInv
<1> DEFINE a == ram.command.addr
<1>1. /\ Programming /\ HasWord /\ ram.area \in Areas
      /\ inbox' = inbox /\ outbox' = outbox
  BY DEF ProgramData, Handling, InState, Programming, HasWord, PlaceInv, Placed
<1>2. Fits(a)
  BY <1>1 DEF WordsFit
<1>3. /\ Layout'
      /\ \A b \in InArea : IsHeld(b)' <=> IsHeld(b) \/ b = a
      /\ IsHeld(a)'
      /\ ram'.boot = ram.boot /\ ram'.area = ram.area /\ ram'.command = ram.command
      /\ ~ram'.received /\ ram'.reply.kind = "data" /\ ram'.reply.addr = a
  BY <1>1, <1>2, WordStored
<1>4. Programming' /\ ~Complete /\ ~Complete' /\ InArea' = InArea /\ ~HasWord'
  BY <1>1, <1>3 DEF Programming, Complete, InArea, HasWord, ProgramData, Turn
<1>5. /\ a \in Int /\ target \in Areas /\ at \in Int
      /\ AreaStart(target) \in Int /\ ImageEnd(target) \in Int
      /\ Image(target) \subseteq AreaWords(target)
      /\ \A b \in InArea : b \in Int
  BY <1>1, Bounds, AreaBounds DEF InArea, AreaWords
<1>6. ram.area # target /\ a \in Image(target) => a \notin InArea
  BY <1>1, <1>5, AreasApart DEF InArea
<1>7. ~Untouched
  BY <1>1 DEF Untouched, HasWord
<1>8. \A i \in 1 .. Len(inbox) : IsData(inbox[i]) => Fits(inbox[i].addr)'
  <2>1. SUFFICES ASSUME NEW i \in 1 .. Len(inbox), IsData(inbox[i]) PROVE Fits(inbox[i].addr)'
    OBVIOUS
  <2> DEFINE x == inbox[i].addr
  <2>2. /\ Fits(x) /\ a \in Image(target) /\ a <= x /\ x \in Image(target) /\ x \in Int
        /\ inbox'[i].addr = x
    BY <1>1, <2>1, Bounds DEF WordsFit, InboxOrdered
  <2>3. CASE x \in InArea
    <3>1. \A b \in AreaStart(ram.area) .. x - 1 : b \in InArea /\ IsHeld(b)
      BY <1>1, <2>2, <2>3, AreaBounds DEF Fits, InArea, AreaWords
    <3>2. \A b \in AreaStart(ram.area) .. x - 1 : IsHeld(b)'
      BY <1>3, <3>1
    <3>3. \A b \in InArea : IsHeld(b)' => b <= x
      BY <1>3, <2>2, <2>3 DEF Fits
    <3> QED
      BY <1>3, <1>4, <2>2, <2>3, <3>2, <3>3 DEF Fits
  <2>4. CASE x \notin InArea
    <3>1. ram.area # target
      BY <1>5, <2>2, <2>4 DEF InArea
    <3>2. NothingHeld'
      BY <1>3, <1>4, <1>6, <2>2, <2>4, <3>1 DEF Fits, NothingHeld
    <3> QED
      BY <1>4, <2>2, <2>4, <3>2 DEF Fits
  <2> QED
    BY <2>3, <2>4
<1>9. WordsFit'
  BY <1>1, <1>4, <1>8 DEF WordsFit, IsData
<1>10. InboxOrdered'
  BY <1>1 DEF InboxOrdered, IsData, Image, ImageEnd
<1>11. Beginnings'
  <2>1. ReadyAhead' = ReadyAhead /\ (StartSeen' => StartSeen)
    BY <1>1, <1>3 DEF ReadyAhead, StartSeen
  <2> QED
    BY <1>1, <1>3, <1>4, <1>7, <2>1 DEF Beginnings, IsData
<1>12. ASSUME host \in {"data", "finish", "ok"}
       PROVE  /\ ram.area = target =>
                   /\ \A b \in AreaStart(target) .. at - 1 : IsHeld(b)'
                   /\ \A b \in InArea : IsHeld(b)' => b <= at
              /\ ram.area # target => NothingHeld'
  <2>1. a \in Image(target) /\ a <= at
    BY <1>1, <1>12 DEF WordsFit, Talking
  <2>2. CASE ram.area = target
    <3>1. at <= ImageEnd(target)
      BY <1>5, <1>12 DEF HostBehind, AtItsImage, Image
    <3>2. \A b \in AreaStart(target) .. at - 1 : b \in InArea
      <4>1. \A b \in AreaStart(target) .. at - 1 : b \in Image(target)
        BY <1>5, <3>1 DEF Image
      <4> QED
        BY <1>5, <2>2, <4>1 DEF InArea
    <3> QED
      BY <1>1, <1>3, <1>12, <2>1, <2>2, <3>2 DEF HostBehind
  <2>3. CASE ram.area # target
    BY <1>1, <1>3, <1>4, <1>6, <1>12, <2>1, <2>3 DEF HostBehind, NothingHeld
  <2> QED
    BY <2>2, <2>3
<1>13. host = "data" /\ ram.area = target =>
         \A i \in 1 .. Len(outbox) : IsData(outbox[i]) /\ outbox[i].addr \in InArea
            => IsHeld(outbox[i].addr)'
  <2>1. SUFFICES ASSUME host = "data", ram.area = target, NEW i \in 1 .. Len(outbox),
                        IsData(outbox[i]), outbox[i].addr \in InArea
                 PROVE  IsHeld(outbox[i].addr)'
    OBVIOUS
  <2> QED
    BY <1>1, <1>3, <2>1 DEF HostBehind
<1>14. HostBehind'
  BY <1>1, <1>3, <1>4, <1>12, <1>13 DEF HostBehind, IsData, WordReply, ImageEnd
<1> QED
  BY <1>3, <1>9, <1>10, <1>11, <1>14
-----------------------------------------------------------------------------
(* A handler outside a session, that leaves the last command alone or forgets *)
(* it, and adds no reply that carries a word.                                *)
SameHost == UNCHANGED <<host, target, at>>
KeepsCommand == ram'.command = ram.command \/ ram'.command = NoMessage
KeepsReply ==
  \/ ~ram'.replying \/ ram'.reply.kind # "data"
  \/ ram'.replying = ram.replying /\ ram'.reply = ram.reply

LEMMA HandlerOutside ==
  ASSUME BoardTypeOK, SessionParts, SameHost, outbox' = outbox, Later,
         ram'.boot # "PROGRAMMING_COMPLETE",
         ram'.boot = "PROGRAMMING_IN_PROGRESS" => pc' \notin Turn,
         KeepsCommand, KeepsReply
  PROVE  SessionParts'
<1>1. ~Programming' /\ ~Complete'
  BY DEF Programming, Complete
<1>2. ram'.command.kind \in Areas => ReadyAhead
  BY DEF KeepsCommand, ReadyAhead, NoMessage, Message, Areas
<1>3. WordReply' => WordReply
  BY DEF KeepsReply, WordReply
<1> QED
  BY <1>1, <1>2, <1>3, OutsideKept DEF SameHost

(* The metadata, and the start of a session up to its first erase.           *)
LEMMA StartingKept ==
  ASSUME BoardInv, PlaceInv, SessionParts, SameHost,
         \/ EraseMetaData \/ ProgramMetaData
         \/ HandleInit \/ DecideInit \/ HandleWaitingForCommand
         \/ HandleProgrammingReady \/ ResetTimeout
         \/ HandleWaitingForProgrammingReady \/ PrepareFlash \/ RestartAgain
  PROVE  SessionParts'
<1> USE DEF BoardInv
<1>0. ram \in Members
  BY DEF BoardTypeOK
<1>1. CASE EraseMetaData \/ ProgramMetaData
  <2>1. /\ ram' = ram /\ inbox' = inbox /\ outbox' = outbox
        /\ pc' = "metaProgram" \/ pc' = todo.next
        /\ Writing
    BY <1>1 DEF EraseMetaData, ProgramMetaData, Writing
  <2>2. /\ ram.boot # "PROGRAMMING_COMPLETE"
        /\ ram.boot = "PROGRAMMING_IN_PROGRESS" => todo.next = "restart"
    BY <2>1 DEF PlaceInv, Placed, Complete, Writing, Turn
  <2> QED
    BY <2>1, <2>2, HandlerOutside DEF Later, KeepsCommand, KeepsReply, Turn
<1>2. CASE HandleInit
  BY <1>2, HandlerOutside DEF HandleInit, InState, Later, KeepsCommand, KeepsReply
<1>3. CASE DecideInit
  BY <1>0, <1>3, HandlerOutside DEF DecideInit, Members, Later, KeepsCommand, KeepsReply
<1>4. CASE HandleWaitingForCommand
  BY <1>0, <1>4, HandlerOutside
     DEF HandleWaitingForCommand, InState, Members, Later, KeepsCommand, KeepsReply
<1>5. CASE HandleProgrammingReady
  BY <1>0, <1>5, HandlerOutside
     DEF HandleProgrammingReady, InState, Reply, Message, Members, Later, KeepsCommand, KeepsReply
<1>6. CASE ResetTimeout
  BY <1>0, <1>6, HandlerOutside DEF ResetTimeout, Members, Later, KeepsCommand, KeepsReply
<1>7. CASE HandleWaitingForProgrammingReady
  BY <1>0, <1>7, HandlerOutside
     DEF HandleWaitingForProgrammingReady, InState, Members, Later, KeepsCommand, KeepsReply
<1>8. CASE PrepareFlash
  <2>1. ram' = ram /\ inbox' = inbox /\ outbox' = outbox /\ pc' = "erase" /\ pc = "prepare"
    BY <1>8 DEF PrepareFlash
  <2> QED
    BY <2>1, HandlerOutside
       DEF PlaceInv, Placed, Starting, Later, KeepsCommand, KeepsReply
<1>9. CASE RestartAgain
  BY <1>0, <1>9, HandlerOutside DEF RestartAgain, Members, Later, KeepsCommand, KeepsReply
<1> QED
  BY <1>1, <1>2, <1>3, <1>4, <1>5, <1>6, <1>7, <1>8, <1>9

(* The erase, page by page: only its last page opens the session.            *)
LEMMA ErasingKept ==
  ASSUME BoardInv, HostInv, PlaceInv, SessionParts, SameHost, ErasePage, faults' = 0
  PROVE  SessionParts'
<1>1. CASE pc' = "erase"
  <2>1. ram' = ram /\ inbox' = inbox /\ outbox' = outbox
    BY <1>1 DEF ErasePage, BeginSession
  <2> QED
    BY <1>1, <2>1, HandlerOutside
       DEF BoardInv, ErasePage, PlaceInv, Placed, Starting, Later, KeepsCommand, KeepsReply
<1> QED
  BY <1>1, SessionBegun DEF SameHost

(* The commands of an open session.                                          *)
LEMMA SessionStepKept ==
  ASSUME BoardInv, HostInv, PlaceInv, SessionParts, SameHost, HandleProgrammingInProgress,
         faults' = 0
  PROVE  SessionParts'
<1> USE DEF BoardInv
<1>0. /\ ram \in Members /\ pc \in Turn /\ Programming
      /\ inbox' = inbox /\ outbox' = outbox
  BY DEF BoardTypeOK, HandleProgrammingInProgress, NothingReceived, HandleProgrammingDone,
         HandleProgrammingRestart, HandleProgrammingChecksum, IgnoreData, ProgramData,
         Handling, InState, Turn, Programming
<1>1. CASE NothingReceived
  BY <1>0, <1>1, TurnKept DEF NothingReceived, Turn, SameHost
<1>2. CASE HandleProgrammingDone
  BY <1>0, <1>2, SessionDone DEF SameHost
<1>3. CASE HandleProgrammingRestart
  <2>1. /\ pc' = "metaErase" /\ ram'.boot = "PROGRAMMING_IN_PROGRESS"
        /\ ram'.command = ram.command /\ ram'.replying = ram.replying /\ ram'.reply = ram.reply
    BY <1>0, <1>3 DEF HandleProgrammingRestart, Handling, InState, WriteMetaData, Taken, Members
  <2> QED
    BY <1>0, <2>1, HandlerOutside DEF Turn, Later, KeepsCommand, KeepsReply
<1>4. CASE HandleProgrammingChecksum
  <2>1. /\ pc' = "timeouts" /\ flash' = flash /\ unlocked' = unlocked
        /\ ram'.boot = ram.boot /\ ram'.area = ram.area /\ ram'.pending = ram.pending
        /\ ram'.command = ram.command /\ ~ram'.received /\ ram'.reply.kind = "checksum"
    BY <1>0, <1>4 DEF HandleProgrammingChecksum, Taken, Reply, Message, Members
  <2>2. Programming'
    BY <1>0, <2>1 DEF Programming, Turn
  <2> QED
    BY <1>0, <2>1, <2>2, CommandTaken DEF SameHost
<1>5. CASE IgnoreData
  <2>1. /\ pc' = "timeouts" /\ flash' = flash /\ unlocked' = unlocked
        /\ ram'.boot = ram.boot /\ ram'.area = ram.area /\ ram'.pending = ram.pending
        /\ ram'.command = ram.command /\ ~ram'.received /\ ram'.reply = ram.reply
        /\ ram'.replying = ram.replying
    BY <1>0, <1>5 DEF IgnoreData, Taken, Members
  <2>2. Programming'
    BY <1>0, <2>1 DEF Programming, Turn
  <2> QED
    BY <1>0, <2>1, <2>2, CommandTaken DEF SameHost
<1>6. CASE ProgramData
  BY <1>0, <1>6, WordKept DEF SameHost
<1> QED
  BY <1>1, <1>2, <1>3, <1>4, <1>5, <1>6 DEF HandleProgrammingInProgress

(* The ends of a session, and the timeouts.                                  *)
LEMMA EndingKept ==
  ASSUME BoardInv, SessionParts, SameHost,
         HandleProgrammingComplete \/ HandleError \/ HandleJumpToApp \/ HandleTimeouts
  PROVE  SessionParts'
<1> USE DEF BoardInv
<1>0. ram \in Members
  BY DEF BoardTypeOK
<1>1. CASE HandleProgrammingComplete
  BY <1>0, <1>1, HandlerOutside
     DEF HandleProgrammingComplete, Members, Later, KeepsCommand, KeepsReply
<1>2. CASE HandleError
  BY <1>0, <1>2, HandlerOutside DEF HandleError, Members, Later, KeepsCommand, KeepsReply
<1>3. CASE HandleJumpToApp
  <2>1. /\ ram'.boot \in {"INIT", "WAITING_FOR_COMMAND"}
        /\ inbox' = inbox \/ inbox' = <<>>
        /\ ram' = PoweredOn("INIT") \/ (ram'.command = ram.command /\ ram'.replying = ram.replying
                                         /\ ram'.reply = ram.reply)
        /\ outbox' = outbox
    BY <1>0, <1>3, JumpLeaves DEF HandleJumpToApp
  <2> QED
    BY <2>1, HandlerOutside DEF Later, KeepsCommand, KeepsReply, PoweredOn
<1>4. CASE HandleTimeouts
  <2>1. pc = "timeouts" /\ unlocked' = unlocked /\ outbox' = outbox
    BY <1>4 DEF HandleTimeouts
  <2>2. CASE pc' = "tx" /\ UNCHANGED <<flash, ram, inbox, faults>>
    BY <2>1, <2>2, TurnKept DEF Turn, SameHost
  <2>3. CASE ~(pc' = "tx" /\ UNCHANGED <<flash, ram, inbox, faults>>)
    <3>1. /\ ram'.boot \in {"ERROR_STATE", "JUMP_TO_APP", "INIT", "WAITING_FOR_COMMAND"}
          /\ inbox' = inbox \/ inbox' = <<>>
          /\ ram' = PoweredOn("INIT") \/ (ram'.command = ram.command /\ ram'.replying = ram.replying
                                           /\ ram'.reply = ram.reply)
      BY <1>4, <2>3, TimeoutsLeave
    <3> QED
      BY <2>1, <3>1, HandlerOutside DEF Later, KeepsCommand, KeepsReply, PoweredOn
  <2> QED
    BY <2>2, <2>3
<1> QED
  BY <1>1, <1>2, <1>3, <1>4

(* What a message leaves of the members.                                     *)
LEMMA CommandStored ==
  ASSUME ram \in Members, NEW m, ProcessProgrammingCommand(m)
  PROVE  /\ ram'.boot \in {ram.boot, "PROGRAMMING_READY"}
         /\ ram'.command \in {m, ram.command}
         /\ KeepsReply
<1> DEFINE heard == [ram EXCEPT !.heard = TRUE, !.link = m.link, !.command = m]
<1>1. CASE ram' = [heard EXCEPT !.boot = "PROGRAMMING_READY"]
  BY <1>1 DEF Members, KeepsReply
<1>2. CASE ram' = Reply(heard, "start", NoAddress, m.link)
  BY <1>2 DEF Members, KeepsReply, Reply, Message
<1>3. CASE ram' = heard \/ ram' = [heard EXCEPT !.received = TRUE] \/ ram' = ram
  BY <1>3 DEF Members, KeepsReply
<1> QED
  BY <1>1, <1>2, <1>3 DEF ProcessProgrammingCommand

(* Replies and messages.                                                     *)
LEMMA QueuesKept ==
  ASSUME BoardInv, HostInv, PlaceInv, SessionParts, SameHost,
         ProcessTxQueue \/ HandlePendingUsbReplies \/ ProcessRxQueuedMessage
  PROVE  SessionParts'
<1> USE DEF BoardInv
<1>0. ram \in Members /\ inbox \in Seq(Messages)
  BY DEF BoardTypeOK
<1>1. CASE ProcessTxQueue \/ HandlePendingUsbReplies
  <2>1. /\ pc \in Turn /\ pc' \in Turn
        /\ \/ /\ ram.replying /\ outbox' = Append(outbox, ram.reply)
              /\ ram' = [ram EXCEPT !.replying = FALSE, !.reply = NoMessage]
           \/ UNCHANGED <<outbox, ram>>
        /\ UNCHANGED <<flash, unlocked, inbox>>
    BY <1>1 DEF ProcessTxQueue, HandlePendingUsbReplies, SendReply, Turn
  <2> QED
    BY <2>1, ReplySent, TurnKept DEF SameHost
<1>2. CASE ProcessRxQueuedMessage
  <2> DEFINE m == Head(inbox)
  <2>1. /\ pc = "rx" /\ pc' = pc /\ inbox # <<>> /\ inbox' = Tail(inbox)
        /\ ProcessProgrammingCommand(m)
        /\ UNCHANGED <<flash, unlocked, outbox>>
    BY <1>2 DEF ProcessRxQueuedMessage
  <2>2. CASE Programming \/ Complete
    BY <2>1, <2>2, MessageTaken DEF Turn, SameHost
  <2>3. CASE ~Programming /\ ~Complete
    <3>1. ram.boot \notin {"PROGRAMMING_IN_PROGRESS", "PROGRAMMING_COMPLETE"}
      BY <2>1, <2>3 DEF Programming, Complete, Turn
    <3>2. m = inbox[1] /\ 1 \in 1 .. Len(inbox)
      BY <1>0, <2>1
    <3>3. /\ ram'.boot \in {ram.boot, "PROGRAMMING_READY"}
          /\ ram'.command \in {m, ram.command}
          /\ KeepsReply
      BY <1>0, <2>1, CommandStored
    <3>4. ram'.command.kind \in Areas => ReadyAhead
      BY <3>2, <3>3 DEF ReadyAhead
    <3>5. ~Programming' /\ ~Complete'
      BY <3>1, <3>3 DEF Programming, Complete
    <3>6. WordReply' => WordReply
      BY <3>3 DEF KeepsReply, WordReply
    <3> QED
      BY <2>1, <3>4, <3>5, <3>6, OutsideKept DEF Later, SameHost
  <2> QED
    BY <2>2, <2>3
<1> QED
  BY <1>1, <1>2

(* The application, power and time.                                          *)
LEMMA ElsewhereSessionKept ==
  ASSUME BoardInv, PlaceInv, SessionParts, SameHost,
         \/ ApplicationInit \/ ApplicationReceive \/ MoveToBootloader
         \/ PowerLoss \/ Tick
  PROVE  SessionParts'
<1> USE DEF BoardInv
<1>1. CASE ApplicationInit \/ ApplicationReceive
  <2>1. /\ ram' = ram /\ outbox' = outbox /\ Later /\ pc \in {"app", "appLoop"}
    BY <1>1 DEF ApplicationInit, ApplicationReceive, Later
  <2>2. ram.boot \notin {"PROGRAMMING_IN_PROGRESS", "PROGRAMMING_COMPLETE"}
    BY <2>1 DEF PlaceInv, Placed, Complete, Turn, Writing
  <2> QED
    BY <2>1, <2>2, HandlerOutside DEF KeepsCommand, KeepsReply
<1>2. CASE MoveToBootloader \/ PowerLoss
  <2>1. /\ ram' = PoweredOn("INIT") \/ ram' = PoweredOn("ERROR_STATE")
        /\ inbox' = <<>> /\ outbox' = outbox
    BY <1>2 DEF MoveToBootloader, PowerLoss, Reset
  <2> QED
    BY <2>1, HandlerOutside DEF PoweredOn, Later, KeepsCommand, KeepsReply
<1>3. CASE Tick
  <2>1. /\ pc \in {"state", "readyTimers", "timeouts"}
        /\ UNCHANGED <<flash, unlocked, pc, ram, inbox, outbox>>
    BY <1>3 DEF Tick
  <2>2. CASE pc \in Turn
    BY <2>1, <2>2, TurnKept DEF SameHost
  <2>3. CASE pc \notin Turn
    BY <2>1, <2>3, HandlerOutside
       DEF PlaceInv, Placed, Complete, Later, KeepsCommand, KeepsReply
  <2> QED
    BY <2>2, <2>3
<1> QED
  BY <1>1, <1>2, <1>3

LEMMA BoardKeepsSession ==
  ASSUME BoardInv, HostInv, PlaceInv, SessionParts, SameHost, BoardStep \/ Tick \/ PowerLoss,
         faults' = 0
  PROVE  SessionParts'
BY StartingKept, ErasingKept, SessionStepKept, EndingKept, QueuesKept, ElsewhereSessionKept
   DEF BoardStep
-----------------------------------------------------------------------------
(* The programmer begins: by then nothing is under way.                      *)
LEMMA StartKept ==
  ASSUME SessionParts, StartSession
  PROVE  SessionParts'
<1> USE DEF SessionParts
<1>1. /\ SameBoard /\ inbox = <<>> /\ inbox' = <<>> /\ outbox' = <<>> /\ ~ram.replying
      /\ host' = "waitAck"
  BY DEF StartSession, DropReplies, SameBoard
<1>2. Layout'
  BY <1>1, BoardUntouched
<1>3. WordsFit'
  <2>1. (\A i \in 1 .. Len(inbox') : FALSE) /\ host' \notin Talking
    BY <1>1 DEF Talking
  <2> QED
    BY <1>1, <2>1, BoardUntouched DEF WordsFit, SameBoard
<1>4. InboxOrdered'
  BY <1>1 DEF InboxOrdered
<1>5. ~StartSeen'
  BY <1>1 DEF StartSeen, SameBoard
<1>6. Beginnings' /\ HostBehind'
  BY <1>1, <1>5 DEF Beginnings, HostBehind
<1> QED
  BY <1>2, <1>3, <1>4, <1>6

(* It goes on without an answer, or gives up.                                *)
LEMMA GivenUp ==
  ASSUME BoardTypeOK, HostInv, SessionParts, GiveUp
  PROVE  SessionParts'
<1> USE DEF SessionParts, HostInv
<1>1. /\ SameBoard /\ UNCHANGED <<inbox, outbox, target, at>>
      /\ <<host, host'>> \in {<<"waitAck", "failed">>, <<"ready", "data">>,
                              <<"data", "failed">>, <<"finish", "ok">>}
  BY DEF GiveUp, Waiting, vars, SameBoard
<1>2. Layout'
  BY <1>1, BoardUntouched
<1>3. WordsFit'
  BY <1>1, BoardUntouched DEF WordsFit, Talking, SameBoard, IsData, Image, ImageEnd
<1>4. InboxOrdered'
  BY <1>1, Bounds DEF InboxOrdered, IsData, Chatter, Areas, Image, ImageEnd
<1>5. /\ ReadyAhead' = ReadyAhead /\ NoWordAcked' = NoWordAcked /\ StartSeen' = StartSeen
      /\ WordReply' = WordReply /\ Untouched' = Untouched
      /\ Programming' = Programming /\ Complete' = Complete /\ NothingHeld' = NothingHeld
  BY <1>1, BoardUntouched DEF SameBoard, ReadyAhead, NoWordAcked, StartSeen, WordReply
<1>6. host = "ready" => at = AreaStart(target) /\ AreaStart(target) \in Int /\ NoWordAcked /\ Untouched
  BY Bounds DEF AtItsImage, Beginnings
<1>7. Beginnings'
  BY <1>1, <1>5, <1>6, BoardUntouched DEF Beginnings, SameBoard, IsData, Untouched
<1>8. HostBehind'
  <2>1. CASE host = "ready"
    <3>1. /\ \A a \in AreaStart(target) .. at - 1 : FALSE
          /\ Programming => NothingHeld
          /\ ~Complete /\ ~WordReply /\ \A i \in 1 .. Len(outbox) : ~IsData(outbox[i])
          /\ host' = "data"
      BY <1>1, <1>6, <2>1 DEF Untouched, NoWordAcked
    <3> QED
      BY <1>1, <1>5, <3>1, BoardUntouched DEF HostBehind, NothingHeld, SameBoard, IsData
  <2>2. CASE host # "ready"
    BY <1>1, <1>5, <2>2, BoardUntouched DEF HostBehind, SameBoard, ImageEnd, IsData
  <2> QED
    BY <2>1, <2>2
<1> QED
  BY <1>2, <1>3, <1>4, <1>7, <1>8

(* Nothing happens on either side.                                           *)
LEMMA SilentKept ==
  ASSUME SessionParts, SameBoard, UNCHANGED <<inbox, outbox, host, target, at>>
  PROVE  SessionParts'
<1>1. /\ ReadyAhead' = ReadyAhead /\ NoWordAcked' = NoWordAcked /\ StartSeen' = StartSeen
  BY BoardUntouched DEF SameBoard, ReadyAhead, NoWordAcked, StartSeen, IsData
<1> QED
  BY <1>1, BoardUntouched
     DEF SessionParts, WordsFit, InboxOrdered, Beginnings, HostBehind, SameBoard, IsData,
         Image, ImageEnd

LEMMA RequestKept ==
  ASSUME BoardInv, HostInv, PlaceInv, SessionParts, SendRequest
  PROVE  SessionParts'
<1>1. CASE Send(Request)
  <2>1. /\ SameBoard /\ UNCHANGED <<outbox, host, target, at>>
        /\ inbox' = Append(inbox, Request) /\ Request \in Messages
    BY <1>1, RequestIsMessage DEF SendRequest, Send, SameBoard
  <2>2. \/ Request.kind \in Chatter
        \/ host = "ready" /\ Request.kind = target
        \/ host = "data" /\ Request.kind = "data" /\ Request.addr = at
        \/ host = "finish" /\ Request.kind = "done"
    BY DEF SendRequest, Waiting, Request, Message, Chatter
  <2> QED
    BY <2>1, <2>2, SentKept DEF BoardInv, PlaceInv
<1>2. CASE UNCHANGED vars
  BY <1>2, SilentKept DEF SendRequest, vars, SameBoard
<1> QED
  BY <1>1, <1>2 DEF SendRequest

LEMMA ReplyKept ==
  ASSUME BoardInv, HostInv, SessionParts, ReceiveReply
  PROVE  SessionParts'
<1>1. /\ SameBoard /\ UNCHANGED <<inbox, target>> /\ outbox # <<>> /\ outbox' = Tail(outbox)
  BY DEF ReceiveReply, Collect, SameBoard
<1>2. CASE IsAwaited(Head(outbox))
  <2>1. \/ host = "waitAck" /\ host' = "ready" /\ at' = at
        \/ host = "data" /\ at' = at + 1 /\ host' = AfterWord(at + 1)
        \/ host = "finish" /\ host' = "ok" /\ at' = at
    BY <1>2 DEF ReceiveReply
  <2>2. CASE host = "waitAck" /\ host' = "ready" /\ at' = at
    BY <1>1, <1>2, <2>2, StartReplied DEF IsAwaited, BoardInv
  <2>3. CASE host = "data" /\ at' = at + 1 /\ host' = AfterWord(at + 1)
    BY <1>1, <1>2, <2>3, WordReplied DEF IsAwaited, BoardInv, IsData
  <2>4. CASE host = "finish" /\ host' = "ok" /\ at' = at
    BY <1>1, <2>4, CollectedKept DEF BoardInv
  <2> QED
    BY <2>1, <2>2, <2>3, <2>4
<1>3. CASE ~IsAwaited(Head(outbox))
  <2>1. host' = host /\ at' = at
    BY <1>3 DEF ReceiveReply
  <2> QED
    BY <1>1, <2>1, CollectedKept DEF BoardInv
<1> QED
  BY <1>2, <1>3

LEMMA StrayKept ==
  ASSUME BoardInv, HostInv, PlaceInv, SessionParts, SendStray
  PROVE  SessionParts'
<1>1. PICK kind \in {"checksum", "start"}, link \in HostLinks :
        Send(Message(kind, NoAddress, link))
  BY DEF SendStray
<1>2. Message(kind, NoAddress, link) \in Messages
  BY <1>1, SessionAssumption, MessagesBuilt DEF Kinds
<1> QED
  BY <1>1, <1>2, SentKept DEF SendStray, Send, SameBoard, Message, Chatter, BoardInv, PlaceInv
-----------------------------------------------------------------------------
(* A fault stays counted.                                                    *)
LEMMA FaultsStay == BoardInv /\ [Next]_vars /\ faults' = 0 => faults = 0
<1> SUFFICES ASSUME BoardInv, [Next]_vars, faults' = 0 PROVE faults = 0
  OBVIOUS
<1> USE DEF BoardInv
<1>1. \A ok \in BOOLEAN : Outcome(ok) => faults = 0
  BY OutcomeKept
<1>2. \A ok \in BOOLEAN : FlushPending(ok) => faults = 0
  BY FlushKept
<1>3. CASE EraseMetaData \/ ProgramMetaData \/ ErasePage \/ MoveToBootloader \/ PowerLoss
  BY <1>1, <1>3 DEF EraseMetaData, ProgramMetaData, ErasePage, MoveToBootloader, PowerLoss, Reset
<1>4. CASE HandleProgrammingDone \/ HandleError \/ HandleTimeouts
  BY <1>2, <1>4 DEF HandleProgrammingDone, HandleError, HandleTimeouts
<1>5. CASE ProgramData
  <2>1. CASE UNCHANGED faults
    BY <2>1
  <2>2. CASE ~UNCHANGED faults
    <3>1. PICK ok \in BOOLEAN : FlashProgram(ram.pending, ram.command.addr, ok)
      BY <1>5, <2>2 DEF ProgramData
    <3> QED
      BY <3>1 DEF FlashProgram, BoardTypeOK
  <2> QED
    BY <2>1, <2>2
<1>6. CASE UNCHANGED faults
  BY <1>6
<1> QED
  BY <1>3, <1>4, <1>5, <1>6
     DEF Next, BoardStep, vars, HandleInit, DecideInit, HandleWaitingForCommand,
         HandleProgrammingReady, ResetTimeout, HandleWaitingForProgrammingReady, PrepareFlash,
         HandleProgrammingInProgress, NothingReceived, HandleProgrammingRestart,
         HandleProgrammingChecksum, IgnoreData, RestartAgain, HandleProgrammingComplete,
         HandleJumpToApp, ProcessTxQueue, HandlePendingUsbReplies, SendReply,
         ProcessRxQueuedMessage, ApplicationInit, ApplicationReceive,
         Tick, Collect, DropReplies, Send

LEMMA NextSessionInv ==
  BoardInv /\ HostInv /\ PlaceInv /\ SessionInv /\ [SessionNext]_allVars => SessionInv'
<1> SUFFICES ASSUME BoardInv, HostInv, PlaceInv, SessionParts, [SessionNext]_allVars, faults' = 0
             PROVE  SessionParts'
  BY SessionStepIsBoardStep, FaultsStay DEF SessionInv
<1>1. CASE (BoardStep \/ Tick \/ PowerLoss) /\ UNCHANGED hostVars
  BY <1>1, BoardKeepsSession DEF hostVars, SameHost
<1>2. CASE LoseReply
  BY <1>2, CollectedKept DEF LoseReply, Collect, hostVars, SameBoard, BoardInv
<1>3. CASE UNCHANGED allVars
  BY <1>3, SilentKept DEF allVars, vars, hostVars, SameBoard
<1> QED
  BY <1>1, <1>2, <1>3, StartKept, RequestKept, ReplyKept, GivenUp, StrayKept
     DEF SessionNext, HostStep, BoardInv

SessionWhole == BoardInv /\ HostInv /\ PlaceInv /\ SessionInv

LEMMA WholeHolds == SessionSpec => []SessionWhole
<1>1. SessionInit => SessionWhole
  BY InitBoardInv, InitHostInv, InitPlaceInv, InitSessionParts DEF SessionInit, SessionInv, SessionWhole
<1>2. SessionWhole /\ [SessionNext]_allVars => SessionWhole'
  <2>1. SUFFICES ASSUME SessionWhole, [SessionNext]_allVars PROVE SessionWhole'
    OBVIOUS
  <2>2. [Next]_vars
    BY <2>1, SessionStepIsBoardStep DEF SessionWhole
  <2> QED
    BY <2>1, <2>2, NextBoardInv, NextHostInv, NextPlaceInv, NextSessionInv DEF SessionWhole
<1> QED
  BY <1>1, <1>2, PTL DEF SessionSpec

(* What is written of an image is a beginning of it.                         *)
THEOREM NoHolesEver == SessionSpec => []NoHoles
<1>1. SessionWhole => NoHoles
  <2>1. SUFFICES ASSUME SessionWhole, InSession, faults = 0,
                        NEW a \in NewWords(target), NEW b \in AreaStart(target) .. a
                 PROVE  b \in NewWords(target)
    BY DEF NoHoles
  <2>2. /\ Programming \/ Complete
        /\ ram.area = target /\ target \in Areas /\ Layout
    BY <2>1 DEF SessionWhole, SessionInv, SessionParts, InSession, PlaceInv, Placed, Writing,
                Programming, Complete, HostInv, HostTypeOK
  <2>3. a \in InArea /\ b \in InArea /\ (b = a \/ b \in AreaStart(target) .. a - 1) /\ IsWritten(a)
    BY <2>1, <2>2, AreaBounds DEF NewWords, InArea, AreaWords, IsWritten
  <2>4. IsWritten(b)
    BY <2>2, <2>3 DEF Layout, IsHeld
  <2> QED
    BY <2>2, <2>3, <2>4 DEF NewWords, InArea, AreaWords, IsWritten
<1> QED
  BY <1>1, WholeHolds, PTL

(* No word the board acknowledged is lost while the session lasts.           *)
THEOREM AcknowledgedStay == SessionSpec => []AcknowledgedWordsAreSafe
<1>1. SessionWhole => AcknowledgedWordsAreSafe
  <2>1. SUFFICES ASSUME SessionWhole, InSession, faults = 0, host \in {"data", "finish"}
                 PROVE  \A a \in AreaStart(target) .. at - 1 : flash[a] = a \/ ram.pending = a
    BY DEF AcknowledgedWordsAreSafe
  <2>2. Programming \/ Complete
    BY <2>1 DEF SessionWhole, InSession, PlaceInv, Placed, Writing, Programming, Complete
  <2> QED
    BY <2>1, <2>2 DEF SessionWhole, SessionInv, SessionParts, InSession, HostBehind, IsHeld, IsWritten
<1> QED
  BY <1>1, WholeHolds, PTL

(* What completes under a programmer that is past its start is whole.        *)
THEOREM CompleteIsWhole == SessionSpec => []CompleteMeansWhole
<1>1. SessionWhole => CompleteMeansWhole
  <2>1. SUFFICES ASSUME SessionWhole, Complete, faults = 0, ram.area = target,
                        host \notin {"waitAck", "failed"}
                 PROVE  Whole(target)
    BY DEF CompleteMeansWhole, Complete
  <2>2. SessionParts /\ target \in Areas /\ BoardTypeOK /\ HostTypeOK
    BY <2>1 DEF SessionWhole, SessionInv, HostInv, HostTypeOK, BoardInv
  <2>3. host \in {"finish", "ok"} /\ at = ImageEnd(target)
    BY <2>1, <2>2 DEF SessionParts, Beginnings, HostBehind, HostTypeOK, HostStates
  <2>4. \A a \in Image(target) : IsHeld(a) /\ a \in InArea
    BY <2>1, <2>2, <2>3, Bounds DEF SessionParts, HostBehind, Image, InArea
  <2>5. \A a \in Image(target) : IsWritten(a) /\ a \in AreaWords(target)
    <3>1. SUFFICES ASSUME NEW a \in Image(target) PROVE IsWritten(a) /\ a \in AreaWords(target)
      OBVIOUS
    <3>2. a \in AreaStart(target) .. a
      BY <2>2, AreaBounds DEF Image
    <3> QED
      BY <2>1, <2>2, <2>4, <3>2 DEF SessionParts, Layout, InArea
  <2> QED
    BY <2>5 DEF Whole, NewWords, AreaWords, IsWritten
<1> QED
  BY <1>1, WholeHolds, PTL
=============================================================================
