--------------------------- MODULE FlashingSession ---------------------------
(* The programmer (programmer/g474/programmer.cpp) flashing images through    *)
(* the bootloader: it asks for programming mode, names the area, sends the    *)
(* image word by word with an acknowledgement for each, and finishes.  The    *)
(* links lose and delay messages, the board loses power, flash operations     *)
(* fail, and a session that failed may be followed by another one.            *)
EXTENDS Bootloader

CONSTANTS AppImage, ConfigImage,  \* words of the two images
          HostLinks,              \* the transports a programmer may be given
          StartTries, ReadySends, DataTries, DoneTries,
          MaxSessions,
          MaxStrays               \* commands of another tool on the bus

ASSUME SessionAssumption ==
  /\ AppImage \in 1 .. AppWords /\ ConfigImage \in 1 .. ConfigWords
  /\ HostLinks \subseteq Links /\ HostLinks # {}
  /\ {StartTries, ReadySends, DataTries, DoneTries} \subseteq Nat \ {0}
  /\ MaxSessions \in Nat /\ MaxStrays \in Nat

VARIABLES
  host,     \* what the programmer is doing
  target,   \* g_flash_target
  hostLink, \* its transport
  at,       \* address of the next word
  tries,    \* messages sent for the reply it waits for
  sessions, strays

hostVars == <<host, target, hostLink, at, tries, sessions, strays>>
allVars  == <<vars, hostVars>>

HostStates == {"idle", "waitAck", "ready", "data", "finish", "ok", "failed"}

ImageEnd(area) == AreaStart(area) + (IF area = "app" THEN AppImage ELSE ConfigImage)
Image(area)    == AreaStart(area) .. ImageEnd(area) - 1
-----------------------------------------------------------------------------
\* main() up to the first start command.  The programmer opens its own socket
\* or port, and goes on only when the board, in either program, has answered a
\* metadata request: by then it has taken all that was sent before and its
\* replies have gone.
StartSession ==
  /\ host \in {"idle", "ok", "failed"} /\ sessions < MaxSessions
  /\ pc \in {"rx", "appLoop"} /\ inbox = <<>> /\ ~ram.replying
  /\ sessions' = sessions + 1
  /\ host' = "waitAck" /\ tries' = 0
  /\ target' \in Areas /\ hostLink' \in HostLinks
  /\ at' = AreaStart(target')
  /\ DropReplies
  /\ UNCHANGED strays

\* What the programmer sends in each state: the start command goes to the
\* application at the beginning of each of the two rounds of main(), and to
\* the bootloader for the rest of the round.
Request ==
  CASE host = "waitAck" -> Message(IF tries % StartTries = 0 THEN "toApp" ELSE "start",
                                   NoAddress, hostLink)
    [] host = "ready"   -> Message(target, NoAddress, hostLink)
    [] host = "data"    -> Message("data", at, hostLink)
    [] host = "finish"  -> Message("done", NoAddress, hostLink)

Limit ==
  CASE host = "waitAck" -> 2 * StartTries
    [] host = "ready"   -> ReadySends
    [] host = "data"    -> DataTries
    [] host = "finish"  -> DoneTries

Waiting == host \in {"waitAck", "ready", "data", "finish"}

\* Each try sends the request again; the board may or may not get it.
SendRequest ==
  /\ Waiting /\ tries < Limit
  /\ tries' = tries + 1
  /\ \/ Send(Request)
     \/ UNCHANGED vars
  /\ UNCHANGED <<host, target, hostLink, at, sessions, strays>>

\* The reply it waits for: only this one ends the tries.
IsAwaited(m) ==
  /\ m.link = hostLink
  /\ \/ host = "waitAck" /\ m.kind = "start"
     \/ host = "data"    /\ m.kind = "data" /\ m.addr = at
     \/ host = "finish"  /\ m.kind = "done"

AfterWord(next) == IF next < ImageEnd(target) THEN "data" ELSE "finish"

ReceiveReply ==
  /\ host \in {"waitAck", "data", "finish"} /\ tries > 0
  /\ Collect
  /\ \/ /\ IsAwaited(Head(outbox))
        /\ tries' = 0
        /\ \/ host = "waitAck" /\ host' = "ready" /\ at' = at
           \/ host = "data" /\ at' = at + 1 /\ host' = AfterWord(at + 1)
           \/ host = "finish" /\ host' = "ok" /\ at' = at
     \/ /\ ~IsAwaited(Head(outbox))
        /\ UNCHANGED <<tries, host, at>>
  /\ UNCHANGED <<target, hostLink, sessions, strays>>

\* The last try went unanswered.  sendReadyFlashing() expects no answer, and
\* flashProgram() does not look at the result of sendFinish().
GiveUp ==
  /\ Waiting /\ tries = Limit
  /\ tries' = 0
  /\ host' = CASE host = "waitAck" -> "failed"
               [] host = "ready"   -> "data"
               [] host = "data"    -> "failed"
               [] host = "finish"  -> "ok"
  /\ UNCHANGED <<vars, target, hostLink, at, sessions, strays>>

HostStep == StartSession \/ SendRequest \/ ReceiveReply \/ GiveUp

\* A reply is lost on the link, or nobody listens to it.
LoseReply == Collect /\ UNCHANGED hostVars

\* Another tool asks for the checksum or starts a session of its own.
SendStray ==
  /\ strays < MaxStrays
  /\ strays' = strays + 1
  /\ \E kind \in {"checksum", "start"}, link \in HostLinks :
       Send(Message(kind, NoAddress, link))
  /\ UNCHANGED <<host, target, hostLink, at, tries, sessions>>

SessionInit ==
  /\ Init
  /\ host = "idle" /\ target = "app" /\ hostLink \in HostLinks
  /\ at = 0 /\ tries = 0 /\ sessions = 0 /\ strays = 0

SessionNext ==
  \/ HostStep \/ LoseReply \/ SendStray
  \/ (BoardStep \/ Tick \/ PowerLoss) /\ UNCHANGED hostVars

SessionSpec == SessionInit /\ [][SessionNext]_allVars
-----------------------------------------------------------------------------
\* An application that was written whole; the board cannot count on a
\* half-written one to do anything.
AppIntact ==
  \/ \A a \in AppAddresses : flash[a] = Old
  \/ \A a \in Image("app") : flash[a] = a

\* The main loop runs, SysTick runs, and the programmer's receive calls time
\* out.  Nothing makes a message arrive.
Fairness ==
  /\ WF_allVars(BoardStep /\ (pc = "app" => AppIntact) /\ UNCHANGED hostVars)
  /\ SF_allVars(Tick /\ UNCHANGED hostVars)
  /\ WF_allVars(SendRequest \/ GiveUp)

FairSessionSpec == SessionSpec /\ Fairness
-----------------------------------------------------------------------------
\* Type invariant of the composition.
TypeOK ==
  /\ BoardTypeOK
  /\ host \in HostStates /\ target \in Areas /\ hostLink \in HostLinks
  /\ at \in Addresses \cup {AppWords + ConfigWords}
  /\ tries \in 0 .. 2 * StartTries + ReadySends + DataTries + DoneTries
  /\ sessions \in 0 .. MaxSessions /\ strays \in 0 .. MaxStrays
-----------------------------------------------------------------------------
NewWords(area) == {a \in AreaStart(area) .. AreaEnd(area) - 1 : flash[a] = a}
Whole(area) == Image(area) \subseteq NewWords(area)

\* A session for the programmer's area is under way on the board.
InSession ==
  /\ ram.boot \in {"PROGRAMMING_IN_PROGRESS", "PROGRAMMING_COMPLETE"}
  /\ ram.area = target
  /\ pc \notin {"metaErase", "metaProgram", "restart"}

\* What is written of an image is a beginning of it: lost, repeated and late
\* messages leave no hole.
NoHoles ==
  InSession /\ faults = 0 =>
    \A a \in NewWords(target) : \A b \in AreaStart(target) .. a : b \in NewWords(target)

\* A word the programmer had acknowledged is in the flash, or is the one that
\* waits for its pair, as long as the session lasts.
AcknowledgedWordsAreSafe ==
  InSession /\ faults = 0 /\ host \in {"data", "finish"}
    => \A a \in AreaStart(target) .. at - 1 : flash[a] = a \/ ram.pending = a

\* The bootloader takes the session of a programmer for complete, and marks the
\* board FLASHED, only when the whole image is in the flash.  A programmer that
\* has had no answer yet may meet a session somebody else left behind.
CompleteMeansWhole ==
  ram.boot = "PROGRAMMING_COMPLETE" /\ faults = 0 /\ ram.area = target
    /\ host \notin {"waitAck", "failed"} => Whole(ram.area)

\* When the programmer has succeeded the image gets into the flash, even when
\* every done command was lost and the last word still waits for its pair.
SuccessIsFlashed ==
  host = "ok" ~> host # "ok" \/ Whole(target) \/ losses + faults + strays > 0

\* A bootloader that got a command it did not expect waits for ever: the flag
\* counts as a programming flow and suspends the timeouts.
IsDeaf == ram.boot = "WAITING_FOR_COMMAND" /\ ram.received

\* Once nobody programs the board any more, it starts an application that is
\* there, or it is deaf.
BoardSettles ==
  [](host \in {"ok", "failed"} /\ sessions = MaxSessions
     => <>(pc \in {"app", "appLoop"} \/ IsDeaf \/ ~HasResetVector(flash)))
=============================================================================
