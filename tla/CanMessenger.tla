----------------------------- MODULE CanMessenger -----------------------------
(***************************************************************************)
(* Transmission over CAN: CanMessenger's queue, the CommCan driver under it *)
(* and BluewhiteCanComm's direct sends.  Two contexts share them: the main  *)
(* loop, one step at a time, and the transmit interrupt (Tx FIFO empty),    *)
(* which runs to completion between any two steps of the main loop.         *)
(*                                                                          *)
(* What the main loop does with interrupts disabled is one step.  What it   *)
(* does with them enabled is split at every access to state it shares with  *)
(* the interrupt: the insertion of a message to be retried, the hand-over   *)
(* of a frame to the hardware, and the recovery of a stuck transmission.    *)
(***************************************************************************)
EXTENDS PriorityRing, FiniteSets

CONSTANTS
  Classes,      \* the message classes in use, TxPriority 0..4
  MaxMessages,  \* bound: how many messages are enqueued
  MaxTick,      \* MAX_TICK_MESSAGES
  FifoDepth,    \* transmit buffers of the hardware
  MaxErrors,    \* MAX_CONSECUTIVE_ERRORS_
  TxTimeout     \* CAN_TX_TIMEOUT_

Urgencies == 0..4
AnalogTelemetry == 3

(***************************************************************************)
(* A queued message: its number in the order of enqueueing, the class of    *)
(* its payload type, the priority it is queued with, whether it was put     *)
(* back.  Number 0 is a message that does not come from the queue.          *)
(***************************************************************************)
TxItem == [n : 0..MaxMessages, cls : Urgencies, prio : Urgencies, retried : BOOLEAN]

ASSUME ClassesAssumption == Classes \subseteq Urgencies
ASSUME BoundsAssumption ==
  /\ MaxMessages \in Nat
  /\ MaxTick \in Nat \ {0}
  /\ FifoDepth \in Nat \ {0}
  /\ MaxErrors \in Nat \ {0}
  /\ TxTimeout \in Nat \ {0}

NoItem == [n |-> 0, cls |-> 0, prio |-> 0, retried |-> FALSE]
DirectItem == [NoItem EXCEPT !.cls = 4, !.prio = 4]

ASSUME ItemsAssumption == Items = TxItem /\ Vacant = NoItem

VARIABLES
  ring,         \* tx_queue_, its head, tail and count
  can,          \* can_state_
  available,    \* *transmit_flag_
  errors,       \* consecutive_error_count_
  elapsed,      \* ms since tx_timeout_start_
  fifo,         \* frames in the hardware's transmit buffers
  irq,          \* the interrupt is pending
  pc,           \* where the main loop is
  held,         \* the message the main loop is sending
  header,       \* whose header is in tx_header_ when the main loop is sending: that
                \* of the message held, or overwritten by one or by more interrupts
  processed,    \* messages_processed
  reg,          \* a value read from tail or count and not yet stored
  forced,       \* the message is put back after an error, a recovery follows
  accepted,     \* number of messages enqueued
  gone,         \* messages given to the hardware, or cleared from a full queue
  abandoned,    \* a transmission has been given up and may still be about
  hits          \* what has gone wrong since the queue was last empty and reset

driver == <<can, available, errors, elapsed, fifo, irq>>
history == <<accepted, gone, abandoned, hits>>
main == <<pc, held, header, processed, reg, forced>>
vars == <<ring, driver, main, history>>

SendPcs == {"header", "check", "handOver", "mark", "flag"}
InsertPcs == {"tail", "tailStore", "count", "countStore"}
RecoveryPcs == {"recover", "ready", "kick"}
Pcs == {"idle", "recheck", "loop", "busy", "error"}
         \cup RecoveryPcs \cup SendPcs \cup InsertPcs

Init ==
  /\ ring = EmptyRing
  /\ can = "READY"
  /\ available = TRUE
  /\ errors = 0
  /\ elapsed = 0
  /\ fifo = 0
  /\ irq = FALSE
  /\ pc = "idle"
  /\ held = NoItem
  /\ header = "none"
  /\ processed = 0
  /\ reg = 0
  /\ forced = FALSE
  /\ accepted = 0
  /\ gone = {}
  /\ abandoned = FALSE
  /\ hits = {}

-----------------------------------------------------------------------------
(* External: the bus takes a frame, or the interrupt controller is slow. *)
FrameLeaves ==
  /\ fifo > 0
  /\ fifo' = fifo - 1
  /\ irq' = (irq \/ fifo = 1)
  /\ UNCHANGED <<ring, can, available, errors, elapsed, main, history>>

(* A millisecond passes. *)
SysTick ==
  /\ can = "BUSY_TX"
  /\ elapsed < TxTimeout
  /\ elapsed' = elapsed + 1
  /\ UNCHANGED <<ring, can, available, errors, fifo, irq, main, history>>

ReadyUnannounced ==                              \* mutant: the flag is not set
  can' = "READY" /\ elapsed' = 0 /\ UNCHANGED available
ReadyAgain == can' = "READY" /\ available' = TRUE /\ elapsed' = 0

(* A frame may survive its abort; the interrupt is raised when none does. *)
AbortAll(pending) ==
  /\ errors' = 0
  /\ abandoned' = TRUE
  /\ \E left \in 0..fifo :
       /\ fifo' = left
       /\ irq' = (pending \/ (left < fifo /\ left = 0))

(* recoverStuckTransmit() where no interrupt can come in between: with      *)
(* interrupts disabled, or in the interrupt itself.                         *)
Recover(pending) == AbortAll(pending) /\ ReadyAgain

NeverDue == can = "ERROR"                        \* mutant: no timeout
RecoveryDue == can = "ERROR" \/ (can = "BUSY_TX" /\ elapsed >= TxTimeout)

(* handleCanError() *)
CountError ==
  /\ errors' = IF errors < MaxErrors THEN errors + 1 ELSE errors
  /\ can' = IF errors' >= MaxErrors THEN "ERROR" ELSE can

StraysNow(r, item) == IF Strays(r, item) THEN {"shift"} ELSE {}

-----------------------------------------------------------------------------
ClearedButHead == [EmptyRing EXCEPT !.head = ring.head]  \* mutant: head stays
Cleared == EmptyRing

NewItem(c) == [n |-> accepted + 1, cls |-> c, prio |-> c, retried |-> FALSE]

(* mutant: a full queue is written over *)
EnqueueUnchecked(c) ==
  /\ pc = "idle"
  /\ accepted < MaxMessages
  /\ accepted' = accepted + 1
  /\ ring' = Inserted(ring, NewItem(c))
  /\ hits' = hits \cup StraysNow(ring, NewItem(c))
  /\ UNCHANGED <<driver, gone, abandoned, main>>

(* enqueueTxMessage(): a full queue is cleared to make room. *)
Enqueue(c) ==
  /\ pc = "idle"
  /\ accepted < MaxMessages
  /\ accepted' = accepted + 1
  /\ \/ /\ ring.count < Size
        /\ ring' = Inserted(ring, NewItem(c))
        /\ hits' = hits \cup StraysNow(ring, NewItem(c))
        /\ UNCHANGED <<driver, gone, abandoned>>
     \/ /\ ring.count >= Size
        /\ ring' = Inserted(Cleared, NewItem(c))
        /\ hits' = {}
        /\ gone' = 1..accepted
        /\ Recover(irq)
  /\ UNCHANGED <<main>>

-----------------------------------------------------------------------------
(* The main loop is through with processQueueFromTick() or a direct send. *)
Return ==
  /\ pc' = "idle"
  /\ held' = NoItem
  /\ header' = "none"
  /\ processed' = 0
  /\ reg' = 0
  /\ forced' = FALSE

(* Both begin alike: a transmitter that is not available is abandoned if it *)
(* has been busy for too long, and asked again. *)
CallRecovery == pc' = IF ~available /\ RecoveryDue THEN "recover" ELSE "recheck"

(* No history is kept of a transmission given up once nothing is left of it. *)
Begin ==
  /\ pc = "idle"
  /\ abandoned' = (abandoned /\ (fifo > 0 \/ irq))
  /\ UNCHANGED <<ring, driver, header, processed, reg, forced, accepted, gone, hits>>

BeginTick ==
  /\ Begin
  /\ CallRecovery
  /\ UNCHANGED held

BeginDirect ==
  /\ Begin
  /\ held' = DirectItem
  /\ \/ available /\ pc' = "header"
     \/ ~available /\ CallRecovery

(* recoverStuckTransmit() in the main loop, with interrupts enabled: the    *)
(* abort, can_state_, then the flag.  The state an abort that is refused    *)
(* leaves is overwritten by the next step.                                  *)
AbortTransmissions ==
  /\ pc = "recover"
  /\ pc' = "ready"
  /\ AbortAll(irq)
  /\ UNCHANGED <<ring, can, available, elapsed, held, header, processed, reg, forced,
                 accepted, gone, hits>>

AbortRefused ==
  /\ pc = "recover"
  /\ pc' = "ready"
  /\ CountError
  /\ abandoned' = TRUE
  /\ UNCHANGED <<ring, available, elapsed, fifo, irq, held, header, processed, reg, forced,
                 accepted, gone, hits>>

MarkReady ==
  /\ pc = "ready"
  /\ can' = "READY"
  /\ elapsed' = 0
  /\ errors' = 0
  /\ pc' = "kick"
  /\ UNCHANGED <<ring, available, fifo, irq, held, header, processed, reg, forced, history>>

(* kickStartTxInterrupts(), after which the loop asks again or, when the    *)
(* recovery followed an error, is through. *)
KickStart ==
  /\ pc = "kick"
  /\ available' = TRUE
  /\ \/ forced /\ Return
     \/ /\ ~forced
        /\ pc' = "recheck"
        /\ UNCHANGED <<held, header, processed, reg, forced>>
  /\ UNCHANGED <<ring, can, errors, elapsed, fifo, irq, history>>

TransmitAvailable ==
  /\ pc = "recheck"
  /\ available
  /\ pc' = IF held = DirectItem THEN "header" ELSE "loop"
  /\ UNCHANGED <<ring, driver, held, header, processed, reg, forced, history>>

TransmitUnavailable ==
  /\ pc = "recheck"
  /\ ~available
  /\ Return
  /\ UNCHANGED <<ring, driver, history>>

(* The while loop: the next message is taken with interrupts disabled. *)
TakeMessage ==
  /\ pc = "loop"
  /\ ring.count > 0
  /\ processed < MaxTick
  /\ held' = Taken(ring)
  /\ ring' = Dequeued(ring)
  /\ pc' = "header"
  /\ UNCHANGED <<driver, header, processed, reg, forced, history>>

LoopEnds ==
  /\ pc = "loop"
  /\ ring.count = 0 \/ processed >= MaxTick
  /\ Return
  /\ UNCHANGED <<ring, driver, history>>

-----------------------------------------------------------------------------
(* sendQueuedMessage() and the direct send write the one tx_header_ there   *)
(* is, with interrupts enabled, and call startTransmitInterrupt(); a header *)
(* overwritten before it is complete counts as overwritten after.           *)
SetHeader ==
  /\ pc = "header"
  /\ header' = "own"
  /\ pc' = "check"
  /\ UNCHANGED <<ring, driver, held, processed, reg, forced, history>>

CheckStateNot ==                                 \* mutant: BUSY_TX is not asked
  /\ pc = "check"
  /\ pc' = IF can = "ERROR" THEN "error" ELSE "handOver"
  /\ UNCHANGED <<ring, driver, held, header, processed, reg, forced, history>>

CheckState ==
  /\ pc = "check"
  /\ pc' = CASE can = "ERROR" -> "error" [] can = "BUSY_TX" -> "busy" [] OTHER -> "handOver"
  /\ UNCHANGED <<ring, driver, held, header, processed, reg, forced, history>>

Identified(item) == IF item.n = 0 THEN {} ELSE {item.n}

HandOver ==
  /\ pc = "handOver"
  /\ fifo < FifoDepth
  /\ fifo' = fifo + 1
  /\ gone' = gone \cup Identified(held)
  /\ held' = IF held = DirectItem THEN DirectItem ELSE NoItem
  /\ header' = "none"
  /\ pc' = "mark"
  /\ UNCHANGED <<ring, can, available, errors, elapsed, irq, processed, reg, forced,
                 accepted, abandoned, hits>>

FifoFull ==
  /\ pc = "handOver"
  /\ fifo >= FifoDepth
  /\ pc' = "busy"
  /\ UNCHANGED <<ring, driver, held, header, processed, reg, forced, history>>

(* The peripheral refuses. *)
HandOverFails ==
  /\ pc = "handOver"
  /\ CountError
  /\ pc' = "error"
  /\ UNCHANGED <<ring, available, elapsed, fifo, irq, held, header, processed, reg, forced,
                 history>>

(* can_state_ first, then the flag: an interrupt may come in between. *)
MarkBusy ==
  /\ pc = "mark"
  /\ can' = "BUSY_TX"
  /\ elapsed' = 0
  /\ pc' = "flag"
  /\ UNCHANGED <<ring, available, errors, fifo, irq, held, header, processed, reg, forced,
                 history>>

ClearFlag ==
  /\ pc = "flag"
  /\ available' = FALSE
  /\ errors' = 0
  /\ \/ held = DirectItem /\ Return
     \/ /\ held # DirectItem
        /\ pc' = "loop"
        /\ processed' = processed + 1
        /\ UNCHANGED <<held, header, reg, forced>>
  /\ UNCHANGED <<ring, can, elapsed, fifo, irq, history>>

-----------------------------------------------------------------------------
(* INTERFACE_BUSY: a direct send gives up, a queued message goes back one   *)
(* class down, a default one to the class of analog telemetry.              *)
Demoted(item) ==
  [item EXCEPT !.prio = IF @ + 1 > AnalogTelemetry THEN AnalogTelemetry ELSE @ + 1,
               !.retried = TRUE]

(* mutant: a message that cannot be sent is dropped *)
SendGivesUpAlways ==
  /\ pc \in {"busy", "error"}
  /\ Return
  /\ UNCHANGED <<ring, driver, history>>

SendGivesUp ==
  /\ pc \in {"busy", "error"}
  /\ held = DirectItem
  /\ Return
  /\ UNCHANGED <<ring, driver, history>>

(* The insertion with interrupts enabled: the shift and the store, then     *)
(* tail and count, each read and written back.                              *)
PutBack ==
  /\ pc \in {"busy", "error"}
  /\ held # DirectItem
  /\ LET item == IF pc = "busy" THEN Demoted(held) ELSE [held EXCEPT !.retried = TRUE]
     IN  /\ ring' = Placed(ring, item)
         /\ hits' = hits \cup StraysNow(ring, item)
  /\ held' = NoItem
  /\ header' = "none"
  /\ processed' = 0
  /\ forced' = (pc = "error")
  /\ pc' = "tail"
  /\ UNCHANGED <<driver, reg, accepted, gone, abandoned>>

ReadTail ==
  /\ pc = "tail"
  /\ reg' = ring.tail
  /\ pc' = "tailStore"
  /\ UNCHANGED <<ring, driver, held, header, processed, forced, history>>

StoreTail ==
  /\ pc = "tailStore"
  /\ ring' = [ring EXCEPT !.tail = After(reg)]
  /\ reg' = 0
  /\ pc' = "count"
  /\ UNCHANGED <<driver, held, header, processed, forced, history>>

ReadCount ==
  /\ pc = "count"
  /\ reg' = ring.count
  /\ pc' = "countStore"
  /\ UNCHANGED <<ring, driver, held, header, processed, forced, history>>

StoreCount ==
  /\ pc = "countStore"
  /\ ring' = [ring EXCEPT !.count = reg + 1]
  /\ \/ /\ forced
        /\ pc' = "recover"
        /\ reg' = 0
        /\ UNCHANGED <<held, header, processed, forced>>
     \/ ~forced /\ Return
  /\ UNCHANGED <<driver, history>>

-----------------------------------------------------------------------------
(***************************************************************************)
(* The interrupt: setTransmitComplete(), then processQueueFromInterrupt(),  *)
(* which sends at most one message and disables nothing.                    *)
(***************************************************************************)
TransmitComplete == irq /\ UNCHANGED <<pc, held, processed, reg, forced>>

(* It comes where the main loop does not expect it: in the middle of an     *)
(* insertion, before the flag is cleared and without a frame to send, or    *)
(* with one before the flag is raised. *)
RingHit == IF pc \in InsertPcs THEN {"insert"} ELSE {}
FlagHit == IF pc = "flag" THEN {"mark"} ELSE {}
KickHit == IF pc = "kick" THEN {"kick"} ELSE {}

(* Whoever sends writes tx_header_, also under the hands of the main loop. *)
OverwrittenBy(writes) ==
  CASE header = "none" -> "none"
    [] header = "own" -> IF writes THEN "once" ELSE "own"
    [] OTHER -> "more"

InterruptWithoutMessage ==
  /\ TransmitComplete
  /\ ring.count = 0
  /\ irq' = FALSE
  /\ ReadyAgain
  /\ hits' = hits \cup FlagHit
  /\ header' = OverwrittenBy(FALSE)
  /\ UNCHANGED <<ring, errors, fifo, accepted, gone, abandoned>>

InterruptSends ==
  /\ TransmitComplete
  /\ ring.count > 0
  /\ fifo < FifoDepth
  /\ irq' = FALSE
  /\ fifo' = fifo + 1
  /\ gone' = gone \cup Identified(Taken(ring))
  /\ ring' = Dequeued(ring)
  /\ can' = "BUSY_TX"
  /\ available' = FALSE
  /\ elapsed' = 0
  /\ errors' = 0
  /\ header' = OverwrittenBy(TRUE)
  /\ hits' = hits \cup RingHit \cup KickHit
  /\ UNCHANGED <<accepted, abandoned>>

(* It cannot send: the message goes back with the priority it had. *)
InterruptPutsBack ==
  /\ TransmitComplete
  /\ ring.count > 0
  /\ LET item == [Taken(ring) EXCEPT !.retried = TRUE]
     IN  /\ ring' = Inserted(Dequeued(ring), item)
         /\ hits' = hits \cup RingHit \cup FlagHit \cup StraysNow(Dequeued(ring), item)
  /\ header' = OverwrittenBy(TRUE)
  /\ UNCHANGED <<accepted, gone>>

InterruptFindsFifoFull ==
  /\ InterruptPutsBack
  /\ fifo >= FifoDepth
  /\ irq' = FALSE
  /\ ReadyAgain
  /\ UNCHANGED <<errors, fifo, abandoned>>

InterruptFails ==
  /\ InterruptPutsBack
  /\ Recover(FALSE)

-----------------------------------------------------------------------------
MainLoop ==
  \/ BeginTick
  \/ BeginDirect
  \/ AbortTransmissions
  \/ AbortRefused
  \/ MarkReady
  \/ KickStart
  \/ TransmitAvailable
  \/ TransmitUnavailable
  \/ TakeMessage
  \/ LoopEnds
  \/ SetHeader
  \/ CheckState
  \/ HandOver
  \/ FifoFull
  \/ HandOverFails
  \/ MarkBusy
  \/ ClearFlag
  \/ SendGivesUp
  \/ PutBack
  \/ ReadTail
  \/ StoreTail
  \/ ReadCount
  \/ StoreCount

Interrupt ==
  \/ InterruptWithoutMessage
  \/ InterruptSends
  \/ InterruptFindsFifoFull
  \/ InterruptFails

Next ==
  \/ \E c \in Classes : Enqueue(c)
  \/ MainLoop
  \/ Interrupt
  \/ FrameLeaves
  \/ SysTick

Spec == Init /\ [][Next]_vars

(***************************************************************************)
(* The main loop goes on and calls tick() in every round, the clock and the *)
(* interrupt controller work, and a peripheral that is asked again and      *)
(* again accepts a frame.  Nothing is assumed of the bus: it may be dead.   *)
(***************************************************************************)
Fairness ==
  /\ WF_vars(MainLoop)
  /\ SF_vars(BeginTick)
  /\ SF_vars(HandOver)
  /\ WF_vars(Interrupt)
  /\ WF_vars(SysTick)
FairSpec == Spec /\ Fairness

-----------------------------------------------------------------------------
TypeOK ==
  /\ ring \in Ring
  /\ can \in {"READY", "BUSY_TX", "ERROR"}
  /\ available \in BOOLEAN
  /\ errors \in 0..MaxErrors
  /\ elapsed \in 0..TxTimeout
  /\ fifo \in 0..FifoDepth
  /\ irq \in BOOLEAN
  /\ pc \in Pcs
  /\ held \in TxItem
  /\ header \in {"none", "own", "once", "more"}
  /\ abandoned \in BOOLEAN
  /\ processed \in 0..MaxTick
  /\ reg \in 0..Size
  /\ forced \in BOOLEAN
  /\ accepted \in 0..MaxMessages
  /\ gone \subseteq 1..MaxMessages
  /\ hits \subseteq {"insert", "shift", "mark", "kick"}

(* What is in the queue, an item just put back included. *)
Length == IF pc \in InsertPcs THEN ring.count + 1 ELSE ring.count
Queue == Contents(ring, Length)
InHand == IF pc \in {"header", "check", "handOver", "busy", "error"} THEN Identified(held) ELSE {}

(* Unless the interrupt came in the middle of an insertion, head, tail and  *)
(* count of the queue agree.                                                *)
CountersAgree ==
  "insert" \notin hits =>
    ring.tail = (ring.head + ring.count + (IF pc \in {"count", "countStore"} THEN 1 ELSE 0)) % Size

(* Only an interrupted insertion or a shift past slot 0 loses a message or  *)
(* makes two of it: else each is queued once, being sent, sent, or cleared  *)
(* from a full queue.                                                       *)
MessagesAccountedFor ==
  hits \cap {"insert", "shift"} = {} =>
    LET queued == {Queue[i].n : i \in 1..Length}
    IN  /\ Cardinality(queued) = Length
        /\ queued \cup InHand \cup gone = 1..accepted
        /\ queued \cap (InHand \cup gone) = {}
        /\ InHand \cap gone = {}

(* The next message to go is at the head: the queue is sorted by urgency.   *)
(* Messages of a class leave in the order in which they were enqueued, save *)
(* one that was put back because the transmitter was busy.                  *)
OnlyRetriesAreOvertaken ==
  hits \cap {"insert", "shift"} = {} =>
    /\ \A i, j \in 1..ring.count : i < j => At(ring, i - 1).prio <= At(ring, j - 1).prio
    /\ \A i \in 1..Length :
         ~Queue[i].retried =>
           \A j \in 1..Length :
             Queue[j].cls = Queue[i].cls /\ Queue[j].n > Queue[i].n /\ ~Queue[j].retried => i < j

(* The interrupt writes the header that the main loop has just written for  *)
(* its own message (comm_interface.cpp:666).  One interrupt between header  *)
(* and hand-over never sends the data of a message under the header of      *)
(* another, unless a transmission given up is still about: it leaves the    *)
(* driver BUSY_TX.  A second one would need a whole frame to pass on the    *)
(* bus in the few instructions between.                                     *)
FramesKeepTheirHeader == pc = "handOver" /\ header = "once" => abandoned

(* Except between the writes of the two, the flag says what the driver's    *)
(* state is, but for two interrupts.  One that finds nothing to send just   *)
(* before the flag is cleared leaves a ready driver that is not available:  *)
(* nothing is sent until the queue is full.  One that sends just before the *)
(* flag is raised at the end of a recovery leaves a busy driver that is:    *)
(* nobody watches over that frame.                                          *)
FlagTellsState ==
  /\ can = "READY" /\ ~available => "mark" \in hits \/ pc = "kick"
  /\ can = "BUSY_TX" /\ available => "kick" \in hits \/ pc = "flag"

(* A transmission that does not complete is given up, also on a bus that    *)
(* takes no frame, unless the flag has been raised over it: a busy driver   *)
(* that says it is available is not recovered before the queue is full.     *)
BusyIsLeft == can = "BUSY_TX" /\ ~available /\ pc # "kick" ~> can # "BUSY_TX"

(* On a bus that takes frames the queue is emptied again and again once     *)
(* nothing more is enqueued, as long as direct sends do not keep the        *)
(* transmitter from it.                                                     *)
QueueDrains ==
  WF_vars(FrameLeaves) => []<>(ring.count = 0 \/ held = DirectItem \/ "mark" \in hits)
=============================================================================
