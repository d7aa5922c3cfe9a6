------------------------------ MODULE CanReceiver ------------------------------
(***************************************************************************)
(* Reception over CAN: the hardware's two receive FIFOs, the interrupt that *)
(* empties them into CanMessenger's receive queue, and the main loop that   *)
(* handles a few messages of the queue per tick.  The interrupt runs to its *)
(* end before the main loop goes on; frames may arrive at any time.         *)
(***************************************************************************)
EXTENDS PriorityRing, FiniteSets

CONSTANTS
  Classes,          \* the message classes in use, RxPriority 0..6
  MaxArrivals,      \* bound: how many frames arrive
  FifoDepth,        \* elements of a receive FIFO
  MaxPerInterrupt,  \* MAX_INTERRUPT_RX_PROCESS
  MaxPerTick        \* MAX_RX_PROCESS_PER_TICK_

(* A message: its number in the order of arrival (0: none), its priority. *)
RxItem == [n : 0..MaxArrivals, prio : 0..6]
NoItem == [n |-> 0, prio |-> 0]

ASSUME ClassesAssumption == Classes \subseteq 0..6
ASSUME BoundsAssumption ==
  /\ MaxArrivals \in Nat
  /\ MaxPerTick \in Nat \ {0}
  /\ FifoDepth \in Nat \ {0}
  /\ MaxPerInterrupt \in Nat /\ MaxPerInterrupt >= FifoDepth
ASSUME ItemsAssumption == Items = RxItem /\ Vacant = NoItem

VARIABLES
  ring,         \* rx_queue_, its head, tail and count
  fifo,         \* frames in the receive FIFOs 0 and 1
  irq,          \* a new-message flag is set
  isr,          \* the FIFO the interrupt reads, 2 when it is not running
  read,         \* messages_processed of processRxFifo()
  pc,           \* the main loop is in processRxQueuedMessage()
  processed,    \* its messages_processed
  arrived,      \* number of frames accepted by the hardware
  gone,         \* messages handled, or dropped because the queue was full
  last,         \* the latest message handled of each class
  shifted       \* an insertion has written past the array

interrupt == <<irq, isr, read>>
main == <<pc, processed, last>>
vars == <<ring, fifo, interrupt, main, arrived, gone, shifted>>

Init ==
  /\ ring = EmptyRing
  /\ fifo = [f \in 0..1 |-> <<>>]
  /\ irq = FALSE
  /\ isr = 2
  /\ read = 0
  /\ pc = "idle"
  /\ processed = 0
  /\ arrived = 0
  /\ gone = {}
  /\ last = [c \in Classes |-> 0]
  /\ shifted = FALSE

-----------------------------------------------------------------------------
(***************************************************************************)
(* Which FIFO takes a frame.  Of the filters that configureCanFilter()      *)
(* writes only the first four are elements of the hardware's filter list:   *)
(* reset, programming and the two metadata requests, to FIFO 1.  A frame    *)
(* that no filter matches goes to FIFO 1 as well.                           *)
(***************************************************************************)
Filtered == 0..2
FilterFifo == 1
UnmatchedFifo == 1
FifoOf(c) == IF c \in Filtered THEN FilterFifo ELSE UnmatchedFifo

(* External: a frame arrives; a full FIFO takes none. *)
FrameArrives(c) ==
  /\ arrived < MaxArrivals
  /\ Len(fifo[FifoOf(c)]) < FifoDepth
  /\ arrived' = arrived + 1
  /\ fifo' = [fifo EXCEPT ![FifoOf(c)] = Append(@, [n |-> arrived + 1, prio |-> c])]
  /\ irq' = TRUE
  /\ UNCHANGED <<ring, isr, read, main, gone, shifted>>

(* The flag is cleared before the callback runs. *)
BeginInterrupt ==
  /\ irq
  /\ isr = 2
  /\ irq' = FALSE
  /\ isr' = 0
  /\ read' = 0
  /\ UNCHANGED <<ring, fifo, main, arrived, gone, shifted>>

(* mutant: a full queue is not noticed *)
ReadFrameUnchecked ==
  /\ isr # 2
  /\ fifo[isr] # <<>>
  /\ read < MaxPerInterrupt
  /\ fifo' = [fifo EXCEPT ![isr] = Tail(@)]
  /\ read' = read + 1
  /\ ring' = Inserted(ring, Head(fifo[isr]))
  /\ shifted' = (shifted \/ Strays(ring, Head(fifo[isr])))
  /\ UNCHANGED <<irq, isr, main, arrived, gone>>

(* processRxFifo() and enqueueRxMessageFromInterrupt(): a full queue drops  *)
(* the message, whatever its priority.                                      *)
ReadFrame ==
  /\ isr # 2
  /\ fifo[isr] # <<>>
  /\ read < MaxPerInterrupt
  /\ fifo' = [fifo EXCEPT ![isr] = Tail(@)]
  /\ read' = read + 1
  /\ LET item == Head(fifo[isr])
     IN  \/ /\ ring.count < Size
            /\ ring' = Inserted(ring, item)
            /\ shifted' = (shifted \/ Strays(ring, item))
            /\ UNCHANGED gone
         \/ /\ ring.count >= Size
            /\ gone' = gone \cup {item.n}
            /\ UNCHANGED <<ring, shifted>>
  /\ UNCHANGED <<irq, isr, main, arrived>>

(* mutant: the flag is cleared at the end of the interrupt *)
FifoDoneLate ==
  /\ isr # 2
  /\ fifo[isr] = <<>> \/ read >= MaxPerInterrupt
  /\ isr' = isr + 1
  /\ read' = 0
  /\ irq' = FALSE
  /\ UNCHANGED <<ring, fifo, main, arrived, gone, shifted>>

(* On to FIFO 1, or the end of the interrupt. *)
FifoDone ==
  /\ isr # 2
  /\ fifo[isr] = <<>> \/ read >= MaxPerInterrupt
  /\ isr' = isr + 1
  /\ read' = 0
  /\ UNCHANGED <<ring, fifo, irq, main, arrived, gone, shifted>>

-----------------------------------------------------------------------------
(* processRxQueuedMessage(): nothing, or up to MaxPerTick messages. *)
BeginTick ==
  /\ isr = 2
  /\ pc = "idle"
  /\ ring.count > 0
  /\ pc' = "loop"
  /\ UNCHANGED <<ring, fifo, interrupt, processed, last, arrived, gone, shifted>>

(* getNextRxMessage() with interrupts disabled, then handleInbound(). *)
HandleNext ==
  /\ isr = 2
  /\ pc = "loop"
  /\ processed < MaxPerTick
  /\ ring.count > 0
  /\ ring' = Dequeued(ring)
  /\ gone' = gone \cup {Taken(ring).n}
  /\ last' = [last EXCEPT ![Taken(ring).prio] = Taken(ring).n]
  /\ processed' = processed + 1
  /\ UNCHANGED <<fifo, interrupt, pc, arrived, shifted>>

(* mutant: the number of messages handled is not reset *)
LoopEndsCounting ==
  /\ isr = 2
  /\ pc = "loop"
  /\ processed >= MaxPerTick \/ ring.count = 0
  /\ pc' = "idle"
  /\ UNCHANGED <<ring, fifo, interrupt, processed, last, arrived, gone, shifted>>

LoopEnds ==
  /\ isr = 2
  /\ pc = "loop"
  /\ processed >= MaxPerTick \/ ring.count = 0
  /\ pc' = "idle"
  /\ processed' = 0
  /\ UNCHANGED <<ring, fifo, interrupt, last, arrived, gone, shifted>>

-----------------------------------------------------------------------------
Interrupt == BeginInterrupt \/ ReadFrame \/ FifoDone
MainLoop == BeginTick \/ HandleNext \/ LoopEnds
Next == (\E c \in Classes : FrameArrives(c)) \/ Interrupt \/ MainLoop

Spec == Init /\ [][Next]_vars

(* The interrupt is taken and ends, and the main loop goes on after it: *)
(* frames need longer on the bus than their interrupt takes.            *)
FairSpec == Spec /\ WF_vars(Interrupt) /\ SF_vars(MainLoop)

-----------------------------------------------------------------------------
TypeOK ==
  /\ ring \in Ring
  /\ fifo \in [0..1 -> Seq(RxItem)]
  /\ \A f \in 0..1 : Len(fifo[f]) <= FifoDepth
  /\ irq \in BOOLEAN
  /\ isr \in 0..2
  /\ read \in 0..MaxPerInterrupt
  /\ pc \in {"idle", "loop"}
  /\ processed \in 0..MaxPerTick
  /\ arrived \in 0..MaxArrivals
  /\ gone \subseteq 1..MaxArrivals
  /\ last \in [Classes -> 0..MaxArrivals]
  /\ shifted \in BOOLEAN

Frames == fifo[0] \o fifo[1]
(* The messages not yet handled, in the order in which they would be. *)
Pending == Contents(ring, ring.count) \o Frames

(* Until an insertion has shifted past slot 0, every frame the hardware     *)
(* has accepted is queued once, or handled or dropped, never both.          *)
FramesAccountedFor ==
  ~shifted =>
    LET waiting == {Pending[i].n : i \in 1..Len(Pending)}
    IN  /\ Cardinality(waiting) = Len(Pending)
        /\ waiting \cup gone = 1..arrived
        /\ waiting \cap gone = {}

(* Until then messages of a class are handled in the order of their         *)
(* arrival, through FIFO, interrupt and queue.                              *)
HandledInOrder ==
  ~shifted =>
    \A i \in 1..Len(Pending) :
      /\ Pending[i].n > last[Pending[i].prio]
      /\ \A j \in 1..i - 1 : Pending[j].prio = Pending[i].prio => Pending[j].n < Pending[i].n

(* comm_interface.cpp:955: "high priority messages go to RxFifo0, low       *)
(* priority to RxFifo1".                                                    *)
HighPriorityInFifo0 ==
  \A i \in 1..Len(fifo[1]) : fifo[1][i].prio \notin Filtered

(* No frame is left behind in a FIFO, though an interrupt reads only so     *)
(* many and nobody polls.                                                   *)
FifosAreEmptied == []<>(Frames = <<>>)

(* Every message in the queue is handled in the end. *)
QueueIsHandled == []<>(ring.count = 0)
=============================================================================
