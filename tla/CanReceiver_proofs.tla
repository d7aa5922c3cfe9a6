--------------------------- MODULE CanReceiver_proofs ---------------------------
(***************************************************************************)
(* Theorems about CanReceiver, for every size of the queue, every number   *)
(* of frames and every bound of the interrupt and of the main loop.        *)
(***************************************************************************)
EXTENDS CanReceiver, PriorityRing_proofs, FiniteSetTheorems

(* Types.  Whatever a shift past slot 0 does to the queue, it holds frames *)
(* that have arrived and nothing else; FIFO 0 is never used.               *)
Known(item) == item.n \in 1 .. MaxArrivals /\ item.prio \in Classes
QueueKnown == \A i \in 0 .. ring.count - 1 : Known(At(ring, i))
FifoKnown == \A i \in 1 .. Len(fifo[1]) : Known(fifo[1][i])
TypeInv == TypeOK /\ Agree(ring) /\ fifo[0] = <<>> /\ QueueKnown /\ FifoKnown

LEMMA Bounds ==
  /\ MaxArrivals \in Nat
  /\ MaxPerTick \in Nat /\ MaxPerTick >= 1
  /\ FifoDepth \in Nat /\ FifoDepth >= 1
  /\ MaxPerInterrupt \in Nat
BY BoundsAssumption

LEMMA RxItems ==
  /\ Items = RxItem
  /\ \A item \in RxItem : item.n \in Int /\ item.prio \in Int
BY ItemsAssumption DEF RxItem

LEMMA ZeroInBounds ==
  0 \in 0 .. MaxArrivals /\ 0 \in 0 .. MaxPerTick /\ 0 \in 0 .. MaxPerInterrupt
BY Bounds

LEMMA OneFifo == \A c \in Classes : FifoOf(c) = 1
BY DEF FifoOf, FilterFifo, UnmatchedFifo

LEMMA TypeInit == Init => TypeInv
<1> SUFFICES ASSUME Init PROVE TypeInv
  OBVIOUS
<1>1. ring \in Ring /\ Agree(ring) /\ ring.count = 0
  BY EmptyTyped, EmptyAgrees DEF Init
<1>2. fifo[0] = <<>> /\ fifo[1] = <<>> /\ fifo \in [0 .. 1 -> Seq(RxItem)]
  BY DEF Init
<1>3. \A f \in 0 .. 1 : Len(fifo[f]) <= FifoDepth
  BY <1>2, Bounds
<1>4. last \in [Classes -> 0 .. MaxArrivals] /\ gone \subseteq 1 .. MaxArrivals
  BY ZeroInBounds DEF Init
<1>5. /\ read \in 0 .. MaxPerInterrupt /\ processed \in 0 .. MaxPerTick
      /\ arrived \in 0 .. MaxArrivals /\ isr \in 0 .. 2
  BY ZeroInBounds DEF Init
<1>6. irq \in BOOLEAN /\ shifted \in BOOLEAN /\ pc \in {"idle", "loop"}
  BY DEF Init
<1>7. TypeOK
  BY <1>1, <1>2, <1>3, <1>4, <1>5, <1>6 DEF TypeOK
<1> QED
  BY <1>1, <1>2, <1>7 DEF TypeInv, QueueKnown, FifoKnown

LEMMA TypeStep == TypeInv /\ [Next]_vars => TypeInv'
<1> SUFFICES ASSUME TypeInv, [Next]_vars PROVE TypeInv'
  OBVIOUS
<1> USE DEF interrupt, main
<1>a. /\ TypeOK /\ Agree(ring) /\ fifo[0] = <<>> /\ QueueKnown /\ FifoKnown
      /\ ring \in Ring /\ fifo \in [0 .. 1 -> Seq(RxItem)] /\ fifo[1] \in Seq(RxItem)
  BY DEF TypeInv, TypeOK
<1>b. ring.count \in Nat /\ ring.count <= Size
  BY <1>a, SizeIsNat DEF Ring
<1>0. CASE UNCHANGED vars
  BY <1>0, <1>a DEF vars, TypeInv, TypeOK, QueueKnown, FifoKnown
<1>1. ASSUME NEW c \in Classes, FrameArrives(c) PROVE TypeInv'
  <2> DEFINE item == [n |-> arrived + 1, prio |-> c]
  <2>1. /\ arrived < MaxArrivals /\ Len(fifo[1]) < FifoDepth /\ arrived' = arrived + 1
        /\ fifo' = [fifo EXCEPT ![1] = Append(fifo[1], item)] /\ irq' = TRUE
        /\ UNCHANGED <<ring, isr, read, main, gone, shifted>>
    BY <1>1, OneFifo DEF FrameArrives
  <2>2. arrived \in Nat /\ arrived' \in 0 .. MaxArrivals
    BY <2>1, <1>a, Bounds DEF TypeOK
  <2>3. item \in RxItem /\ Known(item)
    BY <2>1, <2>2, Bounds, ClassesAssumption DEF RxItem, Known
  <2> HIDE DEF item
  <2>4. /\ fifo' \in [0 .. 1 -> Seq(RxItem)] /\ fifo'[0] = <<>>
        /\ fifo'[1] = Append(fifo[1], item) /\ Len(fifo'[1]) = Len(fifo[1]) + 1
    BY <2>1, <2>3, <1>a
  <2>5. \A f \in 0 .. 1 : Len(fifo'[f]) <= FifoDepth
    <3>1. Len(fifo'[0]) <= FifoDepth
      BY <2>4, Bounds
    <3>2. Len(fifo'[1]) <= FifoDepth
      BY <2>1, <2>4, <1>a, Bounds
    <3> QED
      BY <3>1, <3>2
  <2>6. FifoKnown'
    <3> SUFFICES ASSUME NEW i \in 1 .. Len(fifo'[1]) PROVE Known(fifo'[1][i])
      BY DEF FifoKnown, Known
    <3>1. CASE i <= Len(fifo[1])
      BY <3>1, <2>4, <1>a, <2>3 DEF FifoKnown
    <3>2. CASE i > Len(fifo[1])
      BY <3>2, <2>3, <2>4, <1>a
    <3> QED
      BY <3>1, <3>2, <1>a
  <2>7. TypeOK'
    BY <2>1, <2>2, <2>4, <2>5, <1>a DEF TypeOK
  <2> QED
    BY <2>1, <2>4, <2>6, <2>7, <1>a DEF TypeInv, QueueKnown
<1>2. CASE BeginInterrupt
  <2>1. read' \in 0 .. MaxPerInterrupt /\ isr' \in 0 .. 2
    BY <1>2, ZeroInBounds DEF BeginInterrupt
  <2>2. irq' \in BOOLEAN
    BY <1>2 DEF BeginInterrupt
  <2> QED
    BY <1>2, <2>1, <2>2, <1>a DEF BeginInterrupt, TypeInv, TypeOK, QueueKnown, FifoKnown
<1>3. CASE ReadFrame
  <2> DEFINE item == Head(fifo[1])
  <2>1. isr = 1
    BY <1>3, <1>a DEF ReadFrame, TypeOK
  <2>2. /\ fifo[1] # <<>> /\ fifo' = [fifo EXCEPT ![1] = Tail(fifo[1])]
        /\ read < MaxPerInterrupt /\ read' = read + 1
        /\ UNCHANGED <<irq, isr, main, arrived>>
    BY <1>3, <2>1 DEF ReadFrame
  <2>3. /\ item \in RxItem /\ item = fifo[1][1] /\ 1 \in 1 .. Len(fifo[1])
        /\ fifo' \in [0 .. 1 -> Seq(RxItem)] /\ fifo'[0] = <<>>
        /\ fifo'[1] = Tail(fifo[1]) /\ Len(fifo'[1]) = Len(fifo[1]) - 1
        /\ \A i \in 1 .. Len(fifo'[1]) : fifo'[1][i] = fifo[1][i + 1]
    BY <2>2, <1>a
  <2>4. Known(item)
    BY <2>3, <1>a DEF FifoKnown
  <2>5. FifoKnown'
    <3> SUFFICES ASSUME NEW i \in 1 .. Len(fifo'[1]) PROVE Known(fifo'[1][i])
      BY DEF FifoKnown, Known
    <3>1. i + 1 \in 1 .. Len(fifo[1])
      BY <2>3, <1>a
    <3> QED
      BY <3>1, <2>3, <1>a DEF FifoKnown
  <2>6. \A f \in 0 .. 1 : Len(fifo'[f]) <= FifoDepth
    <3>1. Len(fifo'[0]) <= FifoDepth
      BY <2>3, Bounds
    <3>2. Len(fifo'[1]) <= FifoDepth
      <4>1. Len(fifo[1]) <= FifoDepth /\ Len(fifo[1]) \in Nat
        BY <1>a DEF TypeOK
      <4> QED
        BY <4>1, <2>3, Bounds
    <3> QED
      BY <3>1, <3>2
  <2>7. read' \in 0 .. MaxPerInterrupt
    BY <2>2, <1>a, Bounds DEF TypeOK
  <2>8. \/ /\ ring.count < Size /\ ring' = Inserted(ring, item)
           /\ shifted' = (shifted \/ Strays(ring, item)) /\ UNCHANGED gone
        \/ gone' = gone \cup {item.n} /\ UNCHANGED <<ring, shifted>>
    BY <1>3, <2>1 DEF ReadFrame
  <2> HIDE DEF item
  <2>9. CASE /\ ring.count < Size /\ ring' = Inserted(ring, item)
             /\ shifted' = (shifted \/ Strays(ring, item)) /\ UNCHANGED gone
    <3>1. item \in Items
      BY <2>3, RxItems
    <3>2. /\ ring' \in Ring /\ ring'.count = ring.count + 1 /\ Agree(ring')
          /\ ring'.head = Placed(ring, item).head /\ ring'.slot = Placed(ring, item).slot
      BY <2>9, <3>1, <1>a, InsertedTyped, InsertedAgrees, PlacedTyped
    <3>3. QueueKnown'
      <4> SUFFICES ASSUME NEW i \in 0 .. ring.count PROVE Known(At(ring', i))
        BY <3>2, <1>b DEF QueueKnown, Known
      <4>1. At(ring', i) = At(Placed(ring, item), i)
        BY <3>2, SameContents
      <4>2. \/ At(Placed(ring, item), i) = item
            \/ \E m \in 0 .. ring.count - 1 : At(Placed(ring, item), i) = At(ring, m)
        BY <2>9, <3>1, <1>a, InsertKeepsItems
      <4> QED
        BY <4>1, <4>2, <2>4, <1>a DEF QueueKnown
    <3>4. shifted' \in BOOLEAN
      BY <2>9, <1>a DEF TypeOK, Strays
    <3>5. TypeOK'
      BY <2>2, <2>3, <2>6, <2>7, <2>9, <3>2, <3>4, <1>a DEF TypeOK
    <3> QED
      BY <2>3, <2>5, <3>2, <3>3, <3>5 DEF TypeInv
  <2>10. CASE gone' = gone \cup {item.n} /\ UNCHANGED <<ring, shifted>>
    <3>1. gone' \subseteq 1 .. MaxArrivals
      BY <2>4, <2>10, <1>a DEF TypeOK, Known
    <3>2. TypeOK'
      BY <2>2, <2>3, <2>6, <2>7, <2>10, <3>1, <1>a DEF TypeOK
    <3> QED
      BY <2>3, <2>5, <2>10, <3>2, <1>a DEF TypeInv, QueueKnown
  <2> QED
    BY <2>8, <2>9, <2>10
<1>4. CASE FifoDone
  <2>1. isr' \in 0 .. 2 /\ read' = 0
    BY <1>4, <1>a DEF FifoDone, TypeOK
  <2> QED
    BY <1>4, <2>1, <1>a, ZeroInBounds DEF FifoDone, TypeInv, TypeOK, QueueKnown, FifoKnown
<1>5. CASE BeginTick
  BY <1>5, <1>a DEF BeginTick, TypeInv, TypeOK, QueueKnown, FifoKnown
<1>6. CASE HandleNext
  <2>1. /\ ring.count > 0 /\ ring' = Dequeued(ring) /\ gone' = gone \cup {Taken(ring).n}
        /\ last' = [last EXCEPT ![Taken(ring).prio] = Taken(ring).n]
        /\ processed < MaxPerTick /\ processed' = processed + 1
        /\ UNCHANGED <<fifo, interrupt, pc, arrived, shifted>>
    BY <1>6 DEF HandleNext
  <2>2. ring' \in Ring /\ Agree(ring') /\ ring'.count = ring.count - 1
    BY <2>1, <1>a, DequeuedTyped, DequeuedAgrees
  <2>3. /\ Known(Taken(ring))
        /\ \A i \in 0 .. ring.count - 2 :
             \E m \in 0 .. ring.count - 1 : At(ring', i) = At(ring, m)
    <3>1. Best(ring) \in 0 .. ring.count - 1 /\ Taken(ring) = At(ring, Best(ring))
      BY <2>1, <1>a, RemoveCloses
    <3>2. \A i \in 0 .. ring.count - 2 :
            /\ Closed(Best(ring), i) \in 0 .. ring.count - 1
            /\ At(Dequeued(ring), i) = At(ring, Closed(Best(ring), i))
      BY <2>1, <1>a, RemoveCloses
    <3>3. Known(Taken(ring))
      BY <3>1, <1>a DEF QueueKnown
    <3> QED
      BY <3>2, <3>3, <2>1
  <2>4. QueueKnown'
    <3>1. ring'.count - 1 = ring.count - 2
      BY <2>2, <1>b
    <3>2. ASSUME NEW i \in 0 .. ring.count - 2 PROVE Known(At(ring', i))
      BY <2>3, <1>a DEF QueueKnown
    <3> QED
      BY <3>1, <3>2 DEF QueueKnown, Known
  <2>5. processed' \in 0 .. MaxPerTick
    BY <2>1, <1>a, Bounds DEF TypeOK
  <2>6. gone' \subseteq 1 .. MaxArrivals /\ last' \in [Classes -> 0 .. MaxArrivals]
    <3>1. Taken(ring).n \in 1 .. MaxArrivals /\ Taken(ring).n \in 0 .. MaxArrivals
      BY <2>3, Bounds DEF Known
    <3> QED
      BY <2>1, <3>1, <1>a DEF TypeOK
  <2>7. TypeOK'
    BY <2>1, <2>2, <2>5, <2>6, <1>a DEF TypeOK
  <2> QED
    BY <2>1, <2>2, <2>4, <2>7, <1>a DEF TypeInv, FifoKnown
<1>7. CASE LoopEnds
  BY <1>7, <1>a, ZeroInBounds DEF LoopEnds, TypeInv, TypeOK, QueueKnown, FifoKnown
<1> QED
  BY <1>0, <1>1, <1>2, <1>3, <1>4, <1>5, <1>6, <1>7 DEF Next, Interrupt, MainLoop

-----------------------------------------------------------------------------
(* Order.  The frames of FIFO 1 are the latest, one after the other; until *)
(* an insertion shifts past slot 0, those read from it are in the queue    *)
(* once or gone, and the queue has those of a class in order, after the    *)
(* latest handled.                                                         *)
FramesRead == arrived - Len(fifo[1])
Consecutive == \A i \in 1 .. Len(fifo[1]) : fifo[1][i].n = FramesRead + i
InOrder(r, len) ==
  \A i, j \in 0 .. len - 1 :
    i < j /\ At(r, i).prio = At(r, j).prio => At(r, i).n < At(r, j).n
InOnePlace ==
  /\ Sorted(ring, ring.count) /\ Distinct(ring, ring.count) /\ InOrder(ring, ring.count)
  /\ Numbers(ring, ring.count) \cup gone = 1 .. FramesRead
  /\ Numbers(ring, ring.count) \cap gone = {}
  /\ \A c \in Classes : last[c] \in gone \cup {0}
  /\ \A i \in 0 .. ring.count - 1 : last[At(ring, i).prio] < At(ring, i).n
OrderInv == Consecutive /\ (~shifted => InOnePlace)

LEMMA InsertKeepsInOrder ==
  ASSUME NEW r \in Ring, NEW item \in RxItem, r.count < Size, Agree(r), ~Strays(r, item),
         Sorted(r, r.count), InOrder(r, r.count),
         \A n \in Numbers(r, r.count) : n < item.n
  PROVE  InOrder(Placed(r, item), r.count + 1)
<1> DEFINE k == Place(r, item)
           s == Placed(r, item)
           c == r.count
<1>1. c \in Nat /\ (c + 1) - 1 = c /\ item \in Items
  BY SizeIsNat, RxItems DEF Ring
<1>2. /\ k \in 0 .. c /\ At(s, k) = item
      /\ \A i \in k .. c - 1 : item.prio < At(r, i).prio
      /\ \A i \in 0 .. c : i # k =>
           Moved(k, i) \in 0 .. c - 1 /\ At(s, i) = At(r, Moved(k, i))
      /\ \A i \in 0 .. c : k < i => Moved(k, i) \in k .. c - 1
      /\ \A i, j \in 0 .. c : i < j /\ i # k /\ j # k => Moved(k, i) < Moved(k, j)
  BY <1>1, InsertMoves
<1>3. \A i \in 0 .. c - 1 : At(r, i).n < item.n
  BY DEF Numbers
<1>4. InOrder(r, c) /\ item.prio \in Int
  BY RxItems
<1> HIDE DEF k, s, c
<1> SUFFICES ASSUME NEW i \in 0 .. c, NEW j \in 0 .. c, i < j, At(s, i).prio = At(s, j).prio
             PROVE  At(s, i).n < At(s, j).n
  BY <1>1 DEF InOrder, s, c
<1>5. CASE j = k
  BY <1>1, <1>2, <1>3, <1>5
<1>6. CASE i = k
  <2>1. Moved(k, j) \in k .. c - 1 /\ At(s, j) = At(r, Moved(k, j))
    BY <1>1, <1>2, <1>6
  <2> QED
    BY <2>1, <1>2, <1>4, <1>6
<1>7. CASE i # k /\ j # k
  BY <1>2, <1>4, <1>7 DEF InOrder
<1> QED
  BY <1>5, <1>6, <1>7

LEMMA OrderInit == Init => OrderInv
<1> SUFFICES ASSUME Init PROVE OrderInv
  OBVIOUS
<1>1. ring.count = 0 /\ gone = {} /\ arrived = 0 /\ Len(fifo[1]) = 0
  BY EmptyTyped DEF Init
<1>2. FramesRead = 0
  BY <1>1 DEF FramesRead
<1>3. Consecutive
  BY <1>1 DEF Consecutive
<1>4. /\ Sorted(ring, 0) /\ Distinct(ring, 0) /\ InOrder(ring, 0) /\ Numbers(ring, 0) = {}
  BY DEF Sorted, Distinct, InOrder, Numbers
<1>5. \A c \in Classes : last[c] = 0
  BY DEF Init
<1>6. 1 .. 0 = {} /\ 0 .. 0 - 1 = {}
  OBVIOUS
<1>7. InOnePlace
  BY <1>1, <1>2, <1>4, <1>5, <1>6 DEF InOnePlace
<1> QED
  BY <1>3, <1>7 DEF OrderInv

(* A step that leaves the queue, the FIFO and what is gone.                *)
LEMMA OrderKept ==
  OrderInv /\ UNCHANGED <<ring, fifo, arrived, gone, last, shifted>> => OrderInv'
BY DEF OrderInv, Consecutive, FramesRead, InOnePlace

LEMMA OrderStep == TypeInv /\ OrderInv /\ [Next]_vars => OrderInv'
<1> SUFFICES ASSUME TypeInv, OrderInv, [Next]_vars PROVE OrderInv'
  OBVIOUS
<1> USE DEF interrupt, main
<1>a. /\ TypeOK /\ Agree(ring) /\ fifo[0] = <<>> /\ QueueKnown /\ FifoKnown
      /\ ring \in Ring /\ fifo \in [0 .. 1 -> Seq(RxItem)] /\ fifo[1] \in Seq(RxItem)
      /\ arrived \in Nat /\ Len(fifo[1]) \in Nat /\ last \in [Classes -> 0 .. MaxArrivals]
  BY Bounds DEF TypeInv, TypeOK
<1>b. ring.count \in Nat /\ ring.count <= Size
  BY <1>a, SizeIsNat DEF Ring
<1>c. FramesRead \in Nat
  <2>1. CASE Len(fifo[1]) = 0
    BY <2>1, <1>a DEF FramesRead
  <2>2. CASE Len(fifo[1]) # 0
    <3>1. 1 \in 1 .. Len(fifo[1])
      BY <2>2, <1>a
    <3>2. fifo[1][1].n = FramesRead + 1 /\ fifo[1][1].n \in 1 .. MaxArrivals
      BY <3>1, <1>a DEF OrderInv, Consecutive, FifoKnown, Known
    <3> QED
      BY <3>2, <1>a, Bounds DEF FramesRead
  <2> QED
    BY <2>1, <2>2
<1>0. CASE UNCHANGED vars
  BY <1>0, OrderKept DEF vars
<1>1. ASSUME NEW c \in Classes, FrameArrives(c) PROVE OrderInv'
  <2> DEFINE item == [n |-> arrived + 1, prio |-> c]
  <2>1. /\ arrived < MaxArrivals /\ arrived' = arrived + 1
        /\ fifo' = [fifo EXCEPT ![1] = Append(fifo[1], item)]
        /\ UNCHANGED <<ring, gone, last, shifted>>
    BY <1>1, OneFifo DEF FrameArrives
  <2>2. item \in RxItem /\ item.n = arrived + 1
    BY <2>1, <1>a, Bounds, ClassesAssumption DEF RxItem
  <2> HIDE DEF item
  <2>3. fifo'[1] = Append(fifo[1], item) /\ Len(fifo'[1]) = Len(fifo[1]) + 1
    BY <2>1, <2>2, <1>a
  <2>4. FramesRead' = FramesRead
    BY <2>1, <2>3, <1>a DEF FramesRead
  <2>5. Consecutive'
    <3> SUFFICES ASSUME NEW i \in 1 .. Len(fifo'[1]) PROVE fifo'[1][i].n = FramesRead + i
      BY <2>4 DEF Consecutive
    <3>1. CASE i <= Len(fifo[1])
      BY <3>1, <2>2, <2>3, <1>a DEF OrderInv, Consecutive
    <3>2. CASE i > Len(fifo[1])
      <4>1. i = Len(fifo[1]) + 1 /\ fifo'[1][i] = item
        BY <3>2, <2>2, <2>3, <1>a
      <4> QED
        BY <4>1, <2>2, <1>a DEF FramesRead
    <3> QED
      BY <3>1, <3>2, <1>a
  <2> QED
    BY <2>1, <2>4, <2>5 DEF OrderInv, InOnePlace
<1>2. CASE BeginInterrupt \/ FifoDone \/ BeginTick \/ LoopEnds
  BY <1>2, OrderKept DEF BeginInterrupt, FifoDone, BeginTick, LoopEnds
<1>3. CASE ReadFrame
  <2> DEFINE item == Head(fifo[1])
  <2>1. isr = 1
    BY <1>3, <1>a DEF ReadFrame, TypeOK
  <2>2. /\ fifo[1] # <<>> /\ fifo' = [fifo EXCEPT ![1] = Tail(fifo[1])]
        /\ UNCHANGED <<arrived, last>>
    BY <1>3, <2>1 DEF ReadFrame
  <2>3. /\ item \in RxItem /\ item = fifo[1][1] /\ 1 \in 1 .. Len(fifo[1])
        /\ fifo'[1] = Tail(fifo[1]) /\ Len(fifo'[1]) = Len(fifo[1]) - 1
        /\ \A i \in 1 .. Len(fifo'[1]) : fifo'[1][i] = fifo[1][i + 1]
    BY <2>2, <1>a
  <2>4. FramesRead' = FramesRead + 1
    BY <2>2, <2>3, <1>a DEF FramesRead
  <2>5. Consecutive'
    <3> SUFFICES ASSUME NEW i \in 1 .. Len(fifo'[1])
                 PROVE  fifo'[1][i].n = FramesRead + 1 + i
      BY <2>4 DEF Consecutive
    <3>1. i + 1 \in 1 .. Len(fifo[1]) /\ FramesRead + (i + 1) = FramesRead + 1 + i
      BY <2>3, <1>a, <1>c
    <3> QED
      BY <3>1, <2>3 DEF OrderInv, Consecutive
  <2>6. item.n = FramesRead + 1 /\ item.prio \in Classes
    BY <2>3, <1>a DEF OrderInv, Consecutive, FifoKnown, Known
  <2>7. \/ /\ ring.count < Size /\ ring' = Inserted(ring, item)
           /\ shifted' = (shifted \/ Strays(ring, item)) /\ UNCHANGED gone
        \/ gone' = gone \cup {item.n} /\ UNCHANGED <<ring, shifted>>
    BY <1>3, <2>1 DEF ReadFrame
  <2> HIDE DEF item
  <2> SUFFICES ASSUME ~shifted' PROVE InOnePlace'
    BY <2>5 DEF OrderInv
  <2>8. ~shifted
    BY <2>7
  <2>9. /\ Sorted(ring, ring.count) /\ Distinct(ring, ring.count)
        /\ InOrder(ring, ring.count)
        /\ Numbers(ring, ring.count) \cup gone = 1 .. FramesRead
        /\ Numbers(ring, ring.count) \cap gone = {}
        /\ \A c \in Classes : last[c] \in gone \cup {0}
        /\ \A i \in 0 .. ring.count - 1 : last[At(ring, i).prio] < At(ring, i).n
    BY <2>8 DEF OrderInv, InOnePlace
  <2>10. 1 .. FramesRead \cup {FramesRead + 1} = 1 .. FramesRead + 1
    BY <1>c
  <2>11. item.n \notin Numbers(ring, ring.count) \cup gone
    BY <2>6, <2>9, <1>c
  <2>12. CASE /\ ring.count < Size /\ ring' = Inserted(ring, item)
              /\ shifted' = (shifted \/ Strays(ring, item)) /\ UNCHANGED gone
    <3>1. item \in Items /\ ~Strays(ring, item)
      BY <2>3, <2>12, RxItems
    <3>2. \A n \in Numbers(ring, ring.count) : n < item.n
      BY <2>6, <2>9, <1>c
    <3>3. /\ Sorted(Placed(ring, item), ring.count + 1)
          /\ Distinct(Placed(ring, item), ring.count + 1)
          /\ Numbers(Placed(ring, item), ring.count + 1)
               = Numbers(ring, ring.count) \cup {item.n}
      BY <2>9, <2>11, <2>12, <3>1, <1>a, InsertKeepsSorted
    <3>4. InOrder(Placed(ring, item), ring.count + 1)
      BY <2>3, <2>9, <2>12, <3>1, <3>2, <1>a, InsertKeepsInOrder
    <3>5. /\ ring'.count = ring.count + 1
          /\ ring'.head = Placed(ring, item).head /\ ring'.slot = Placed(ring, item).slot
      BY <2>12, <3>1, <1>a, InsertedTyped, PlacedTyped
    <3>6. /\ \A len : /\ Sorted(ring', len) <=> Sorted(Placed(ring, item), len)
                      /\ Distinct(ring', len) <=> Distinct(Placed(ring, item), len)
                      /\ Numbers(ring', len) = Numbers(Placed(ring, item), len)
          /\ \A i : At(ring', i) = At(Placed(ring, item), i)
      BY <3>5, SameContents
    <3>7. InOrder(ring', ring.count + 1)
      BY <3>4, <3>6 DEF InOrder
    <3>8. ASSUME NEW i \in 0 .. ring.count
          PROVE  last[At(ring', i).prio] < At(ring', i).n
      <4>1. \/ At(ring', i) = item
            \/ \E m \in 0 .. ring.count - 1 : At(ring', i) = At(ring, m)
        BY <2>12, <3>1, <3>6, <1>a, InsertKeepsItems
      <4>2. last[item.prio] < item.n
        BY <2>6, <2>9, <1>c
      <4> QED
        BY <4>1, <4>2, <2>9
    <3>9. (ring.count + 1) - 1 = ring.count
      BY <1>b
    <3> QED
      BY <2>2, <2>4, <2>6, <2>9, <2>10, <2>11, <2>12, <3>3, <3>5, <3>6, <3>7, <3>8, <3>9
      DEF InOnePlace
  <2>13. CASE gone' = gone \cup {item.n} /\ UNCHANGED <<ring, shifted>>
    BY <2>2, <2>4, <2>6, <2>9, <2>10, <2>11, <2>13 DEF InOnePlace
  <2> QED
    BY <2>7, <2>12, <2>13
<1>4. CASE HandleNext
  <2> DEFINE item == Taken(ring)
  <2>1. /\ ring.count > 0 /\ ring' = Dequeued(ring) /\ gone' = gone \cup {item.n}
        /\ last' = [last EXCEPT ![item.prio] = item.n]
        /\ UNCHANGED <<fifo, arrived, shifted>>
    BY <1>4 DEF HandleNext
  <2>2. FramesRead' = FramesRead /\ Consecutive'
    BY <2>1 DEF OrderInv, Consecutive, FramesRead
  <2> SUFFICES ASSUME ~shifted PROVE InOnePlace'
    BY <2>1, <2>2 DEF OrderInv
  <2>3. /\ Sorted(ring, ring.count) /\ Distinct(ring, ring.count)
        /\ InOrder(ring, ring.count)
        /\ Numbers(ring, ring.count) \cup gone = 1 .. FramesRead
        /\ Numbers(ring, ring.count) \cap gone = {}
        /\ \A c \in Classes : last[c] \in gone \cup {0}
        /\ \A i \in 0 .. ring.count - 1 : last[At(ring, i).prio] < At(ring, i).n
    BY DEF OrderInv, InOnePlace
  <2>4. /\ Sorted(ring', ring.count - 1) /\ Distinct(ring', ring.count - 1)
        /\ Numbers(ring, ring.count) = Numbers(ring', ring.count - 1) \cup {item.n}
        /\ item.n \notin Numbers(ring', ring.count - 1)
    BY <2>1, <2>3, <1>a, RemoveKeepsSorted
  <2>5. ring'.count = ring.count - 1
    BY <2>1, <1>a, DequeuedTyped
  <2>6. Best(ring) = 0
    BY <2>1, <2>3, <1>a, HeadIsBest
  <2>7. /\ item = At(ring, 0)
        /\ \A i \in 0 .. ring.count - 2 : /\ i + 1 \in 0 .. ring.count - 1 /\ 0 < i + 1
                                          /\ At(ring', i) = At(ring, i + 1)
    BY <2>1, <2>6, <1>a, <1>b, RemoveCloses DEF Closed
  <2> HIDE DEF item
  <2>8. 0 \in 0 .. ring.count - 1 /\ (ring.count - 1) - 1 = ring.count - 2
    BY <2>1, <1>b
  <2>9. InOrder(ring', ring.count - 1)
    <3>1. ASSUME NEW i \in 0 .. ring.count - 2, NEW j \in 0 .. ring.count - 2, i < j
          PROVE  i + 1 < j + 1
      BY <3>1, <1>b
    <3> QED
      BY <3>1, <2>3, <2>7, <2>8 DEF InOrder
  <2>10. item.prio \in Classes /\ item.n \in 1 .. MaxArrivals
    BY <2>7, <2>8, <1>a DEF QueueKnown, Known
  <2>11. \A c \in Classes : last'[c] \in gone' \cup {0}
    BY <2>1, <2>3, <1>a
  <2>12. ASSUME NEW i \in 0 .. ring.count - 2
         PROVE  last'[At(ring', i).prio] < At(ring', i).n
    <3>1. At(ring', i) = At(ring, i + 1) /\ i + 1 \in 0 .. ring.count - 1 /\ 0 < i + 1
      BY <2>7
    <3>2. At(ring, i + 1).prio \in Classes
      BY <3>1, <1>a DEF QueueKnown, Known
    <3>3. CASE At(ring, i + 1).prio = item.prio
      <4>1. item.n < At(ring, i + 1).n
        BY <2>3, <2>7, <2>8, <3>1, <3>3 DEF InOrder
      <4> QED
        BY <4>1, <2>1, <2>10, <3>1, <3>3, <1>a
    <3>4. CASE At(ring, i + 1).prio # item.prio
      <4>1. last[At(ring, i + 1).prio] < At(ring, i + 1).n
        BY <2>3, <3>1
      <4>2. last'[At(ring, i + 1).prio] = last[At(ring, i + 1).prio]
        BY <2>1, <3>2, <3>4, <1>a
      <4> QED
        BY <4>1, <4>2, <3>1
    <3> QED
      BY <3>3, <3>4
  <2> QED
    BY <2>1, <2>2, <2>3, <2>4, <2>5, <2>8, <2>9, <2>11, <2>12 DEF InOnePlace
<1> QED
  BY <1>0, <1>1, <1>2, <1>3, <1>4 DEF Next, Interrupt, MainLoop

-----------------------------------------------------------------------------
(* The properties, from the invariants.                                    *)
LEMMA Concatenated ==
  ASSUME NEW s \in Seq(RxItem), NEW t \in Seq(RxItem)
  PROVE  /\ Len(s \o t) = Len(s) + Len(t)
         /\ \A i \in 1 .. Len(s \o t) :
              (s \o t)[i] = IF i <= Len(s) THEN s[i] ELSE t[i - Len(s)]
OBVIOUS

LEMMA PendingItems ==
  ASSUME TypeInv
  PROVE  /\ Len(Pending) = ring.count + Len(fifo[1]) /\ ring.count \in Nat
         /\ Len(fifo[1]) \in Nat
         /\ \A i \in 1 .. Len(Pending) :
              Pending[i] = IF i <= ring.count THEN At(ring, i - 1)
                           ELSE fifo[1][i - ring.count]
<1>1. /\ ring \in Ring /\ fifo[0] = <<>> /\ fifo[1] \in Seq(RxItem)
  BY DEF TypeInv, TypeOK
<1>2. ring.count \in Nat /\ ring.count <= Size
  BY <1>1, SizeIsNat DEF Ring
<1>3. Frames = fifo[1]
  BY <1>1 DEF Frames
<1>4. \A i \in 1 .. ring.count : At(ring, i - 1) \in RxItem
  <2>1. ASSUME NEW i \in 1 .. ring.count PROVE i - 1 \in 0 .. Size
    BY <1>2, SizeIsNat
  <2> QED
    BY <2>1, <1>1, AtTyped, RxItems
<1>5. /\ Contents(ring, ring.count) \in Seq(RxItem)
      /\ Len(Contents(ring, ring.count)) = ring.count
      /\ \A i \in 1 .. ring.count : Contents(ring, ring.count)[i] = At(ring, i - 1)
  BY <1>2, <1>4 DEF Contents
<1> DEFINE s == Contents(ring, ring.count)
           t == fifo[1]
<1>6. /\ s \in Seq(RxItem) /\ t \in Seq(RxItem) /\ Pending = s \o t
      /\ Len(s) = ring.count
  BY <1>1, <1>3, <1>5 DEF Pending
<1>7. /\ Len(s \o t) = Len(s) + Len(t)
      /\ \A i \in 1 .. Len(s \o t) :
           (s \o t)[i] = IF i <= Len(s) THEN s[i] ELSE t[i - Len(s)]
  BY <1>6, Concatenated
<1>8. \A i \in 1 .. ring.count : s[i] = At(ring, i - 1)
  BY <1>5
<1> HIDE DEF s
<1> QED
  BY <1>2, <1>6, <1>7, <1>8

LEMMA PendingIsOrdered ==
  ASSUME TypeInv, OrderInv, ~shifted, NEW i \in 1 .. Len(Pending)
  PROVE  /\ Pending[i].n > last[Pending[i].prio]
         /\ \A j \in 1 .. i - 1 : Pending[j].prio = Pending[i].prio => Pending[j].n < Pending[i].n
         /\ \A j \in 1 .. i - 1 : Pending[j].n # Pending[i].n
         /\ i <= ring.count => Pending[i].n \in Numbers(ring, ring.count)
         /\ i > ring.count => Pending[i].n = FramesRead + (i - ring.count)
<1> DEFINE c == ring.count
<1>1. /\ c \in Nat /\ Len(fifo[1]) \in Nat /\ Len(Pending) = c + Len(fifo[1])
      /\ \A j \in 1 .. Len(Pending) :
           Pending[j] = IF j <= c THEN At(ring, j - 1) ELSE fifo[1][j - c]
  BY PendingItems
<1>2. /\ Sorted(ring, c) /\ Distinct(ring, c) /\ InOrder(ring, c)
      /\ Numbers(ring, c) \cup gone = 1 .. FramesRead
      /\ \A k \in Classes : last[k] \in gone \cup {0}
      /\ \A j \in 0 .. c - 1 : last[At(ring, j).prio] < At(ring, j).n
  BY DEF OrderInv, InOnePlace
<1>3. FramesRead \in Int
  BY Bounds DEF FramesRead, TypeInv, TypeOK
<1> HIDE DEF c
<1>4. CASE i <= c
  <2>1. i - 1 \in 0 .. c - 1 /\ Pending[i] = At(ring, i - 1)
    BY <1>1, <1>4
  <2>2. ASSUME NEW j \in 1 .. i - 1
        PROVE  j - 1 \in 0 .. c - 1 /\ j - 1 < i - 1 /\ Pending[j] = At(ring, j - 1)
    BY <1>1, <1>4
  <2>3. Pending[i].n \in Numbers(ring, c)
    BY <2>1 DEF Numbers
  <2>4. Pending[i].n > last[Pending[i].prio]
    <3>1. At(ring, i - 1).n \in Int /\ last[At(ring, i - 1).prio] < At(ring, i - 1).n
      BY <2>1, <2>3, <1>2, <1>3
    <3> QED
      BY <3>1, <2>1
  <2> QED
    BY <2>1, <2>2, <2>3, <2>4, <1>1, <1>2, <1>4 DEF InOrder, Distinct, c
<1>5. CASE i > c
  <2>1. i - c \in 1 .. Len(fifo[1]) /\ Pending[i] = fifo[1][i - c]
    BY <1>1, <1>5
  <2>2. Pending[i].n = FramesRead + (i - c) /\ Pending[i].prio \in Classes
    BY <2>1 DEF OrderInv, Consecutive, TypeInv, FifoKnown, Known
  <2>3. Pending[i].n > last[Pending[i].prio]
    <3>1. last[Pending[i].prio] \in 1 .. FramesRead \cup {0}
      BY <2>2, <1>2
    <3>2. Pending[i].n \in 1 .. MaxArrivals
      BY <2>1 DEF TypeInv, FifoKnown, Known
    <3> QED
      BY <2>1, <2>2, <3>1, <3>2, <1>3, Bounds
  <2>4. ASSUME NEW j \in 1 .. i - 1
        PROVE  Pending[j].n < Pending[i].n
    <3>1. CASE j <= c
      <4>1. Pending[j] = At(ring, j - 1) /\ j - 1 \in 0 .. c - 1
        BY <3>1, <1>1, <1>5
      <4>2. Pending[j].n \in 1 .. FramesRead
        BY <4>1, <1>2 DEF Numbers
      <4> QED
        BY <4>2, <2>1, <2>2, <1>3
    <3>2. CASE j > c
      <4>1. /\ Pending[j] = fifo[1][j - c] /\ j - c \in 1 .. Len(fifo[1])
            /\ j - c < i - c /\ i - c \in Int
        BY <3>2, <1>1, <1>5
      <4>2. Pending[j].n = FramesRead + (j - c)
        BY <4>1 DEF OrderInv, Consecutive
      <4> QED
        BY <4>1, <4>2, <2>2, <1>3
    <3> QED
      BY <3>1, <3>2, <1>1
  <2>5. \A j \in 1 .. i - 1 : Pending[j].n # Pending[i].n
    BY <2>2, <2>4, <1>1, <1>3
  <2> QED
    BY <2>2, <2>3, <2>4, <2>5, <1>1, <1>5 DEF c
<1> QED
  BY <1>1, <1>4, <1>5

LEMMA InOnePlaceCounts == TypeInv /\ OrderInv => FramesAccountedFor
<1> SUFFICES ASSUME TypeInv, OrderInv, ~shifted
             PROVE  LET waiting == {Pending[i].n : i \in 1 .. Len(Pending)}
                    IN  /\ Cardinality(waiting) = Len(Pending)
                        /\ waiting \cup gone = 1 .. arrived
                        /\ waiting \cap gone = {}
  BY DEF FramesAccountedFor
<1> DEFINE waiting == {Pending[i].n : i \in 1 .. Len(Pending)}
           f == [i \in 1 .. Len(Pending) |-> Pending[i].n]
           c == ring.count
           len == Len(fifo[1])
<1>1. /\ c \in Nat /\ len \in Nat /\ Len(Pending) = c + len
      /\ \A j \in 1 .. Len(Pending) :
           Pending[j] = IF j <= c THEN At(ring, j - 1) ELSE fifo[1][j - c]
  BY PendingItems
<1>2. \A i \in 1 .. Len(Pending) :
        /\ \A j \in 1 .. i - 1 : Pending[j].n # Pending[i].n
        /\ i <= c => Pending[i].n \in Numbers(ring, c)
        /\ i > c => Pending[i].n = FramesRead + (i - c)
  BY PendingIsOrdered
<1>3. /\ Numbers(ring, c) \cup gone = 1 .. FramesRead /\ Numbers(ring, c) \cap gone = {}
  BY DEF OrderInv, InOnePlace
<1>4. arrived = FramesRead + len /\ FramesRead \in Int
  BY <1>1, Bounds DEF FramesRead, TypeInv, TypeOK
<1>5. FramesRead >= 0
  <2>1. CASE len = 0
    BY <2>1, <1>4, Bounds DEF TypeInv, TypeOK
  <2>2. CASE len # 0
    <3>1. 1 \in 1 .. len
      BY <2>2, <1>1
    <3>2. fifo[1][1].n = FramesRead + 1 /\ fifo[1][1].n \in 1 .. MaxArrivals
      BY <3>1 DEF OrderInv, Consecutive, TypeInv, FifoKnown, Known
    <3> QED
      BY <3>2, <1>4, Bounds
  <2> QED
    BY <2>1, <2>2
<1>6. Cardinality(waiting) = Len(Pending)
  <2>1. f \in [1 .. Len(Pending) -> waiting]
    OBVIOUS
  <2>2. ASSUME NEW i \in 1 .. Len(Pending), NEW j \in 1 .. Len(Pending), i # j
        PROVE  f[i] # f[j]
    <3>1. i \in 1 .. j - 1 \/ j \in 1 .. i - 1
      BY <2>2, <1>1
    <3> QED
      BY <3>1, <1>2
  <2>3. f \in Injection(1 .. Len(Pending), waiting)
    BY <2>1, <2>2 DEF Injection, IsInjective
  <2>4. f \in Surjection(1 .. Len(Pending), waiting)
    BY <2>1 DEF Surjection
  <2>5. ExistsBijection(1 .. Len(Pending), waiting)
    BY <2>3, <2>4 DEF ExistsBijection, Bijection
  <2>6. Len(Pending) \in Nat
    BY <1>1
  <2> QED
    BY <2>5, <2>6, FS_CountingElements
<1> HIDE DEF c, len
<1>7. waiting = Numbers(ring, c) \cup FramesRead + 1 .. arrived
  <2>1. ASSUME NEW i \in 1 .. Len(Pending)
        PROVE  Pending[i].n \in Numbers(ring, c) \cup FramesRead + 1 .. arrived
    BY <1>1, <1>2, <1>4
  <2>2. ASSUME NEW m \in 0 .. c - 1
        PROVE  \E i \in 1 .. Len(Pending) : Pending[i].n = At(ring, m).n
    <3>1. m + 1 \in 1 .. Len(Pending) /\ m + 1 <= c /\ (m + 1) - 1 = m
      BY <1>1
    <3>2. Pending[m + 1] = At(ring, m)
      BY <3>1, <1>1
    <3> QED
      BY <3>1, <3>2
  <2>3. ASSUME NEW n \in FramesRead + 1 .. arrived
        PROVE  \E i \in 1 .. Len(Pending) : Pending[i].n = n
    <3> DEFINE i == c + (n - FramesRead)
    <3>1. i \in 1 .. Len(Pending) /\ i > c /\ FramesRead + (i - c) = n
      BY <1>1, <1>4
    <3> QED
      BY <3>1, <1>2
  <2> QED
    BY <2>1, <2>2, <2>3 DEF Numbers
<1>8. /\ 1 .. FramesRead \cup FramesRead + 1 .. arrived = 1 .. arrived
      /\ 1 .. FramesRead \cap FramesRead + 1 .. arrived = {}
  BY <1>1, <1>4, <1>5
<1> QED
  BY <1>3, <1>6, <1>7, <1>8

\* Every variable keeps its type, the queue and the FIFOs their bounds.
THEOREM ReceiverStaysTyped == Spec => []TypeOK
<1>1. TypeInv => TypeOK
  BY DEF TypeInv
<1> QED
  BY <1>1, TypeInit, TypeStep, PTL DEF Spec

\* The invariants of the contents and of their order.
THEOREM ReceiverInvariant == Spec => [](TypeInv /\ OrderInv)
BY TypeInit, TypeStep, OrderInit, OrderStep, PTL DEF Spec

\* No frame the hardware has accepted is lost or doubled on its way through
\* FIFO, interrupt and queue, until an insertion shifts past slot 0.
THEOREM NoFrameIsLost == Spec => []FramesAccountedFor
BY InOnePlaceCounts, ReceiverInvariant, PTL

\* Until then messages of a class are handled in the order of their arrival.
THEOREM FramesKeepTheirOrder == Spec => []HandledInOrder
<1>1. TypeInv /\ OrderInv => HandledInOrder
  BY PendingIsOrdered DEF HandledInOrder
<1> QED
  BY <1>1, ReceiverInvariant, PTL
=============================================================================
