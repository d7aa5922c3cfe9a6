-------------------------- MODULE CanMessenger_proofs --------------------------
(***************************************************************************)
(* Theorems about CanMessenger, for every size of the queue, every number  *)
(* of messages and every choice of the driver's bounds.                    *)
(***************************************************************************)
EXTENDS CanMessenger, PriorityRing_proofs, FiniteSetTheorems

-----------------------------------------------------------------------------
(* The messages of the queue that were not put back are in the order in     *)
(* which they were enqueued, with the priority of their class.              *)
FreshInOrder(r, len) ==
  /\ \A i \in 0 .. len - 1 : ~At(r, i).retried => At(r, i).prio = At(r, i).cls
  /\ \A i, j \in 0 .. len - 1 :
       /\ i < j /\ At(r, i).cls = At(r, j).cls
       /\ ~At(r, i).retried /\ ~At(r, j).retried
       => At(r, i).n < At(r, j).n
Sound(r, len) == Sorted(r, len) /\ Distinct(r, len) /\ FreshInOrder(r, len)

LEMMA ItemTyped ==
  ASSUME NEW item \in Items
  PROVE  /\ item \in TxItem /\ item.prio \in Int /\ item.n \in Int /\ item.cls \in Int
BY ItemsAssumption DEF TxItem, Urgencies

LEMMA InsertKeepsSound ==
  ASSUME NEW r \in Ring, NEW item \in TxItem, r.count < Size, Agree(r), ~Strays(r, item),
         Sound(r, r.count), item.n \notin Numbers(r, r.count),
         item.retried \/ (item.prio = item.cls /\ \A n \in Numbers(r, r.count) : n < item.n)
  PROVE  /\ Sound(Placed(r, item), r.count + 1)
         /\ Numbers(Placed(r, item), r.count + 1) = Numbers(r, r.count) \cup {item.n}
<1> DEFINE k == Place(r, item)
           s == Placed(r, item)
           c == r.count
<1>1. c \in Nat /\ c < Size /\ Size \in Nat /\ (c + 1) - 1 = c /\ item \in Items
  BY SizeIsNat, ItemsAssumption DEF Ring
<1>2. Sorted(r, c) /\ Distinct(r, c) /\ FreshInOrder(r, c)
  BY DEF Sound
<1>3. /\ k \in 0 .. c /\ At(s, k) = item
      /\ \A i \in k .. c - 1 : item.prio < At(r, i).prio
      /\ \A i \in 0 .. c : i # k =>
           Moved(k, i) \in 0 .. c - 1 /\ At(s, i) = At(r, Moved(k, i))
      /\ \A i \in 0 .. c : k < i => Moved(k, i) \in k .. c - 1
      /\ \A i, j \in 0 .. c : i < j /\ i # k /\ j # k => Moved(k, i) < Moved(k, j)
  BY <1>1, <1>2, InsertMoves
<1>4. \A i \in 0 .. c - 1 : /\ At(r, i).prio \in Int /\ At(r, i).n \in Numbers(r, c)
                           /\ At(r, i).cls \in Int
  <2>1. \A i \in 0 .. c - 1 : i \in 0 .. Size
    BY <1>1
  <2> QED
    BY <2>1, AtTyped, ItemTyped DEF Numbers
<1>5. item.prio \in Int /\ item.cls \in Int
  BY <1>1, ItemTyped
<1>6. item.retried \/ (item.prio = item.cls /\ \A n \in Numbers(r, c) : n < item.n)
  OBVIOUS
<1>7. /\ Sorted(s, c + 1) /\ Distinct(s, c + 1)
      /\ Numbers(s, c + 1) = Numbers(r, c) \cup {item.n}
  BY <1>1, <1>2, InsertKeepsSorted
<1> HIDE DEF k, s, c
<1>8. FreshInOrder(s, c + 1)
  <2>1. ASSUME NEW i \in 0 .. c, ~At(s, i).retried
        PROVE  At(s, i).prio = At(s, i).cls
    <3>1. CASE i = k
      BY <2>1, <3>1, <1>3, <1>6
    <3>2. CASE i # k
      BY <2>1, <3>2, <1>2, <1>3 DEF FreshInOrder
    <3> QED
      BY <3>1, <3>2
  <2>2. ASSUME NEW i \in 0 .. c, NEW j \in 0 .. c, i < j, At(s, i).cls = At(s, j).cls,
               ~At(s, i).retried, ~At(s, j).retried
        PROVE  At(s, i).n < At(s, j).n
    <3>1. CASE j = k
      <4>1. i # k
        BY <2>2, <3>1, <1>1, <1>3
      <4>2. At(s, i).n \in Numbers(r, c)
        BY <4>1, <1>3, <1>4
      <4> QED
        BY <2>2, <3>1, <4>2, <1>3, <1>6
    <3>2. CASE i = k
      <4>1. j # k /\ Moved(k, j) \in k .. c - 1 /\ Moved(k, j) \in 0 .. c - 1
        BY <2>2, <3>2, <1>1, <1>3
      <4>2. item.prio < At(r, Moved(k, j)).prio
        BY <4>1, <1>3
      <4>3. item.prio = item.cls
        BY <2>2, <3>2, <1>3, <1>6
      <4>4. At(r, Moved(k, j)).prio = At(r, Moved(k, j)).cls
        BY <2>2, <4>1, <1>2, <1>3 DEF FreshInOrder
      <4>5. item.cls = At(r, Moved(k, j)).cls
        BY <2>2, <3>2, <4>1, <1>3
      <4> QED
        BY <4>1, <4>2, <4>3, <4>4, <4>5, <1>4, <1>5
    <3>3. CASE i # k /\ j # k
      BY <2>2, <3>3, <1>2, <1>3 DEF FreshInOrder
    <3> QED
      BY <3>1, <3>2, <3>3
  <2> QED
    BY <2>1, <2>2, <1>1 DEF FreshInOrder
<1> QED
  BY <1>7, <1>8 DEF Sound, s, c

LEMMA DequeueKeepsSound ==
  ASSUME NEW r \in Ring, r.count > 0, Sound(r, r.count)
  PROVE  /\ Sound(Dequeued(r), r.count - 1)
         /\ Numbers(r, r.count) = Numbers(Dequeued(r), r.count - 1) \cup {Taken(r).n}
         /\ Taken(r).n \notin Numbers(Dequeued(r), r.count - 1)
<1> DEFINE b == Best(r)
           d == Dequeued(r)
           c == r.count
<1>1. c \in Nat /\ (c - 1) - 1 = c - 2
  BY SizeIsNat DEF Ring
<1>2. /\ \A i \in 0 .. c - 2 : /\ Closed(b, i) \in 0 .. c - 1
                               /\ At(d, i) = At(r, Closed(b, i))
      /\ \A i, j \in 0 .. c - 2 : i < j => Closed(b, i) < Closed(b, j)
  BY RemoveCloses
<1>3. Sorted(r, c) /\ Distinct(r, c) /\ FreshInOrder(r, c)
  BY DEF Sound
<1>4. /\ Sorted(d, c - 1) /\ Distinct(d, c - 1)
      /\ Numbers(r, c) = Numbers(d, c - 1) \cup {Taken(r).n}
      /\ Taken(r).n \notin Numbers(d, c - 1)
  BY <1>3, RemoveKeepsSorted
<1> HIDE DEF b, d, c
<1>5. FreshInOrder(d, c - 1)
  BY <1>1, <1>2, <1>3 DEF FreshInOrder
<1> QED
  BY <1>4, <1>5 DEF Sound, d, c

-----------------------------------------------------------------------------
(* Types.  There is room for a message that is to be put back, because it  *)
(* has been taken and the interrupt never leaves the queue longer than it  *)
(* found it; and the loop takes no more messages than it may.              *)
Room ==
  /\ pc \in InsertPcs => ring.count < Size
  /\ pc \in {"header", "check", "handOver", "busy", "error"} /\ held # DirectItem =>
       ring.count < Size
  /\ pc = "countStore" => reg < Size
  /\ pc \in SendPcs /\ held # DirectItem => processed < MaxTick
TypeInv == TypeOK /\ Room

LEMMA Bounds ==
  /\ MaxMessages \in Nat
  /\ MaxTick \in Nat /\ MaxTick >= 1
  /\ FifoDepth \in Nat /\ FifoDepth >= 1
  /\ MaxErrors \in Nat /\ MaxErrors >= 1
  /\ TxTimeout \in Nat /\ TxTimeout >= 1
BY BoundsAssumption

LEMMA ZeroInBounds ==
  /\ 0 \in 0 .. MaxMessages
  /\ 0 \in 0 .. MaxTick
  /\ 0 \in 0 .. FifoDepth
  /\ 0 \in 0 .. MaxErrors
  /\ 0 \in 0 .. TxTimeout
  /\ 0 \in 0 .. Size
BY Bounds, SizeIsNat

LEMMA NoItemsTyped == NoItem \in TxItem /\ DirectItem \in TxItem
<1>1. 0 \in 0 .. MaxMessages /\ 0 \in Urgencies /\ 4 \in Urgencies
  BY Bounds DEF Urgencies
<1> QED
  BY <1>1 DEF NoItem, DirectItem, TxItem

LEMMA DirectIsNotNone == NoItem # DirectItem
<1>1. NoItem.cls = 0 /\ DirectItem.cls = 4
  BY DEF NoItem, DirectItem
<1> QED
  BY <1>1

LEMMA RetriedTyped ==
  ASSUME NEW item \in TxItem
  PROVE  [item EXCEPT !.retried = TRUE] \in TxItem
BY DEF TxItem

LEMMA DemotedTyped ==
  ASSUME NEW item \in TxItem
  PROVE  Demoted(item) \in TxItem /\ Demoted(item).retried /\ Demoted(item).n = item.n
<1>1. (IF item.prio + 1 > AnalogTelemetry THEN AnalogTelemetry ELSE item.prio + 1) \in Urgencies
  BY DEF TxItem, Urgencies, AnalogTelemetry
<1> QED
  BY <1>1 DEF TxItem, Demoted

LEMMA IdentifiedTyped ==
  ASSUME NEW item \in TxItem
  PROVE  Identified(item) \subseteq 1 .. MaxMessages
BY Bounds DEF TxItem, Identified

LEMMA NewItemTyped ==
  ASSUME TypeOK, NEW c \in Classes, accepted < MaxMessages
  PROVE  NewItem(c) \in TxItem
<1>1. accepted + 1 \in 0 .. MaxMessages /\ c \in Urgencies
  BY ClassesAssumption, Bounds DEF TypeOK
<1> QED
  BY <1>1 DEF NewItem, TxItem

LEMMA TypeInit == Init => TypeInv
<1> SUFFICES ASSUME Init PROVE TypeInv
  OBVIOUS
<1>1. ring \in Ring /\ held \in TxItem
  BY EmptyTyped, NoItemsTyped DEF Init
<1>2. pc \in Pcs /\ pc \notin InsertPcs /\ pc \notin SendPcs
  BY DEF Init, Pcs, InsertPcs, SendPcs
<1>3. Room
  BY <1>2 DEF Init, Room
<1>4. TypeOK
  BY <1>1, <1>2, ZeroInBounds DEF Init, TypeOK
<1> QED
  BY <1>3, <1>4 DEF TypeInv

LEMMA AbortTyped ==
  ASSUME TypeOK, NEW pending \in BOOLEAN, AbortAll(pending)
  PROVE  /\ errors' = 0 /\ abandoned' = TRUE
         /\ fifo' \in 0 .. FifoDepth /\ irq' \in BOOLEAN
<1>1. PICK left \in 0 .. fifo : /\ fifo' = left
                                /\ irq' = (pending \/ (left < fifo /\ left = 0))
  BY DEF AbortAll
<1>2. left \in 0 .. FifoDepth
  BY Bounds DEF TypeOK
<1> QED
  BY <1>1, <1>2 DEF AbortAll

LEMMA RecoverTyped ==
  ASSUME TypeOK, NEW pending \in BOOLEAN, Recover(pending)
  PROVE  /\ can' = "READY" /\ available' = TRUE /\ elapsed' = 0 /\ errors' = 0
         /\ abandoned' = TRUE /\ fifo' \in 0 .. FifoDepth /\ irq' \in BOOLEAN
BY AbortTyped DEF Recover, ReadyAgain

LEMMA ErrorCounted ==
  ASSUME TypeOK, CountError
  PROVE  errors' \in 0 .. MaxErrors /\ can' \in {can, "ERROR"}
<1>1. errors' = IF errors < MaxErrors THEN errors + 1 ELSE errors
  BY DEF CountError
<1>2. errors' \in 0 .. MaxErrors
  BY <1>1, Bounds DEF TypeOK
<1> QED
  BY <1>2 DEF CountError

LEMMA PutsBackTyped ==
  ASSUME TypeOK, InterruptPutsBack
  PROVE  /\ ring' \in Ring /\ ring'.count = ring.count
         /\ hits' \subseteq {"insert", "shift", "mark", "kick"} /\ hits \subseteq hits'
         /\ pc = "flag" => "mark" \in hits'
<1>0. ring \in Ring /\ ring.count \in Nat /\ ring.count <= Size
  BY SizeIsNat DEF TypeOK, Ring
<1> DEFINE item == [Taken(ring) EXCEPT !.retried = TRUE]
<1>1. /\ ring' = Inserted(Dequeued(ring), item)
      /\ hits' = hits \cup RingHit \cup FlagHit \cup StraysNow(Dequeued(ring), item)
      /\ ring.count > 0
  BY DEF InterruptPutsBack
<1>2. item \in TxItem
  BY ItemsAssumption, <1>0, <1>1, TakenTyped, RetriedTyped
<1> HIDE DEF item
<1>3. Dequeued(ring) \in Ring /\ Dequeued(ring).count = ring.count - 1
  BY <1>0, <1>1, DequeuedTyped
<1>4. ring' \in Ring /\ ring'.count = ring.count
  BY ItemsAssumption, <1>0, <1>1, <1>2, <1>3, InsertedTyped, SizeIsNat
<1>5. RingHit \subseteq {"insert"} /\ FlagHit \subseteq {"mark"}
      /\ StraysNow(Dequeued(ring), item) \subseteq {"shift"}
      /\ (pc = "flag" => "mark" \in FlagHit)
  BY DEF RingHit, FlagHit, StraysNow
<1> QED
  BY <1>1, <1>4, <1>5 DEF TypeOK

LEMMA TypeStep == TypeInv /\ [Next]_vars => TypeInv'
<1> SUFFICES ASSUME TypeInv, [Next]_vars PROVE TypeInv'
  OBVIOUS
<1>a. TypeOK /\ Room
  BY DEF TypeInv
<1>b. ring \in Ring /\ ring.count \in Nat /\ ring.count <= Size /\ ring.tail \in Slots
  BY <1>a, SizeIsNat DEF TypeOK, Ring
<1>r. Return => /\ pc' \in Pcs /\ held' \in TxItem /\ header' = "none"
                /\ processed' \in 0 .. MaxTick /\ reg' \in 0 .. Size /\ forced' \in BOOLEAN
                /\ Room'
  <2> SUFFICES ASSUME Return
               PROVE  /\ pc' \in Pcs /\ held' \in TxItem /\ header' = "none"
                      /\ processed' \in 0 .. MaxTick /\ reg' \in 0 .. Size
                      /\ forced' \in BOOLEAN /\ Room'
    OBVIOUS
  <2>1. /\ pc' \in Pcs /\ pc' \notin SendPcs /\ pc' \notin InsertPcs
        /\ pc' \notin {"header", "check", "handOver", "busy", "error", "countStore"}
    BY DEF Return, Pcs, SendPcs, InsertPcs
  <2>2. Room'
    BY <2>1 DEF Room, SendPcs, InsertPcs
  <2> QED
    BY <2>1, <2>2, ZeroInBounds, NoItemsTyped DEF Return
<1>h. OverwrittenBy(TRUE) \in {"none", "own", "once", "more"}
      /\ OverwrittenBy(FALSE) \in {"none", "own", "once", "more"}
  BY DEF OverwrittenBy
<1>0. CASE UNCHANGED vars
  BY <1>0, <1>a DEF vars, driver, main, history, TypeInv, TypeOK, Room
<1>1. ASSUME NEW c \in Classes, Enqueue(c) PROVE TypeInv'
  <2>1. NewItem(c) \in TxItem /\ accepted' \in 0 .. MaxMessages
    BY <1>1, <1>a, Bounds, NewItemTyped DEF Enqueue, TypeOK
  <2>2. CASE /\ ring.count < Size
             /\ ring' = Inserted(ring, NewItem(c))
             /\ hits' = hits \cup StraysNow(ring, NewItem(c))
             /\ UNCHANGED <<driver, gone, abandoned>>
    <3>1. ring' \in Ring
      BY ItemsAssumption, <2>1, <2>2, <1>b, InsertedTyped
    <3>2. hits' \subseteq {"insert", "shift", "mark", "kick"}
      BY <2>2, <1>a DEF TypeOK, StraysNow
    <3> QED
      BY <1>1, <2>1, <2>2, <3>1, <3>2, <1>a
      DEF Enqueue, driver, main, TypeInv, TypeOK, Room, InsertPcs, SendPcs
  <2>3. CASE /\ ring.count >= Size
             /\ ring' = Inserted(Cleared, NewItem(c))
             /\ hits' = {}
             /\ gone' = 1 .. accepted
             /\ Recover(irq)
    <3>1. ring' \in Ring
      BY ItemsAssumption, <2>1, <2>3, EmptyTyped, SizeIsNat, InsertedTyped DEF Cleared
    <3>2. gone' \subseteq 1 .. MaxMessages
      BY <2>3, <1>a, Bounds DEF TypeOK
    <3>3. /\ can' = "READY" /\ available' = TRUE /\ elapsed' = 0 /\ errors' = 0
          /\ abandoned' = TRUE /\ fifo' \in 0 .. FifoDepth /\ irq' \in BOOLEAN
      BY <2>3, <1>a, RecoverTyped DEF TypeOK
    <3> QED
      BY <1>1, <2>1, <2>3, <3>1, <3>2, <3>3, <1>a, Bounds
      DEF Enqueue, main, TypeInv, TypeOK, Room, InsertPcs, SendPcs
  <2> QED
    BY <1>1, <2>2, <2>3 DEF Enqueue
<1> USE DEF TypeInv, TypeOK, driver, main, history
<1>2. CASE FrameLeaves
  BY <1>2, <1>a, Bounds DEF FrameLeaves, Room
<1>3. CASE SysTick
  BY <1>3, <1>a, Bounds DEF SysTick, Room
<1>4. CASE BeginTick
  BY <1>4, <1>a DEF BeginTick, Begin, CallRecovery, Room, Pcs, RecoveryPcs, SendPcs,
     InsertPcs
<1>5. CASE BeginDirect
  BY <1>5, <1>a, NoItemsTyped DEF BeginDirect, Begin, CallRecovery, Room, Pcs, RecoveryPcs,
     SendPcs, InsertPcs
<1>6. CASE AbortTransmissions \/ AbortRefused \/ MarkReady \/ KickStart
  <2>1. CASE AbortTransmissions
    <3>1. /\ errors' \in 0 .. MaxErrors /\ abandoned' \in BOOLEAN
          /\ fifo' \in 0 .. FifoDepth /\ irq' \in BOOLEAN
      BY <2>1, <1>a, AbortTyped, ZeroInBounds DEF AbortTransmissions
    <3> QED
      BY <2>1, <3>1, <1>a
      DEF AbortTransmissions, Room, Pcs, RecoveryPcs, SendPcs, InsertPcs
  <2>2. CASE AbortRefused
    <3>1. errors' \in 0 .. MaxErrors /\ can' \in {"READY", "BUSY_TX", "ERROR"}
      BY <2>2, <1>a, ErrorCounted DEF AbortRefused
    <3> QED
      BY <2>2, <3>1, <1>a DEF AbortRefused, Room, Pcs, RecoveryPcs, SendPcs, InsertPcs
  <2>3. CASE MarkReady
    BY <2>3, <1>a, ZeroInBounds DEF MarkReady, Room, Pcs, RecoveryPcs, SendPcs, InsertPcs
  <2>4. CASE KickStart
    <3>1. CASE Return
      BY <2>4, <3>1, <1>a, <1>r DEF KickStart
    <3>2. CASE pc' = "recheck" /\ UNCHANGED <<held, header, processed, reg, forced>>
      BY <2>4, <3>2, <1>a DEF KickStart, Room, Pcs, SendPcs, InsertPcs
    <3> QED
      BY <2>4, <3>1, <3>2 DEF KickStart
  <2> QED
    BY <1>6, <2>1, <2>2, <2>3, <2>4
<1>7. CASE TransmitAvailable
  BY <1>7, <1>a DEF TransmitAvailable, Room, Pcs, SendPcs, InsertPcs
<1>8. CASE TransmitUnavailable
  BY <1>8, <1>a, <1>r DEF TransmitUnavailable
<1>9. CASE TakeMessage
  <2>1. /\ ring' \in Ring /\ ring'.count = ring.count - 1 /\ held' \in TxItem
    BY ItemsAssumption, <1>9, <1>b, DequeuedTyped, TakenTyped DEF TakeMessage
  <2> QED
    BY <1>9, <2>1, <1>a, <1>b, SizeIsNat DEF TakeMessage, Room, Pcs, SendPcs, InsertPcs
<1>10. CASE LoopEnds
  BY <1>10, <1>a, <1>r DEF LoopEnds
<1>11. CASE SetHeader
  BY <1>11, <1>a DEF SetHeader, Room, Pcs, SendPcs, InsertPcs
<1>12. CASE CheckState
  BY <1>12, <1>a DEF CheckState, Room, Pcs, SendPcs, InsertPcs
<1>13. CASE HandOver
  <2>1. gone' \subseteq 1 .. MaxMessages
    BY <1>13, <1>a, IdentifiedTyped DEF HandOver
  <2>2. held' \in TxItem /\ (held' = DirectItem => held = DirectItem)
    BY <1>13, <1>a, NoItemsTyped, DirectIsNotNone DEF HandOver
  <2> QED
    BY <1>13, <2>1, <2>2, <1>a, Bounds DEF HandOver, Room, Pcs, SendPcs, InsertPcs
<1>14. CASE FifoFull
  BY <1>14, <1>a DEF FifoFull, Room, Pcs, SendPcs, InsertPcs
<1>15. CASE HandOverFails
  <2>1. errors' \in 0 .. MaxErrors /\ can' \in {"READY", "BUSY_TX", "ERROR"}
    BY <1>15, <1>a, ErrorCounted DEF HandOverFails
  <2> QED
    BY <1>15, <2>1, <1>a DEF HandOverFails, Room, Pcs, SendPcs, InsertPcs
<1>16. CASE MarkBusy
  BY <1>16, <1>a, Bounds DEF MarkBusy, Room, Pcs, SendPcs, InsertPcs
<1>17. CASE ClearFlag
  <2>1. CASE held = DirectItem /\ Return
    <3>1. errors' \in 0 .. MaxErrors
      BY <1>17, Bounds DEF ClearFlag
    <3> QED
      BY <1>17, <2>1, <3>1, <1>a, <1>r DEF ClearFlag
  <2>2. CASE held # DirectItem /\ ~Return
    <3>1. processed < MaxTick
      BY <1>17, <2>2, <1>a DEF ClearFlag, Room, SendPcs
    <3>2. processed' \in 0 .. MaxTick
      BY <1>17, <2>2, <3>1, <1>a, Bounds DEF ClearFlag
    <3>3. errors' \in 0 .. MaxErrors
      BY <1>17, Bounds DEF ClearFlag
    <3>4. pc' = "loop" /\ pc' \in Pcs /\ UNCHANGED <<held, header, reg, forced>>
      BY <1>17, <2>2 DEF ClearFlag, Pcs
    <3>5. Room'
      BY <3>4 DEF Room, SendPcs, InsertPcs
    <3> QED
      BY <1>17, <3>2, <3>3, <3>4, <3>5, <1>a DEF ClearFlag
  <2>3. CASE held # DirectItem /\ Return
    BY <1>17, <2>3 DEF ClearFlag, Return
  <2> QED
    BY <1>17, <2>1, <2>2, <2>3 DEF ClearFlag
<1>18. CASE SendGivesUp
  BY <1>18, <1>a, <1>r DEF SendGivesUp
<1>19. CASE PutBack
  <2>1. PICK item \in TxItem : /\ ring' = Placed(ring, item)
                               /\ hits' = hits \cup StraysNow(ring, item)
    BY <1>19, <1>a, DemotedTyped, RetriedTyped DEF PutBack
  <2>2. ring' \in Ring /\ ring'.count = ring.count
    BY ItemsAssumption, <2>1, <1>b, PlacedTyped
  <2>3. hits' \subseteq {"insert", "shift", "mark", "kick"}
    BY <2>1, <1>a DEF StraysNow
  <2>4. ring.count < Size
    BY <1>19, <1>a DEF PutBack, Room
  <2>5. pc' = "tail" /\ pc' \in Pcs
    BY <1>19 DEF PutBack, Pcs, InsertPcs
  <2>6. Room'
    BY <2>2, <2>4, <2>5 DEF Room, SendPcs, InsertPcs
  <2>7. processed' \in 0 .. MaxTick /\ held' \in TxItem /\ forced' \in BOOLEAN
    BY <1>19, Bounds, NoItemsTyped DEF PutBack
  <2> QED
    BY <1>19, <2>2, <2>3, <2>5, <2>6, <2>7, <1>a DEF PutBack
<1>20. CASE ReadTail
  <2>1. reg' \in 0 .. Size
    BY <1>20, <1>b, SizeIsNat DEF ReadTail, Slots
  <2> QED
    BY <1>20, <2>1, <1>a DEF ReadTail, Room, Pcs, SendPcs, InsertPcs
<1>21. CASE StoreTail
  <2>1. After(reg) \in Slots
    BY <1>a, SizeIsNat, ModInSlots DEF After
  <2>2. ring' \in Ring /\ ring'.count = ring.count
    BY <1>21, <2>1, <1>b DEF StoreTail, Ring
  <2> QED
    BY <1>21, <2>2, <1>a, SizeIsNat DEF StoreTail, Room, Pcs, SendPcs, InsertPcs
<1>22. CASE ReadCount
  BY <1>22, <1>a, <1>b DEF ReadCount, Room, Pcs, SendPcs, InsertPcs
<1>23. CASE StoreCount
  <2>1. reg + 1 \in 0 .. Size
    BY <1>23, <1>a, SizeIsNat DEF StoreCount, Room
  <2>2. ring' \in Ring
    BY <1>23, <2>1, <1>b DEF StoreCount, Ring
  <2>3. CASE Return /\ ~forced
    BY <1>23, <2>2, <2>3, <1>a, <1>r DEF StoreCount
  <2>4. CASE forced
    <3>1. pc' = "recover" /\ pc' \in Pcs /\ reg' \in 0 .. Size
      BY <1>23, <2>4, SizeIsNat DEF StoreCount, Pcs, RecoveryPcs
    <3>2. Room'
      BY <3>1 DEF Room, SendPcs, InsertPcs
    <3> QED
      BY <1>23, <2>2, <2>4, <3>1, <3>2, <1>a DEF StoreCount
  <2> QED
    BY <1>23, <2>3, <2>4 DEF StoreCount
<1>25. CASE InterruptWithoutMessage
  <2>1. hits' \subseteq {"insert", "shift", "mark", "kick"}
    BY <1>25, <1>a DEF InterruptWithoutMessage, FlagHit
  <2>2. Room'
    BY <1>25, <1>a DEF InterruptWithoutMessage, TransmitComplete, Room
  <2>3. elapsed' \in 0 .. TxTimeout /\ header' \in {"none", "own", "once", "more"}
    BY <1>25, <1>h, ZeroInBounds DEF InterruptWithoutMessage, ReadyAgain
  <2> QED
    BY <1>25, <2>1, <2>2, <2>3, <1>a DEF InterruptWithoutMessage, TransmitComplete, ReadyAgain
<1>26. CASE InterruptSends
  <2>1. hits' \subseteq {"insert", "shift", "mark", "kick"}
    BY <1>26, <1>a DEF InterruptSends, RingHit, KickHit
  <2>2. ring' \in Ring /\ ring'.count = ring.count - 1 /\ Taken(ring) \in TxItem
    BY ItemsAssumption, <1>26, <1>b, DequeuedTyped, TakenTyped DEF InterruptSends
  <2>3. gone' \subseteq 1 .. MaxMessages
    BY <1>26, <1>a, <2>2, IdentifiedTyped DEF InterruptSends
  <2>4. Room'
    BY <1>26, <1>a, <1>b, <2>2, SizeIsNat DEF InterruptSends, TransmitComplete, Room
  <2>5. /\ elapsed' \in 0 .. TxTimeout /\ errors' \in 0 .. MaxErrors
        /\ header' \in {"none", "own", "once", "more"}
    BY <1>26, <1>h, ZeroInBounds DEF InterruptSends
  <2>6. fifo' \in 0 .. FifoDepth
    BY <1>26, <1>a, Bounds DEF InterruptSends
  <2> QED
    BY <1>26, <2>1, <2>2, <2>3, <2>4, <2>5, <2>6, <1>a DEF InterruptSends, TransmitComplete
<1>27. CASE InterruptFindsFifoFull
  <2>1. /\ ring' \in Ring /\ ring'.count = ring.count
        /\ hits' \subseteq {"insert", "shift", "mark", "kick"}
    BY <1>27, <1>a, PutsBackTyped DEF InterruptFindsFifoFull
  <2>2. Room'
    BY <1>27, <2>1, <1>a
    DEF InterruptFindsFifoFull, InterruptPutsBack, TransmitComplete, Room
  <2>3. elapsed' \in 0 .. TxTimeout /\ header' \in {"none", "own", "once", "more"}
    BY <1>27, <1>h, ZeroInBounds DEF InterruptFindsFifoFull, InterruptPutsBack, ReadyAgain
  <2> QED
    BY <1>27, <2>1, <2>2, <2>3, <1>a
    DEF InterruptFindsFifoFull, InterruptPutsBack, TransmitComplete, ReadyAgain
<1>28. CASE InterruptFails
  <2>1. /\ ring' \in Ring /\ ring'.count = ring.count
        /\ hits' \subseteq {"insert", "shift", "mark", "kick"}
    BY <1>28, <1>a, PutsBackTyped DEF InterruptFails
  <2>2. /\ can' = "READY" /\ available' = TRUE /\ elapsed' = 0 /\ errors' = 0
        /\ abandoned' = TRUE /\ fifo' \in 0 .. FifoDepth /\ irq' \in BOOLEAN
    BY <1>28, <1>a, RecoverTyped DEF InterruptFails
  <2>3. Room'
    BY <1>28, <2>1, <1>a DEF InterruptFails, InterruptPutsBack, TransmitComplete, Room
  <2>4. /\ elapsed' \in 0 .. TxTimeout /\ errors' \in 0 .. MaxErrors
        /\ header' \in {"none", "own", "once", "more"}
    BY <1>28, <1>h, <2>2, ZeroInBounds DEF InterruptFails, InterruptPutsBack
  <2> QED
    BY <1>28, <2>1, <2>2, <2>3, <2>4, <1>a
    DEF InterruptFails, InterruptPutsBack, TransmitComplete
<1> QED
  BY <1>0, <1>1, <1>2, <1>3, <1>4, <1>5, <1>6, <1>7, <1>8, <1>9, <1>10, <1>11, <1>12, <1>13,
     <1>14, <1>15, <1>16, <1>17, <1>18, <1>19, <1>20, <1>21, <1>22, <1>23, <1>25, <1>26,
     <1>27, <1>28 DEF Next, MainLoop, Interrupt

-----------------------------------------------------------------------------
(* The driver, whose state the main loop and the interrupt both write.     *)
(* A flag about to be cleared belongs to a driver that is busy, one about   *)
(* to be raised to a driver that is not.                                    *)
FlagFollows == pc = "flag" /\ can = "READY" => "mark" \in hits
KickFollows == pc = "kick" /\ can = "BUSY_TX" => "kick" \in hits

(* As long as no transmission has been given up, frames and interrupts are *)
(* only outstanding while the driver is busy, or about to say so: a main   *)
(* loop that has seen it ready is alone, and an interrupt that overwrites  *)
(* the header before the main loop has looked leaves it busy.              *)
OneSender ==
  /\ pc \in {"ready", "kick"} => abandoned
  /\ ~abandoned =>
       /\ irq => fifo = 0
       /\ fifo > 0 \/ irq => can = "BUSY_TX" \/ pc = "mark"
       /\ pc = "handOver" => can = "READY" /\ header # "once"
       /\ pc = "check" /\ header = "once" => can = "BUSY_TX"

DriverInv == FlagTellsState /\ FlagFollows /\ KickFollows /\ OneSender

LEMMA DriverInit == Init => DriverInv
BY DEF Init, DriverInv, FlagTellsState, FlagFollows, KickFollows, OneSender

(* A recovery without interrupts leaves nothing to say.                    *)
LEMMA RecoverDrives ==
  ASSUME TypeOK, NEW pending \in BOOLEAN, Recover(pending),
         pc' # "flag" \/ "mark" \in hits'
  PROVE  DriverInv'
BY RecoverTyped DEF DriverInv, FlagTellsState, FlagFollows, KickFollows, OneSender

LEMMA DriverStep == TypeOK /\ DriverInv /\ [Next]_vars => DriverInv'
<1> SUFFICES ASSUME TypeOK, DriverInv, [Next]_vars PROVE DriverInv'
  OBVIOUS
<1>a. /\ fifo \in Nat /\ FifoDepth \in Nat /\ FifoDepth >= 1
      /\ can \in {"READY", "BUSY_TX", "ERROR"} /\ irq \in BOOLEAN
  BY Bounds DEF TypeOK
<1>b. FlagTellsState /\ FlagFollows /\ KickFollows /\ OneSender
  BY DEF DriverInv
<1> USE DEF driver, main, history
<1>0. CASE UNCHANGED vars
  BY <1>0, <1>b DEF vars, DriverInv, FlagTellsState, FlagFollows, KickFollows, OneSender
<1>1. ASSUME NEW c \in Classes, Enqueue(c) PROVE DriverInv'
  <2>1. CASE /\ hits' = hits \cup StraysNow(ring, NewItem(c))
             /\ UNCHANGED <<driver, gone, abandoned>>
    BY <1>1, <2>1, <1>b DEF Enqueue, DriverInv, FlagTellsState, FlagFollows, KickFollows,
       OneSender
  <2>2. CASE Recover(irq)
    <3>1. pc' # "flag"
      BY <1>1 DEF Enqueue
    <3> QED
      BY <2>2, <3>1, <1>a, RecoverDrives
  <2> QED
    BY <1>1, <2>1, <2>2 DEF Enqueue
<1>2. CASE FrameLeaves
  BY <1>2, <1>a, <1>b DEF FrameLeaves, DriverInv, FlagTellsState, FlagFollows, KickFollows,
     OneSender
<1>3. CASE SysTick
  BY <1>3, <1>b DEF SysTick, DriverInv, FlagTellsState, FlagFollows, KickFollows, OneSender
<1>4. CASE BeginTick \/ BeginDirect
  <2>1. /\ pc' \in {"recover", "recheck", "header"} /\ pc = "idle"
        /\ abandoned' = (abandoned /\ (fifo > 0 \/ irq))
        /\ UNCHANGED <<driver, header, hits>>
    BY <1>4 DEF BeginTick, BeginDirect, Begin, CallRecovery
  <2> QED
    BY <2>1, <1>a, <1>b DEF DriverInv, FlagTellsState, FlagFollows, KickFollows, OneSender
<1>5. CASE AbortTransmissions \/ AbortRefused
  <2>1. /\ pc = "recover" /\ pc' = "ready" /\ abandoned' = TRUE /\ can' \in {can, "ERROR"}
        /\ UNCHANGED <<available, hits>>
    BY <1>5, <1>a, AbortTyped, ErrorCounted DEF AbortTransmissions, AbortRefused
  <2> QED
    BY <2>1, <1>b DEF DriverInv, FlagTellsState, FlagFollows, KickFollows, OneSender
<1>6. CASE MarkReady \/ KickStart
  <2>1. /\ pc \in {"ready", "kick"} /\ UNCHANGED <<abandoned, hits>>
        /\ \/ pc' = "kick" /\ can' = "READY" /\ available' = available
           \/ /\ pc = "kick" /\ pc' \in {"idle", "recheck"}
              /\ can' = can /\ available' = TRUE
    BY <1>6 DEF MarkReady, KickStart, Return
  <2> QED
    BY <2>1, <1>a, <1>b DEF DriverInv, FlagTellsState, FlagFollows, KickFollows, OneSender
<1>7. CASE TransmitAvailable
  BY <1>7, <1>b DEF TransmitAvailable, DriverInv, FlagTellsState, FlagFollows, KickFollows,
     OneSender
<1>8. CASE TransmitUnavailable \/ LoopEnds \/ SendGivesUp
  <2>1. /\ pc' = "idle" /\ pc \notin {"mark", "flag", "kick"}
        /\ UNCHANGED <<driver, abandoned, hits>>
    BY <1>8 DEF TransmitUnavailable, LoopEnds, SendGivesUp, Return
  <2> QED
    BY <2>1, <1>b DEF DriverInv, FlagTellsState, FlagFollows, KickFollows, OneSender
<1>9. CASE TakeMessage
  BY <1>9, <1>b DEF TakeMessage, DriverInv, FlagTellsState, FlagFollows, KickFollows, OneSender
<1>11. CASE SetHeader
  BY <1>11, <1>b DEF SetHeader, DriverInv, FlagTellsState, FlagFollows, KickFollows, OneSender
<1>12. CASE CheckState
  BY <1>12, <1>a, <1>b DEF CheckState, DriverInv, FlagTellsState, FlagFollows, KickFollows,
     OneSender
<1>13. CASE HandOver
  BY <1>13, <1>a, <1>b DEF HandOver, DriverInv, FlagTellsState, FlagFollows, KickFollows,
     OneSender
<1>14. CASE FifoFull
  BY <1>14, <1>b DEF FifoFull, DriverInv, FlagTellsState, FlagFollows, KickFollows, OneSender
<1>15. CASE HandOverFails
  <2>1. can' \in {can, "ERROR"}
    BY <1>15, ErrorCounted DEF HandOverFails
  <2>2. /\ pc = "handOver" /\ pc' = "error"
        /\ UNCHANGED <<available, fifo, irq, abandoned, hits>>
    BY <1>15 DEF HandOverFails
  <2> QED
    BY <2>1, <2>2, <1>a, <1>b DEF DriverInv, FlagTellsState, FlagFollows, KickFollows, OneSender
<1>16. CASE MarkBusy
  BY <1>16, <1>a, <1>b DEF MarkBusy, DriverInv, FlagTellsState, FlagFollows, KickFollows,
     OneSender
<1>17. CASE ClearFlag
  <2>1. /\ pc = "flag" /\ pc' \in {"idle", "loop"}
        /\ available' = FALSE /\ UNCHANGED <<can, fifo, irq, abandoned, hits>>
    BY <1>17 DEF ClearFlag, Return
  <2> QED
    BY <2>1, <1>b DEF DriverInv, FlagTellsState, FlagFollows, KickFollows, OneSender
<1>18. CASE PutBack
  <2>1. /\ pc \in {"busy", "error"} /\ pc' = "tail" /\ hits \subseteq hits'
        /\ UNCHANGED <<driver, abandoned>>
    BY <1>18 DEF PutBack
  <2> QED
    BY <2>1, <1>b DEF DriverInv, FlagTellsState, FlagFollows, KickFollows, OneSender
<1>20. CASE ReadTail \/ StoreTail \/ ReadCount \/ StoreCount
  <2>1. /\ pc \in InsertPcs /\ pc' \in InsertPcs \cup {"idle", "recover"}
        /\ UNCHANGED <<driver, abandoned, hits>>
    BY <1>20 DEF ReadTail, StoreTail, ReadCount, StoreCount, Return, InsertPcs
  <2> QED
    BY <2>1, <1>b DEF DriverInv, FlagTellsState, FlagFollows, KickFollows, OneSender, InsertPcs
<1>25. CASE InterruptWithoutMessage
  <2>1. /\ irq /\ ~irq' /\ can' = "READY" /\ available' = TRUE
        /\ UNCHANGED <<pc, fifo, abandoned>>
        /\ (pc = "flag" => "mark" \in hits') /\ header' # "once"
    BY <1>25 DEF InterruptWithoutMessage, TransmitComplete, ReadyAgain, FlagHit, OverwrittenBy
  <2> QED
    BY <2>1, <1>a, <1>b DEF DriverInv, FlagTellsState, FlagFollows, KickFollows, OneSender
<1>26. CASE InterruptSends
  <2>1. /\ irq /\ ~irq' /\ can' = "BUSY_TX" /\ ~available' /\ UNCHANGED <<pc, abandoned>>
        /\ (pc = "kick" => "kick" \in hits')
    BY <1>26 DEF InterruptSends, TransmitComplete, KickHit
  <2> QED
    BY <2>1, <1>a, <1>b DEF DriverInv, FlagTellsState, FlagFollows, KickFollows, OneSender
<1>27. CASE InterruptFindsFifoFull
  <2>1. /\ irq /\ fifo >= FifoDepth /\ can' = "READY" /\ available' = TRUE
        /\ UNCHANGED <<pc, abandoned>> /\ (pc = "flag" => "mark" \in hits')
    BY <1>27, PutsBackTyped
    DEF InterruptFindsFifoFull, InterruptPutsBack, TransmitComplete, ReadyAgain
  <2> QED
    BY <2>1, <1>a, <1>b DEF DriverInv, FlagTellsState, FlagFollows, KickFollows, OneSender
<1>28. CASE InterruptFails
  <2>1. pc' = pc /\ (pc = "flag" => "mark" \in hits') /\ Recover(FALSE)
    BY <1>28, PutsBackTyped DEF InterruptFails, InterruptPutsBack, TransmitComplete
  <2> QED
    BY <2>1, RecoverDrives
<1> QED
  BY <1>0, <1>1, <1>2, <1>3, <1>4, <1>5, <1>6, <1>7, <1>8, <1>9, <1>11, <1>12, <1>13, <1>14,
     <1>15,
     <1>16, <1>17, <1>18, <1>20, <1>25, <1>26, <1>27, <1>28
  DEF Next, MainLoop, Interrupt

-----------------------------------------------------------------------------
(* Head, tail and count, while the interrupt keeps out of insertions.      *)
CountersInv ==
  /\ CountersAgree
  /\ "insert" \notin hits =>
       /\ pc = "tailStore" => reg = ring.tail
       /\ pc = "countStore" => reg = ring.count

LEMMA AgreeBetween ==
  ASSUME ring \in Ring, CountersAgree, "insert" \notin hits, pc \notin {"count", "countStore"}
  PROVE  Agree(ring)
<1>1. ring.head \in Int /\ ring.count \in Int
  BY DEF Ring, Slots
<1>2. ring.tail = (ring.head + ring.count + 0) % Size
  BY DEF CountersAgree
<1> QED
  BY <1>1, <1>2 DEF Agree

LEMMA AgreeIsCounters ==
  ASSUME ring' \in Ring, Agree(ring'), pc' \notin {"count", "countStore"}
  PROVE  CountersAgree'
<1>1. ring'.head \in Int /\ ring'.count \in Int
  BY DEF Ring, Slots
<1>2. ring'.tail = (ring'.head + ring'.count + 0) % Size
  BY <1>1 DEF Agree
<1> QED
  BY <1>2 DEF CountersAgree

LEMMA CountersInit == Init => CountersInv
<1> SUFFICES ASSUME Init PROVE CountersInv
  OBVIOUS
<1>1. ring = EmptyRing /\ pc = "idle"
  BY DEF Init
<1>2. ring.tail = (ring.head + ring.count + 0) % Size
  BY <1>1, EmptyTyped, SizeIsNat
<1> QED
  BY <1>1, <1>2 DEF CountersInv, CountersAgree

LEMMA CountersStep == TypeInv /\ TypeInv' /\ CountersInv /\ [Next]_vars => CountersInv'
<1> SUFFICES ASSUME TypeInv, TypeInv', CountersInv, [Next]_vars PROVE CountersInv'
  OBVIOUS
<1>a. /\ ring \in Ring /\ ring' \in Ring /\ ring.count \in Nat /\ ring.count <= Size
      /\ ring.head \in Nat /\ ring.tail \in Slots
  <2>1. ring \in Ring /\ ring' \in Ring
    BY DEF TypeInv, TypeOK
  <2> QED
    BY <2>1, SizeIsNat DEF Ring, Slots
<1>b. CountersAgree
  BY DEF CountersInv
<1> USE DEF driver, main, history
<1>c. ASSUME ring' = ring, hits \subseteq hits', pc' \notin {"tailStore", "count", "countStore"},
             pc \notin {"count", "countStore"}
      PROVE  CountersInv'
  BY <1>c, <1>b DEF CountersInv, CountersAgree
<1>0. CASE UNCHANGED vars
  BY <1>0 DEF vars, CountersInv, CountersAgree
<1>1. ASSUME NEW c \in Classes, Enqueue(c) PROVE CountersInv'
  <2>0. pc = "idle" /\ pc' = "idle"
    BY <1>1 DEF Enqueue
  <2>1. NewItem(c) \in TxItem
    BY <1>1, NewItemTyped DEF Enqueue, TypeInv
  <2>2. CASE /\ ring.count < Size
             /\ ring' = Inserted(ring, NewItem(c))
             /\ hits' = hits \cup StraysNow(ring, NewItem(c))
    <3>1. ASSUME "insert" \notin hits' PROVE Agree(ring')
      <4>1. Agree(ring)
        BY <2>0, <2>2, <3>1, <1>a, <1>b, AgreeBetween
      <4> QED
        BY ItemsAssumption, <4>1, <2>1, <2>2, <1>a, InsertedAgrees
    <3> QED
      BY <2>0, <3>1, <1>a, AgreeIsCounters DEF CountersInv, CountersAgree
  <2>3. CASE ring' = Inserted(Cleared, NewItem(c))
    <3>1. Agree(ring')
      BY ItemsAssumption, <2>1, <2>3, EmptyTyped, EmptyAgrees, SizeIsNat, InsertedAgrees DEF
         Cleared
    <3> QED
      BY <2>0, <3>1, <1>a, AgreeIsCounters DEF CountersInv
  <2> QED
    BY <1>1, <2>2, <2>3 DEF Enqueue
<1>2. CASE FrameLeaves \/ SysTick
  BY <1>2 DEF FrameLeaves, SysTick, CountersInv, CountersAgree
<1>3. CASE \/ BeginTick \/ BeginDirect \/ TransmitAvailable
           \/ TransmitUnavailable \/ LoopEnds \/ SetHeader \/ CheckState \/ FifoFull
           \/ HandOverFails
  BY <1>3, <1>c DEF BeginTick, BeginDirect, Begin, CallRecovery, TransmitAvailable,
     TransmitUnavailable, LoopEnds, SetHeader, CheckState, FifoFull,
     HandOverFails, Return
<1>4. CASE \/ HandOver \/ MarkBusy \/ ClearFlag \/ SendGivesUp
           \/ AbortTransmissions \/ AbortRefused \/ MarkReady \/ KickStart
  BY <1>4, <1>c DEF HandOver, MarkBusy, ClearFlag, SendGivesUp, AbortTransmissions,
     AbortRefused, MarkReady, KickStart, Return
<1>5. CASE TakeMessage
  <2>1. pc = "loop" /\ pc' = "header" /\ hits' = hits /\ ring' = Dequeued(ring) /\ ring.count > 0
    BY <1>5 DEF TakeMessage
  <2>2. ASSUME "insert" \notin hits' PROVE Agree(ring')
    BY <2>1, <2>2, <1>a, <1>b, AgreeBetween, DequeuedAgrees
  <2> QED
    BY <2>1, <2>2, <1>a, AgreeIsCounters DEF CountersInv, CountersAgree
<1>6. CASE PutBack
  <2>1. PICK item \in TxItem : /\ ring' = Placed(ring, item)
                               /\ hits' = hits \cup StraysNow(ring, item)
    BY <1>6, DemotedTyped, RetriedTyped DEF PutBack, TypeInv, TypeOK
  <2>2. /\ ring'.head = ring.head /\ ring'.tail = ring.tail /\ ring'.count = ring.count
        /\ hits \subseteq hits' /\ pc \in {"busy", "error"} /\ pc' = "tail"
    BY ItemsAssumption, <1>6, <2>1, <1>a, PlacedTyped DEF PutBack
  <2> QED
    BY <2>2, <1>b DEF CountersInv, CountersAgree
<1>7. CASE ReadTail
  BY <1>7, <1>b DEF ReadTail, CountersInv, CountersAgree
<1>8. CASE StoreTail
  <2>1. /\ pc = "tailStore" /\ pc' = "count" /\ hits' = hits
        /\ ring' = [ring EXCEPT !.tail = After(reg)]
    BY <1>8 DEF StoreTail
  <2>2. /\ ring'.head = ring.head /\ ring'.count = ring.count /\ ring'.tail = After(reg)
    BY <2>1, <1>a DEF Ring
  <2>3. ASSUME "insert" \notin hits'
        PROVE  ring'.tail = (ring'.head + ring'.count + 1) % Size
    <3>1. Agree(ring) /\ reg = ring.tail
      BY <2>1, <2>3, <1>a, <1>b, AgreeBetween DEF CountersInv
    <3>2. ring.count \in 0 .. Size - 1
      BY <2>1, <1>a, SizeIsNat DEF TypeInv, Room, InsertPcs
    <3>3. After(ring.tail) = (ring.head + (ring.count + 1)) % Size
      BY <3>1, <3>2, <1>a, Neighbours DEF Agree, Pos
    <3>4. ring.head + (ring.count + 1) = ring.head + ring.count + 1
      BY <1>a
    <3> QED
      BY <2>2, <3>1, <3>3, <3>4
  <2> QED
    BY <2>1, <2>3 DEF CountersInv, CountersAgree
<1>9. CASE ReadCount
  BY <1>9, <1>b DEF ReadCount, CountersInv, CountersAgree
<1>10. CASE StoreCount
  <2>1. /\ pc = "countStore" /\ pc' \in {"idle", "recover"} /\ hits' = hits
        /\ ring' = [ring EXCEPT !.count = reg + 1]
    BY <1>10 DEF StoreCount, Return
  <2>2. /\ ring'.head = ring.head /\ ring'.count = reg + 1 /\ ring'.tail = ring.tail
    BY <2>1, <1>a DEF Ring
  <2>3. ASSUME "insert" \notin hits' PROVE Agree(ring')
    <3>1. /\ ring.tail = (ring.head + ring.count + 1) % Size /\ reg = ring.count
      BY <2>1, <2>3, <1>b DEF CountersInv, CountersAgree
    <3>2. ring.head + (ring.count + 1) = ring.head + ring.count + 1
      BY <1>a
    <3> QED
      BY <2>2, <3>1, <3>2 DEF Agree
  <2> QED
    BY <2>1, <2>3, <1>a, AgreeIsCounters DEF CountersInv, CountersAgree
<1>11. CASE InterruptWithoutMessage
  BY <1>11, <1>b DEF InterruptWithoutMessage, TransmitComplete, CountersInv, CountersAgree
<1>12. CASE InterruptSends
  <2>1. /\ UNCHANGED <<pc, reg>> /\ hits' = hits \cup RingHit \cup KickHit
        /\ ring' = Dequeued(ring) /\ ring.count > 0
    BY <1>12 DEF InterruptSends, TransmitComplete
  <2>2. ASSUME "insert" \notin hits' PROVE Agree(ring') /\ pc' \notin InsertPcs
    <3>1. pc \notin InsertPcs /\ "insert" \notin hits
      BY <2>1, <2>2 DEF RingHit
    <3>2. Agree(ring)
      BY <3>1, <1>a, <1>b, AgreeBetween DEF InsertPcs
    <3> QED
      BY <2>1, <3>1, <3>2, <1>a, DequeuedAgrees
  <2> QED
    BY <2>2, <1>a, AgreeIsCounters DEF CountersInv, CountersAgree, InsertPcs
<1>13. CASE InterruptPutsBack
  <2> DEFINE item == [Taken(ring) EXCEPT !.retried = TRUE]
  <2>1. /\ UNCHANGED <<pc, reg>> /\ RingHit \subseteq hits' /\ hits \subseteq hits'
        /\ ring' = Inserted(Dequeued(ring), item) /\ ring.count > 0
    BY <1>13 DEF InterruptPutsBack, TransmitComplete
  <2>2. item \in TxItem
    BY ItemsAssumption, <1>a, <2>1, TakenTyped, RetriedTyped
  <2> HIDE DEF item
  <2>3. ASSUME "insert" \notin hits' PROVE Agree(ring') /\ pc' \notin InsertPcs
    <3>1. pc \notin InsertPcs /\ "insert" \notin hits
      BY <2>1, <2>3 DEF RingHit
    <3>2. Agree(ring)
      BY <3>1, <1>a, <1>b, AgreeBetween DEF InsertPcs
    <3>3. Agree(Dequeued(ring)) /\ Dequeued(ring) \in Ring /\ Dequeued(ring).count < Size
      BY <2>1, <3>2, <1>a, DequeuedAgrees, DequeuedTyped, SizeIsNat
    <3> QED
      BY ItemsAssumption, <2>1, <2>2, <3>1, <3>3, InsertedAgrees
  <2> QED
    BY <2>3, <1>a, AgreeIsCounters DEF CountersInv, CountersAgree, InsertPcs
<1> QED
  BY <1>0, <1>1, <1>2, <1>3, <1>4, <1>5, <1>6, <1>7, <1>8, <1>9, <1>10, <1>11, <1>12, <1>13
  DEF Next, MainLoop, Interrupt, InterruptFindsFifoFull, InterruptFails

-----------------------------------------------------------------------------
(* What is in the queue, while nothing has gone wrong with it: every       *)
(* message is in one place.                                                *)
Clean == hits \cap {"insert", "shift"} = {}
Handling == {"header", "check", "handOver", "busy", "error"}
InOnePlace ==
  /\ Sound(ring, Length)
  /\ Numbers(ring, Length) \cup InHand \cup gone = 1 .. accepted
  /\ Numbers(ring, Length) \cap (InHand \cup gone) = {}
  /\ InHand \cap gone = {}
  /\ pc \in Handling /\ held # DirectItem => held.n # 0
ContentsInv == Clean => InOnePlace

LEMMA SameSound ==
  ASSUME NEW r, NEW s, s.slot = r.slot, s.head = r.head, NEW len
  PROVE  (Sound(s, len) <=> Sound(r, len)) /\ Numbers(s, len) = Numbers(r, len)
BY SameContents DEF Sound, FreshInOrder

LEMMA EmptySound == Sound(EmptyRing, 0) /\ Numbers(EmptyRing, 0) = {}
BY DEF Sound, Sorted, Distinct, FreshInOrder, Numbers

LEMMA EmptyNeverStrays ==
  ASSUME NEW item \in TxItem
  PROVE  ~Strays(EmptyRing, item)
<1>1. LessUrgent(EmptyRing, item) = {}
  BY EmptyTyped DEF LessUrgent
<1> QED
  BY <1>1 DEF Strays, Shift

LEMMA ContentsInit == Init => ContentsInv
<1> SUFFICES ASSUME Init PROVE InOnePlace
  BY DEF ContentsInv
<1>1. ring = EmptyRing /\ pc = "idle" /\ gone = {} /\ accepted = 0
  BY DEF Init
<1>2. Length = 0 /\ InHand = {}
  BY <1>1, EmptyTyped DEF Length, InHand, InsertPcs
<1> QED
  BY <1>1, <1>2, EmptySound DEF InOnePlace, Handling

(* A step that leaves the items where they are.                            *)
LEMMA ContentsKept ==
  ASSUME ContentsInv, hits \subseteq hits', ring'.slot = ring.slot, ring'.head = ring.head,
         Clean' => Length' = Length, accepted' = accepted,
         \/ InHand' = InHand /\ gone' = gone
         \/ InHand' = {} /\ gone' = gone \cup InHand,
         pc' \in Handling /\ held' # DirectItem => pc \in Handling /\ held' = held
  PROVE  ContentsInv'
<1> SUFFICES ASSUME Clean' PROVE InOnePlace'
  BY DEF ContentsInv
<1>1. Clean
  BY DEF Clean
<1>2. InOnePlace /\ Length' = Length
  BY <1>1 DEF ContentsInv
<1>3. Sound(ring', Length) /\ Numbers(ring', Length) = Numbers(ring, Length)
  BY <1>2, SameSound DEF InOnePlace
<1> QED
  BY <1>2, <1>3 DEF InOnePlace

LEMMA ContentsStep ==
  TypeInv /\ TypeInv' /\ CountersInv /\ ContentsInv /\ [Next]_vars => ContentsInv'
<1> SUFFICES ASSUME TypeInv, TypeInv', CountersInv, ContentsInv, [Next]_vars
             PROVE  ContentsInv'
  OBVIOUS
<1>a. /\ ring \in Ring /\ ring' \in Ring /\ ring.count \in Nat /\ ring.count <= Size
      /\ accepted \in Nat /\ held \in TxItem
  <2>1. ring \in Ring /\ ring' \in Ring /\ accepted \in Nat /\ held \in TxItem
    BY DEF TypeInv, TypeOK
  <2> QED
    BY <2>1, SizeIsNat DEF Ring
<1>b. CountersAgree
  BY DEF CountersInv
<1> USE DEF driver, main, history
<1>0. CASE UNCHANGED vars
  BY <1>0, ContentsKept DEF vars, Length, InHand, Handling
<1>1. ASSUME NEW c \in Classes, Enqueue(c) PROVE ContentsInv'
  <2> SUFFICES ASSUME Clean' PROVE InOnePlace'
    BY DEF ContentsInv
  <2> DEFINE item == NewItem(c)
  <2>0. pc = "idle" /\ pc' = "idle" /\ accepted' = accepted + 1
    BY <1>1 DEF Enqueue, main
  <2>1. item \in TxItem /\ item.n = accepted + 1 /\ ~item.retried /\ item.prio = item.cls
    <3>1. item \in TxItem
      BY <1>1, NewItemTyped DEF Enqueue, TypeInv
    <3> QED
      BY <3>1 DEF NewItem
  <2> HIDE DEF item
  <2>2. /\ Length = ring.count /\ Length' = ring'.count /\ InHand = {} /\ InHand' = {}
        /\ pc' \notin Handling
    BY <2>0 DEF Length, InHand, InsertPcs, Handling
  <2>3. 1 .. accepted \cup {accepted + 1} = 1 .. accepted + 1
    BY <1>a
  <2>4. ASSUME NEW r \in Ring, r.count < Size, Agree(r), ~Strays(r, item),
               Sound(r, r.count), Numbers(r, r.count) \cup gone' = 1 .. accepted,
               Numbers(r, r.count) \cap gone' = {}, ring' = Inserted(r, item)
        PROVE  InOnePlace'
    <3>1. item.n \notin Numbers(r, r.count) /\ \A n \in Numbers(r, r.count) : n < item.n
      BY <2>1, <2>4, <1>a
    <3>2. /\ Sound(Placed(r, item), r.count + 1)
          /\ Numbers(Placed(r, item), r.count + 1) = Numbers(r, r.count) \cup {item.n}
      BY <2>1, <2>4, <3>1, InsertKeepsSound
    <3>3. /\ ring'.slot = Placed(r, item).slot /\ ring'.head = Placed(r, item).head
          /\ ring'.count = r.count + 1
      BY ItemsAssumption, <2>1, <2>4, InsertedTyped, PlacedTyped
    <3>4. /\ Sound(ring', ring'.count)
          /\ Numbers(ring', ring'.count) = Numbers(r, r.count) \cup {item.n}
      BY <3>2, <3>3, SameSound
    <3>5. item.n \notin gone'
      BY <2>1, <2>4, <1>a
    <3> QED
      BY <2>0, <2>1, <2>2, <2>3, <2>4, <3>4, <3>5 DEF InOnePlace
  <2>5. CASE /\ ring.count < Size
             /\ ring' = Inserted(ring, item)
             /\ hits' = hits \cup StraysNow(ring, item)
             /\ UNCHANGED <<driver, gone, abandoned>>
    <3>1. Clean /\ ~Strays(ring, item)
      BY <2>5 DEF Clean, StraysNow
    <3>2. Agree(ring)
      BY <2>0, <3>1, <1>a, <1>b, AgreeBetween DEF Clean
    <3>3. InOnePlace
      BY <3>1 DEF ContentsInv
    <3>4. /\ Sound(ring, ring.count) /\ Numbers(ring, ring.count) \cup gone' = 1 .. accepted
          /\ Numbers(ring, ring.count) \cap gone' = {}
      BY <2>2, <2>5, <3>3 DEF InOnePlace
    <3> QED
      BY <2>4, <2>5, <3>1, <3>2, <3>4, <1>a
  <2>6. CASE /\ ring' = Inserted(Cleared, item)
             /\ gone' = 1 .. accepted
    <3>1. /\ EmptyRing.count = 0 /\ EmptyRing.count < Size /\ EmptyRing \in Ring
          /\ Agree(EmptyRing) /\ ~Strays(EmptyRing, item)
          /\ Sound(EmptyRing, 0) /\ Numbers(EmptyRing, 0) = {}
      BY <2>1, EmptyTyped, EmptyAgrees, EmptySound, EmptyNeverStrays, SizeIsNat
    <3> QED
      BY <2>4, <2>6, <3>1 DEF Cleared
  <2> QED
    BY <1>1, <2>5, <2>6 DEF Enqueue, item
<1>2. CASE FrameLeaves \/ SysTick
  BY <1>2, ContentsKept DEF FrameLeaves, SysTick, Length, InHand, Handling
<1>3. CASE \/ BeginTick \/ AbortTransmissions \/ AbortRefused \/ MarkReady \/ KickStart
           \/ TransmitUnavailable \/ LoopEnds \/ MarkBusy \/ ClearFlag
  <2>1. /\ pc \notin Handling \cup InsertPcs /\ pc' \notin Handling \cup InsertPcs
        /\ ring' = ring /\ hits' = hits /\ accepted' = accepted /\ gone' = gone
    BY <1>3 DEF BeginTick, Begin, CallRecovery, AbortTransmissions, AbortRefused, MarkReady,
       KickStart, TransmitUnavailable, LoopEnds, MarkBusy, ClearFlag, Return, Handling, InsertPcs
  <2> QED
    BY <2>1, ContentsKept DEF Length, InHand, Handling
<1>4. CASE BeginDirect \/ TransmitAvailable
  <2>1. /\ pc \notin Handling \cup InsertPcs /\ pc' \notin InsertPcs
        /\ pc' \in Handling => held' = DirectItem
        /\ ring' = ring /\ hits' = hits /\ accepted' = accepted /\ gone' = gone
    BY <1>4 DEF BeginDirect, Begin, CallRecovery, TransmitAvailable, Handling, InsertPcs
  <2>2. Identified(DirectItem) = {}
    BY DEF Identified, DirectItem, NoItem
  <2> QED
    BY <2>1, <2>2, ContentsKept DEF Length, InHand, Handling
<1>5. CASE SetHeader \/ CheckState \/ FifoFull \/ HandOverFails
  <2>1. /\ pc \in Handling /\ pc' \in Handling /\ pc \notin InsertPcs /\ pc' \notin InsertPcs
        /\ held' = held
        /\ ring' = ring /\ hits' = hits /\ accepted' = accepted /\ gone' = gone
    BY <1>5 DEF SetHeader, CheckState, FifoFull, HandOverFails, Handling, InsertPcs
  <2> QED
    BY <2>1, ContentsKept DEF Length, InHand, Handling
<1>6. CASE HandOver
  <2>1. /\ pc = "handOver" /\ pc' = "mark" /\ gone' = gone \cup Identified(held)
        /\ ring' = ring /\ hits' = hits /\ accepted' = accepted
    BY <1>6 DEF HandOver
  <2> QED
    BY <2>1, ContentsKept DEF Length, InHand, Handling, InsertPcs
<1>7. CASE SendGivesUp
  <2>1. /\ pc \in {"busy", "error"} /\ pc' = "idle" /\ held = DirectItem
        /\ ring' = ring /\ hits' = hits /\ accepted' = accepted /\ gone' = gone
    BY <1>7 DEF SendGivesUp, Return
  <2>2. Identified(DirectItem) = {}
    BY DEF Identified, DirectItem, NoItem
  <2> QED
    BY <2>1, <2>2, ContentsKept DEF Length, InHand, Handling, InsertPcs
<1>8. CASE TakeMessage
  <2> SUFFICES ASSUME Clean' PROVE InOnePlace'
    BY DEF ContentsInv
  <2>1. /\ pc = "loop" /\ pc' = "header" /\ hits' = hits /\ ring.count > 0
        /\ ring' = Dequeued(ring) /\ held' = Taken(ring)
        /\ accepted' = accepted /\ gone' = gone
    BY <1>8 DEF TakeMessage
  <2>2. /\ Length = ring.count /\ InHand = {} /\ Length' = ring'.count
        /\ InHand' = Identified(Taken(ring))
    BY <2>1 DEF Length, InHand, InsertPcs
  <2>3. InOnePlace
    BY <2>1 DEF Clean, ContentsInv
  <2>4. /\ Sound(ring', ring'.count)
        /\ Numbers(ring, ring.count) = Numbers(ring', ring'.count) \cup {Taken(ring).n}
        /\ Taken(ring).n \notin Numbers(ring', ring'.count)
    BY <2>1, <2>2, <2>3, <1>a, DequeueKeepsSound, DequeuedTyped DEF InOnePlace
  <2>5. Taken(ring).n \in 1 .. accepted
    BY <2>2, <2>3, <2>4 DEF InOnePlace
  <2>6. Identified(Taken(ring)) = {Taken(ring).n}
    BY <2>5, <1>a DEF Identified
  <2>7. held'.n # 0
    BY <2>1, <2>5, <1>a
  <2> QED
    BY <2>1, <2>2, <2>3, <2>4, <2>6, <2>7 DEF InOnePlace
<1>9. CASE PutBack
  <2> SUFFICES ASSUME Clean' PROVE InOnePlace'
    BY DEF ContentsInv
  <2>1. PICK item \in TxItem :
          /\ ring' = Placed(ring, item) /\ hits' = hits \cup StraysNow(ring, item)
          /\ item.n = held.n /\ item.retried
    <3>1. CASE pc = "busy"
      BY <1>9, <3>1, <1>a, DemotedTyped DEF PutBack
    <3>2. CASE pc # "busy"
      <4>1. /\ [held EXCEPT !.retried = TRUE] \in TxItem
            /\ [held EXCEPT !.retried = TRUE].n = held.n
            /\ [held EXCEPT !.retried = TRUE].retried
        BY <1>a DEF TxItem
      <4> QED
        BY <1>9, <3>2, <4>1 DEF PutBack
    <3> QED
      BY <3>1, <3>2
  <2>2. /\ pc \in {"busy", "error"} /\ pc' = "tail" /\ held # DirectItem
        /\ accepted' = accepted /\ gone' = gone /\ ring.count < Size
    BY <1>9 DEF PutBack, TypeInv, Room
  <2>3. Clean /\ ~Strays(ring, item)
    BY <2>1 DEF Clean, StraysNow
  <2>4. InOnePlace
    BY <2>3 DEF ContentsInv
  <2>5. Agree(ring)
    BY <2>2, <2>3, <1>a, <1>b, AgreeBetween DEF Clean
  <2>6. /\ Length = ring.count /\ InHand = {item.n} /\ InHand' = {}
        /\ Length' = ring'.count + 1 /\ ring'.count = ring.count
        /\ pc' \notin Handling
    BY ItemsAssumption, <2>1, <2>2, <2>4, <1>a, PlacedTyped
    DEF InOnePlace, Length, InHand, Identified, InsertPcs, Handling
  <2>7. item.n \notin Numbers(ring, ring.count) /\ Sound(ring, ring.count)
    BY <2>4, <2>6 DEF InOnePlace
  <2>8. /\ Sound(ring', ring.count + 1)
        /\ Numbers(ring', ring.count + 1) = Numbers(ring, ring.count) \cup {item.n}
    BY <2>1, <2>2, <2>3, <2>5, <2>7, <1>a, InsertKeepsSound
  <2> QED
    BY <2>2, <2>4, <2>6, <2>8 DEF InOnePlace
<1>10. CASE ReadTail \/ ReadCount
  BY <1>10, ContentsKept DEF ReadTail, ReadCount, Length, InHand, InsertPcs, Handling
<1>11. CASE StoreTail
  <2>1. /\ pc = "tailStore" /\ pc' = "count" /\ hits' = hits
        /\ accepted' = accepted /\ gone' = gone /\ ring' = [ring EXCEPT !.tail = After(reg)]
    BY <1>11 DEF StoreTail
  <2>2. ring'.slot = ring.slot /\ ring'.head = ring.head /\ ring'.count = ring.count
    BY <2>1, <1>a DEF Ring
  <2> QED
    BY <2>1, <2>2, ContentsKept DEF Length, InHand, InsertPcs, Handling
<1>12. CASE StoreCount
  <2>1. /\ pc = "countStore" /\ pc' \in {"idle", "recover"} /\ hits' = hits
        /\ accepted' = accepted /\ gone' = gone /\ ring' = [ring EXCEPT !.count = reg + 1]
    BY <1>12 DEF StoreCount, Return
  <2>2. ring'.slot = ring.slot /\ ring'.head = ring.head /\ ring'.count = reg + 1
    BY <2>1, <1>a DEF Ring
  <2>3. Clean => reg = ring.count
    BY <2>1 DEF Clean, CountersInv
  <2>4. Clean' => Length' = Length
    BY <2>1, <2>2, <2>3 DEF Clean, Length, InsertPcs
  <2> QED
    BY <2>1, <2>2, <2>4, ContentsKept DEF InHand, Handling
<1>13. CASE InterruptWithoutMessage
  BY <1>13, ContentsKept DEF InterruptWithoutMessage, TransmitComplete, Length, InHand,
     Handling
<1>14. CASE InterruptSends
  <2> SUFFICES ASSUME Clean' PROVE InOnePlace'
    BY DEF ContentsInv
  <2>1. /\ UNCHANGED <<pc, held>> /\ hits' = hits \cup RingHit \cup KickHit /\ ring.count > 0
        /\ ring' = Dequeued(ring) /\ accepted' = accepted
        /\ gone' = gone \cup Identified(Taken(ring))
    BY <1>14 DEF InterruptSends, TransmitComplete
  <2>2. pc \notin InsertPcs /\ Clean
    BY <2>1 DEF Clean, RingHit
  <2>3. Length = ring.count /\ Length' = ring'.count /\ InHand' = InHand
    BY <2>1, <2>2 DEF Length, InHand
  <2>4. InOnePlace
    BY <2>2 DEF ContentsInv
  <2>5. /\ Sound(ring', ring'.count)
        /\ Numbers(ring, ring.count) = Numbers(ring', ring'.count) \cup {Taken(ring).n}
        /\ Taken(ring).n \notin Numbers(ring', ring'.count)
    BY <2>1, <2>3, <2>4, <1>a, DequeueKeepsSound, DequeuedTyped DEF InOnePlace
  <2>6. Taken(ring).n \in 1 .. accepted
    BY <2>3, <2>4, <2>5 DEF InOnePlace
  <2>7. Identified(Taken(ring)) = {Taken(ring).n}
    BY <2>6, <1>a DEF Identified
  <2> QED
    BY <2>1, <2>3, <2>4, <2>5, <2>7 DEF InOnePlace
<1>15. CASE InterruptPutsBack
  <2> SUFFICES ASSUME Clean' PROVE InOnePlace'
    BY DEF ContentsInv
  <2> DEFINE item == [Taken(ring) EXCEPT !.retried = TRUE]
             d == Dequeued(ring)
  <2>1. /\ UNCHANGED <<pc, held>> /\ ring.count > 0 /\ ring' = Inserted(d, item)
        /\ hits' = hits \cup RingHit \cup FlagHit \cup StraysNow(d, item)
        /\ accepted' = accepted /\ gone' = gone
    BY <1>15 DEF InterruptPutsBack, TransmitComplete
  <2>2. Taken(ring) \in TxItem
    BY ItemsAssumption, <2>1, <1>a, TakenTyped
  <2>3. item \in TxItem /\ item.n = Taken(ring).n /\ item.retried
    BY <2>2 DEF TxItem
  <2> HIDE DEF item
  <2>4. pc \notin InsertPcs /\ Clean /\ ~Strays(d, item)
    BY <2>1 DEF Clean, RingHit, StraysNow
  <2>5. Length = ring.count /\ Length' = ring'.count /\ InHand' = InHand
    BY <2>1, <2>4 DEF Length, InHand
  <2>6. InOnePlace
    BY <2>4 DEF ContentsInv
  <2>7. Agree(d) /\ d \in Ring /\ d.count = ring.count - 1
    BY <2>1, <2>4, <1>a, <1>b, AgreeBetween, DequeuedAgrees, DequeuedTyped DEF Clean, InsertPcs
  <2>8. /\ Sound(d, d.count)
        /\ Numbers(ring, ring.count) = Numbers(d, d.count) \cup {item.n}
        /\ item.n \notin Numbers(d, d.count)
    BY <2>1, <2>3, <2>5, <2>6, <2>7, <1>a, DequeueKeepsSound DEF InOnePlace
  <2> HIDE DEF d
  <2>9. d.count < Size
    BY <2>7, <1>a, SizeIsNat
  <2>10. /\ Sound(Placed(d, item), d.count + 1)
         /\ Numbers(Placed(d, item), d.count + 1) = Numbers(d, d.count) \cup {item.n}
    BY <2>3, <2>4, <2>7, <2>8, <2>9, InsertKeepsSound
  <2>11. /\ ring'.slot = Placed(d, item).slot /\ ring'.head = Placed(d, item).head
         /\ ring'.count = d.count + 1
    BY ItemsAssumption, <2>1, <2>3, <2>7, <2>9, InsertedTyped, PlacedTyped
  <2>12. /\ Sound(ring', ring'.count)
         /\ Numbers(ring', ring'.count) = Numbers(ring, ring.count)
    BY <2>8, <2>10, <2>11, SameSound
  <2> QED
    BY <2>1, <2>5, <2>6, <2>12 DEF InOnePlace
<1> QED
  BY <1>0, <1>1, <1>2, <1>3, <1>4, <1>5, <1>6, <1>7, <1>8, <1>9, <1>10, <1>11, <1>12, <1>13,
     <1>14, <1>15
  DEF Next, MainLoop, Interrupt, InterruptFindsFifoFull, InterruptFails

-----------------------------------------------------------------------------
(* The properties, from the invariants.                                    *)
LEMMA LengthBounds ==
  ASSUME TypeInv
  PROVE  Length \in 0 .. Size /\ ring.count \in 0 .. Length
<1>1. ring.count \in 0 .. Size /\ (pc \in InsertPcs => ring.count < Size)
  BY DEF TypeInv, TypeOK, Room, Ring
<1> QED
  BY <1>1, SizeIsNat DEF Length

LEMMA QueueItems ==
  ASSUME TypeInv, NEW i \in 1 .. Length
  PROVE  Queue[i] = At(ring, i - 1) /\ i - 1 \in 0 .. Length - 1
BY LengthBounds, SizeIsNat DEF Queue, Contents

LEMMA DistinctCounted ==
  ASSUME TypeInv, Sound(ring, Length)
  PROVE  /\ {Queue[i].n : i \in 1 .. Length} = Numbers(ring, Length)
         /\ Cardinality(Numbers(ring, Length)) = Length
<1> DEFINE f == [i \in 1 .. Length |-> Queue[i].n]
<1>1. Length \in Nat
  BY LengthBounds, SizeIsNat
<1>2. {Queue[i].n : i \in 1 .. Length} = Numbers(ring, Length)
  <2>1. ASSUME NEW i \in 1 .. Length PROVE Queue[i].n \in Numbers(ring, Length)
    BY QueueItems DEF Numbers
  <2>2. ASSUME NEW m \in 0 .. Length - 1
        PROVE  \E i \in 1 .. Length : Queue[i].n = At(ring, m).n
    <3>1. m + 1 \in 1 .. Length /\ (m + 1) - 1 = m
      BY <1>1
    <3> QED
      BY <3>1, QueueItems
  <2> QED
    BY <2>1, <2>2 DEF Numbers
<1>3. f \in [1 .. Length -> Numbers(ring, Length)]
  BY <1>2
<1>4. ASSUME NEW i \in 1 .. Length, NEW j \in 1 .. Length, i # j PROVE f[i] # f[j]
  <2>1. /\ f[i] = At(ring, i - 1).n /\ f[j] = At(ring, j - 1).n
        /\ i - 1 \in 0 .. Length - 1 /\ j - 1 \in 0 .. Length - 1
    BY QueueItems
  <2>2. i - 1 < j - 1 \/ j - 1 < i - 1
    BY <1>1, <1>4
  <2> QED
    BY <2>1, <2>2 DEF Sound, Distinct
<1>5. f \in Injection(1 .. Length, Numbers(ring, Length))
  BY <1>3, <1>4 DEF Injection, IsInjective
<1>6. f \in Surjection(1 .. Length, Numbers(ring, Length))
  BY <1>2, <1>3 DEF Surjection
<1>7. ExistsBijection(1 .. Length, Numbers(ring, Length))
  BY <1>5, <1>6 DEF ExistsBijection, Bijection
<1> QED
  BY <1>1, <1>2, <1>7, FS_CountingElements

LEMMA InOnePlaceCounts ==
  TypeInv /\ ContentsInv => MessagesAccountedFor
<1> SUFFICES ASSUME TypeInv, ContentsInv, Clean PROVE MessagesAccountedFor
  BY DEF MessagesAccountedFor, Clean
<1>1. InOnePlace
  BY DEF ContentsInv
<1>2. /\ {Queue[i].n : i \in 1 .. Length} = Numbers(ring, Length)
      /\ Cardinality(Numbers(ring, Length)) = Length
  BY <1>1, DistinctCounted DEF InOnePlace
<1> QED
  BY <1>1, <1>2 DEF MessagesAccountedFor, InOnePlace

LEMMA SoundIsOrdered ==
  TypeInv /\ ContentsInv => OnlyRetriesAreOvertaken
<1> SUFFICES ASSUME TypeInv, ContentsInv, Clean PROVE OnlyRetriesAreOvertaken
  BY DEF OnlyRetriesAreOvertaken, Clean
<1>1. Sorted(ring, Length) /\ Distinct(ring, Length) /\ FreshInOrder(ring, Length)
  BY DEF ContentsInv, InOnePlace, Sound
<1>2. Length \in Nat /\ ring.count \in Nat /\ ring.count <= Length /\ ring \in Ring
      /\ Length <= Size
  BY LengthBounds, SizeIsNat DEF TypeInv, TypeOK
<1>3. ASSUME NEW i \in 1 .. ring.count, NEW j \in 1 .. ring.count, i < j
      PROVE  At(ring, i - 1).prio <= At(ring, j - 1).prio
  <2>1. i - 1 \in 0 .. Length - 1 /\ j - 1 \in 0 .. Length - 1 /\ i - 1 < j - 1
    BY <1>2, <1>3
  <2> QED
    BY <2>1, <1>1 DEF Sorted
<1>4. ASSUME NEW i \in 1 .. Length, NEW j \in 1 .. Length, ~Queue[i].retried,
             Queue[j].cls = Queue[i].cls, Queue[j].n > Queue[i].n, ~Queue[j].retried
      PROVE  i < j
  <2>1. /\ Queue[i] = At(ring, i - 1) /\ i - 1 \in 0 .. Length - 1
        /\ Queue[j] = At(ring, j - 1) /\ j - 1 \in 0 .. Length - 1
    BY QueueItems
  <2>2. At(ring, i - 1).n \in Int /\ At(ring, j - 1).n \in Int
    <3>1. i - 1 \in 0 .. Size /\ j - 1 \in 0 .. Size
      BY <2>1, <1>2, SizeIsNat
    <3> QED
      BY ItemsAssumption, <3>1, <1>2, AtTyped DEF TxItem
  <2>3. ~(j - 1 < i - 1)
    <3> SUFFICES ASSUME j - 1 < i - 1 PROVE FALSE
      OBVIOUS
    <3>1. At(ring, j - 1).n < At(ring, i - 1).n
      BY <2>1, <1>1, <1>4 DEF FreshInOrder
    <3> QED
      BY <3>1, <2>1, <2>2, <1>4
  <2>4. i # j
    BY <2>1, <2>2, <1>4
  <2> QED
    BY <2>3, <2>4
<1> QED
  BY <1>3, <1>4 DEF OnlyRetriesAreOvertaken

\* Every variable keeps its type and the queue its bounds, whatever the
\* interrupt does to an insertion.
THEOREM MessengerStaysTyped == Spec => []TypeOK
<1>1. TypeInv => TypeOK
  BY DEF TypeInv
<1> QED
  BY <1>1, TypeInit, TypeStep, PTL DEF Spec

\* The invariants of the driver, the counters and the contents.
THEOREM MessengerInvariant == Spec => [](TypeInv /\ DriverInv /\ CountersInv /\ ContentsInv)
<1>1. Init => TypeInv /\ DriverInv /\ CountersInv /\ ContentsInv
  BY TypeInit, DriverInit, CountersInit, ContentsInit
<1>2. TypeInv /\ DriverInv /\ CountersInv /\ ContentsInv /\ [Next]_vars
        => (TypeInv /\ DriverInv /\ CountersInv /\ ContentsInv)'
  <2>1. TypeInv => TypeOK
    BY DEF TypeInv
  <2> QED
    BY <2>1, TypeStep, DriverStep, CountersStep, ContentsStep
<1> QED
  BY <1>1, <1>2, PTL DEF Spec

\* Head, tail and count agree unless an insertion was interrupted.
THEOREM CountersStayAgreed == Spec => []CountersAgree
<1>1. CountersInv => CountersAgree
  BY DEF CountersInv
<1> QED
  BY <1>1, MessengerInvariant, PTL

\* Unless an insertion was interrupted or shifted past slot 0, no message is
\* lost or doubled: it is queued once, being sent, sent, or cleared.
THEOREM NoMessageIsLost == Spec => []MessagesAccountedFor
BY InOnePlaceCounts, MessengerInvariant, PTL

\* The queue is sorted by urgency, and only a message put back is overtaken
\* within its class.
THEOREM OnlyRetriesOvertaken == Spec => []OnlyRetriesAreOvertaken
BY SoundIsOrdered, MessengerInvariant, PTL

\* One interrupt between header and hand-over never sends a message under the
\* header of another, unless a transmission given up is still about.
THEOREM HeadersStayOwn == Spec => []FramesKeepTheirHeader
<1>1. DriverInv => FramesKeepTheirHeader
  BY DEF DriverInv, OneSender, FramesKeepTheirHeader
<1> QED
  BY <1>1, MessengerInvariant, PTL

\* The flag says what the driver's state is, but for an interrupt just before
\* it is cleared and one just before it is raised at the end of a recovery.
THEOREM FlagIsTold == Spec => []FlagTellsState
<1>1. DriverInv => FlagTellsState
  BY DEF DriverInv
<1> QED
  BY <1>1, MessengerInvariant, PTL
=============================================================================
