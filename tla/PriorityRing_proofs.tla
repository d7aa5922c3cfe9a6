-------------------------- MODULE PriorityRing_proofs --------------------------
(***************************************************************************)
(* Lemmas about the rings of CanMessenger, for every size and every set of *)
(* items: what each position holds after an insertion and after a removal, *)
(* and what of the order of a queue both keep.                             *)
(***************************************************************************)
EXTENDS PriorityRing, TLAPS, WellFoundedInduction

-----------------------------------------------------------------------------
(* Least elements and positions in the array.                              *)
LEMMA LeastExists ==
  ASSUME NEW S \in SUBSET Nat, S # {}
  PROVE  \E i \in S : \A j \in S : i <= j
<1>1. \E i \in S : \A j \in S : ~(<<j, i>> \in OpToRel(<, Nat))
  BY NatLessThanWellFounded, WFMin, Zenon
<1>2. PICK i \in S : \A j \in S : ~(<<j, i>> \in OpToRel(<, Nat))
  BY <1>1
<1>3. \A j \in S : i <= j
  <2>1. SUFFICES ASSUME NEW j \in S, j < i PROVE FALSE
    OBVIOUS
  <2>2. <<j, i>> \in OpToRel(<, Nat)
    BY <2>1 DEF OpToRel
  <2> QED
    BY <2>2, <1>2
<1> QED
  BY <1>3

LEMMA FirstIsLeast ==
  ASSUME NEW S \in SUBSET Nat, S # {}
  PROVE  First(S) \in S /\ \A j \in S : First(S) <= j
BY LeastExists DEF First

LEMMA Wrapped ==
  ASSUME NEW x \in Nat, x < 2 * Size
  PROVE  x % Size = IF x < Size THEN x ELSE x - Size
<1>1. Size \in Nat /\ Size > 0
  BY SizeAssumption
<1> QED
  BY <1>1

LEMMA ModInSlots ==
  ASSUME NEW x \in Int
  PROVE  x % Size \in Slots
BY SizeAssumption DEF Slots

(* The slots of a ring, case by case: where its i-th item is, which slot   *)
(* precedes it, and which follows.                                         *)
LEMMA Positions ==
  ASSUME NEW r \in Ring, NEW i \in 0 .. Size
  PROVE  /\ Pos(r, i) \in Slots
         /\ Pos(r, i) = IF r.head + i < Size THEN r.head + i ELSE r.head + i - Size
<1>1. r.head \in Nat /\ r.head < Size /\ Size \in Nat /\ Size > 0
  BY SizeAssumption DEF Ring, Slots
<1>2. r.head + i \in Nat /\ r.head + i < 2 * Size
  BY <1>1
<1> QED
  BY <1>1, <1>2, Wrapped, ModInSlots DEF Pos

LEMMA NextSlot ==
  ASSUME NEW p \in Slots
  PROVE  /\ After(p) \in Slots
         /\ After(p) = IF p + 1 = Size THEN 0 ELSE p + 1
         /\ Before(p) \in Slots
         /\ Before(p) = IF p = 0 THEN Size - 1 ELSE p - 1
<1>1. p \in Nat /\ p < Size /\ Size \in Nat /\ Size > 0
  BY SizeAssumption DEF Slots
<1>2. /\ p + 1 \in Nat /\ p + 1 < 2 * Size
      /\ p - 1 + Size \in Nat /\ p - 1 + Size < 2 * Size
  BY <1>1
<1> QED
  BY <1>1, <1>2, Wrapped, ModInSlots DEF After, Before

LEMMA Neighbours ==
  ASSUME NEW r \in Ring, NEW i \in 0 .. Size - 1
  PROVE  Before(Pos(r, i + 1)) = Pos(r, i) /\ After(Pos(r, i)) = Pos(r, i + 1)
<1>1. r.head \in Nat /\ r.head < Size /\ Size \in Nat /\ Size > 0
  BY SizeAssumption DEF Ring, Slots
<1>2. i \in 0 .. Size /\ i + 1 \in 0 .. Size
  BY <1>1
<1>3. /\ Pos(r, i) \in Slots /\ Pos(r, i + 1) \in Slots
      /\ Pos(r, i) = IF r.head + i < Size THEN r.head + i ELSE r.head + i - Size
      /\ Pos(r, i + 1) = IF r.head + (i + 1) < Size THEN r.head + (i + 1)
                         ELSE r.head + (i + 1) - Size
  BY <1>2, Positions
<1>4. /\ After(Pos(r, i)) = IF Pos(r, i) + 1 = Size THEN 0 ELSE Pos(r, i) + 1
      /\ Before(Pos(r, i + 1)) = IF Pos(r, i + 1) = 0 THEN Size - 1 ELSE Pos(r, i + 1) - 1
  BY <1>3, NextSlot
<1> QED
  BY <1>1, <1>3, <1>4

LEMMA SizeIsNat == Size \in Nat /\ Size >= 1
BY SizeAssumption

LEMMA AtTyped ==
  ASSUME NEW r \in Ring, NEW i \in 0 .. Size
  PROVE  At(r, i) \in Items
BY Positions DEF At, Ring

-----------------------------------------------------------------------------
(* Insertion: the items before the place of the new one stay where they    *)
(* are, and the others move up by one, as long as the shift stays inside   *)
(* the array.                                                              *)
Agree(r) == r.tail = (r.head + r.count) % Size
Place(r, item) == r.count - Shift(r, item)

LEMMA PlaceFound ==
  ASSUME NEW r \in Ring, NEW item \in Items
  PROVE  /\ Place(r, item) \in 0 .. r.count
         /\ Shift(r, item) \in 0 .. r.count
         /\ \A i \in 0 .. Place(r, item) - 1 : At(r, i).prio <= item.prio
         /\ \A i \in Place(r, item) .. r.count - 1 :
              At(r, Place(r, item)).prio > item.prio
         /\ LessUrgent(r, item) # {} =>
              InsertPos(r, item) = Pos(r, Place(r, item))
         /\ LessUrgent(r, item) = {} =>
              InsertPos(r, item) = r.tail /\ Place(r, item) = r.count
<1>1. r.count \in Nat /\ r.count <= Size
  BY SizeIsNat DEF Ring
<1>2. \A i \in 0 .. r.count - 1 : At(r, i).prio \in Int
  BY <1>1, AtTyped, SizeIsNat, UrgencyAssumption
<1>3. item.prio \in Int
  BY UrgencyAssumption
<1>4. CASE LessUrgent(r, item) = {}
  BY <1>1, <1>2, <1>3, <1>4 DEF Place, Shift, InsertPos, LessUrgent
<1>5. CASE LessUrgent(r, item) # {}
  <2>1. LessUrgent(r, item) \in SUBSET Nat
    BY <1>1 DEF LessUrgent
  <2>2. /\ First(LessUrgent(r, item)) \in LessUrgent(r, item)
        /\ \A j \in LessUrgent(r, item) : First(LessUrgent(r, item)) <= j
    BY <2>1, <1>5, FirstIsLeast
  <2>3. /\ First(LessUrgent(r, item)) \in 0 .. r.count - 1
        /\ At(r, First(LessUrgent(r, item))).prio > item.prio
    BY <2>2 DEF LessUrgent
  <2>4. Place(r, item) = First(LessUrgent(r, item))
    BY <1>5, <2>3, <1>1 DEF Place, Shift
  <2>5. \A i \in 0 .. Place(r, item) - 1 : i \notin LessUrgent(r, item)
    BY <2>2, <2>3, <2>4
  <2>6. \A i \in 0 .. Place(r, item) - 1 : At(r, i).prio <= item.prio
    BY <2>5, <2>4, <2>3, <1>1, <1>2, <1>3 DEF LessUrgent
  <2> QED
    BY <2>3, <2>4, <2>6, <1>5, <1>1 DEF InsertPos, Shift
<1> QED
  BY <1>4, <1>5

LEMMA PlacedTyped ==
  ASSUME NEW r \in Ring, NEW item \in Items
  PROVE  /\ Placed(r, item) \in Ring
         /\ Placed(r, item).head = r.head
         /\ Placed(r, item).tail = r.tail
         /\ Placed(r, item).count = r.count
BY NextSlot DEF Placed, Ring

LEMMA InsertedTyped ==
  ASSUME NEW r \in Ring, NEW item \in Items, r.count < Size
  PROVE  /\ Inserted(r, item) \in Ring
         /\ Inserted(r, item).count = r.count + 1
         /\ Inserted(r, item).head = r.head
         /\ Inserted(r, item).tail = After(r.tail)
         /\ Inserted(r, item).slot = Placed(r, item).slot
<1>1. r.count + 1 \in 0 .. Size /\ After(r.tail) \in Slots
  BY NextSlot, SizeIsNat DEF Ring
<1> QED
  BY <1>1, PlacedTyped DEF Inserted, Ring

LEMMA PlacedContents ==
  ASSUME NEW r \in Ring, NEW item \in Items, r.count < Size, Agree(r), ~Strays(r, item),
         NEW i \in 0 .. r.count
  PROVE  At(Placed(r, item), i) =
           IF i < Place(r, item) THEN At(r, i)
           ELSE IF i = Place(r, item) THEN item ELSE At(r, i - 1)
<1> DEFINE k == Place(r, item)
           moved == {ToPos(r, j) : j \in 0 .. Shift(r, item) - 1}
<1>1. r.count \in Nat /\ r.head \in Nat /\ r.head < Size /\ Size \in Nat /\ r.tail \in Nat
  BY SizeIsNat DEF Ring, Slots
<1>2. r.tail = Pos(r, r.count)
  BY DEF Agree, Pos
<1>3. k \in 0 .. r.count /\ InsertPos(r, item) = Pos(r, k) /\ Shift(r, item) = r.count - k
  <2>1. /\ k \in 0 .. r.count /\ Shift(r, item) \in 0 .. r.count
        /\ LessUrgent(r, item) # {} => InsertPos(r, item) = Pos(r, k)
        /\ LessUrgent(r, item) = {} => InsertPos(r, item) = r.tail /\ k = r.count
    BY PlaceFound
  <2>2. InsertPos(r, item) = Pos(r, k)
    BY <2>1, <1>2
  <2>3. k = r.count - Shift(r, item)
    BY DEF Place
  <2> HIDE DEF k
  <2> QED
    BY <2>1, <2>2, <2>3, <1>1
<1>4. \A j \in 0 .. r.count - k - 1 : ToPos(r, j) = r.tail - j /\ j <= r.tail
  BY <1>1, <1>3, SizeAssumption DEF Strays, ToPos, Slots
<1>5. \A j \in 0 .. r.count - k - 1 : r.tail - j = Pos(r, r.count - j)
  <2> SUFFICES ASSUME NEW j \in 0 .. r.count - k - 1
               PROVE  r.tail - j = Pos(r, r.count - j)
    OBVIOUS
  <2>1. j <= r.tail /\ r.count - j \in 0 .. Size /\ r.count \in 0 .. Size
    BY <1>1, <1>3, <1>4
  <2>2. /\ r.tail = IF r.head + r.count < Size THEN r.head + r.count
                    ELSE r.head + r.count - Size
        /\ Pos(r, r.count - j) = IF r.head + r.count - j < Size THEN r.head + r.count - j
                                 ELSE r.head + r.count - j - Size
    BY <2>1, <1>1, <1>2, Positions
  <2> QED
    BY <2>1, <2>2, <1>1
<1>6. \A m \in k + 1 .. r.count : Pos(r, m) \in moved
  <2> SUFFICES ASSUME NEW m \in k + 1 .. r.count PROVE Pos(r, m) \in moved
    OBVIOUS
  <2>1. r.count - m \in 0 .. Shift(r, item) - 1 /\ r.count - (r.count - m) = m
    BY <1>1, <1>3
  <2>2. ToPos(r, r.count - m) = Pos(r, m)
    BY <2>1, <1>3, <1>4, <1>5
  <2> QED
    BY <2>1, <2>2
<1>7. \A m \in 0 .. k - 1 : Pos(r, m) \notin moved
  <2> SUFFICES ASSUME NEW m \in 0 .. k - 1, NEW j \in 0 .. r.count - k - 1,
                      Pos(r, m) = ToPos(r, j)
               PROVE  FALSE
    BY <1>3
  <2>1. Pos(r, m) = Pos(r, r.count - j)
    BY <1>4, <1>5
  <2>2. m \in 0 .. Size /\ r.count - j \in 0 .. Size /\ m < r.count - j /\ r.count - j < Size
    BY <1>1, <1>3
  <2> QED
    BY <2>1, <2>2, <1>1, Positions
<1>8. \A m \in 0 .. r.count : m # k => Pos(r, m) # Pos(r, k)
  BY <1>1, <1>3, Positions
<1>9. At(Placed(r, item), i) =
        IF Pos(r, i) = Pos(r, k) THEN item
        ELSE IF Pos(r, i) \in moved THEN r.slot[Before(Pos(r, i))] ELSE r.slot[Pos(r, i)]
  <2>1. Pos(r, i) \in Slots
    BY <1>1, Positions
  <2>2. Pos(Placed(r, item), i) = Pos(r, i)
    BY PlacedTyped DEF Pos
  <2> QED
    BY <2>1, <2>2, <1>3 DEF At, Placed, Ring
<1>10. CASE i < k
  BY <1>10, <1>3, <1>7, <1>8, <1>9, <1>1 DEF At
<1>11. CASE i = k
  BY <1>11, <1>3, <1>9, <1>1
<1>12. CASE i > k
  <2>1. Before(Pos(r, i)) = Pos(r, i - 1)
    <3>1. i - 1 \in 0 .. Size - 1 /\ (i - 1) + 1 = i
      BY <1>12, <1>1, <1>3
    <3> QED
      BY <3>1, Neighbours
  <2> QED
    BY <2>1, <1>12, <1>3, <1>6, <1>8, <1>9, <1>1 DEF At
<1> QED
  BY <1>10, <1>11, <1>12, <1>1, <1>3

-----------------------------------------------------------------------------
(* Removal: the items before the one taken stay, those after it move down. *)
LEMMA BestFound ==
  ASSUME NEW r \in Ring, r.count > 0
  PROVE  Best(r) \in 0 .. r.count - 1
<1> DEFINE prios == {At(r, i).prio : i \in 0 .. r.count - 1}
           best == {i \in 0 .. r.count - 1 : \A j \in 0 .. r.count - 1 :
                      At(r, i).prio <= At(r, j).prio}
<1>1. r.count \in Nat /\ r.count <= Size /\ Size \in Nat
  BY SizeIsNat DEF Ring
<1>2. \A i \in 0 .. r.count - 1 : At(r, i).prio \in Nat
  BY <1>1, AtTyped, UrgencyAssumption
<1>3. prios \in SUBSET Nat
  BY <1>2
<1>4. prios # {}
  <2>1. 0 \in 0 .. r.count - 1
    BY <1>1
  <2> QED
    BY <2>1
<1>5. \E p \in prios : \A q \in prios : p <= q
  BY <1>3, <1>4, LeastExists
<1>6. best # {}
  BY <1>5
<1>7. best \in SUBSET Nat
  BY <1>1
<1>8. First(best) \in best
  BY <1>6, <1>7, FirstIsLeast
<1> QED
  BY <1>8 DEF Best

LEMMA TakenTyped ==
  ASSUME NEW r \in Ring, r.count > 0
  PROVE  Taken(r) \in Items
BY BestFound, AtTyped, SizeIsNat DEF Taken, Ring

LEMMA DequeuedTyped ==
  ASSUME NEW r \in Ring, r.count > 0
  PROVE  /\ Dequeued(r) \in Ring
         /\ Dequeued(r).count = r.count - 1
         /\ Dequeued(r).tail = r.tail
         /\ Dequeued(r).head = After(r.head)
<1>1. r.count - 1 \in 0 .. Size /\ r.head \in Slots /\ After(r.head) \in Slots
  BY NextSlot, SizeIsNat DEF Ring
<1>2. \A p \in Slots : Before(p) \in Slots
  BY NextSlot
<1> QED
  BY <1>1, <1>2, VacantAssumption DEF Dequeued, Ring

LEMMA DequeuedPos ==
  ASSUME NEW r \in Ring, r.count > 0, NEW i \in 0 .. Size - 1
  PROVE  /\ Pos(Dequeued(r), i) = Pos(r, i + 1)
         /\ Pos(r, i + 1) \in Slots
<1>1. r.head \in Nat /\ r.head < Size /\ Size \in Nat /\ r.head \in Slots
  BY SizeIsNat DEF Ring, Slots
<1>2. i \in 0 .. Size /\ i + 1 \in 0 .. Size
  BY <1>1
<1>3. Dequeued(r) \in Ring /\ Dequeued(r).head = After(r.head)
  BY DequeuedTyped
<1>4. /\ Pos(r, i + 1) = IF r.head + (i + 1) < Size THEN r.head + (i + 1)
                         ELSE r.head + (i + 1) - Size
      /\ Pos(r, i + 1) \in Slots
  BY <1>2, Positions
<1>5. Pos(Dequeued(r), i) = IF After(r.head) + i < Size THEN After(r.head) + i
                           ELSE After(r.head) + i - Size
  BY <1>2, <1>3, Positions
<1>6. After(r.head) = IF r.head + 1 = Size THEN 0 ELSE r.head + 1
  BY <1>1, NextSlot
<1> QED
  BY <1>1, <1>2, <1>4, <1>5, <1>6

LEMMA DequeuedContents ==
  ASSUME NEW r \in Ring, r.count > 0, NEW i \in 0 .. r.count - 2
  PROVE  At(Dequeued(r), i) = IF i < Best(r) THEN At(r, i) ELSE At(r, i + 1)
<1> DEFINE b == Best(r)
           moved == {Pos(r, m) : m \in 1 .. b}
<1>1. r.count \in Nat /\ r.count <= Size /\ Size \in Nat /\ r.head \in Nat /\ r.head < Size
  BY SizeIsNat DEF Ring, Slots
<1>2. b \in 0 .. r.count - 1
  BY BestFound
<1>3. Pos(Dequeued(r), i) = Pos(r, i + 1) /\ Pos(r, i + 1) \in Slots
  <2>1. i \in 0 .. Size - 1
    BY <1>1
  <2> QED
    BY <2>1, DequeuedPos
<1>4. Pos(r, i + 1) # r.head
  <2>1. i + 1 \in 0 .. Size /\ i + 1 < Size
    BY <1>1
  <2> QED
    BY <2>1, <1>1, Positions
<1>5. At(Dequeued(r), i) =
        IF Pos(r, i + 1) \in moved THEN r.slot[Before(Pos(r, i + 1))]
        ELSE r.slot[Pos(r, i + 1)]
  BY <1>3, <1>4 DEF At, Dequeued, Ring
<1> HIDE DEF b
<1>6. CASE i < b
  <2>1. Pos(r, i + 1) \in moved
    BY <1>6, <1>1, <1>2
  <2>2. Before(Pos(r, i + 1)) = Pos(r, i)
    <3>1. i \in 0 .. Size - 1
      BY <1>1
    <3> QED
      BY <3>1, Neighbours
  <2> QED
    BY <2>1, <2>2, <1>5, <1>6 DEF At, b
<1>7. CASE i >= b
  <2>1. Pos(r, i + 1) \notin moved
    <3> SUFFICES ASSUME NEW m \in 1 .. b, Pos(r, m) = Pos(r, i + 1) PROVE FALSE
      OBVIOUS
    <3>1. m \in 0 .. Size /\ i + 1 \in 0 .. Size /\ m < i + 1 /\ i + 1 < Size
      BY <1>1, <1>2, <1>7
    <3> QED
      BY <3>1, <1>1, Positions
  <2> QED
    BY <2>1, <1>5, <1>7, <1>2, <1>1 DEF At, b
<1> QED
  BY <1>6, <1>7, <1>1, <1>2

(* Head, tail and count.                                                   *)
LEMMA InsertedAgrees ==
  ASSUME NEW r \in Ring, NEW item \in Items, r.count < Size, Agree(r)
  PROVE  Agree(Inserted(r, item))
<1>1. /\ r.count \in 0 .. Size /\ r.count + 1 \in 0 .. Size /\ Size \in Nat
      /\ r.head \in Nat /\ r.head < Size /\ r.tail \in Slots
  BY SizeIsNat DEF Ring, Slots
<1>2. r.tail = Pos(r, r.count)
  BY DEF Agree, Pos
<1>3. After(r.tail) = Pos(r, r.count + 1)
  <2>1. r.count \in 0 .. Size - 1
    BY <1>1
  <2> QED
    BY <2>1, <1>2, Neighbours
<1> QED
  BY <1>3, InsertedTyped DEF Agree, Pos

LEMMA DequeuedAgrees ==
  ASSUME NEW r \in Ring, r.count > 0, Agree(r)
  PROVE  Agree(Dequeued(r))
<1>1. /\ r.count \in 0 .. Size /\ r.count - 1 \in 0 .. Size /\ Size \in Nat
      /\ r.head \in Nat /\ r.head < Size /\ r.head \in Slots
  BY SizeIsNat DEF Ring, Slots
<1>2. r.tail = Pos(r, r.count)
  BY DEF Agree, Pos
<1>3. /\ Dequeued(r) \in Ring /\ Dequeued(r).head = After(r.head)
      /\ Dequeued(r).count = r.count - 1 /\ Dequeued(r).tail = r.tail
  BY DequeuedTyped
<1>4. Pos(Dequeued(r), r.count - 1) = Pos(r, r.count)
  <2>1. r.count - 1 \in 0 .. Size - 1 /\ (r.count - 1) + 1 = r.count
    BY <1>1
  <2> QED
    BY <2>1, DequeuedPos
<1> QED
  BY <1>2, <1>3, <1>4 DEF Agree, Pos

-----------------------------------------------------------------------------
(* The first len items of a queue that nothing has gone wrong with: sorted *)
(* by urgency, and no message twice.                                       *)
Sorted(r, len) ==
  \A i, j \in 0 .. len - 1 : i < j => At(r, i).prio <= At(r, j).prio
Distinct(r, len) ==
  \A i, j \in 0 .. len - 1 : i < j => At(r, i).n # At(r, j).n
Numbers(r, len) == {At(r, i).n : i \in 0 .. len - 1}

(* Where the item at position i was before an insertion at k, and before a *)
(* removal at b.                                                           *)
Moved(k, i) == IF i < k THEN i ELSE i - 1
Closed(b, i) == IF i < b THEN i ELSE i + 1

(* An insertion into a sorted queue: what is where, and that the items     *)
(* before the new one are at least as urgent, and those after it less.     *)
LEMMA InsertMoves ==
  ASSUME NEW r \in Ring, NEW item \in Items, r.count < Size, Agree(r), ~Strays(r, item),
         Sorted(r, r.count)
  PROVE  LET k == Place(r, item)
             s == Placed(r, item)
             c == r.count
         IN  /\ k \in 0 .. c /\ At(s, k) = item
             /\ \A i \in 0 .. k - 1 : At(r, i).prio <= item.prio
             /\ \A i \in k .. c - 1 : item.prio < At(r, i).prio
             /\ \A i \in 0 .. c : i # k =>
                  Moved(k, i) \in 0 .. c - 1 /\ At(s, i) = At(r, Moved(k, i))
             /\ \A i \in 0 .. c : /\ i < k => Moved(k, i) \in 0 .. k - 1
                                  /\ k < i => Moved(k, i) \in k .. c - 1
             /\ \A i, j \in 0 .. c : i < j /\ i # k /\ j # k => Moved(k, i) < Moved(k, j)
             /\ \A m \in 0 .. c - 1 : \E i \in 0 .. c : i # k /\ Moved(k, i) = m
<1> DEFINE k == Place(r, item)
           s == Placed(r, item)
           c == r.count
<1>1. c \in Nat /\ c < Size /\ Size \in Nat
  BY SizeIsNat DEF Ring
<1>2. /\ k \in 0 .. c
      /\ \A i \in 0 .. k - 1 : At(r, i).prio <= item.prio
      /\ \A i \in k .. c - 1 : At(r, k).prio > item.prio
  BY PlaceFound
<1>3. \A i \in 0 .. c : At(s, i) = IF i < k THEN At(r, i)
                                  ELSE IF i = k THEN item ELSE At(r, i - 1)
  BY PlacedContents
<1>4. \A i \in 0 .. c - 1 : At(r, i).prio \in Int
  BY <1>1, AtTyped, UrgencyAssumption
<1>5. item.prio \in Int
  BY UrgencyAssumption
<1>6. \A i \in k .. c - 1 : item.prio < At(r, i).prio
  <2> SUFFICES ASSUME NEW i \in k .. c - 1 PROVE item.prio < At(r, i).prio
    OBVIOUS
  <2>1. i \in 0 .. c - 1 /\ k \in 0 .. c - 1 /\ k <= i
    BY <1>1, <1>2
  <2>2. k < i => At(r, k).prio <= At(r, i).prio
    BY <2>1 DEF Sorted
  <2>3. At(r, k).prio > item.prio
    BY <1>2
  <2> QED
    BY <2>1, <2>2, <2>3, <1>4, <1>5
<1> HIDE DEF k, s, c
<1>7. \A i \in 0 .. c : i # k => Moved(k, i) \in 0 .. c - 1
  BY <1>1, <1>2 DEF Moved
<1>8. \A i \in 0 .. c : /\ i < k => Moved(k, i) \in 0 .. k - 1
                        /\ k < i => Moved(k, i) \in k .. c - 1
  BY <1>1, <1>2 DEF Moved
<1>9. \A i, j \in 0 .. c : i < j /\ i # k /\ j # k => Moved(k, i) < Moved(k, j)
  BY <1>1, <1>2 DEF Moved
<1>10. \A m \in 0 .. c - 1 : \E i \in 0 .. c : i # k /\ Moved(k, i) = m
  <2> SUFFICES ASSUME NEW m \in 0 .. c - 1
               PROVE  \E i \in 0 .. c : i # k /\ Moved(k, i) = m
    OBVIOUS
  <2>1. CASE m < k
    <3>1. m \in 0 .. c /\ m # k /\ Moved(k, m) = m
      BY <2>1, <1>1, <1>2 DEF Moved
    <3> QED
      BY <3>1
  <2>2. CASE m >= k
    <3>1. m + 1 \in 0 .. c /\ m + 1 # k /\ Moved(k, m + 1) = m
      BY <2>2, <1>1, <1>2 DEF Moved
    <3> QED
      BY <3>1
  <2> QED
    BY <2>1, <2>2, <1>2
<1>11. At(s, k) = item
  BY <1>2, <1>3
<1>12. \A i \in 0 .. c : i # k => At(s, i) = At(r, Moved(k, i))
  BY <1>2, <1>3 DEF Moved
<1>13. \A i \in 0 .. k - 1 : At(r, i).prio <= item.prio
  BY <1>2
<1>14. k \in 0 .. c
  BY <1>2
<1> QED
  BY <1>6, <1>7, <1>8, <1>9, <1>10, <1>11, <1>12, <1>13, <1>14 DEF k, s, c

(* A queue stays sorted, without a message twice, and holds one more.      *)
LEMMA InsertKeepsSorted ==
  ASSUME NEW r \in Ring, NEW item \in Items, r.count < Size, Agree(r), ~Strays(r, item),
         Sorted(r, r.count), Distinct(r, r.count), item.n \notin Numbers(r, r.count)
  PROVE  /\ Sorted(Placed(r, item), r.count + 1)
         /\ Distinct(Placed(r, item), r.count + 1)
         /\ Numbers(Placed(r, item), r.count + 1) = Numbers(r, r.count) \cup {item.n}
<1> DEFINE k == Place(r, item)
           s == Placed(r, item)
           c == r.count
<1>1. c \in Nat /\ c < Size /\ Size \in Nat /\ (c + 1) - 1 = c
  BY SizeIsNat DEF Ring
<1>2. /\ k \in 0 .. c /\ At(s, k) = item
      /\ \A i \in 0 .. k - 1 : At(r, i).prio <= item.prio
      /\ \A i \in k .. c - 1 : item.prio < At(r, i).prio
  BY InsertMoves
<1>3. \A i \in 0 .. c : i # k => Moved(k, i) \in 0 .. c - 1 /\ At(s, i) = At(r, Moved(k, i))
  BY InsertMoves
<1>4. \A i \in 0 .. c : /\ i < k => Moved(k, i) \in 0 .. k - 1
                        /\ k < i => Moved(k, i) \in k .. c - 1
  BY InsertMoves
<1>5. \A i, j \in 0 .. c : i < j /\ i # k /\ j # k => Moved(k, i) < Moved(k, j)
  BY InsertMoves
<1>6. \A m \in 0 .. c - 1 : \E i \in 0 .. c : i # k /\ Moved(k, i) = m
  BY InsertMoves
<1>7. \A i \in 0 .. c - 1 : At(r, i).n \in Numbers(r, c) /\ At(r, i).prio \in Int
  BY <1>1, AtTyped, UrgencyAssumption DEF Numbers
<1>8. item.prio \in Int /\ item.n \notin Numbers(r, c)
  BY UrgencyAssumption
<1>9. Sorted(r, c) /\ Distinct(r, c)
  OBVIOUS
<1> HIDE DEF k, s, c
<1>10. Sorted(s, c + 1)
  <2> SUFFICES ASSUME NEW i \in 0 .. c, NEW j \in 0 .. c, i < j
               PROVE  At(s, i).prio <= At(s, j).prio
    BY <1>1 DEF Sorted
  <2>1. CASE j = k
    <3>1. i # k /\ Moved(k, i) \in 0 .. k - 1
      BY <2>1, <1>1, <1>2, <1>4
    <3> QED
      BY <2>1, <3>1, <1>2, <1>3
  <2>2. CASE i = k
    <3>1. j # k /\ Moved(k, j) \in k .. c - 1 /\ Moved(k, j) \in 0 .. c - 1
      BY <2>2, <1>1, <1>2, <1>3, <1>4
    <3>2. item.prio < At(r, Moved(k, j)).prio
      BY <3>1, <1>2
    <3> QED
      BY <2>2, <3>1, <3>2, <1>2, <1>3, <1>7, <1>8
  <2>3. CASE i # k /\ j # k
    BY <2>3, <1>3, <1>5, <1>9 DEF Sorted
  <2> QED
    BY <2>1, <2>2, <2>3
<1>11. Distinct(s, c + 1)
  <2> SUFFICES ASSUME NEW i \in 0 .. c, NEW j \in 0 .. c, i < j
               PROVE  At(s, i).n # At(s, j).n
    BY <1>1 DEF Distinct
  <2>1. CASE i = k \/ j = k
    <3>1. (i = k => j # k) /\ (j = k => i # k)
      BY <1>1, <1>2
    <3> QED
      BY <2>1, <3>1, <1>2, <1>3, <1>7, <1>8
  <2>2. CASE i # k /\ j # k
    BY <2>2, <1>3, <1>5, <1>9 DEF Distinct
  <2> QED
    BY <2>1, <2>2
<1>12. Numbers(s, c + 1) = Numbers(r, c) \cup {item.n}
  <2>1. ASSUME NEW i \in 0 .. c PROVE At(s, i).n \in Numbers(r, c) \cup {item.n}
    BY <1>2, <1>3, <1>7
  <2>2. \A m \in 0 .. c - 1 : \E i \in 0 .. c : At(s, i).n = At(r, m).n
    BY <1>3, <1>6
  <2>3. At(s, k).n = item.n /\ k \in 0 .. c
    BY <1>2
  <2> QED
    BY <2>1, <2>2, <2>3, <1>1 DEF Numbers
<1> QED
  BY <1>10, <1>11, <1>12 DEF s, c

(* Wherever an insertion writes, the queue then holds nothing but the new  *)
(* item and some of those it held before.                                  *)
LEMMA InsertKeepsItems ==
  ASSUME NEW r \in Ring, NEW item \in Items, r.count < Size, Agree(r), NEW i \in 0 .. r.count
  PROVE  \/ At(Placed(r, item), i) = item
         \/ \E m \in 0 .. r.count - 1 : At(Placed(r, item), i) = At(r, m)
<1> DEFINE p == Pos(r, i)
           moved == {ToPos(r, j) : j \in 0 .. Shift(r, item) - 1}
<1>1. /\ r.count \in Nat /\ r.head \in Nat /\ r.head < Size /\ Size \in Nat
      /\ r.tail \in Nat /\ r.tail < Size
  BY SizeIsNat DEF Ring, Slots
<1>2. r.tail = Pos(r, r.count)
  BY DEF Agree, Pos
<1>3. p \in Slots /\ Pos(Placed(r, item), i) = p
  BY <1>1, Positions, PlacedTyped DEF Pos
<1>4. Shift(r, item) \in 0 .. r.count
  BY PlaceFound
<1>5. At(Placed(r, item), i) = IF p = InsertPos(r, item) THEN item
                               ELSE IF p \in moved THEN r.slot[Before(p)] ELSE r.slot[p]
  BY <1>3 DEF At, Placed, Ring
<1>6. CASE p \in moved
  <2>1. PICK j \in 0 .. Shift(r, item) - 1 : p = ToPos(r, j)
    BY <1>6
  <2>2. j \in Nat /\ j <= r.tail /\ p = r.tail - j
    BY <2>1, <1>1, <1>3, <1>4, SizeAssumption DEF ToPos, Slots
  <2>3. r.count - j \in 1 .. r.count /\ r.count - j \in 0 .. Size /\ r.count \in 0 .. Size
    BY <2>1, <1>1, <1>4
  <2>4. /\ r.tail = IF r.head + r.count < Size THEN r.head + r.count
                    ELSE r.head + r.count - Size
        /\ Pos(r, r.count - j) = IF r.head + (r.count - j) < Size THEN r.head + (r.count - j)
                                 ELSE r.head + (r.count - j) - Size
    BY <2>3, <1>1, <1>2, Positions
  <2>5. p = Pos(r, r.count - j)
    BY <2>2, <2>3, <2>4, <1>1
  <2> DEFINE m == r.count - j - 1
  <2>6. m \in 0 .. r.count - 1 /\ m \in 0 .. Size - 1 /\ m + 1 = r.count - j
    BY <2>3, <1>1
  <2>7. Before(p) = Pos(r, m)
    BY <2>5, <2>6, Neighbours
  <2>8. At(Placed(r, item), i) = item \/ At(Placed(r, item), i) = At(r, m)
    BY <2>7, <1>5, <1>6 DEF At
  <2> QED
    BY <2>6, <2>8
<1>7. CASE p \notin moved /\ i < r.count
  <2>1. i \in 0 .. r.count - 1
    BY <1>1, <1>7
  <2> QED
    BY <2>1, <1>5, <1>7 DEF At
<1>8. CASE p \notin moved /\ i = r.count
  <2>1. CASE LessUrgent(r, item) = {}
    BY <2>1, <1>2, <1>5, <1>8, PlaceFound
  <2>2. CASE LessUrgent(r, item) # {}
    <3>1. First(LessUrgent(r, item)) \in LessUrgent(r, item)
      BY <2>2, <1>1, FirstIsLeast DEF LessUrgent
    <3>2. Shift(r, item) >= 1
      BY <2>2, <3>1, <1>1 DEF LessUrgent, Shift
    <3>3. ToPos(r, 0) = r.tail /\ 0 \in 0 .. Shift(r, item) - 1
      BY <3>2, <1>1, <1>4 DEF ToPos
    <3> QED
      BY <3>3, <1>2, <1>8
  <2> QED
    BY <2>1, <2>2
<1> QED
  BY <1>1, <1>6, <1>7, <1>8

(* A removal: what is where.                                               *)
LEMMA RemoveCloses ==
  ASSUME NEW r \in Ring, r.count > 0
  PROVE  LET b == Best(r)
             d == Dequeued(r)
             c == r.count
         IN  /\ b \in 0 .. c - 1 /\ Taken(r) = At(r, b)
             /\ \A i \in 0 .. c - 2 : /\ Closed(b, i) \in 0 .. c - 1 /\ Closed(b, i) # b
                                      /\ At(d, i) = At(r, Closed(b, i))
             /\ \A i, j \in 0 .. c - 2 : i < j => Closed(b, i) < Closed(b, j)
             /\ \A m \in 0 .. c - 1 : m # b => \E i \in 0 .. c - 2 : Closed(b, i) = m
<1> DEFINE b == Best(r)
           d == Dequeued(r)
           c == r.count
<1>1. c \in Nat /\ c > 0 /\ c <= Size
  BY SizeIsNat DEF Ring
<1>2. b \in 0 .. c - 1 /\ Taken(r) = At(r, b)
  BY BestFound DEF Taken
<1>3. \A i \in 0 .. c - 2 : At(d, i) = At(r, Closed(b, i))
  BY DequeuedContents DEF Closed
<1> HIDE DEF b, d, c
<1>4. \A i \in 0 .. c - 2 : Closed(b, i) \in 0 .. c - 1 /\ Closed(b, i) # b
  BY <1>1, <1>2 DEF Closed
<1>5. \A i, j \in 0 .. c - 2 : i < j => Closed(b, i) < Closed(b, j)
  BY <1>1, <1>2 DEF Closed
<1>6. \A m \in 0 .. c - 1 : m # b => \E i \in 0 .. c - 2 : Closed(b, i) = m
  <2> SUFFICES ASSUME NEW m \in 0 .. c - 1, m # b
               PROVE  \E i \in 0 .. c - 2 : Closed(b, i) = m
    OBVIOUS
  <2>1. CASE m < b
    <3>1. m \in 0 .. c - 2 /\ Closed(b, m) = m
      BY <2>1, <1>1, <1>2 DEF Closed
    <3> QED
      BY <3>1
  <2>2. CASE m > b
    <3>1. m - 1 \in 0 .. c - 2 /\ Closed(b, m - 1) = m
      BY <2>2, <1>1, <1>2 DEF Closed
    <3> QED
      BY <3>1
  <2> QED
    BY <2>1, <2>2, <1>2
<1> QED
  BY <1>2, <1>3, <1>4, <1>5, <1>6 DEF b, d, c

LEMMA RemoveKeepsSorted ==
  ASSUME NEW r \in Ring, r.count > 0, Sorted(r, r.count), Distinct(r, r.count)
  PROVE  /\ Sorted(Dequeued(r), r.count - 1)
         /\ Distinct(Dequeued(r), r.count - 1)
         /\ Numbers(r, r.count) = Numbers(Dequeued(r), r.count - 1) \cup {Taken(r).n}
         /\ Taken(r).n \notin Numbers(Dequeued(r), r.count - 1)
<1> DEFINE b == Best(r)
           d == Dequeued(r)
           c == r.count
<1>1. c \in Nat /\ c > 0 /\ (c - 1) - 1 = c - 2
  BY SizeIsNat DEF Ring
<1>2. /\ b \in 0 .. c - 1 /\ Taken(r) = At(r, b)
      /\ \A i \in 0 .. c - 2 : /\ Closed(b, i) \in 0 .. c - 1 /\ Closed(b, i) # b
                               /\ At(d, i) = At(r, Closed(b, i))
  BY RemoveCloses
<1>3. \A i, j \in 0 .. c - 2 : i < j => Closed(b, i) < Closed(b, j)
  BY RemoveCloses
<1>4. \A m \in 0 .. c - 1 : m # b => \E i \in 0 .. c - 2 : Closed(b, i) = m
  BY RemoveCloses
<1>5. Sorted(r, c) /\ Distinct(r, c)
  OBVIOUS
<1> HIDE DEF b, d, c
<1>6. Sorted(d, c - 1)
  BY <1>1, <1>2, <1>3, <1>5 DEF Sorted
<1>7. Distinct(d, c - 1)
  BY <1>1, <1>2, <1>3, <1>5 DEF Distinct
<1>8. \A i \in 0 .. c - 2 : At(r, Closed(b, i)).n # At(r, b).n
  <2> SUFFICES ASSUME NEW i \in 0 .. c - 2 PROVE At(r, Closed(b, i)).n # At(r, b).n
    OBVIOUS
  <2>1. Closed(b, i) \in 0 .. c - 1 /\ (Closed(b, i) < b \/ b < Closed(b, i))
    BY <1>2
  <2> QED
    BY <2>1, <1>2, <1>5 DEF Distinct
<1>9. Numbers(d, c - 1) = {At(r, Closed(b, i)).n : i \in 0 .. c - 2}
  BY <1>1, <1>2 DEF Numbers
<1>10. Numbers(r, c) = Numbers(d, c - 1) \cup {Taken(r).n}
  BY <1>2, <1>4, <1>9 DEF Numbers
<1>11. Taken(r).n \notin Numbers(d, c - 1)
  BY <1>2, <1>8, <1>9
<1> QED
  BY <1>6, <1>7, <1>10, <1>11 DEF d, c

(* In a sorted queue the search for the most urgent item ends at the head. *)
LEMMA HeadIsBest ==
  ASSUME NEW r \in Ring, r.count > 0, Sorted(r, r.count)
  PROVE  Best(r) = 0
<1> DEFINE best == {i \in 0 .. r.count - 1 :
                      \A j \in 0 .. r.count - 1 : At(r, i).prio <= At(r, j).prio}
<1>1. r.count \in Nat /\ r.count <= Size
  BY SizeIsNat DEF Ring
<1>2. 0 \in best
  <2>1. At(r, 0).prio \in Int /\ 0 \in 0 .. r.count - 1
    <3>1. 0 \in 0 .. Size /\ 0 \in 0 .. r.count - 1
      BY <1>1, SizeIsNat
    <3> QED
      BY <3>1, AtTyped, UrgencyAssumption
  <2>2. ASSUME NEW j \in 0 .. r.count - 1 PROVE At(r, 0).prio <= At(r, j).prio
    <3>1. j = 0 \/ 0 < j
      OBVIOUS
    <3> QED
      BY <2>1, <3>1 DEF Sorted
  <2> QED
    BY <2>1, <2>2
<1>3. best \in SUBSET Nat
  BY <1>1
<1>4. First(best) \in best /\ First(best) <= 0
  BY <1>2, <1>3, FirstIsLeast
<1> QED
  BY <1>3, <1>4 DEF Best

-----------------------------------------------------------------------------
(* The ring as it is at the start, and after it has been cleared.          *)
LEMMA EmptyTyped ==
  /\ EmptyRing \in Ring /\ EmptyRing.count = 0 /\ EmptyRing.tail = 0 /\ EmptyRing.head = 0
  /\ 0 \in Slots
BY SizeIsNat, VacantAssumption DEF EmptyRing, Ring, Slots

LEMMA EmptyAgrees == Agree(EmptyRing)
BY SizeAssumption, EmptyTyped DEF Agree

LEMMA SameContents ==
  ASSUME NEW r, NEW s, s.slot = r.slot, s.head = r.head, NEW len
  PROVE  /\ Sorted(s, len) <=> Sorted(r, len)
         /\ Distinct(s, len) <=> Distinct(r, len)
         /\ Numbers(s, len) = Numbers(r, len)
         /\ \A i : At(s, i) = At(r, i)
<1>1. \A i : At(s, i) = At(r, i)
  BY DEF At, Pos
<1> QED
  BY <1>1 DEF Sorted, Distinct, Numbers
=============================================================================
