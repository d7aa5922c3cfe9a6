----------------------------- MODULE PriorityRing -----------------------------
(***************************************************************************)
(* The ring buffers of CanMessenger: an array of Size items, head, tail and *)
(* count.  insertTxWithPriority()/insertRxWithPriority() put an item before *)
(* the first less urgent one (a lower priority number is more urgent) and   *)
(* dequeueTxMessage()/dequeueRxMessage() take the first of the most urgent. *)
(* Both loops are stated in closed form: what each slot holds afterwards.   *)
(***************************************************************************)
EXTENDS Integers, Sequences

CONSTANTS
  Size,         \* TX_QUEUE_SIZE_ or RX_QUEUE_SIZE_
  Items,        \* the queued messages, records with a field prio
  Vacant        \* the item in a slot outside the queue, whichever it was

ASSUME SizeAssumption == Size \in 1..128
ASSUME VacantAssumption == Vacant \in Items
ASSUME UrgencyAssumption == \A item \in Items : item.prio \in Nat

Slots == 0..Size - 1
Ring == [slot : [Slots -> Items], head : Slots, tail : Slots, count : 0..Size]

EmptyRing ==
  [slot |-> [p \in Slots |-> Vacant], head |-> 0, tail |-> 0, count |-> 0]

(* The slot of the item at distance i from the head, and the next slot. *)
Pos(r, i) == (r.head + i) % Size
At(r, i) == r.slot[Pos(r, i)]
After(p) == (p + 1) % Size
Before(p) == (p - 1 + Size) % Size

First(S) == CHOOSE i \in S : \A j \in S : i <= j

(***************************************************************************)
(* Where an item goes: before the first less urgent item, or at the tail.   *)
(* Shift is shift_count, how many items move up by a slot.                  *)
(***************************************************************************)
AsUrgent(r, item) ==                             \* mutant: >= for >
  {i \in 0..r.count - 1 : At(r, i).prio >= item.prio}
LessUrgent(r, item) == {i \in 0..r.count - 1 : At(r, i).prio > item.prio}
InsertPos(r, item) ==
  IF LessUrgent(r, item) = {} THEN r.tail ELSE Pos(r, First(LessUrgent(r, item)))
ShiftShort(r, item) ==                           \* mutant: one item too few
  IF LessUrgent(r, item) = {} THEN 0 ELSE r.count - 1 - First(LessUrgent(r, item))
Shift(r, item) ==
  IF LessUrgent(r, item) = {} THEN 0 ELSE r.count - First(LessUrgent(r, item))

(***************************************************************************)
(* to_pos is (tail - j) % Size of two ints, stored in a uint8_t: below slot *)
(* 0 the remainder is negative and becomes an index past the array's end.   *)
(***************************************************************************)
ToPosModular(r, j) == (r.tail - j + Size) % Size \* mutant: as from_pos is computed
ToPos(r, j) == IF j <= r.tail THEN r.tail - j ELSE 256 + r.tail - j
Strays(r, item) == \E j \in 0..Shift(r, item) - 1 : ToPos(r, j) \notin Slots

(* The shift and the store of the item; then tail and count move on. *)
Placed(r, item) ==
  LET moved == {ToPos(r, j) : j \in 0..Shift(r, item) - 1}
  IN  [r EXCEPT !.slot = [p \in Slots |->
         IF p = InsertPos(r, item) THEN item
         ELSE IF p \in moved THEN r.slot[Before(p)]
         ELSE r.slot[p]]]
Inserted(r, item) ==
  [Placed(r, item) EXCEPT !.tail = After(r.tail), !.count = r.count + 1]

(* The first of the most urgent items, and the ring without it. *)
Best(r) ==
  First({i \in 0..r.count - 1 : \A j \in 0..r.count - 1 : At(r, i).prio <= At(r, j).prio})
Taken(r) == At(r, Best(r))
Dequeued(r) ==
  LET moved == {Pos(r, i) : i \in 1..Best(r)}
  IN  [r EXCEPT !.slot = [p \in Slots |->
                  IF p = r.head THEN Vacant
                  ELSE IF p \in moved THEN r.slot[Before(p)]
                  ELSE r.slot[p]],
                !.head = After(r.head),
                !.count = r.count - 1]

(* The first n items from the head. *)
Contents(r, n) == [i \in 1..n |-> At(r, i - 1)]
=============================================================================
