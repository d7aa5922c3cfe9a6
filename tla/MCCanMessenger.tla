---------------------------- MODULE MCCanMessenger ----------------------------
(* A small instance of CanMessenger for TLC. *)
EXTENDS CanMessenger

MCItems == [n : 0..MaxMessages, cls : 0..4, prio : 0..4, retried : BOOLEAN]
MCVacant == [n |-> 0, cls |-> 0, prio |-> 0, retried |-> FALSE]

(* Bound of the runs: a behaviour is followed until an insertion is         *)
(* interrupted or writes past the array, after which its queue is garbage.  *)
Intact == hits \cap {"insert", "shift"} = {}

(* Bound of can_messenger: the last message comes to a full queue.          *)
LastOverflows == accepted' > accepted /\ accepted' = MaxMessages => ring.count >= Size
=============================================================================
