----------------------------- MODULE MCCanReceiver -----------------------------
(* A small instance of CanReceiver for TLC. *)
EXTENDS CanReceiver

MCItems == [n : 0..MaxArrivals, prio : 0..6]
MCVacant == [n |-> 0, prio |-> 0]
=============================================================================
