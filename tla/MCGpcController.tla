--------------------------- MODULE MCGpcController ---------------------------
(* Small configurations of GpcController for TLC. *)
EXTENDS GpcController

CONSTANTS m1, m2

S(op) == [op |-> op, n |-> 0]
N(op, n) == [op |-> op, n |-> n]

Empty == [s \in SeqNames |-> <<>>]
Quiet == [valid |-> TRUE, seqs |-> Empty, bindings |-> <<>>]

(* Every kind of step once, none of them a move; a message with two bindings. *)
Working ==
  [Quiet EXCEPT
     !.seqs = [Empty EXCEPT
       !["powerup"] = <<N("DELAY", 1), S("SAFETY"), S("CAN")>>,
       !["main"] = <<S("IO")>>,
       !["INIT"] = <<S("IO"), N("DELAY", 1)>>,
       !["MANUAL"] = <<N("IF", 1), S("IO"), S("NOP")>>,
       !["DISENGAGEMENT"] = <<S("CAN"), N("IF", 2)>>,
       !["OPERATIONAL"] = <<S("SAFETY")>>],
     !.bindings = <<[trigger |-> {m1}, extract |-> TRUE, seq |-> <<S("IO"), N("DELAY", 1)>>],
                    [trigger |-> {m1, m2}, extract |-> FALSE, seq |-> <<N("IF", 1), S("CAN"), S("SAFETY")>>]>>]

(* Sequences that move to a fault state, on a condition or always. *)
Moving ==
  [Quiet EXCEPT
     !.seqs = [Empty EXCEPT
       !["main"] = <<N("IF", 1), S("MOVE_ERROR"), S("NOP")>>,
       !["INIT"] = <<N("IF", 1), S("MOVE_ERROR"), S("NOP")>>,
       !["MANUAL"] = <<N("IF", 1), S("MOVE_EMERGENCY"), S("NOP")>>,
       !["DISENGAGEMENT"] = <<N("IF", 1), S("MOVE_ERROR"), S("MOVE_EMERGENCY")>>,
       !["POWER_UP_BIT"] = <<N("DELAY", 1), S("MOVE_EMERGENCY")>>,
       !["ERROR"] = <<S("IO")>>,
       !["EMERGENCY"] = <<S("NOP")>>],
     !.bindings = <<[trigger |-> {m1}, extract |-> FALSE, seq |-> <<N("IF", 2), S("MOVE_EMERGENCY")>>],
                    [trigger |-> {m1}, extract |-> FALSE, seq |-> <<S("MOVE_ERROR"), S("BAD")>>]>>]

(* An erased page: every count is out of range and nothing is valid. *)
Erased ==
  [valid |-> FALSE,
   seqs |-> [s \in SeqNames |-> [i \in 1..MaxSteps + 1 |-> S("BAD")]],
   bindings |-> <<[trigger |-> {m2}, extract |-> FALSE,
                   seq |-> [i \in 1..MaxSteps + 1 |-> S("BAD")]]>>]

AllConfigs == {Quiet, Working, Moving, Erased}

(* One configuration for each claim of the configuration tool. *)
SelfMovingInit ==
  {[Quiet EXCEPT !.seqs = [Empty EXCEPT !["INIT"] = <<S("MOVE_ERROR")>>]]}
SelfMovingManual ==
  {[Quiet EXCEPT !.seqs = [Empty EXCEPT !["MANUAL"] = <<S("MOVE_EMERGENCY")>>,
                                        !["EMERGENCY"] = <<S("NOP")>>]]}
FailingManual ==
  {[Quiet EXCEPT !.seqs = [Empty EXCEPT !["MANUAL"] = <<S("IO")>>]]}
=============================================================================
