------------------------ MODULE MicroSequenceExecutor ------------------------
(***************************************************************************)
(* The data of a MicroSequenceExecutor and what each of its operations      *)
(* does to it: application/MicroSequenceExecutor.  An executor is a record; *)
(* its operations are functions of the record, composed into atomic steps   *)
(* of the main loop by module GpcController.                                *)
(*                                                                          *)
(* A step keeps its kind and the one number control depends on: the length  *)
(* of a DELAY_MS or the block length of an IF_CONDITION.  What a step does  *)
(* to pins, buses and variables is abstracted to whether it succeeds.       *)
(***************************************************************************)
EXTENDS Naturals, Sequences

CONSTANT MaxSteps       \* MICRO_SEQUENCE_MAX_STEPS

ASSUME MaxStepsAssumption == MaxSteps \in Nat \ {0}

(***************************************************************************)
(* "NOP" always succeeds; "IO" is any pin, bus or variable operation;       *)
(* "BAD" is an unknown op_type or an IF_CONDITION on a variable that does   *)
(* not exist.  The others are the kinds tick() treats on their own.         *)
(***************************************************************************)
MoveOps == {"MOVE_ERROR", "MOVE_EMERGENCY"}
PlainOps == {"NOP", "IO", "BAD", "SAFETY"}
Step == [op : PlainOps \cup MoveOps \cup {"DELAY", "IF", "CAN"}, n : Nat]

(***************************************************************************)
(* An executor.  State::COMPLETED is declared by the code and never set.    *)
(* idx is step_index_, zero-based; seq names the sequence active_sequence_  *)
(* points to; delay is what is left of delay_duration_ms_.                  *)
(***************************************************************************)
NoSequence == "none"
Executor(Names) ==
  [st : {"IDLE", "RUNNING", "WAITING_DELAY", "ERROR"},
   seq : Names \cup {NoSequence}, idx : Nat, loop : BOOLEAN, delay : Nat]

IsRunning(e) == e.st \in {"RUNNING", "WAITING_DELAY"}

(* stop() *)
Stopped ==
  [st |-> "IDLE", seq |-> NoSequence, idx |-> 0, loop |-> FALSE, delay |-> 0]

(* start() refuses an empty or an oversized sequence, and a busy executor.  *)
Startable(steps) == Len(steps) \in 1..MaxSteps
CanStart(e, steps) == ~IsRunning(e) /\ Startable(steps)
Started(name, loop) ==
  [st |-> "RUNNING", seq |-> name, idx |-> 0, loop |-> loop, delay |-> 0]

(* The exits of tick()'s loop: a failed step, a delay, the end of the steps. *)
Failed(e) == [e EXCEPT !.st = "ERROR", !.seq = NoSequence]
Waiting(e, n) == [e EXCEPT !.st = "WAITING_DELAY", !.delay = n]
Finished(e) == IF e.loop THEN [e EXCEPT !.idx = 0]
                         ELSE [e EXCEPT !.st = "IDLE", !.seq = NoSequence, !.idx = 0]

(* tick() past a delay that is due, and past a step that is done. *)
DelayDue(e) == e.delay = 0
Woken(e) == [e EXCEPT !.st = "RUNNING", !.idx = @ + 1]
AdvancedTooLittle(e, k) == [e EXCEPT !.idx = @ + k - 1]     \* mutant: no step_index_++
Advanced(e, k) == [e EXCEPT !.idx = @ + k]

(* n milliseconds pass: SystemInterface::getTick() moves on. *)
Elapsed(e, n) == IF e.delay > 0 THEN [e EXCEPT !.delay = IF @ > n THEN @ - n ELSE 0] ELSE e

(***************************************************************************)
(* The step about to run, where an IF_CONDITION may go (its block must end  *)
(* before the last step), and whether executeStep may report success.       *)
(***************************************************************************)
StepAt(steps, idx) == steps[idx + 1]
IfTargets(steps, idx) ==
  IF idx + StepAt(steps, idx).n < Len(steps)
    THEN {1, StepAt(steps, idx).n + 1}
    ELSE {}
Outcomes(op, hasSafetyFeatures) ==
  CASE op = "NOP" -> {TRUE}
    [] op = "BAD" -> {FALSE}
    [] op = "SAFETY" -> {hasSafetyFeatures}
    [] OTHER -> BOOLEAN
=============================================================================
