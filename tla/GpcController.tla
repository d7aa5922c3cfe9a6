---------------------------- MODULE GpcController ----------------------------
(***************************************************************************)
(* The application's main loop as far as the controller state machine and   *)
(* its three sequence executors go: applicationInit(), applicationTick(),   *)
(* GpcController, MicroSequenceExecutor::tick() and                         *)
(* BluewhiteMessageHandler.                                                 *)
(*                                                                          *)
(* The code runs to completion on one core, so a step of this module is a   *)
(* stretch of straight-line code: one pass of an executor's loop, one       *)
(* message, one half of a tick function.  pc says where the main loop is.   *)
(* SysTick and a reset may come between any two steps.                      *)
(***************************************************************************)
EXTENDS MicroSequenceExecutor

CONSTANTS
  Configs,      \* the configurations that may be in flash
  Messages,     \* the inbound messages a command binding may be triggered by
  MaxRx,        \* messages handled in one tick (MAX_RX_PROCESS_PER_TICK_)
  MaxDelay      \* bound: the longest delay a micro command asks for, in ms

ControllerStates ==
  {"INIT", "MANUAL", "DISENGAGEMENT", "ENGAGED", "POWER_UP_BIT", "OPERATIONAL",
   "ERROR", "EMERGENCY"}

(* "OTHER" is any byte of a ControllerStateCommand that names no state. *)
Requests == ControllerStates \cup {"TECHNICIAN", "OTHER"}

SeqNames == ControllerStates \cup {"main", "powerup"}

(***************************************************************************)
(* SequencesConfig.  A sequence with more than MaxSteps steps is one whose  *)
(* step_count start() refuses, as an erased flash page gives.  A binding's  *)
(* trigger is the set of messages it matches; extract says whether it has   *)
(* fields to copy into variables.                                           *)
(***************************************************************************)
Binding == [trigger : SUBSET Messages, extract : BOOLEAN, seq : Seq(Step)]
Config == [valid : BOOLEAN, seqs : [SeqNames -> Seq(Step)], bindings : Seq(Binding)]

ASSUME ConfigAssumption == Configs \subseteq Config
ASSUME MaxRxAssumption == MaxRx \in Nat \ {0}
ASSUME MaxDelayAssumption == MaxDelay \in Nat

VARIABLES
  config,       \* CONFIG_MEMORY_.sequences_config
  state,        \* GpcController::state_
  started,      \* GpcController::state_sequence_started_
  exec,         \* the three executors
  pc,           \* where the main loop is
  ctx,          \* the state whose sequence tickStateSequence() looked up
  rxLeft,       \* messages the current tick may still handle
  imm           \* tryStartSequenceForMessage() and runStepsImmediate()

vars == <<config, state, started, exec, pc, ctx, rxLeft, imm>>

(* "command" is g_sequence_executor; the other two are GpcController's. *)
Executors == {"main", "state", "command"}

TickPc == [main |-> "mainTick", state |-> "stateTick", command |-> "commandTick"]
DonePc == [main |-> "mainRestart", state |-> "stateAfter", command |-> "usbRx"]
RxPcs == {"canRx", "usbRx"}
ImmPcs == {"canImm", "usbImm"}
ImmPc == [canRx |-> "canImm", usbRx |-> "usbImm"]
RxPc == [canImm |-> "canRx", usbImm |-> "usbRx"]
AfterRx == [canRx |-> "commandTick", usbRx |-> "mainTick"]
Pcs == {"boot", "stateEnter"} \cup RxPcs \cup ImmPcs
         \cup {TickPc[x] : x \in Executors} \cup {DonePc[x] : x \in Executors}

NoBinding == [todo |-> {}, idx |-> 0, running |-> FALSE]

OneShotStates == {"INIT", "DISENGAGEMENT", "POWER_UP_BIT"}
IsStateTickLoop(s) == s \in ControllerStates \ OneShotStates
NextStateWithoutBit(s) ==                        \* mutant: a case is missing
  CASE s = "INIT" -> "ENGAGED" [] s = "DISENGAGEMENT" -> "MANUAL" [] OTHER -> s
NextStateAfterSequence(s) ==
  CASE s = "INIT" -> "ENGAGED"
    [] s = "DISENGAGEMENT" -> "MANUAL"
    [] s = "POWER_UP_BIT" -> "OPERATIONAL"
    [] OTHER -> s

Program(x) == config.seqs[exec[x].seq]
AllStopped == [x \in Executors |-> Stopped]

-----------------------------------------------------------------------------
(* The constructors' values. *)
Init ==
  /\ config \in Configs
  /\ state = "MANUAL"
  /\ started = FALSE
  /\ exec = AllStopped
  /\ pc = "boot"
  /\ ctx = NoSequence
  /\ rxLeft = MaxRx
  /\ imm = NoBinding

(* applicationInit(): the powerup sequence, if the configuration is valid. *)
ApplicationInit ==
  /\ pc = "boot"
  /\ pc' = "mainTick"
  /\ exec' = IF config.valid /\ CanStart(exec["command"], config.seqs["powerup"])
               THEN [exec EXCEPT !["command"] = Started("powerup", FALSE)]
               ELSE exec
  /\ UNCHANGED <<config, state, started, ctx, rxLeft, imm>>

(* A reset command, the way into the bootloader, or a loss of power. *)
Reset ==
  /\ pc # "boot"
  /\ state' = "MANUAL"
  /\ started' = FALSE
  /\ exec' = AllStopped
  /\ pc' = "boot"
  /\ ctx' = NoSequence
  /\ rxLeft' = MaxRx
  /\ imm' = NoBinding
  /\ UNCHANGED config

(* A millisecond passes. *)
SysTick ==
  /\ \E x \in Executors : exec[x].delay > 0
  /\ exec' = [x \in Executors |-> Elapsed(exec[x], 1)]
  /\ UNCHANGED <<config, state, started, pc, ctx, rxLeft, imm>>

-----------------------------------------------------------------------------
EnterStateKeepsSequence(s) ==                    \* mutant: onStateChanged() forgets stop()
  IF state = "EMERGENCY"
    THEN UNCHANGED <<state, started, exec>>
    ELSE state' = s /\ started' = FALSE /\ UNCHANGED exec

(* enterState() with onStateChanged(): EMERGENCY is never left. *)
EnterState(s) ==
  IF state = "EMERGENCY"
    THEN UNCHANGED <<state, started, exec>>
    ELSE /\ state' = s
         /\ started' = FALSE
         /\ exec' = [exec EXCEPT !["state"] = Stopped]

(* A MOVE op run by executor x: enterState(), then x.stop(). *)
MoveTarget(op) == IF op = "MOVE_ERROR" THEN "ERROR" ELSE "EMERGENCY"
MoveStateUnlatched(x, op) ==                     \* mutant: enterState() without its guard
  /\ state' = MoveTarget(op)
  /\ started' = FALSE
  /\ exec' = [y \in Executors |-> IF y \in {x, "state"} THEN Stopped ELSE exec[y]]
MoveState(x, op) ==
  LET latched == state = "EMERGENCY"
      stopped == IF latched THEN {x} ELSE {x, "state"}
  IN  /\ state' = IF latched THEN state ELSE MoveTarget(op)
      /\ started' = IF latched THEN started ELSE FALSE
      /\ exec' = [y \in Executors |-> IF y \in stopped THEN Stopped ELSE exec[y]]

RequestEntersTechnician(req) ==                  \* mutant: TECHNICIAN is not refused
  /\ state # req
  /\ state # "EMERGENCY"
  /\ req \notin {"OPERATIONAL", "ERROR", "EMERGENCY"}
RequestEngagesManual(req) ==                     \* mutant: MANUAL accepts every request
  /\ state # req
  /\ state # "EMERGENCY"
  /\ req \notin {"OPERATIONAL", "ERROR", "EMERGENCY", "TECHNICIAN"}
  /\ ~(state = "OPERATIONAL" /\ req = "POWER_UP_BIT")
  /\ ~(state = "ENGAGED" /\ req = "INIT")

(* sendSetStateRequest() enters the requested state. *)
RequestEntersState(req) ==
  /\ state # req
  /\ state # "EMERGENCY"
  /\ req \notin {"OPERATIONAL", "ERROR", "EMERGENCY", "TECHNICIAN"}
  /\ ~(state = "OPERATIONAL" /\ req = "POWER_UP_BIT")
  /\ ~(state = "ENGAGED" /\ req = "INIT")
  /\ ~(state = "MANUAL" /\ req \in {"DISENGAGEMENT", "POWER_UP_BIT", "ENGAGED"})

-----------------------------------------------------------------------------
(* MicroSequenceExecutor::tick() of executor x, one pass at a time. *)
AtTick(x) == pc = TickPc[x]
TickReturns(x) == pc' = DonePc[x]
Frame == UNCHANGED <<config, ctx, rxLeft, imm>>

(* Nothing to run, or a delay that is not due. *)
TickIdle(x) ==
  /\ AtTick(x)
  /\ exec[x].st # "RUNNING"
  /\ ~(exec[x].st = "WAITING_DELAY" /\ DelayDue(exec[x]))
  /\ TickReturns(x)
  /\ UNCHANGED <<state, started, exec>>
  /\ Frame

TickWake(x) ==
  /\ AtTick(x)
  /\ exec[x].st = "WAITING_DELAY"
  /\ DelayDue(exec[x])
  /\ exec' = [exec EXCEPT ![x] = Woken(@)]
  /\ UNCHANGED <<state, started, pc>>
  /\ Frame

(* The loop runs the step at step_index_. *)
AtStep(x) ==
  /\ AtTick(x)
  /\ exec[x].st = "RUNNING"
  /\ exec[x].idx < Len(Program(x))
CurrentStep(x) == StepAt(Program(x), exec[x].idx)

StepFails(x) ==
  /\ exec' = [exec EXCEPT ![x] = Failed(@)]
  /\ TickReturns(x)
StepPasses(x, k) ==
  /\ exec' = [exec EXCEPT ![x] = Advanced(@, k)]
  /\ UNCHANGED pc

TickDelay(x) ==
  /\ AtStep(x)
  /\ CurrentStep(x).op = "DELAY"
  /\ exec' = [exec EXCEPT ![x] = Waiting(@, CurrentStep(x).n)]
  /\ TickReturns(x)
  /\ UNCHANGED <<state, started>>
  /\ Frame

(* An IF_CONDITION: an impossible block fails, else either way. *)
TickIf(x) ==
  /\ AtStep(x)
  /\ CurrentStep(x).op = "IF"
  /\ LET targets == IfTargets(Program(x), exec[x].idx)
     IN  \/ targets = {} /\ StepFails(x)
         \/ \E k \in targets : StepPasses(x, k)
  /\ UNCHANGED <<state, started>>
  /\ Frame

(* A CAN_TRANSMIT that finds the bus contended stays on its step. *)
TickCanBusy(x) ==
  /\ AtStep(x)
  /\ CurrentStep(x).op = "CAN"
  /\ TickReturns(x)
  /\ UNCHANGED <<state, started, exec>>
  /\ Frame

TickCanDone(x) ==
  /\ AtStep(x)
  /\ CurrentStep(x).op = "CAN"
  /\ StepPasses(x, 1) \/ StepFails(x)
  /\ UNCHANGED <<state, started>>
  /\ Frame

(* Every other op: only g_sequence_executor knows the safety features. *)
TickOp(x) ==
  /\ AtStep(x)
  /\ CurrentStep(x).op \in PlainOps
  /\ \E ok \in Outcomes(CurrentStep(x).op, x = "command") :
       IF ok THEN StepPasses(x, 1) ELSE StepFails(x)
  /\ UNCHANGED <<state, started>>
  /\ Frame

(***************************************************************************)
(* A MOVE op stops x under its own tick(): the loop goes on with            *)
(* active_sequence_ null and step_index_ 1.  It then reads step_count at    *)
(* address 0, where the STM32G4 maps the flash it boots from, and finds the *)
(* low byte of the initial stack pointer, 0 for a stack at the end of RAM:  *)
(* the loop ends and the executor is left stopped.                          *)
(***************************************************************************)
TickMove(x) ==
  /\ AtStep(x)
  /\ CurrentStep(x).op \in MoveOps
  /\ MoveState(x, CurrentStep(x).op)
  /\ TickReturns(x)
  /\ Frame

(* The steps are done: a looping sequence starts over at the next tick. *)
TickEnd(x) ==
  /\ AtTick(x)
  /\ exec[x].st = "RUNNING"
  /\ exec[x].idx >= Len(Program(x))
  /\ exec' = [exec EXCEPT ![x] = Finished(@)]
  /\ TickReturns(x)
  /\ UNCHANGED <<state, started>>
  /\ Frame

TickStep(x) ==
  \/ TickIdle(x)
  \/ TickWake(x)
  \/ TickDelay(x)
  \/ TickIf(x)
  \/ TickCanBusy(x)
  \/ TickCanDone(x)
  \/ TickOp(x)
  \/ TickMove(x)
  \/ TickEnd(x)

-----------------------------------------------------------------------------
MainRestartWhenIdle ==                           \* mutant: a failed executor counts as busy
  /\ pc = "mainRestart"
  /\ exec' = IF exec["main"].st = "IDLE" /\ Startable(config.seqs["main"])
               THEN [exec EXCEPT !["main"] = Started("main", TRUE)]
               ELSE exec
  /\ pc' = "stateEnter"
  /\ UNCHANGED <<config, state, started, ctx, rxLeft, imm>>

(* tickMainSequence() after its executor's tick. *)
MainRestart ==
  /\ pc = "mainRestart"
  /\ exec' = IF CanStart(exec["main"], config.seqs["main"])
               THEN [exec EXCEPT !["main"] = Started("main", TRUE)]
               ELSE exec
  /\ pc' = "stateEnter"
  /\ UNCHANGED <<config, state, started, ctx, rxLeft, imm>>

(* onOneShotSequenceComplete() *)
OneShotComplete ==
  IF NextStateAfterSequence(state) # state
    THEN EnterState(NextStateAfterSequence(state))
    ELSE UNCHANGED <<state, started, exec>>

(* tickStateSequence() before its executor's tick: no or an empty sequence. *)
StateWithoutSteps ==
  /\ pc = "stateEnter"
  /\ \/ /\ state \notin ControllerStates \/ IsStateTickLoop(state)
        /\ state \in ControllerStates => config.seqs[state] = <<>>
        /\ UNCHANGED <<state, started, exec>>
     \/ /\ state \in OneShotStates
        /\ config.seqs[state] = <<>>
        /\ OneShotComplete
  /\ pc' = "canRx"
  /\ UNCHANGED <<config, ctx, rxLeft, imm>>

StateWithSteps ==
  /\ pc = "stateEnter"
  /\ state \in ControllerStates
  /\ config.seqs[state] # <<>>
  /\ ctx' = state
  /\ pc' = "stateTick"
  /\ UNCHANGED <<config, state, started, exec, rxLeft, imm>>

(***************************************************************************)
(* tickStateSequence() after its executor's tick.  ctx and its loop flag    *)
(* are those read before the tick; the state may be another one by now.     *)
(***************************************************************************)
LeaveStateTick ==
  /\ pc = "stateAfter"
  /\ pc' = "canRx"
  /\ ctx' = NoSequence
  /\ UNCHANGED <<config, rxLeft, imm>>

StateStillRunning ==
  /\ LeaveStateTick
  /\ IsRunning(exec["state"])
  /\ UNCHANGED <<state, started, exec>>

StateOneShotDone ==
  /\ LeaveStateTick
  /\ ~IsRunning(exec["state"])
  /\ started
  /\ ~IsStateTickLoop(ctx)
  /\ IF NextStateAfterSequence(state) # state
       THEN EnterState(NextStateAfterSequence(state))
       ELSE started' = FALSE /\ UNCHANGED <<state, exec>>

StateLoopRestarts ==                             \* mutant: restarts whenever not running
  /\ LeaveStateTick
  /\ ~IsRunning(exec["state"])
  /\ started
  /\ IsStateTickLoop(ctx)
  /\ exec' = [exec EXCEPT !["state"] = Started(ctx, TRUE)]
  /\ UNCHANGED <<state, started>>

StateLoopDown ==
  /\ LeaveStateTick
  /\ ~IsRunning(exec["state"])
  /\ started
  /\ IsStateTickLoop(ctx)
  /\ UNCHANGED <<state, started, exec>>

StateStart ==
  /\ LeaveStateTick
  /\ ~IsRunning(exec["state"])
  /\ ~started
  /\ started' = CanStart(exec["state"], config.seqs[ctx])
  /\ exec' = IF started'
               THEN [exec EXCEPT !["state"] = Started(ctx, IsStateTickLoop(ctx))]
               ELSE exec
  /\ UNCHANGED state

-----------------------------------------------------------------------------
(* processRxQueuedMessage() and the USB side's processReceivedData(). *)
RxDone ==
  /\ pc \in RxPcs
  /\ pc' = AfterRx[pc]
  /\ rxLeft' = MaxRx
  /\ UNCHANGED <<config, state, started, exec, ctx, imm>>

HandleInbound ==
  /\ pc \in RxPcs
  /\ rxLeft > 0
  /\ rxLeft' = rxLeft - 1
  /\ UNCHANGED <<config, ctx>>

RxStateCommand(req) ==
  /\ HandleInbound
  /\ IF RequestEntersState(req) THEN EnterState(req)
                                ELSE UNCHANGED <<state, started, exec>>
  /\ UNCHANGED <<pc, imm>>

(* executeImmediateOp() by an idle executor; a DELAY_MS of n ms blocks. *)
RxMicroCommand(n) ==
  /\ HandleInbound
  /\ ~IsRunning(exec["command"])
  /\ exec' = [x \in Executors |-> Elapsed(exec[x], n)]
  /\ UNCHANGED <<state, started, pc, imm>>

(* tryStartSequenceForMessage() *)
RxCommand(m) ==
  /\ HandleInbound
  /\ imm' = [NoBinding EXCEPT
               !.todo = {i \in DOMAIN config.bindings : m \in config.bindings[i].trigger}]
  /\ pc' = ImmPc[pc]
  /\ UNCHANGED <<state, started, exec>>

-----------------------------------------------------------------------------
(* The binding loop is at binding i, the first one that is left. *)
AtBinding(i) ==
  /\ pc \in ImmPcs
  /\ i \in imm.todo
  /\ \A j \in imm.todo : i <= j
  /\ UNCHANGED <<config, ctx, rxLeft>>
BindingLoopReturns == pc' = RxPc[pc] /\ imm' = NoBinding
NextBinding(i) == imm' = [NoBinding EXCEPT !.todo = imm.todo \ {i}] /\ UNCHANGED pc

NoBindingLeft ==
  /\ pc \in ImmPcs
  /\ imm.todo = {}
  /\ BindingLoopReturns
  /\ UNCHANGED <<config, state, started, exec, ctx, rxLeft>>

(* A field that does not fit the message ends the search for a binding. *)
ExtractFails(i) ==
  /\ AtBinding(i)
  /\ ~imm.running
  /\ config.bindings[i].extract
  /\ BindingLoopReturns
  /\ UNCHANGED <<state, started, exec>>

ImmediateStartBeside(i) ==                       \* mutant: runSequenceImmediate() without stop()
  /\ AtBinding(i)
  /\ ~imm.running
  /\ IF Startable(config.bindings[i].seq)
       THEN imm' = [imm EXCEPT !.running = TRUE] /\ UNCHANGED pc
       ELSE NextBinding(i)
  /\ UNCHANGED <<state, started, exec>>

(* runSequenceImmediate(): refuses, or stops whatever the executor runs. *)
ImmediateStart(i) ==
  /\ AtBinding(i)
  /\ ~imm.running
  /\ IF Startable(config.bindings[i].seq)
       THEN /\ exec' = [exec EXCEPT !["command"] = Stopped]
            /\ imm' = [imm EXCEPT !.running = TRUE]
            /\ UNCHANGED pc
       ELSE NextBinding(i) /\ UNCHANGED exec
  /\ UNCHANGED <<state, started>>

(* runStepsImmediate(): the step at its local step_index. *)
AtImmediate(i) ==
  /\ AtBinding(i)
  /\ imm.running
  /\ imm.idx < Len(config.bindings[i].seq)
ImmediateOp(i) == StepAt(config.bindings[i].seq, imm.idx)
ImmediatePasses(k) == imm' = [imm EXCEPT !.idx = @ + k] /\ UNCHANGED pc

(* A delay blocks the main loop while every other delay runs down. *)
ImmediateDelay(i) ==
  /\ AtImmediate(i)
  /\ ImmediateOp(i).op = "DELAY"
  /\ ImmediatePasses(1)
  /\ exec' = [x \in Executors |-> Elapsed(exec[x], ImmediateOp(i).n)]
  /\ UNCHANGED <<state, started>>

ImmediateIf(i) ==
  /\ AtImmediate(i)
  /\ ImmediateOp(i).op = "IF"
  /\ LET targets == IfTargets(config.bindings[i].seq, imm.idx)
     IN  \/ targets = {} /\ NextBinding(i)
         \/ \E k \in targets : ImmediatePasses(k)
  /\ UNCHANGED <<state, started, exec>>

(* A busy CAN bus is a failure here; a failed step tries the next binding. *)
ImmediateStep(i) ==
  /\ AtImmediate(i)
  /\ ImmediateOp(i).op \in PlainOps \cup {"CAN"}
  /\ \E ok \in Outcomes(ImmediateOp(i).op, TRUE) :
       IF ok THEN ImmediatePasses(1) ELSE NextBinding(i)
  /\ UNCHANGED <<state, started, exec>>

(* The local step_index survives stop(): the steps after a MOVE run too. *)
ImmediateMove(i) ==
  /\ AtImmediate(i)
  /\ ImmediateOp(i).op \in MoveOps
  /\ MoveState("command", ImmediateOp(i).op)
  /\ ImmediatePasses(1)

ImmediateEnd(i) ==
  /\ AtBinding(i)
  /\ imm.running
  /\ imm.idx >= Len(config.bindings[i].seq)
  /\ BindingLoopReturns
  /\ UNCHANGED <<state, started, exec>>

BindingStep(i) ==
  \/ ExtractFails(i)
  \/ ImmediateStart(i)
  \/ ImmediateDelay(i)
  \/ ImmediateIf(i)
  \/ ImmediateStep(i)
  \/ ImmediateMove(i)
  \/ ImmediateEnd(i)

-----------------------------------------------------------------------------
StateTick ==
  \/ StateWithoutSteps
  \/ StateWithSteps
  \/ StateStillRunning
  \/ StateOneShotDone
  \/ StateLoopDown
  \/ StateStart

Receive ==
  \/ RxDone
  \/ \E req \in Requests : RxStateCommand(req)
  \/ \E n \in 0..MaxDelay : RxMicroCommand(n)
  \/ \E m \in Messages : RxCommand(m)
  \/ NoBindingLeft
  \/ \E i \in imm.todo : BindingStep(i)

(* The main loop: what the processor does when nothing interrupts it. *)
MainLoop ==
  \/ ApplicationInit
  \/ \E x \in Executors : TickStep(x)
  \/ MainRestart
  \/ StateTick
  \/ Receive

Next == MainLoop \/ SysTick \/ Reset

Spec == Init /\ [][Next]_vars

(***************************************************************************)
(* The processor runs the main loop, SysTick keeps coming, a CAN_TRANSMIT   *)
(* that is tried again and again is sent or fails in the end.               *)
(***************************************************************************)
Fairness ==
  /\ WF_vars(MainLoop)
  /\ WF_vars(SysTick)
  /\ \A x \in Executors : SF_vars(TickCanDone(x))
FairSpec == Spec /\ Fairness

-----------------------------------------------------------------------------
TypeOK ==
  /\ config \in Configs
  /\ state \in ControllerStates \cup {"OTHER"}
  /\ started \in BOOLEAN
  /\ exec \in [Executors -> Executor(SeqNames)]
  /\ pc \in Pcs
  /\ ctx \in ControllerStates \cup {NoSequence}
  /\ rxLeft \in 0..MaxRx
  /\ imm \in [todo : SUBSET DOMAIN config.bindings, idx : Nat, running : BOOLEAN]

HasMove(steps) == \E i \in DOMAIN steps : steps[i].op \in MoveOps

(***************************************************************************)
(* tickStateSequence() looks up the sequence before the executor's tick and *)
(* starts it after it.  A move in between can make it start a sequence of a *)
(* state that has been left.  This is as far as that goes: only in a fault  *)
(* state, and only a sequence with a move of its own, or ERROR's sequence   *)
(* in EMERGENCY, when a stale sequence moved on from ERROR.                 *)
(***************************************************************************)
MayOutliveItsState(s) ==
  /\ state \in {"ERROR", "EMERGENCY"}
  /\ HasMove(config.seqs[s]) \/ (s = "ERROR" /\ state = "EMERGENCY")

StaleSequenceOnlyAfterFault ==
  IsRunning(exec["state"]) /\ exec["state"].seq # state
    => MayOutliveItsState(exec["state"].seq)

(* A running state sequence is one tickStateSequence() knows it started:    *)
(* it never starts it over, nor forgets to act on its end.                  *)
RunningSequenceIsStarted ==
  IsRunning(exec["state"]) => started /\ exec["state"].loop = IsStateTickLoop(exec["state"].seq)

(* Whatever fails or moves in the main sequence, it runs again: once        *)
(* tickMainSequence() has returned, its executor is running.                *)
MainSequenceAlwaysRuns ==
  /\ pc \notin {"boot", "mainTick", "mainRestart"}
  /\ Startable(config.seqs["main"])
  => IsRunning(exec["main"])

(* runSequenceImmediate() has the command executor to itself: no powerup    *)
(* sequence goes on between or after the steps of a bound command.          *)
CommandRunsAlone == imm.running => exec["command"] = Stopped

(* No request, sequence or message leaves EMERGENCY: only a reset does.     *)
EmergencyLatched ==
  [][state = "EMERGENCY" => state' = "EMERGENCY" \/ pc' = "boot"]_vars

(* A state sequence stopped by a failed step is not resumed: its executor   *)
(* stays in ERROR until the state is entered anew or left.                  *)
FailedSequenceStaysDown ==
  [][exec["state"].st = "ERROR" /\ IsStateTickLoop(state) =>
       exec'["state"] = exec["state"] \/ ~started']_vars

(* The controller's states follow one another as ControllerStateMachine     *)
(* allows; from a reset to the end of applicationInit() it is off.          *)
StateMachine ==
  INSTANCE ControllerStateMachine
    WITH state <- IF pc = "boot" THEN "OFF" ELSE state
ImplementsStateMachine == StateMachine!Spec

(* A state with a sequence to finish is left, whatever its steps do, if its *)
(* sequence is one start() accepts.                                         *)
OneShotStateIsLeft ==
  \A s \in OneShotStates :
    state = s /\ Len(config.seqs[s]) <= MaxSteps ~> state # s

(* No sequence, however it branches, keeps the main loop from coming round. *)
MainLoopReturns == []<>(pc = "mainTick")

-----------------------------------------------------------------------------
(* Claims of the configuration tool about what the controller does with the *)
(* sequences of a state; the runs show where the firmware differs.          *)

(* "Transition state: runs once on entry, then moves on": its sequence is   *)
(* started in that state only.                                              *)
TransitionRunsOnEntry ==
  [][\A s \in OneShotStates :
       exec'["state"].seq = s /\ exec["state"].seq # s => state' = s]_vars

(* "Repeatable state: runs every tick while active", EMERGENCY included.    *)
EmergencySequenceRuns ==
  state = "EMERGENCY" /\ Startable(config.seqs["EMERGENCY"])
    ~> state # "EMERGENCY" \/ exec["state"].seq = "EMERGENCY"

(* "Repeatable state: runs every tick while active": MANUAL's sequence is   *)
(* always under way again later.                                            *)
ManualSequenceKeepsRunning ==
  state = "MANUAL" /\ Startable(config.seqs["MANUAL"])
    ~> pc = "boot" \/ state # "MANUAL" \/ IsRunning(exec["state"])
=============================================================================
