------------------------ MODULE GpcController_proofs -------------------------
(***************************************************************************)
(* What GpcController does for every configuration, proved.  Each invariant *)
(* is strengthened to an inductive one, TypeOK with what ties the executors *)
(* to the controller: the invariants the runs check, and what links the     *)
(* local variables of tickStateSequence() and of the binding loop to the    *)
(* rest.                                                                    *)
(***************************************************************************)
EXTENDS GpcController, TLAPS

-----------------------------------------------------------------------------
(* A running executor runs a sequence of its own kind, and only a waiting   *)
(* one has a delay to wait for.                                             *)
OwnNames(x) == CASE x = "main" -> {"main"}
                 [] x = "command" -> {"powerup"}
                 [] x = "state" -> ControllerStates
Good(x, e) ==
  /\ e \in Executor(SeqNames)
  /\ IsRunning(e) => e.seq \in OwnNames(x)
  /\ e.st # "WAITING_DELAY" => e.delay = 0
ExecutorsConsistent == \A x \in Executors : Good(x, exec[x])

(* Around its executor's tick, tickStateSequence() has looked up a state.   *)
ContextRead == pc \in {"stateTick", "stateAfter"} => ctx \in ControllerStates

TInv == TypeOK /\ ExecutorsConsistent /\ ContextRead

LEMMA Constants ==
  /\ MaxSteps \in Nat \ {0}
  /\ Configs \subseteq Config
  /\ MaxRx \in Nat \ {0}
  /\ MaxDelay \in Nat
BY MaxStepsAssumption, ConfigAssumption, MaxRxAssumption, MaxDelayAssumption

(* The operations of an executor yield executors. *)
LEMMA ExecutorOperations ==
  ASSUME NEW Names, NEW e \in Executor(Names), NEW n \in Nat, NEW s \in Names, NEW b \in BOOLEAN
  PROVE  /\ Stopped \in Executor(Names)
         /\ Started(s, b) \in Executor(Names)
         /\ Failed(e) \in Executor(Names)
         /\ Waiting(e, n) \in Executor(Names)
         /\ Finished(e) \in Executor(Names)
         /\ Woken(e) \in Executor(Names)
         /\ Advanced(e, n) \in Executor(Names)
         /\ Elapsed(e, n) \in Executor(Names)
<1> USE DEF Executor
<1>1. Stopped \in Executor(Names)
  BY DEF Stopped
<1>2. Started(s, b) \in Executor(Names)
  BY DEF Started
<1>3. Failed(e) \in Executor(Names)
  BY DEF Failed
<1>4. Waiting(e, n) \in Executor(Names)
  BY DEF Waiting
<1>5. Finished(e) \in Executor(Names)
  BY DEF Finished
<1>6. Woken(e) \in Executor(Names)
  <2>1. e.idx + 1 \in Nat
    OBVIOUS
  <2> QED
    BY <2>1 DEF Woken
<1>7. Advanced(e, n) \in Executor(Names)
  BY DEF Advanced
<1>8. Elapsed(e, n) \in Executor(Names)
  <2>1. (IF e.delay > n THEN e.delay - n ELSE 0) \in Nat
    OBVIOUS
  <2> QED
    BY <2>1 DEF Elapsed
<1> QED
  BY <1>1, <1>2, <1>3, <1>4, <1>5, <1>6, <1>7, <1>8

(* What a step of a program may be, and how far it moves step_index_. *)
LEMMA StepIsStep ==
  ASSUME NEW steps \in Seq(Step), NEW i \in Nat, i < Len(steps)
  PROVE  /\ StepAt(steps, i) \in Step
         /\ IfTargets(steps, i) \subseteq Nat
<1>1. StepAt(steps, i) \in Step
  BY DEF StepAt
<1>2. StepAt(steps, i).n \in Nat
  BY <1>1 DEF Step
<1> QED
  BY <1>1, <1>2 DEF IfTargets

LEMMA ConfigType ==
  ASSUME TypeOK
  PROVE  /\ \A s \in SeqNames : config.seqs[s] \in Seq(Step)
         /\ \A i \in DOMAIN config.bindings :
              config.bindings[i] \in Binding
         /\ config.bindings \in Seq(Binding)
<1>1. config \in Config
  BY Constants DEF TypeOK
<1>2. config.bindings \in Seq(Binding)
  BY <1>1 DEF Config
<1> QED
  BY <1>1, <1>2 DEF Config

LEMMA InitTInv == Init => TInv
<1> SUFFICES ASSUME Init PROVE TInv
  OBVIOUS
<1>1. Stopped \in Executor(SeqNames)
  BY DEF Executor, Stopped, NoSequence
<1>2. exec \in [Executors -> Executor(SeqNames)]
  BY <1>1 DEF Init, AllStopped
<1>3. imm \in [todo : SUBSET DOMAIN config.bindings, idx : Nat, running : BOOLEAN]
  BY DEF Init, NoBinding
<1>4. pc \in Pcs
  BY DEF Init, Pcs
<1>5. rxLeft \in 0..MaxRx
  BY Constants DEF Init
<1>6. state \in ControllerStates \cup {"OTHER"} /\ ctx \in ControllerStates \cup {NoSequence}
  BY DEF Init, ControllerStates
<1>7. TypeOK
  BY <1>2, <1>3, <1>4, <1>5, <1>6 DEF TypeOK, Init
<1>8. ExecutorsConsistent
  BY <1>1 DEF Init, ExecutorsConsistent, Good, AllStopped, Stopped, IsRunning
<1> QED
  BY <1>7, <1>8 DEF TInv, ContextRead, Init

(* An executor stays good under every operation the loop applies to it. *)
LEMMA GoodOperations ==
  ASSUME NEW x \in Executors, NEW e, Good(x, e), NEW n \in Nat
  PROVE  /\ Good(x, Stopped)
         /\ \A s \in OwnNames(x), b \in BOOLEAN : Good(x, Started(s, b))
         /\ e.st = "RUNNING" =>
              /\ e.seq \in OwnNames(x)
              /\ Good(x, Failed(e))
              /\ Good(x, Waiting(e, n))
              /\ Good(x, Finished(e))
              /\ Good(x, Advanced(e, n))
         /\ e.st = "WAITING_DELAY" /\ DelayDue(e) => Good(x, Woken(e))
         /\ Good(x, Elapsed(e, n))
<1> USE DEF Good, Executor, IsRunning
<1>0. OwnNames(x) \subseteq SeqNames
  BY DEF OwnNames, SeqNames, Executors
<1>1. Good(x, Stopped)
  BY DEF Stopped
<1>2. \A s \in OwnNames(x), b \in BOOLEAN : Good(x, Started(s, b))
  BY <1>0 DEF Started
<1>3. ASSUME e.st = "RUNNING" PROVE Good(x, Failed(e))
  BY <1>3 DEF Failed
<1>4. ASSUME e.st = "RUNNING" PROVE Good(x, Waiting(e, n))
  BY <1>4 DEF Waiting
<1>5. ASSUME e.st = "RUNNING" PROVE Good(x, Finished(e))
  BY <1>5 DEF Finished
<1>6. ASSUME e.st = "RUNNING" PROVE Good(x, Advanced(e, n))
  BY <1>6 DEF Advanced
<1>7. ASSUME e.st = "WAITING_DELAY", DelayDue(e) PROVE Good(x, Woken(e))
  <2>1. e.idx + 1 \in Nat /\ e.delay = 0
    BY <1>7 DEF DelayDue
  <2> QED
    BY <2>1, <1>7 DEF Woken
<1>8. Good(x, Elapsed(e, n))
  <2>1. (IF e.delay > n THEN e.delay - n ELSE 0) \in Nat
    OBVIOUS
  <2>2. e.delay = 0 => (IF e.delay > n THEN e.delay - n ELSE 0) = 0
    OBVIOUS
  <2> QED
    BY <2>1, <2>2 DEF Elapsed
<1>9. e.st = "RUNNING" => e.seq \in OwnNames(x)
  OBVIOUS
<1> QED
  BY <1>1, <1>2, <1>3, <1>4, <1>5, <1>6, <1>7, <1>8, <1>9

(* Replacing one executor by a good one keeps them all good. *)
LEMMA OneExecutorChanges ==
  ASSUME TInv, NEW x \in Executors, NEW e, Good(x, e),
         exec' = [exec EXCEPT ![x] = e]
  PROVE  /\ exec' \in [Executors -> Executor(SeqNames)]
         /\ ExecutorsConsistent'
<1>1. exec \in [Executors -> Executor(SeqNames)]
  BY DEF TInv, TypeOK
<1>2. e \in Executor(SeqNames)
  BY DEF Good
<1>3. exec' \in [Executors -> Executor(SeqNames)]
  BY <1>1, <1>2
<1>4. ASSUME NEW y \in Executors PROVE Good(y, exec'[y])
  <2>1. Good(y, exec[y])
    BY DEF TInv, ExecutorsConsistent
  <2> QED
    BY <1>1, <2>1
<1> QED
  BY <1>3, <1>4 DEF ExecutorsConsistent

LEMMA TimePasses ==
  ASSUME TInv, NEW n \in Nat, exec' = [x \in Executors |-> Elapsed(exec[x], n)]
  PROVE  /\ exec' \in [Executors -> Executor(SeqNames)]
         /\ ExecutorsConsistent'
<1>1. ASSUME NEW x \in Executors PROVE Good(x, Elapsed(exec[x], n))
  BY GoodOperations DEF TInv, ExecutorsConsistent
<1>2. ASSUME NEW x \in Executors PROVE Good(x, exec'[x])
  BY <1>1
<1>3. exec' \in [Executors -> Executor(SeqNames)]
  BY <1>1 DEF Good
<1> QED
  BY <1>2, <1>3 DEF ExecutorsConsistent

(* A MOVE op stops executors and moves to a fault state. *)
LEMMA MoveTyped ==
  ASSUME TInv, NEW x \in Executors, NEW op, MoveState(x, op)
  PROVE  /\ state' \in ControllerStates \cup {"OTHER"}
         /\ started' \in BOOLEAN
         /\ exec' \in [Executors -> Executor(SeqNames)]
         /\ ExecutorsConsistent'
<1>1. ASSUME NEW y \in Executors PROVE Good(y, exec'[y])
  <2>1. Good(y, exec[y]) /\ Good(y, Stopped)
    BY GoodOperations DEF TInv, ExecutorsConsistent
  <2> QED
    BY <2>1 DEF MoveState
<1>2. exec' \in [Executors -> Executor(SeqNames)]
  <2>1. exec' = [y \in Executors |-> exec'[y]]
    BY DEF MoveState
  <2> QED
    BY <1>1, <2>1 DEF Good
<1>3. state' \in ControllerStates \cup {"OTHER"}
  BY DEF MoveState, MoveTarget, TInv, TypeOK, ControllerStates
<1>4. started' \in BOOLEAN
  BY DEF MoveState, TInv, TypeOK
<1> QED
  BY <1>1, <1>2, <1>3, <1>4 DEF ExecutorsConsistent

LEMMA EnterTyped ==
  ASSUME TInv, NEW s \in ControllerStates \cup {"OTHER"}, EnterState(s)
  PROVE  /\ state' \in ControllerStates \cup {"OTHER"}
         /\ started' \in BOOLEAN
         /\ exec' \in [Executors -> Executor(SeqNames)]
         /\ ExecutorsConsistent'
<1>1. CASE state = "EMERGENCY"
  BY <1>1 DEF EnterState, TInv, TypeOK, ExecutorsConsistent
<1>2. CASE state # "EMERGENCY"
  <2>1. "state" \in Executors
    BY DEF Executors
  <2>2. Good("state", Stopped)
    BY <2>1, GoodOperations DEF TInv, ExecutorsConsistent
  <2>3. exec' = [exec EXCEPT !["state"] = Stopped] /\ state' = s /\ started' = FALSE
    BY <1>2 DEF EnterState
  <2> QED
    BY <2>1, <2>2, <2>3, OneExecutorChanges
<1> QED
  BY <1>1, <1>2

(* The step a running executor is at is one of its configured steps. *)
LEMMA RunningProgram ==
  ASSUME TInv, NEW x \in Executors, exec[x].st = "RUNNING"
  PROVE  /\ Good(x, exec[x])
         /\ exec[x].seq \in OwnNames(x)
         /\ exec[x].idx \in Nat
         /\ Program(x) \in Seq(Step)
         /\ AtStep(x) =>
              /\ CurrentStep(x) \in Step
              /\ IfTargets(Program(x), exec[x].idx) \subseteq Nat
<1>1. Good(x, exec[x])
  BY DEF TInv, ExecutorsConsistent
<1>2. exec[x].seq \in OwnNames(x)
  BY <1>1 DEF Good, IsRunning
<1>3. exec[x].idx \in Nat
  BY <1>1 DEF Good, Executor
<1>4. exec[x].seq \in SeqNames
  BY <1>2 DEF OwnNames, SeqNames, Executors
<1>5. Program(x) \in Seq(Step)
  BY <1>4, ConfigType DEF Program, TInv
<1>6. ASSUME AtStep(x)
      PROVE  CurrentStep(x) \in Step /\ IfTargets(Program(x), exec[x].idx) \subseteq Nat
  BY <1>3, <1>5, <1>6, StepIsStep DEF AtStep, CurrentStep
<1> QED
  BY <1>1, <1>2, <1>3, <1>5, <1>6

LEMMA TickTyped ==
  ASSUME TInv, NEW x \in Executors, TickStep(x)
  PROVE  /\ state' \in ControllerStates \cup {"OTHER"}
         /\ started' \in BOOLEAN
         /\ exec' \in [Executors -> Executor(SeqNames)]
         /\ ExecutorsConsistent'
<1> DEFINE Goal == /\ exec' \in [Executors -> Executor(SeqNames)]
                   /\ ExecutorsConsistent'
<1>0. ASSUME UNCHANGED exec PROVE Goal
  BY <1>0 DEF TInv, TypeOK, ExecutorsConsistent
<1>1. ASSUME UNCHANGED <<state, started>>
      PROVE  state' \in ControllerStates \cup {"OTHER"} /\ started' \in BOOLEAN
  BY <1>1 DEF TInv, TypeOK
<1>2. ASSUME exec[x].st = "RUNNING", StepFails(x) PROVE Goal
  <2>1. Good(x, Failed(exec[x]))
    BY <1>2, RunningProgram, GoodOperations, 0 \in Nat
  <2> QED
    BY <1>2, <2>1, OneExecutorChanges DEF StepFails
<1>3. ASSUME exec[x].st = "RUNNING", NEW k \in Nat, StepPasses(x, k) PROVE Goal
  <2>1. Good(x, Advanced(exec[x], k))
    BY <1>3, RunningProgram, GoodOperations
  <2> QED
    BY <1>3, <2>1, OneExecutorChanges DEF StepPasses
<1>4. CASE TickIdle(x)
  BY <1>4, <1>0, <1>1 DEF TickIdle
<1>5. CASE TickWake(x)
  <2>1. Good(x, Woken(exec[x]))
    BY <1>5, GoodOperations, 0 \in Nat DEF TickWake, TInv, ExecutorsConsistent
  <2> QED
    BY <1>5, <2>1, <1>1, OneExecutorChanges DEF TickWake
<1>6. CASE TickDelay(x)
  <2>1. exec[x].st = "RUNNING" /\ CurrentStep(x).n \in Nat
    BY <1>6, RunningProgram DEF TickDelay, AtStep, Step
  <2>2. Good(x, Waiting(exec[x], CurrentStep(x).n))
    BY <2>1, RunningProgram, GoodOperations
  <2> QED
    BY <1>6, <2>2, <1>1, OneExecutorChanges DEF TickDelay
<1>7. CASE TickIf(x)
  <2>1. exec[x].st = "RUNNING" /\ IfTargets(Program(x), exec[x].idx) \subseteq Nat
    BY <1>7, RunningProgram DEF TickIf, AtStep
  <2>2. StepFails(x) \/ \E k \in Nat : StepPasses(x, k)
    BY <1>7, <2>1 DEF TickIf
  <2> QED
    BY <1>7, <2>1, <2>2, <1>1, <1>2, <1>3 DEF TickIf
<1>8. CASE TickCanBusy(x)
  BY <1>8, <1>0, <1>1 DEF TickCanBusy
<1>9. CASE TickCanDone(x)
  BY <1>9, <1>1, <1>2, <1>3 DEF TickCanDone, AtStep
<1>10. CASE TickOp(x)
  <2>1. StepFails(x) \/ StepPasses(x, 1)
    BY <1>10 DEF TickOp
  <2> QED
    BY <1>10, <2>1, <1>1, <1>2, <1>3 DEF TickOp, AtStep
<1>11. CASE TickMove(x)
  BY <1>11, MoveTyped DEF TickMove
<1>12. CASE TickEnd(x)
  <2>1. Good(x, Finished(exec[x]))
    BY <1>12, RunningProgram, GoodOperations, 0 \in Nat DEF TickEnd
  <2> QED
    BY <1>12, <2>1, <1>1, OneExecutorChanges DEF TickEnd
<1> QED
  BY <1>4, <1>5, <1>6, <1>7, <1>8, <1>9, <1>10, <1>11, <1>12 DEF TickStep

(* Every place the main loop may go next is a place of the main loop. *)
LEMMA PcsClosed ==
  /\ \A x \in Executors : TickPc[x] \in Pcs /\ DonePc[x] \in Pcs
  /\ \A r \in RxPcs : ImmPc[r] \in ImmPcs /\ AfterRx[r] \in Pcs
  /\ \A r \in ImmPcs : RxPc[r] \in RxPcs
  /\ RxPcs \cup ImmPcs \subseteq Pcs
  /\ {"boot", "mainTick", "stateEnter", "stateTick", "canRx"} \subseteq Pcs
<1>1. \A x \in Executors : TickPc[x] \in Pcs /\ DonePc[x] \in Pcs
  BY DEF Pcs
<1>2. \A r \in RxPcs : ImmPc[r] \in ImmPcs
  BY DEF RxPcs, ImmPcs, ImmPc
<1>3. \A r \in RxPcs : AfterRx[r] \in {TickPc[x] : x \in Executors}
  BY DEF RxPcs, AfterRx, TickPc, Executors
<1>4. \A r \in ImmPcs : RxPc[r] \in RxPcs
  BY DEF RxPcs, ImmPcs, RxPc
<1>5. {"mainTick", "stateTick"} \subseteq {TickPc[x] : x \in Executors}
  BY DEF TickPc, Executors
<1> QED
  BY <1>1, <1>2, <1>3, <1>4, <1>5 DEF Pcs, RxPcs

(* What a step leaves typed, apart from where the main loop is. *)
ControllerTyped ==
  /\ state' \in ControllerStates \cup {"OTHER"}
  /\ started' \in BOOLEAN
  /\ exec' \in [Executors -> Executor(SeqNames)]
  /\ ExecutorsConsistent'

LEMMA NothingChanges ==
  ASSUME TInv, UNCHANGED <<state, started, exec>>
  PROVE  ControllerTyped
BY DEF TInv, TypeOK, ExecutorsConsistent, ControllerTyped

LEMMA StateTickTyped ==
  ASSUME TInv, StateTick
  PROVE  ControllerTyped
<1>1. ASSUME NEW s \in ControllerStates \cup {"OTHER"}, EnterState(s) PROVE ControllerTyped
  BY <1>1, EnterTyped DEF ControllerTyped
<1>2. NextStateAfterSequence(state) \in ControllerStates \cup {"OTHER"}
  BY DEF NextStateAfterSequence, TInv, TypeOK, ControllerStates
<1>3. CASE StateWithoutSteps
  BY <1>1, <1>2, <1>3, NothingChanges DEF StateWithoutSteps, OneShotComplete
<1>4. CASE StateWithSteps
  BY <1>4, NothingChanges DEF StateWithSteps
<1>5. CASE StateStillRunning
  BY <1>5, NothingChanges DEF StateStillRunning
<1>6. CASE StateOneShotDone
  <2>1. CASE EnterState(NextStateAfterSequence(state))
    BY <2>1, <1>1, <1>2
  <2>2. CASE started' = FALSE /\ UNCHANGED <<state, exec>>
    BY <2>2 DEF ControllerTyped, TInv, TypeOK, ExecutorsConsistent
  <2> QED
    BY <1>6, <2>1, <2>2 DEF StateOneShotDone
<1>7. CASE StateLoopDown
  BY <1>7, NothingChanges DEF StateLoopDown
<1>8. CASE StateStart
  <2>1. started' \in BOOLEAN /\ state' = state
    BY <1>8 DEF StateStart, CanStart, Startable
  <2>2. CASE ~started'
    BY <1>8, <2>1, <2>2 DEF StateStart, ControllerTyped, TInv, TypeOK, ExecutorsConsistent
  <2>3. CASE started'
    <3>1. ctx \in ControllerStates
      BY <1>8 DEF StateStart, LeaveStateTick, TInv, ContextRead
    <3>2. IsStateTickLoop(ctx) \in BOOLEAN
      BY DEF IsStateTickLoop
    <3>3. "state" \in Executors /\ ctx \in OwnNames("state")
      BY <3>1 DEF Executors, OwnNames
    <3>4. Good("state", exec["state"])
      BY <3>3 DEF TInv, ExecutorsConsistent
    <3>5. Good("state", Started(ctx, IsStateTickLoop(ctx)))
      BY <3>2, <3>3, <3>4, GoodOperations, 0 \in Nat
    <3>6. exec' = [exec EXCEPT !["state"] = Started(ctx, IsStateTickLoop(ctx))]
      BY <1>8, <2>3 DEF StateStart
    <3> QED
      BY <2>1, <3>3, <3>5, <3>6, OneExecutorChanges DEF ControllerTyped, TInv, TypeOK
  <2> QED
    BY <2>2, <2>3
<1> QED
  BY <1>3, <1>4, <1>5, <1>6, <1>7, <1>8 DEF StateTick

LEMMA ReceiveTyped ==
  ASSUME TInv, Receive
  PROVE  ControllerTyped
<1>1. ASSUME NEW n \in Nat, exec' = [x \in Executors |-> Elapsed(exec[x], n)],
             UNCHANGED <<state, started>>
      PROVE  ControllerTyped
  BY <1>1, TimePasses DEF ControllerTyped, TInv, TypeOK
<1>2. CASE RxDone
  BY <1>2, NothingChanges DEF RxDone
<1>3. ASSUME NEW req \in Requests, RxStateCommand(req)
      PROVE  ControllerTyped
  <2>1. CASE RequestEntersState(req)
    <3>1. req \in ControllerStates \cup {"OTHER"}
      BY <2>1 DEF RequestEntersState, Requests
    <3> QED
      BY <1>3, <2>1, <3>1, EnterTyped DEF RxStateCommand, ControllerTyped
  <2>2. CASE ~RequestEntersState(req)
    BY <1>3, <2>2, NothingChanges DEF RxStateCommand
  <2> QED
    BY <2>1, <2>2
<1>4. ASSUME NEW n \in 0..MaxDelay, RxMicroCommand(n)
      PROVE  ControllerTyped
  BY <1>1, <1>4, Constants DEF RxMicroCommand
<1>5. ASSUME NEW m \in Messages, RxCommand(m)
      PROVE  ControllerTyped
  BY <1>5, NothingChanges DEF RxCommand
<1>6. CASE NoBindingLeft
  BY <1>6, NothingChanges DEF NoBindingLeft
<1>7. ASSUME NEW i \in imm.todo, BindingStep(i)
      PROVE  ControllerTyped
  <2>0. "command" \in Executors
    BY DEF Executors
  <2>1. CASE ExtractFails(i)
    BY <2>1, NothingChanges DEF ExtractFails
  <2>2. CASE ImmediateStart(i)
    <3>1. CASE UNCHANGED exec
      BY <2>2, <3>1, NothingChanges DEF ImmediateStart
    <3>2. CASE exec' = [exec EXCEPT !["command"] = Stopped]
      <4>1. Good("command", Stopped)
        BY <2>0, GoodOperations, 0 \in Nat DEF TInv, ExecutorsConsistent
      <4> QED
        BY <2>0, <2>2, <3>2, <4>1, OneExecutorChanges
           DEF ImmediateStart, ControllerTyped, TInv, TypeOK
    <3> QED
      BY <2>2, <3>1, <3>2 DEF ImmediateStart
  <2>3. CASE ImmediateDelay(i)
    <3>1. ImmediateOp(i) \in Step
      <4>1. config.bindings[i].seq \in Seq(Step) /\ imm.idx \in Nat
        BY ConfigType DEF TInv, TypeOK, Binding
      <4> QED
        BY <4>1, <2>3, StepIsStep DEF ImmediateDelay, AtImmediate, ImmediateOp
    <3>2. ImmediateOp(i).n \in Nat
      BY <3>1 DEF Step
    <3> QED
      BY <1>1, <2>3, <3>2 DEF ImmediateDelay
  <2>4. CASE ImmediateIf(i)
    BY <2>4, NothingChanges DEF ImmediateIf
  <2>5. CASE ImmediateStep(i)
    BY <2>5, NothingChanges DEF ImmediateStep
  <2>6. CASE ImmediateMove(i)
    BY <2>0, <2>6, MoveTyped DEF ImmediateMove, ControllerTyped
  <2>7. CASE ImmediateEnd(i)
    BY <2>7, NothingChanges DEF ImmediateEnd
  <2> QED
    BY <1>7, <2>1, <2>2, <2>3, <2>4, <2>5, <2>6, <2>7 DEF BindingStep
<1> QED
  BY <1>2, <1>3, <1>4, <1>5, <1>6, <1>7 DEF Receive

(* The binding loop's variable keeps its type. *)
LEMMA ImmediateTyped ==
  ASSUME TInv, NEW i \in imm.todo, BindingStep(i)
  PROVE  imm' \in [todo : SUBSET DOMAIN config.bindings, idx : Nat, running : BOOLEAN]
<1> DEFINE T == [todo : SUBSET DOMAIN config.bindings, idx : Nat, running : BOOLEAN]
<1>0. imm \in T /\ i \in DOMAIN config.bindings
  BY DEF TInv, TypeOK
<1>1. NoBinding \in T
  BY DEF NoBinding
<1>2. ASSUME BindingLoopReturns PROVE imm' \in T
  BY <1>1, <1>2 DEF BindingLoopReturns
<1>3. ASSUME NextBinding(i) PROVE imm' \in T
  BY <1>0, <1>3 DEF NextBinding, NoBinding
<1>4. ASSUME NEW k \in Nat, ImmediatePasses(k) PROVE imm' \in T
  <2>1. imm.idx + k \in Nat
    BY <1>0
  <2> QED
    BY <1>0, <1>4, <2>1 DEF ImmediatePasses
<1>5. CASE ImmediateStart(i)
  BY <1>0, <1>3, <1>5 DEF ImmediateStart
<1>6. CASE ImmediateIf(i)
  <2>1. IfTargets(config.bindings[i].seq, imm.idx) \subseteq Nat
    BY <1>0, <1>6, ConfigType, StepIsStep DEF ImmediateIf, AtImmediate, TInv, Binding
  <2> QED
    BY <1>3, <1>4, <1>6, <2>1 DEF ImmediateIf
<1>7. CASE ImmediateStep(i)
  BY <1>3, <1>4, <1>7, 1 \in Nat DEF ImmediateStep
<1> QED
  BY <1>2, <1>4, <1>5, <1>6, <1>7, 1 \in Nat
     DEF BindingStep, ExtractFails, ImmediateDelay, ImmediateMove, ImmediateEnd

(* The rest of the state: the main loop's place and its local variables. *)
LoopTyped ==
  /\ config' = config
  /\ pc' \in Pcs
  /\ ctx' \in ControllerStates \cup {NoSequence}
  /\ rxLeft' \in 0..MaxRx
  /\ imm' \in [todo : SUBSET DOMAIN config.bindings, idx : Nat, running : BOOLEAN]
  /\ ContextRead'

LEMMA LoopTypedInTick ==
  ASSUME TInv, NEW x \in Executors, TickStep(x)
  PROVE  LoopTyped
<1>1. UNCHANGED <<config, ctx, rxLeft, imm>>
  BY DEF TickStep, TickIdle, TickWake, TickDelay, TickIf, TickCanBusy, TickCanDone, TickOp,
         TickMove, TickEnd, Frame
<1>2. pc = TickPc[x] /\ pc' \in {pc, DonePc[x]}
  BY DEF TickStep, TickIdle, TickWake, TickDelay, TickIf, TickCanBusy, TickCanDone, TickOp,
         TickMove, TickEnd, AtStep, AtTick, TickReturns, StepFails, StepPasses
<1>3. DonePc[x] = "stateAfter" => pc = "stateTick"
  BY <1>2 DEF DonePc, TickPc, Executors
<1>4. DonePc[x] # "stateTick"
  BY DEF DonePc, Executors
<1>5. ContextRead'
  BY <1>1, <1>2, <1>3, <1>4 DEF ContextRead, TInv
<1> QED
  BY <1>1, <1>2, <1>5, PcsClosed DEF LoopTyped, TInv, TypeOK

LEMMA LoopTypedInStateTick ==
  ASSUME TInv, StateTick
  PROVE  LoopTyped
<1>1. UNCHANGED <<config, rxLeft, imm>>
  BY DEF StateTick, StateWithoutSteps, StateWithSteps, StateStillRunning, StateOneShotDone,
         StateLoopDown, StateStart, LeaveStateTick
<1>2. \/ pc' = "canRx" /\ ctx' \in {ctx, NoSequence}
      \/ pc' = "stateTick" /\ ctx' \in ControllerStates
  BY DEF StateTick, StateWithoutSteps, StateWithSteps, StateStillRunning, StateOneShotDone,
         StateLoopDown, StateStart, LeaveStateTick
<1> QED
  BY <1>1, <1>2, PcsClosed DEF LoopTyped, ContextRead, TInv, TypeOK

LEMMA LoopTypedInReceive ==
  ASSUME TInv, Receive
  PROVE  LoopTyped
<1> USE PcsClosed
<1>0. rxLeft \in 0..MaxRx /\ MaxRx \in Nat /\ pc \in Pcs /\ ctx \in ControllerStates \cup {NoSequence}
      /\ imm \in [todo : SUBSET DOMAIN config.bindings, idx : Nat, running : BOOLEAN]
  BY Constants DEF TInv, TypeOK
<1>1. \A p \in RxPcs \cup ImmPcs : p # "stateTick" /\ p # "stateAfter"
  BY DEF RxPcs, ImmPcs
<1>2. CASE RxDone
  <2>1. AfterRx[pc] # "stateTick" /\ AfterRx[pc] # "stateAfter"
    BY <1>2 DEF RxDone, RxPcs, AfterRx
  <2> QED
    BY <1>0, <1>2, <2>1 DEF RxDone, LoopTyped, ContextRead
<1>3. ASSUME HandleInbound, pc' = pc, imm' = imm PROVE LoopTyped
  BY <1>0, <1>1, <1>3 DEF HandleInbound, LoopTyped, ContextRead
<1>4. ASSUME NEW m \in Messages, RxCommand(m) PROVE LoopTyped
  <2>1. imm' \in [todo : SUBSET DOMAIN config.bindings, idx : Nat, running : BOOLEAN]
    BY <1>4 DEF RxCommand, NoBinding
  <2>2. pc' \in ImmPcs
    BY <1>4 DEF RxCommand, HandleInbound
  <2> QED
    BY <1>0, <1>1, <1>4, <2>1, <2>2 DEF RxCommand, HandleInbound, LoopTyped, ContextRead
<1>5. CASE NoBindingLeft
  <2>1. pc' \in RxPcs /\ imm' = NoBinding
    BY <1>5 DEF NoBindingLeft, BindingLoopReturns
  <2>2. NoBinding \in [todo : SUBSET DOMAIN config.bindings, idx : Nat, running : BOOLEAN]
    BY DEF NoBinding
  <2> QED
    BY <1>0, <1>1, <1>5, <2>1, <2>2 DEF NoBindingLeft, LoopTyped, ContextRead
<1>6. ASSUME NEW i \in imm.todo, BindingStep(i) PROVE LoopTyped
  <2>1. pc \in ImmPcs /\ UNCHANGED <<config, ctx, rxLeft>>
    BY <1>6 DEF BindingStep, ExtractFails, ImmediateStart, ImmediateDelay, ImmediateIf,
                ImmediateStep, ImmediateMove, ImmediateEnd, AtImmediate, AtBinding
  <2>2. pc' \in RxPcs \cup ImmPcs
    BY <1>6, <2>1 DEF BindingStep, ExtractFails, ImmediateStart, ImmediateDelay, ImmediateIf,
                ImmediateStep, ImmediateMove, ImmediateEnd, ImmediatePasses, NextBinding,
                BindingLoopReturns
  <2> QED
    BY <1>0, <1>1, <1>6, <2>1, <2>2, ImmediateTyped DEF LoopTyped, ContextRead
<1> QED
  BY <1>2, <1>3, <1>4, <1>5, <1>6 DEF Receive, RxStateCommand, RxMicroCommand

LEMMA TypedTogether ==
  ASSUME ControllerTyped, LoopTyped, TInv
  PROVE  TInv'
BY DEF ControllerTyped, LoopTyped, TInv, TypeOK

LEMMA NextTInv == TInv /\ [Next]_vars => TInv'
<1> SUFFICES ASSUME TInv, [Next]_vars PROVE TInv'
  OBVIOUS
<1>1. CASE ApplicationInit
  <2>1. "command" \in Executors /\ "powerup" \in OwnNames("command")
    BY DEF Executors, OwnNames
  <2>2. Good("command", Started("powerup", FALSE))
    BY <2>1, GoodOperations, 0 \in Nat DEF TInv, ExecutorsConsistent
  <2>3. UNCHANGED exec \/ exec' = [exec EXCEPT !["command"] = Started("powerup", FALSE)]
    BY <1>1 DEF ApplicationInit
  <2>4. ControllerTyped
    BY <1>1, <2>1, <2>2, <2>3, OneExecutorChanges, NothingChanges
       DEF ApplicationInit, ControllerTyped, TInv, TypeOK
  <2>5. LoopTyped
    BY <1>1, PcsClosed DEF ApplicationInit, LoopTyped, ContextRead, TInv, TypeOK
  <2> QED
    BY <2>4, <2>5, TypedTogether
<1>2. ASSUME NEW x \in Executors, TickStep(x) PROVE TInv'
  BY <1>2, TickTyped, LoopTypedInTick, TypedTogether DEF ControllerTyped
<1>3. CASE MainRestart
  <2>1. "main" \in Executors /\ "main" \in OwnNames("main")
    BY DEF Executors, OwnNames
  <2>2. Good("main", Started("main", TRUE))
    BY <2>1, GoodOperations, 0 \in Nat DEF TInv, ExecutorsConsistent
  <2>3. UNCHANGED exec \/ exec' = [exec EXCEPT !["main"] = Started("main", TRUE)]
    BY <1>3 DEF MainRestart
  <2>4. ControllerTyped
    BY <1>3, <2>1, <2>2, <2>3, OneExecutorChanges, NothingChanges
       DEF MainRestart, ControllerTyped, TInv, TypeOK
  <2>5. LoopTyped
    BY <1>3, PcsClosed DEF MainRestart, LoopTyped, ContextRead, TInv, TypeOK
  <2> QED
    BY <2>4, <2>5, TypedTogether
<1>4. CASE StateTick
  BY <1>4, StateTickTyped, LoopTypedInStateTick, TypedTogether
<1>5. CASE Receive
  BY <1>5, ReceiveTyped, LoopTypedInReceive, TypedTogether
<1>6. CASE SysTick
  <2>1. ControllerTyped
    BY <1>6, TimePasses, 1 \in Nat DEF SysTick, ControllerTyped, TInv, TypeOK
  <2>2. LoopTyped
    BY <1>6 DEF SysTick, LoopTyped, ContextRead, TInv, TypeOK
  <2> QED
    BY <2>1, <2>2, TypedTogether
<1>7. CASE Reset
  <2>1. \A x \in Executors : Good(x, Stopped)
    BY GoodOperations, 0 \in Nat DEF TInv, ExecutorsConsistent
  <2>2. exec' = AllStopped
    BY <1>7 DEF Reset
  <2>3. ControllerTyped
    BY <1>7, <2>1, <2>2
       DEF Reset, ControllerTyped, AllStopped, ControllerStates, ExecutorsConsistent, Good
  <2>4. MaxRx \in 0..MaxRx
    BY Constants
  <2>5. NoBinding \in [todo : SUBSET DOMAIN config.bindings, idx : Nat, running : BOOLEAN]
    BY DEF NoBinding
  <2>6. LoopTyped
    BY <1>7, <2>4, <2>5, PcsClosed DEF Reset, LoopTyped, ContextRead
  <2> QED
    BY <2>3, <2>6, TypedTogether
<1>8. CASE UNCHANGED vars
  BY <1>8 DEF vars, TInv, TypeOK, ExecutorsConsistent, ContextRead
<1> QED
  BY <1>1, <1>2, <1>3, <1>4, <1>5, <1>6, <1>7, <1>8 DEF Next, MainLoop

(* Every variable keeps its type, for every configuration: a running        *)
(* executor always has a sequence to run, and one of its own kind.          *)
THEOREM TypeCorrect == Spec => []TypeOK
<1>1. TInv => TypeOK
  BY DEF TInv
<1> QED
  BY <1>1, InitTInv, NextTInv, PTL DEF Spec

-----------------------------------------------------------------------------
(***************************************************************************)
(* The state sequence.  What makes the two properties inductive is what the *)
(* local variables of tickStateSequence() say about the controller: before  *)
(* the executor's tick the looked-up state is the state; after it, it still *)
(* is if the sequence counts as started, and if it is not, then a sequence  *)
(* that outlives its state is about to be started.                          *)
(***************************************************************************)
LookupIsCurrent ==
  /\ pc = "stateTick" => ctx = state
  /\ pc = "stateAfter" /\ started => ctx = state
  /\ pc = "stateAfter" /\ ctx # state => MayOutliveItsState(ctx)
ActiveIsStarted == exec["state"].st # "IDLE" => started

StateInv ==
  /\ RunningSequenceIsStarted
  /\ StaleSequenceOnlyAfterFault
  /\ ActiveIsStarted
  /\ LookupIsCurrent

(* A step elsewhere, one that stops the state executor, one of its own tick. *)
OutsideStateTick == pc' \notin {"stateTick", "stateAfter"}
Elsewhere ==
  /\ UNCHANGED <<config, state, started>>
  /\ exec'["state"].st = exec["state"].st
  /\ exec'["state"].seq = exec["state"].seq
  /\ exec'["state"].loop = exec["state"].loop
  /\ OutsideStateTick \/ UNCHANGED <<pc, ctx>>
Stopping == config' = config /\ exec'["state"] = Stopped /\ OutsideStateTick
OwnStep ==
  /\ UNCHANGED <<config, state, started, ctx>>
  /\ exec["state"].st # "IDLE" \/ exec'["state"].st = "IDLE"
  /\ IsRunning(exec'["state"]) =>
       /\ IsRunning(exec["state"])
       /\ exec'["state"].seq = exec["state"].seq
       /\ exec'["state"].loop = exec["state"].loop
  /\ pc = "stateTick" /\ pc' \in {"stateTick", "stateAfter"}

LEMMA StoppedIsIdle == Stopped.st = "IDLE" /\ ~IsRunning(Stopped)
BY DEF Stopped, IsRunning

LEMMA ElsewhereKeeps == StateInv /\ Elsewhere => StateInv'
BY DEF StateInv, Elsewhere, OutsideStateTick, RunningSequenceIsStarted, StaleSequenceOnlyAfterFault,
       MayOutliveItsState, ActiveIsStarted, LookupIsCurrent, IsRunning

LEMMA StoppingKeeps == StateInv /\ Stopping => StateInv'
BY StoppedIsIdle
   DEF StateInv, Stopping, OutsideStateTick, RunningSequenceIsStarted, StaleSequenceOnlyAfterFault,
       ActiveIsStarted, LookupIsCurrent

LEMMA OwnStepKeeps == StateInv /\ OwnStep => StateInv'
BY DEF StateInv, OwnStep, RunningSequenceIsStarted, StaleSequenceOnlyAfterFault,
       MayOutliveItsState, ActiveIsStarted, LookupIsCurrent, IsRunning

(* enterState() either stops the state executor or changes nothing. *)
LEMMA EnterStops ==
  ASSUME TInv, NEW s, EnterState(s), config' = config, OutsideStateTick
  PROVE  Stopping \/ Elsewhere
<1>1. "state" \in Executors /\ exec \in [Executors -> Executor(SeqNames)]
  BY DEF TInv, TypeOK, Executors
<1> QED
  BY <1>1 DEF EnterState, Stopping, Elsewhere

LEMMA MoveStops ==
  ASSUME TInv, NEW x \in Executors, x # "state", NEW op, MoveState(x, op),
         config' = config, OutsideStateTick
  PROVE  Stopping \/ Elsewhere
<1>1. "state" \in Executors
  BY DEF Executors
<1> QED
  BY <1>1 DEF MoveState, Stopping, Elsewhere

LEMMA TimeElsewhere ==
  ASSUME TInv, NEW n \in Nat, exec' = [x \in Executors |-> Elapsed(exec[x], n)],
         UNCHANGED <<config, state, started>>,
         OutsideStateTick \/ UNCHANGED <<pc, ctx>>
  PROVE  Elsewhere
<1>1. "state" \in Executors
  BY DEF Executors
<1>2. exec["state"] \in Executor(SeqNames)
  BY <1>1 DEF TInv, TypeOK
<1>3. exec'["state"] = Elapsed(exec["state"], n)
  BY <1>1
<1> QED
  BY <1>2, <1>3 DEF Elapsed, Elsewhere, Executor

(* The ticks of the other two executors. *)
LEMMA OtherTick ==
  ASSUME TInv, NEW x \in {"main", "command"}, TickStep(x)
  PROVE  Stopping \/ Elsewhere
<1>0. x \in Executors /\ "state" \in Executors /\ x # "state"
      /\ exec \in [Executors -> Executor(SeqNames)]
  BY DEF Executors, TInv, TypeOK
<1>1. OutsideStateTick /\ config' = config
  <2>1. pc = TickPc[x] /\ pc' \in {pc, DonePc[x]} /\ config' = config
    BY DEF TickStep, TickIdle, TickWake, TickDelay, TickIf, TickCanBusy, TickCanDone, TickOp,
           TickMove, TickEnd, AtStep, AtTick, TickReturns, StepFails, StepPasses, Frame
  <2> QED
    BY <2>1 DEF TickPc, DonePc, Executors, OutsideStateTick
<1>2. ASSUME UNCHANGED <<state, started>>, exec'["state"] = exec["state"] PROVE Elsewhere
  BY <1>1, <1>2 DEF Elsewhere
<1>3. ASSUME StepFails(x) \/ \E k : StepPasses(x, k) PROVE exec'["state"] = exec["state"]
  BY <1>0, <1>3 DEF StepFails, StepPasses
<1>4. CASE TickMove(x)
  BY <1>0, <1>1, <1>4, MoveStops DEF TickMove
<1>5. CASE TickIdle(x) \/ TickWake(x) \/ TickDelay(x) \/ TickCanBusy(x) \/ TickEnd(x)
  BY <1>0, <1>2, <1>5 DEF TickIdle, TickWake, TickDelay, TickCanBusy, TickEnd
<1>6. CASE TickIf(x)
  BY <1>2, <1>3, <1>6 DEF TickIf
<1>7. CASE TickCanDone(x) \/ TickOp(x)
  <2>1. StepFails(x) \/ StepPasses(x, 1)
    BY <1>7 DEF TickCanDone, TickOp
  <2> QED
    BY <1>2, <1>3, <1>7, <2>1 DEF TickCanDone, TickOp
<1> QED
  BY <1>4, <1>5, <1>6, <1>7 DEF TickStep

(* The state executor's own tick, and the start after it. *)
LEMMA StateExecutorTick ==
  ASSUME TInv, StateInv, TickStep("state")
  PROVE  StateInv'
<1>0. "state" \in Executors /\ exec \in [Executors -> Executor(SeqNames)]
      /\ exec["state"] \in Executor(SeqNames)
  BY DEF Executors, TInv, TypeOK
<1>1. config' = config /\ ctx' = ctx /\ pc = "stateTick" /\ pc' \in {"stateTick", "stateAfter"}
  BY DEF TickStep, TickIdle, TickWake, TickDelay, TickIf, TickCanBusy, TickCanDone, TickOp,
         TickMove, TickEnd, AtStep, AtTick, TickReturns, StepFails, StepPasses, Frame, TickPc, DonePc,
         Executors
<1>2. ASSUME exec["state"].st = "RUNNING", UNCHANGED <<state, started>>,
             StepFails("state") \/ \E k : StepPasses("state", k)
      PROVE  OwnStep
  <2>1. CASE StepFails("state")
    <3>1. exec'["state"] = Failed(exec["state"])
      BY <1>0, <2>1 DEF StepFails
    <3>2. exec'["state"].st = "ERROR"
      BY <1>0, <3>1 DEF Failed, Executor
    <3> QED
      BY <1>1, <1>2, <3>2 DEF OwnStep, IsRunning
  <2>2. ASSUME NEW k, StepPasses("state", k) PROVE OwnStep
    <3>1. exec'["state"] = Advanced(exec["state"], k)
      BY <1>0, <2>2 DEF StepPasses
    <3>2. /\ exec'["state"].st = exec["state"].st
          /\ exec'["state"].seq = exec["state"].seq
          /\ exec'["state"].loop = exec["state"].loop
      BY <1>0, <3>1 DEF Advanced, Executor
    <3> QED
      BY <1>1, <1>2, <3>2 DEF OwnStep, IsRunning
  <2> QED
    BY <1>2, <2>1, <2>2
<1>3. CASE TickIdle("state") \/ TickCanBusy("state")
  BY <1>1, <1>3, OwnStepKeeps DEF TickIdle, TickCanBusy, OwnStep
<1>4. CASE TickWake("state")
  BY <1>0, <1>1, <1>4, OwnStepKeeps DEF TickWake, Woken, OwnStep, Executor, IsRunning
<1>5. CASE TickDelay("state")
  BY <1>0, <1>1, <1>5, OwnStepKeeps DEF TickDelay, AtStep, Waiting, OwnStep, Executor, IsRunning
<1>6. CASE TickEnd("state")
  BY <1>0, <1>1, <1>6, OwnStepKeeps DEF TickEnd, Finished, OwnStep, Executor, IsRunning
<1>7. CASE TickIf("state")
  BY <1>2, <1>7, OwnStepKeeps DEF TickIf, AtStep
<1>8. CASE TickCanDone("state") \/ TickOp("state")
  <2>1. StepFails("state") \/ StepPasses("state", 1)
    BY <1>8 DEF TickCanDone, TickOp
  <2> QED
    BY <1>2, <1>8, <2>1, OwnStepKeeps DEF TickCanDone, TickOp, AtStep
<1>9. CASE TickMove("state")
  <2>1. exec'["state"] = Stopped
    BY <1>0, <1>9 DEF TickMove, MoveState
  <2>2. HasMove(config.seqs[exec["state"].seq])
    <3>1. exec["state"].st = "RUNNING" /\ AtStep("state") /\ CurrentStep("state").op \in MoveOps
      BY <1>9 DEF TickMove, AtStep
    <3>2. Program("state") \in Seq(Step) /\ exec["state"].idx \in Nat
      BY <1>0, <3>1, RunningProgram
    <3>3. exec["state"].idx + 1 \in DOMAIN Program("state")
      BY <3>1, <3>2 DEF AtStep
    <3> QED
      BY <3>1, <3>3 DEF HasMove, CurrentStep, StepAt, Program
  <2>3. ctx = state /\ pc' = "stateAfter" /\ IsRunning(exec["state"])
    BY <1>1, <1>9 DEF StateInv, LookupIsCurrent, TickMove, TickReturns, DonePc, Executors, AtStep, IsRunning
  <2>4. CASE state = "EMERGENCY"
    BY <1>1, <1>9, <2>1, <2>3, <2>4, StoppedIsIdle
       DEF TickMove, MoveState, StateInv, RunningSequenceIsStarted, StaleSequenceOnlyAfterFault,
           ActiveIsStarted, LookupIsCurrent
  <2>5. CASE state # "EMERGENCY"
    <3>1. state' \in {"ERROR", "EMERGENCY"} /\ started' = FALSE
      BY <1>9, <2>5 DEF TickMove, MoveState, MoveTarget
    <3>2. ctx # state' => HasMove(config.seqs[ctx]) \/ (ctx = "ERROR" /\ state' = "EMERGENCY")
      BY <2>2, <2>3, <2>5, <3>1 DEF StateInv, StaleSequenceOnlyAfterFault, MayOutliveItsState
    <3> QED
      BY <1>1, <2>1, <2>3, <3>1, <3>2, StoppedIsIdle
         DEF StateInv, RunningSequenceIsStarted, StaleSequenceOnlyAfterFault, ActiveIsStarted,
             LookupIsCurrent, MayOutliveItsState
  <2> QED
    BY <2>4, <2>5
<1> QED
  BY <1>3, <1>4, <1>5, <1>6, <1>7, <1>8, <1>9 DEF TickStep

LEMMA StateTickKeeps ==
  ASSUME TInv, StateInv, StateTick
  PROVE  StateInv'
<1> USE ElsewhereKeeps, StoppingKeeps
<1>0. "state" \in Executors /\ exec \in [Executors -> Executor(SeqNames)]
  BY DEF Executors, TInv, TypeOK
<1>1. CASE StateWithoutSteps
  <2>1. config' = config /\ OutsideStateTick
    BY <1>1 DEF StateWithoutSteps, OutsideStateTick
  <2>2. CASE UNCHANGED <<state, started, exec>>
    BY <2>1, <2>2 DEF Elsewhere
  <2>3. CASE OneShotComplete
    BY <2>1, <2>2, <2>3, EnterStops DEF OneShotComplete
  <2> QED
    BY <1>1, <2>2, <2>3 DEF StateWithoutSteps
<1>2. CASE StateWithSteps
  BY <1>2 DEF StateWithSteps, StateInv, RunningSequenceIsStarted, StaleSequenceOnlyAfterFault,
              MayOutliveItsState, ActiveIsStarted, LookupIsCurrent
<1>3. CASE StateStillRunning \/ StateLoopDown
  BY <1>3 DEF StateStillRunning, StateLoopDown, LeaveStateTick, Elsewhere, OutsideStateTick
<1>4. CASE StateOneShotDone
  <2>1. pc = "stateAfter" /\ config' = config /\ OutsideStateTick /\ started /\ ~IsStateTickLoop(ctx)
    BY <1>4 DEF StateOneShotDone, LeaveStateTick, OutsideStateTick
  <2>2. state \in OneShotStates
    <3>1. ctx \in ControllerStates
      BY <2>1 DEF TInv, ContextRead
    <3>2. ctx = state
      BY <2>1 DEF StateInv, LookupIsCurrent
    <3> QED
      BY <2>1, <3>1, <3>2 DEF IsStateTickLoop
  <2>3. NextStateAfterSequence(state) # state
    BY <2>2 DEF OneShotStates, NextStateAfterSequence
  <2> QED
    BY <1>4, <2>1, <2>3, EnterStops DEF StateOneShotDone
<1>5. CASE StateStart
  <2>1. /\ pc = "stateAfter" /\ OutsideStateTick /\ UNCHANGED <<config, state>>
        /\ ~IsRunning(exec["state"]) /\ ~started
    BY <1>5 DEF StateStart, LeaveStateTick, OutsideStateTick
  <2>2. CASE ~started'
    <3>1. exec' = exec
      BY <1>5, <2>2 DEF StateStart
    <3> QED
      BY <2>1, <2>2, <3>1
         DEF StateInv, RunningSequenceIsStarted, StaleSequenceOnlyAfterFault, ActiveIsStarted,
             LookupIsCurrent, OutsideStateTick
  <2>3. CASE started'
    <3>1. exec'["state"] = Started(ctx, IsStateTickLoop(ctx))
      BY <1>0, <1>5, <2>3 DEF StateStart
    <3>2. exec'["state"].seq = ctx /\ exec'["state"].loop = IsStateTickLoop(ctx)
      BY <3>1 DEF Started
    <3>3. ctx # state => MayOutliveItsState(ctx)
      BY <2>1 DEF StateInv, LookupIsCurrent
    <3>4. StaleSequenceOnlyAfterFault'
      BY <2>1, <3>2, <3>3 DEF StaleSequenceOnlyAfterFault, MayOutliveItsState
    <3> QED
      BY <2>1, <2>3, <3>2, <3>4
         DEF StateInv, RunningSequenceIsStarted, ActiveIsStarted, LookupIsCurrent, OutsideStateTick
  <2> QED
    BY <2>2, <2>3
<1> QED
  BY <1>1, <1>2, <1>3, <1>4, <1>5 DEF StateTick

LEMMA ReceiveKeeps ==
  ASSUME TInv, StateInv, Receive
  PROVE  StateInv'
<1> USE ElsewhereKeeps, StoppingKeeps
<1>0. "state" \in Executors /\ "command" \in Executors
  BY DEF Executors
<1>1. config' = config /\ OutsideStateTick
  <2>1. pc \in RxPcs \cup ImmPcs
    BY DEF Receive, RxDone, RxStateCommand, RxMicroCommand, RxCommand, HandleInbound, NoBindingLeft,
           BindingStep, ExtractFails, ImmediateStart, ImmediateDelay, ImmediateIf, ImmediateStep,
           ImmediateMove, ImmediateEnd, AtImmediate, AtBinding
  <2>2. /\ config' = config
        /\ \/ pc' = pc
           \/ pc \in RxPcs /\ pc' \in {AfterRx[pc], ImmPc[pc]}
           \/ pc \in ImmPcs /\ pc' = RxPc[pc]
    BY DEF Receive, RxDone, RxStateCommand, RxMicroCommand, RxCommand, HandleInbound, NoBindingLeft,
           BindingStep, ExtractFails, ImmediateStart, ImmediateDelay, ImmediateIf, ImmediateStep,
           ImmediateMove, ImmediateEnd, AtImmediate, AtBinding, ImmediatePasses, NextBinding,
           BindingLoopReturns
  <2> QED
    BY <2>1, <2>2 DEF OutsideStateTick, RxPcs, ImmPcs, AfterRx, ImmPc, RxPc
<1>2. ASSUME UNCHANGED <<state, started>>, exec'["state"] = exec["state"] PROVE StateInv'
  BY <1>1, <1>2 DEF Elsewhere
<1>3. ASSUME NEW req \in Requests, RxStateCommand(req) PROVE StateInv'
  BY <1>1, <1>2, <1>3, EnterStops DEF RxStateCommand
<1>4. ASSUME NEW n \in 0..MaxDelay, RxMicroCommand(n) PROVE StateInv'
  BY <1>1, <1>4, Constants, TimeElsewhere DEF RxMicroCommand
<1>5. ASSUME NEW i \in imm.todo, BindingStep(i) PROVE StateInv'
  <2>1. CASE ImmediateDelay(i)
    <3>1. ImmediateOp(i) \in Step
      <4>1. config.bindings[i].seq \in Seq(Step) /\ imm.idx \in Nat
        BY ConfigType DEF TInv, TypeOK, Binding
      <4> QED
        BY <4>1, <2>1, StepIsStep DEF ImmediateDelay, AtImmediate, ImmediateOp
    <3>2. ImmediateOp(i).n \in Nat
      BY <3>1 DEF Step
    <3> QED
      BY <1>1, <2>1, <3>2, TimeElsewhere DEF ImmediateDelay
  <2>2. CASE ImmediateMove(i)
    BY <1>0, <1>1, <2>2, MoveStops DEF ImmediateMove
  <2>3. CASE ImmediateStart(i)
    <3>1. exec'["state"] = exec["state"] /\ UNCHANGED <<state, started>>
      BY <1>0, <2>3 DEF ImmediateStart, TInv, TypeOK
    <3> QED
      BY <1>2, <3>1
  <2> QED
    BY <1>2, <1>5, <2>1, <2>2, <2>3
       DEF BindingStep, ExtractFails, ImmediateIf, ImmediateStep, ImmediateEnd
<1> QED
  BY <1>2, <1>3, <1>4, <1>5 DEF Receive, RxDone, RxCommand, NoBindingLeft

LEMMA NextStateInv == TInv /\ StateInv /\ [Next]_vars => StateInv'
<1> SUFFICES ASSUME TInv, StateInv, [Next]_vars PROVE StateInv'
  OBVIOUS
<1> USE ElsewhereKeeps, StoppingKeeps
<1>0. "state" \in Executors /\ exec \in [Executors -> Executor(SeqNames)]
  BY DEF Executors, TInv, TypeOK
<1>1. CASE ApplicationInit
  BY <1>0, <1>1 DEF ApplicationInit, Elsewhere, OutsideStateTick
<1>2. ASSUME NEW x \in Executors, TickStep(x) PROVE StateInv'
  BY <1>2, OtherTick, StateExecutorTick DEF Executors
<1>3. CASE MainRestart
  BY <1>0, <1>3 DEF MainRestart, Elsewhere, OutsideStateTick
<1>4. CASE StateTick
  BY <1>4, StateTickKeeps
<1>5. CASE Receive
  BY <1>5, ReceiveKeeps
<1>6. CASE SysTick
  BY <1>6, TimeElsewhere, 1 \in Nat DEF SysTick
<1>7. CASE Reset
  BY <1>0, <1>7 DEF Reset, AllStopped, Stopping, OutsideStateTick
<1>8. CASE UNCHANGED vars
  BY <1>8 DEF vars, Elsewhere
<1> QED
  BY <1>1, <1>2, <1>3, <1>4, <1>5, <1>6, <1>7, <1>8 DEF Next, MainLoop

LEMMA InitStateInv == Init => StateInv
BY StoppedIsIdle
   DEF Init, AllStopped, Executors, StateInv, RunningSequenceIsStarted, StaleSequenceOnlyAfterFault,
       ActiveIsStarted, LookupIsCurrent

(* For every configuration: a state's sequence runs outside its state only  *)
(* as MayOutliveItsState says, whatever moves, requests and resets come     *)
(* between looking the sequence up and starting it.                         *)
THEOREM StaleSequences == Spec => []StaleSequenceOnlyAfterFault
<1>1. StateInv => StaleSequenceOnlyAfterFault
  BY DEF StateInv
<1> QED
  BY <1>1, InitTInv, NextTInv, InitStateInv, NextStateInv, PTL DEF Spec

(* For every configuration: a running state sequence counts as started and  *)
(* loops exactly if its state is a repeatable one.                          *)
THEOREM RunningStarted == Spec => []RunningSequenceIsStarted
<1>1. StateInv => RunningSequenceIsStarted
  BY DEF StateInv
<1> QED
  BY <1>1, InitTInv, NextTInv, InitStateInv, NextStateInv, PTL DEF Spec

-----------------------------------------------------------------------------
(***************************************************************************)
(* The main and the command executor: nobody but their own tick and the     *)
(* binding loop touches them.                                               *)
(***************************************************************************)
LEMMA TickTouches ==
  ASSUME TInv, NEW x \in Executors, TickStep(x), NEW y \in {"main", "command"}, y # x
  PROVE  /\ exec'[y] = exec[y]
         /\ UNCHANGED <<config, imm>>
         /\ pc = TickPc[x]
         /\ pc' \in {TickPc[x], DonePc[x]}
<1>0. y \in Executors /\ y # "state" /\ exec \in [Executors -> Executor(SeqNames)]
  BY DEF Executors, TInv, TypeOK
<1>1. UNCHANGED <<config, imm>> /\ pc = TickPc[x] /\ pc' \in {TickPc[x], DonePc[x]}
  BY DEF TickStep, TickIdle, TickWake, TickDelay, TickIf, TickCanBusy, TickCanDone, TickOp,
         TickMove, TickEnd, AtStep, AtTick, TickReturns, StepFails, StepPasses, Frame
<1>2. ASSUME TickMove(x) PROVE exec'[y] = exec[y]
  BY <1>0, <1>2 DEF TickMove, MoveState
<1>3. ASSUME ~TickMove(x) PROVE exec'[y] = exec[y]
  <2>1. exec' = exec \/ \E e : exec' = [exec EXCEPT ![x] = e]
    BY <1>3 DEF TickStep, TickIdle, TickWake, TickDelay, TickIf, TickCanBusy, TickCanDone, TickOp,
         TickEnd, StepFails, StepPasses
  <2>2. ASSUME NEW e, exec' = [exec EXCEPT ![x] = e] PROVE exec'[y] = exec[y]
    BY <1>0, <2>2
  <2> QED
    BY <2>1, <2>2
<1> QED
  BY <1>1, <1>2, <1>3

LEMMA StateTickTouches ==
  ASSUME TInv, StateTick, NEW y \in {"main", "command"}
  PROVE  /\ exec'[y] = exec[y]
         /\ UNCHANGED <<config, imm>>
         /\ pc \in {"stateEnter", "stateAfter"} /\ pc' \in {"stateTick", "canRx"}
<1>0. y \in Executors /\ y # "state" /\ exec \in [Executors -> Executor(SeqNames)]
  BY DEF Executors, TInv, TypeOK
<1>1. exec' = exec \/ \E e : exec' = [exec EXCEPT !["state"] = e]
  BY DEF StateTick, StateWithoutSteps, StateWithSteps, StateStillRunning, StateOneShotDone,
         StateLoopDown, StateStart, OneShotComplete, EnterState
<1>2. UNCHANGED <<config, imm>> /\ pc \in {"stateEnter", "stateAfter"} /\ pc' \in {"stateTick", "canRx"}
  BY DEF StateTick, StateWithoutSteps, StateWithSteps, StateStillRunning, StateOneShotDone,
         StateLoopDown, StateStart, LeaveStateTick
<1> QED
  BY <1>0, <1>1, <1>2

(* Where receiving goes, and what it does to the main executor's state. *)
LEMMA ReceiveTouches ==
  ASSUME TInv, Receive
  PROVE  /\ config' = config
         /\ exec'["main"].st = exec["main"].st
         /\ pc \in RxPcs \cup ImmPcs
<1>0. "main" \in Executors /\ exec \in [Executors -> Executor(SeqNames)]
  BY DEF Executors, TInv, TypeOK
<1>1. config' = config /\ pc \in RxPcs \cup ImmPcs
  BY DEF Receive, RxDone, RxStateCommand, RxMicroCommand, RxCommand, HandleInbound, NoBindingLeft,
         BindingStep, ExtractFails, ImmediateStart, ImmediateDelay, ImmediateIf, ImmediateStep,
         ImmediateMove, ImmediateEnd, AtImmediate, AtBinding
<1>2. \/ exec' = exec
      \/ \E e : exec' = [exec EXCEPT !["state"] = e]
      \/ exec' = [exec EXCEPT !["command"] = Stopped]
      \/ \E n : exec' = [x \in Executors |-> Elapsed(exec[x], n)]
      \/ \E op : MoveState("command", op)
  BY DEF Receive, RxDone, RxStateCommand, RxMicroCommand, RxCommand, NoBindingLeft, EnterState,
         BindingStep, ExtractFails, ImmediateStart, ImmediateDelay, ImmediateIf, ImmediateStep,
         ImmediateMove, ImmediateEnd
<1>3. \A n : Elapsed(exec["main"], n).st = exec["main"].st
  BY <1>0 DEF Elapsed, Executor
<1> QED
  BY <1>0, <1>1, <1>2, <1>3 DEF MoveState

LEMMA NextMainRuns == TInv /\ MainSequenceAlwaysRuns /\ [Next]_vars => MainSequenceAlwaysRuns'
<1> SUFFICES ASSUME TInv, MainSequenceAlwaysRuns, [Next]_vars PROVE MainSequenceAlwaysRuns'
  OBVIOUS
<1> DEFINE Excused == {"boot", "mainTick", "mainRestart"}
<1>0. "main" \in Executors /\ exec \in [Executors -> Executor(SeqNames)]
  BY DEF Executors, TInv, TypeOK
<1>1. ASSUME pc' \in Excused PROVE MainSequenceAlwaysRuns'
  BY <1>1 DEF MainSequenceAlwaysRuns
<1>2. ASSUME pc \notin Excused, config' = config, exec'["main"].st = exec["main"].st
      PROVE  MainSequenceAlwaysRuns'
  BY <1>2 DEF MainSequenceAlwaysRuns, IsRunning
<1>3. ASSUME NEW x \in Executors, TickStep(x) PROVE MainSequenceAlwaysRuns'
  <2>1. CASE x = "main"
    <3>1. pc' \in {TickPc["main"], DonePc["main"]}
      BY <1>3, <2>1
         DEF TickStep, TickIdle, TickWake, TickDelay, TickIf, TickCanBusy, TickCanDone, TickOp,
             TickMove, TickEnd, AtStep, AtTick, TickReturns, StepFails, StepPasses
    <3> QED
      BY <1>1, <3>1 DEF TickPc, DonePc, Executors
  <2>2. CASE x # "main"
    <3>1. exec'["main"] = exec["main"] /\ config' = config /\ pc = TickPc[x]
      BY <1>3, <2>2, TickTouches
    <3>2. pc \notin Excused
      BY <2>2, <3>1 DEF TickPc, Executors
    <3> QED
      BY <1>2, <3>1, <3>2
  <2> QED
    BY <2>1, <2>2
<1>4. CASE MainRestart
  <2>1. CASE CanStart(exec["main"], config.seqs["main"])
    <3>1. exec'["main"] = Started("main", TRUE)
      BY <1>0, <1>4, <2>1 DEF MainRestart
    <3> QED
      BY <3>1 DEF MainSequenceAlwaysRuns, IsRunning, Started
  <2>2. CASE ~CanStart(exec["main"], config.seqs["main"])
    BY <1>4, <2>2 DEF MainRestart, CanStart, MainSequenceAlwaysRuns
  <2> QED
    BY <2>1, <2>2
<1>5. CASE StateTick
  BY <1>2, <1>5, StateTickTouches
<1>6. CASE Receive
  BY <1>2, <1>6, ReceiveTouches DEF RxPcs, ImmPcs
<1>7. CASE SysTick
  <2>1. exec'["main"].st = exec["main"].st /\ UNCHANGED <<config, pc>>
    BY <1>0, <1>7 DEF SysTick, Elapsed, Executor
  <2> QED
    BY <1>1, <1>2, <2>1
<1>8. CASE ApplicationInit \/ Reset
  BY <1>1, <1>8 DEF ApplicationInit, Reset
<1>9. CASE UNCHANGED vars
  BY <1>9 DEF vars, MainSequenceAlwaysRuns
<1> QED
  BY <1>3, <1>4, <1>5, <1>6, <1>7, <1>8, <1>9 DEF Next, MainLoop

(* For every configuration: once tickMainSequence() has returned, the main  *)
(* sequence runs if it is one start() accepts, whatever failed or moved.    *)
THEOREM MainRuns == Spec => []MainSequenceAlwaysRuns
<1>1. Init => MainSequenceAlwaysRuns
  BY DEF Init, MainSequenceAlwaysRuns
<1> QED
  BY <1>1, InitTInv, NextTInv, NextMainRuns, PTL DEF Spec

(* The binding loop runs steps only with the command executor stopped. *)
CommandInv == imm.running => pc \in ImmPcs /\ exec["command"] = Stopped

LEMMA NextCommandInv == TInv /\ CommandInv /\ [Next]_vars => CommandInv'
<1> SUFFICES ASSUME TInv, CommandInv, [Next]_vars PROVE CommandInv'
  OBVIOUS
<1>0. "command" \in Executors /\ exec \in [Executors -> Executor(SeqNames)]
  BY DEF Executors, TInv, TypeOK
<1>1. imm \in [todo : SUBSET DOMAIN config.bindings, idx : Nat, running : BOOLEAN]
  BY DEF TInv, TypeOK
<1>2. ASSUME pc \notin ImmPcs, imm' = imm PROVE CommandInv'
  BY <1>2 DEF CommandInv
<1>3. ASSUME imm' = NoBinding PROVE CommandInv'
  BY <1>3 DEF CommandInv, NoBinding
<1>4. ASSUME NEW n \in Nat, exec' = [x \in Executors |-> Elapsed(exec[x], n)],
             imm'.running = imm.running, pc' = pc
      PROVE  CommandInv'
  <2>1. exec["command"] = Stopped => exec'["command"] = Stopped
    <3>1. Stopped.delay = 0
      BY DEF Stopped
    <3>2. Elapsed(Stopped, n) = Stopped
      BY <3>1 DEF Elapsed
    <3> QED
      BY <1>0, <1>4, <3>2
  <2> QED
    BY <1>4, <2>1 DEF CommandInv
<1>5. ASSUME NEW x \in Executors, TickStep(x) PROVE CommandInv'
  <2>1. imm' = imm /\ pc = TickPc[x]
    BY <1>5 DEF TickStep, TickIdle, TickWake, TickDelay, TickIf, TickCanBusy, TickCanDone, TickOp,
                TickMove, TickEnd, AtStep, AtTick, Frame
  <2>2. pc \notin ImmPcs
    BY <2>1 DEF TickPc, Executors, ImmPcs
  <2> QED
    BY <1>2, <2>1, <2>2
<1>6. CASE StateTick
  BY <1>2, <1>6, StateTickTouches DEF ImmPcs
<1>7. CASE Receive
  <2>1. ASSUME NEW i \in imm.todo, NextBinding(i) PROVE CommandInv'
    BY <2>1 DEF NextBinding, CommandInv, NoBinding
  <2>2. ASSUME NEW k, ImmediatePasses(k), exec'["command"] = exec["command"] PROVE CommandInv'
    BY <1>1, <2>2 DEF ImmediatePasses, CommandInv
  <2>3. CASE RxDone
    BY <1>2, <2>3 DEF RxDone, RxPcs, ImmPcs
  <2>4. ASSUME NEW req \in Requests, RxStateCommand(req) PROVE CommandInv'
    BY <1>2, <2>4 DEF RxStateCommand, HandleInbound, RxPcs, ImmPcs
  <2>5. ASSUME NEW n \in 0..MaxDelay, RxMicroCommand(n) PROVE CommandInv'
    BY <1>2, <2>5 DEF RxMicroCommand, HandleInbound, RxPcs, ImmPcs
  <2>6. ASSUME NEW m \in Messages, RxCommand(m) PROVE CommandInv'
    BY <2>6 DEF RxCommand, NoBinding, CommandInv
  <2>7. CASE NoBindingLeft
    BY <1>3, <2>7 DEF NoBindingLeft, BindingLoopReturns
  <2>8. ASSUME NEW i \in imm.todo, BindingStep(i) PROVE CommandInv'
    <3>1. CASE ExtractFails(i) \/ ImmediateEnd(i)
      BY <1>3, <3>1 DEF ExtractFails, ImmediateEnd, BindingLoopReturns
    <3>2. CASE ImmediateStart(i)
      <4>1. CASE NextBinding(i)
        BY <2>1, <4>1
      <4>2. CASE exec' = [exec EXCEPT !["command"] = Stopped] /\ pc' = pc
        BY <1>0, <3>2, <4>2 DEF ImmediateStart, AtBinding, CommandInv
      <4> QED
        BY <3>2, <4>1, <4>2 DEF ImmediateStart
    <3>3. CASE ImmediateDelay(i)
      <4>1. ImmediateOp(i) \in Step
        <5>1. config.bindings[i].seq \in Seq(Step) /\ imm.idx \in Nat
          BY ConfigType DEF TInv, TypeOK, Binding
        <5> QED
          BY <5>1, <3>3, StepIsStep DEF ImmediateDelay, AtImmediate, ImmediateOp
      <4>2. ImmediateOp(i).n \in Nat
        BY <4>1 DEF Step
      <4>3. imm'.running = imm.running /\ pc' = pc
        BY <1>1, <3>3 DEF ImmediateDelay, ImmediatePasses
      <4> QED
        BY <1>4, <3>3, <4>2, <4>3 DEF ImmediateDelay
    <3>4. CASE ImmediateIf(i)
      BY <2>1, <2>2, <3>4 DEF ImmediateIf
    <3>5. CASE ImmediateStep(i)
      BY <2>1, <2>2, <3>5 DEF ImmediateStep
    <3>6. CASE ImmediateMove(i)
      BY <1>0, <1>1, <3>6 DEF ImmediateMove, ImmediatePasses, MoveState, CommandInv
    <3> QED
      BY <2>8, <3>1, <3>2, <3>3, <3>4, <3>5, <3>6 DEF BindingStep
  <2> QED
    BY <1>7, <2>3, <2>4, <2>5, <2>6, <2>7, <2>8 DEF Receive
<1>8. CASE ApplicationInit \/ MainRestart
  BY <1>2, <1>8 DEF ApplicationInit, MainRestart, ImmPcs
<1>9. CASE SysTick
  BY <1>4, <1>9, 1 \in Nat DEF SysTick
<1>10. CASE Reset
  BY <1>3, <1>10 DEF Reset
<1>11. CASE UNCHANGED vars
  BY <1>11 DEF vars, CommandInv
<1> QED
  BY <1>5, <1>6, <1>7, <1>8, <1>9, <1>10, <1>11 DEF Next, MainLoop

(* For every configuration: the steps of a bound command never run while    *)
(* the powerup sequence is under way.                                       *)
THEOREM CommandAlone == Spec => []CommandRunsAlone
<1>1. Init => CommandInv
  BY DEF Init, NoBinding, CommandInv
<1>2. CommandInv => CommandRunsAlone
  BY DEF CommandInv, CommandRunsAlone
<1> QED
  BY <1>1, <1>2, InitTInv, NextTInv, NextCommandInv, PTL DEF Spec

-----------------------------------------------------------------------------
(***************************************************************************)
(* How the state may change: the step lemma both results below rest on.     *)
(***************************************************************************)
StateStep ==
  \/ state' = state
  \/ \E req \in Requests : RequestEntersState(req) /\ state' = req
  \/ state \in OneShotStates /\ state' = NextStateAfterSequence(state)
  \/ state # "EMERGENCY" /\ state' \in {"ERROR", "EMERGENCY"}

LEMMA StateSteps ==
  ASSUME TInv, Next
  PROVE  \/ ApplicationInit
         \/ Reset
         \/ UNCHANGED <<state, pc>>
         \/ StateStep /\ pc # "boot" /\ pc' # "boot"
<1>1. ASSUME NEW x \in Executors, NEW op, MoveState(x, op) PROVE StateStep
  BY <1>1 DEF MoveState, MoveTarget, StateStep
<1>2. ASSUME NEW x \in Executors, TickStep(x) PROVE StateStep /\ pc # "boot" /\ pc' # "boot"
  <2>1. StateStep
    <3>1. CASE TickMove(x)
      BY <1>1, <3>1 DEF TickMove
    <3>2. CASE ~TickMove(x)
      BY <1>2, <3>2 DEF TickStep, TickIdle, TickWake, TickDelay, TickIf, TickCanBusy, TickCanDone,
                        TickOp, TickEnd, StateStep
    <3> QED
      BY <3>1, <3>2
  <2>2. pc = TickPc[x] /\ pc' \in {TickPc[x], DonePc[x]}
    BY <1>2 DEF TickStep, TickIdle, TickWake, TickDelay, TickIf, TickCanBusy, TickCanDone, TickOp,
                TickMove, TickEnd, AtStep, AtTick, TickReturns, StepFails, StepPasses
  <2> QED
    BY <2>1, <2>2 DEF TickPc, DonePc, Executors
<1>3. CASE StateTick
  <2>1. pc # "boot" /\ pc' # "boot"
    BY <1>3, StateTickTouches
  <2>2. state' = state \/ (NextStateAfterSequence(state) # state /\ state' = NextStateAfterSequence(state))
    BY <1>3 DEF StateTick, StateWithoutSteps, StateWithSteps, StateStillRunning, StateOneShotDone,
                StateLoopDown, StateStart, OneShotComplete, EnterState
  <2>3. NextStateAfterSequence(state) # state => state \in OneShotStates
    BY DEF NextStateAfterSequence, OneShotStates
  <2> QED
    BY <2>1, <2>2, <2>3 DEF StateStep
<1>4. CASE Receive
  <2>1. pc \in RxPcs \cup ImmPcs
    BY <1>4, ReceiveTouches
  <2>2. \/ pc' = pc
        \/ pc \in RxPcs /\ pc' \in {AfterRx[pc], ImmPc[pc]}
        \/ pc \in ImmPcs /\ pc' = RxPc[pc]
    BY <1>4
       DEF Receive, RxDone, RxStateCommand, RxMicroCommand, RxCommand, HandleInbound, NoBindingLeft,
           BindingStep, ExtractFails, ImmediateStart, ImmediateDelay, ImmediateIf, ImmediateStep,
           ImmediateMove, ImmediateEnd, AtImmediate, AtBinding, ImmediatePasses, NextBinding,
           BindingLoopReturns
  <2>3. pc # "boot" /\ pc' # "boot"
    BY <2>1, <2>2 DEF RxPcs, ImmPcs, AfterRx, ImmPc, RxPc
  <2>4. ASSUME NEW req \in Requests, RxStateCommand(req) PROVE StateStep
    BY <2>4 DEF RxStateCommand, EnterState, StateStep
  <2>5. ASSUME NEW i \in imm.todo, BindingStep(i) PROVE StateStep
    <3>1. CASE ImmediateMove(i)
      BY <1>1, <3>1 DEF ImmediateMove, Executors
    <3>2. CASE ~ImmediateMove(i)
      BY <2>5, <3>2 DEF BindingStep, ExtractFails, ImmediateStart, ImmediateDelay, ImmediateIf,
                        ImmediateStep, ImmediateEnd, StateStep
    <3> QED
      BY <3>1, <3>2
  <2> QED
    BY <1>4, <2>3, <2>4, <2>5
       DEF Receive, RxDone, RxMicroCommand, RxCommand, NoBindingLeft, StateStep
<1>5. CASE MainRestart
  BY <1>5 DEF MainRestart, StateStep
<1>6. CASE SysTick
  BY <1>6 DEF SysTick
<1> QED
  BY <1>2, <1>3, <1>4, <1>5, <1>6 DEF Next, MainLoop

LEMMA EmergencyKept ==
  TInv /\ Next => (state = "EMERGENCY" => state' = "EMERGENCY" \/ pc' = "boot")
<1> SUFFICES ASSUME TInv, Next, state = "EMERGENCY"
             PROVE  state' = "EMERGENCY" \/ pc' = "boot"
  OBVIOUS
<1>1. CASE ApplicationInit \/ Reset
  BY <1>1 DEF ApplicationInit, Reset
<1>2. CASE StateStep
  BY <1>2 DEF StateStep, RequestEntersState, OneShotStates
<1> QED
  BY <1>1, <1>2, StateSteps

(* For every configuration: no step but a reset leaves EMERGENCY, neither a *)
(* request, a MOVE_TO_ERROR_STATE, nor the end of a sequence.               *)
THEOREM EmergencyIsLatched == Spec => EmergencyLatched
<1>1. TInv /\ [Next]_vars
        => [state = "EMERGENCY" => state' = "EMERGENCY" \/ pc' = "boot"]_vars
  BY EmergencyKept
<1> QED
  BY <1>1, InitTInv, NextTInv, PTL DEF Spec, EmergencyLatched

(* The state machine is off exactly when the main loop has not begun. *)
BootInv == pc = "boot" => state = "MANUAL"

LEMMA NextBootInv == TInv /\ BootInv /\ [Next]_vars => BootInv'
<1> SUFFICES ASSUME TInv, BootInv, [Next]_vars PROVE BootInv'
  OBVIOUS
<1>1. CASE ApplicationInit \/ Reset
  BY <1>1 DEF ApplicationInit, Reset, BootInv
<1>2. CASE UNCHANGED <<state, pc>>
  BY <1>2 DEF BootInv
<1>3. CASE pc' # "boot"
  BY <1>3 DEF BootInv
<1>4. CASE UNCHANGED vars
  BY <1>4 DEF vars, BootInv
<1> QED
  BY <1>1, <1>2, <1>3, <1>4, StateSteps

LEMMA StateMachineStep ==
  ASSUME TInv, BootInv, Next
  PROVE  StateMachine!Next \/ UNCHANGED (IF pc = "boot" THEN "OFF" ELSE state)
<1>1. CASE ApplicationInit
  BY <1>1 DEF ApplicationInit, BootInv, StateMachine!Next, StateMachine!Boot
<1>2. CASE Reset
  BY <1>2 DEF Reset, StateMachine!Next, StateMachine!Reset
<1>3. CASE UNCHANGED <<state, pc>>
  BY <1>3
<1>4. CASE StateStep /\ pc # "boot" /\ pc' # "boot"
  <2>0. state # "OFF"
    BY DEF TInv, TypeOK, ControllerStates
  <2>1. ASSUME NEW req \in Requests, RequestEntersState(req), state' = req
        PROVE  StateMachine!Next
    <3>1. req \in StateMachine!RequestableStates
      BY <2>1 DEF RequestEntersState, Requests, ControllerStates, StateMachine!RequestableStates
    <3>2. <<state, req>> \notin StateMachine!Ineffective
      BY <2>1 DEF RequestEntersState, StateMachine!Ineffective
    <3>3. StateMachine!Request(req)
      BY <1>4, <2>0, <2>1, <3>2 DEF RequestEntersState, StateMachine!Request
    <3> QED
      BY <3>1, <3>3 DEF StateMachine!Next
  <2>2. CASE state \in OneShotStates /\ state' = NextStateAfterSequence(state)
    BY <1>4, <2>2
       DEF OneShotStates, NextStateAfterSequence, StateMachine!Next, StateMachine!Complete
  <2>3. CASE state # "EMERGENCY" /\ state' \in {"ERROR", "EMERGENCY"}
    BY <1>4, <2>0, <2>3 DEF StateMachine!Next, StateMachine!Fault, StateMachine!Emergency
  <2> QED
    BY <1>4, <2>1, <2>2, <2>3 DEF StateStep
<1> QED
  BY <1>1, <1>2, <1>3, <1>4, StateSteps

(* For every configuration, GpcController implements the state machine it   *)
(* promises: each step of the main loop is one of its steps, or none.       *)
THEOREM Implements == Spec => ImplementsStateMachine
<1>1. Init => StateMachine!Init
  BY DEF Init, StateMachine!Init
<1>2. TInv /\ BootInv /\ [Next]_vars
        => [StateMachine!Next]_(IF pc = "boot" THEN "OFF" ELSE state)
  <2>1. ASSUME UNCHANGED vars PROVE UNCHANGED (IF pc = "boot" THEN "OFF" ELSE state)
    BY <2>1 DEF vars
  <2> QED
    BY <2>1, StateMachineStep
<1>3. Init => BootInv
  BY DEF Init, BootInv
<1> QED
  BY <1>1, <1>2, <1>3, InitTInv, NextTInv, NextBootInv, PTL
     DEF Spec, ImplementsStateMachine, StateMachine!Spec

-----------------------------------------------------------------------------
(* A failed state executor: its tick leaves it, and only a stop frees it.   *)
LEMMA FailedKept ==
  ASSUME TInv, StateInv, Next, exec["state"].st = "ERROR", IsStateTickLoop(state)
  PROVE  exec'["state"] = exec["state"] \/ ~started'
<1>0. "state" \in Executors /\ exec \in [Executors -> Executor(SeqNames)]
      /\ Good("state", exec["state"])
  BY DEF Executors, TInv, TypeOK, ExecutorsConsistent
<1>1. started /\ ~IsRunning(exec["state"])
  BY DEF StateInv, ActiveIsStarted, IsRunning
<1>2. NextStateAfterSequence(state) = state
  BY DEF IsStateTickLoop, OneShotStates, NextStateAfterSequence
<1>3. ASSUME NEW s, EnterState(s) PROVE exec'["state"] = exec["state"] \/ ~started'
  BY <1>3 DEF EnterState
<1>4. ASSUME NEW n, exec' = [x \in Executors |-> Elapsed(exec[x], n)]
      PROVE  exec'["state"] = exec["state"]
  <2>1. exec["state"].delay = 0
    BY <1>0 DEF Good
  <2> QED
    BY <1>0, <1>4, <2>1 DEF Elapsed
<1>5. ASSUME NEW x \in {"main", "command"}, NEW op, MoveState(x, op)
      PROVE  exec'["state"] = exec["state"] \/ ~started'
  BY <1>0, <1>5 DEF MoveState
<1>6. ASSUME NEW x \in Executors, TickStep(x)
      PROVE  exec'["state"] = exec["state"] \/ ~started'
  <2>1. CASE x = "state"
    BY <1>6, <2>1 DEF TickStep, TickIdle, TickWake, TickDelay, TickIf, TickCanBusy, TickCanDone,
                      TickOp, TickMove, TickEnd, AtStep
  <2>2. CASE x # "state"
    <3>1. CASE TickMove(x)
      BY <1>5, <2>2, <3>1 DEF TickMove, Executors
    <3>2. CASE ~TickMove(x)
      <4>1. exec' = exec \/ \E e : exec' = [exec EXCEPT ![x] = e]
        BY <1>6, <3>2
           DEF TickStep, TickIdle, TickWake, TickDelay, TickIf, TickCanBusy, TickCanDone, TickOp,
               TickEnd, StepFails, StepPasses
      <4>2. ASSUME NEW e, exec' = [exec EXCEPT ![x] = e] PROVE exec'["state"] = exec["state"]
        BY <1>0, <2>2, <4>2
      <4> QED
        BY <4>1, <4>2
    <3> QED
      BY <3>1, <3>2
  <2> QED
    BY <2>1, <2>2
<1>7. CASE StateTick
  <2>1. CASE StateWithoutSteps
    BY <1>2, <1>3, <2>1 DEF StateWithoutSteps, OneShotComplete
  <2>2. CASE StateOneShotDone
    BY <1>3, <2>2 DEF StateOneShotDone
  <2>3. CASE StateStart
    BY <1>1, <2>3 DEF StateStart
  <2> QED
    BY <1>7, <2>1, <2>2, <2>3
       DEF StateTick, StateWithSteps, StateStillRunning, StateLoopDown
<1>8. CASE Receive
  <2>1. ASSUME NEW i \in imm.todo, BindingStep(i)
        PROVE  exec'["state"] = exec["state"] \/ ~started'
    <3>1. CASE ImmediateStart(i)
      BY <1>0, <3>1 DEF ImmediateStart
    <3> QED
      BY <1>4, <1>5, <2>1, <3>1
         DEF BindingStep, ExtractFails, ImmediateDelay, ImmediateIf, ImmediateStep, ImmediateMove,
             ImmediateEnd
  <2> QED
    BY <1>3, <1>4, <1>8, <2>1
       DEF Receive, RxDone, RxStateCommand, RxMicroCommand, RxCommand, NoBindingLeft
<1>9. CASE ApplicationInit \/ MainRestart
  BY <1>0, <1>9 DEF ApplicationInit, MainRestart
<1>10. CASE SysTick
  BY <1>4, <1>10 DEF SysTick
<1>11. CASE Reset
  BY <1>11 DEF Reset
<1> QED
  BY <1>6, <1>7, <1>8, <1>9, <1>10, <1>11 DEF Next, MainLoop

(* For every configuration: a repeatable state's sequence that failed is    *)
(* not resumed while the state lasts, whatever else the main loop does.     *)
THEOREM FailedStaysDown == Spec => FailedSequenceStaysDown
<1>1. TInv /\ StateInv /\ [Next]_vars
        => [exec["state"].st = "ERROR" /\ IsStateTickLoop(state) =>
              exec'["state"] = exec["state"] \/ ~started']_vars
  BY FailedKept
<1> QED
  BY <1>1, InitTInv, NextTInv, InitStateInv, NextStateInv, PTL DEF Spec, FailedSequenceStaysDown
=============================================================================
