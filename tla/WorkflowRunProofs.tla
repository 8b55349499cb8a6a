------------------------- MODULE WorkflowRunProofs -------------------------
(***************************************************************************)
(* Proofs about WorkflowRun, for every declared Workflow, every set of     *)
(* Principals and every combination of faults: type correctness; no Step   *)
(* that asked for approval succeeds without it; a cancelled DAG starts     *)
(* nothing; every Step is started or skipped on the outcomes its needs     *)
(* keep and binds what they published; a pinned Apply follows an approved  *)
(* Gate; a row that reads succeeded is true.                               *)
(***************************************************************************)
EXTENDS WorkflowRun, TLAPS, FiniteSetTheorems, WellFoundedInduction

StepPC == {"idle", "evaluate", "create", "await", "record", "resolve",
           "plan", "child", "done"}

\* schedule keeps the maps it writes well typed.
LEMMA ScheduleTyped ==
    ASSUME TypeOK,
           NEW st \in [Step -> StepState], NEW outs \in SUBSET Step, NEW fin,
           schedule(st, outs, fin)
    PROVE  /\ state' \in [Step -> StepState]
           /\ stepPC' \in [Step -> StepPC]
           /\ bound' \in [Step -> SUBSET Step]
           /\ pc' \in {"walk", "return", "finish"}
<1>1. state' \in [Step -> StepState]
  <2>1. Settled(st) \subseteq [Step -> StepState]
    BY DEF Settled, StepState
  <2>2. QED  BY <2>1 DEF schedule, Walked
<1>2. \A t \in Step : FirstPC(t) \in StepPC
  BY DEF FirstPC, StepPC
<1>3. stepPC' \in [Step -> StepPC]
  BY <1>2 DEF schedule, TypeOK, StepPC
<1>4. bound' \in [Step -> SUBSET Step]
  BY DEF schedule, TypeOK
<1>5. pc' \in {"walk", "return", "finish"}
  BY DEF schedule
<1>6. QED  BY <1>1, <1>3, <1>4, <1>5

\* The same for a Step's completion.
LEMMA CompleteTyped ==
    ASSUME TypeOK, NEW s \in Step, NEW status \in {"succeeded", "failed"},
           NEW publishes \in BOOLEAN, Complete(s, status, publishes)
    PROVE  /\ state' \in [Step -> StepState]
           /\ stepPC' \in [Step -> StepPC]
           /\ bound' \in [Step -> SUBSET Step]
           /\ pc' \in {"walk", "return", "finish"}
           /\ outputs' \in SUBSET Step
           /\ ret' = ret /\ canceled' = canceled
<1> DEFINE st == [state EXCEPT ![s] = IF canceled THEN "canceled" ELSE status]
           outs == IF publishes THEN outputs \cup {s} ELSE outputs
<1>1. st \in [Step -> StepState]
  BY DEF TypeOK, StepState
<1>2. outs \in SUBSET Step
  BY DEF TypeOK
<1>3. schedule(st, outs, {s}) /\ outputs' = outs /\ ret' = ret /\ canceled' = canceled
  BY DEF Complete
<1> HIDE DEF st, outs
<1>4. QED  BY <1>1, <1>2, <1>3, ScheduleTyped

\* Moving one coroutine to a stage of awaitGate or of its Step keeps the types.
LEMMA GotoTyped ==
    ASSUME TypeOK, NEW s \in Step, NEW where \in StepPC, Goto(s, where)
    PROVE  /\ stepPC' \in [Step -> StepPC]
           /\ UNCHANGED << pc, ret, canceled, state, outputs, bound >>
BY DEF Goto, TypeOK, StepPC

\* A write of the row, whole, keeps the types.
LEMMA RowWriteTyped ==
    ASSUME TypeOK, NEW w \in RowWrite,
           SetWorkflowRunStatus(w) \/ NoWrite
    PROVE  /\ rowStatus' \in RunStatus
           /\ rowSteps' \in {NoSteps} \cup [Step -> StepState]
BY DEF TypeOK, RowWrite, SetWorkflowRunStatus, NoWrite

\* So does a write of its status alone.
LEMMA StatusOnlyTyped ==
    \A status \in RunStatus : StatusOnly(status) \in RowWrite
BY DEF StatusOnly, RowWrite

\* So does leaving a row write to an abandoned attempt.
LEMMA AbandonTyped ==
    ASSUME TypeOK, NEW w \in RowWrite, AbandonRow(w)
    PROVE  /\ rowStatus' = rowStatus /\ rowSteps' = rowSteps
           /\ lateRows' \in SUBSET RowWrite
BY DEF TypeOK, AbandonRow, NoWrite

\* So does the last write of a finished DAG.
LEMMA FinishTyped ==
    ASSUME TypeOK, NEW w \in RowWrite, finishWorkflowRun(w)
    PROVE  /\ rowStatus' \in RunStatus
           /\ rowSteps' \in {NoSteps} \cup [Step -> StepState]
           /\ lateRows' \in SUBSET RowWrite
<1>1. CASE ~canceled /\ SetWorkflowRunStatus(w) /\ UNCHANGED lateRows
  BY <1>1, RowWriteTyped DEF TypeOK
<1>2. CASE ~canceled /\ "store" \in Faults /\ NoWrite /\ UNCHANGED lateRows
  BY <1>2, RowWriteTyped DEF TypeOK
<1>3. CASE canceled /\ AbandonRow(w)
  BY <1>3, AbandonTyped DEF TypeOK
<1>4. QED  BY <1>1, <1>2, <1>3 DEF finishWorkflowRun

\* Type correctness: the maps RunDAG and its activities write stay maps over
\* the declared Steps, with the statuses the code knows.
THEOREM TypeCorrect == Spec => []TypeOK
<1>1. Init => TypeOK
  <2> SUFFICES ASSUME Init PROVE TypeOK
    OBVIOUS
  <2>1. canceled \in BOOLEAN /\ stamped \in BOOLEAN
    BY DEF Init
  <2>2. signals \in [Step -> Seq(Decision)]
    <3>1. << >> \in Seq(Decision)
      OBVIOUS
    <3>2. QED  BY <3>1 DEF Init
  <2>3. /\ state \in [Step -> StepState]
        /\ gate \in [Step -> GateStatus]
        /\ decided \in [Step -> Nat]
        /\ rowStatus \in RunStatus
        /\ door \in {"create", "start", "fail", "stamp", "done"}
    BY DEF Init, StepState, RunStatus, GateStatus
  <2>4. QED  BY <2>1, <2>2, <2>3 DEF Init, TypeOK
<1>2. TypeOK /\ [Next]_vars => TypeOK'
  <2> SUFFICES ASSUME TypeOK, [Next]_vars PROVE TypeOK'
    OBVIOUS
  <2> USE DEF StepPC
  <2>1. ASSUME Launch PROVE TypeOK'
    <3>1. CASE MarkStartFailed
      <4>1. StatusOnly("failed") \in RowWrite
        BY StatusOnlyTyped DEF RunStatus
      <4>2. QED
        BY <3>1, <4>1, RowWriteTyped
        DEF MarkStartFailed, TypeOK, temporalVars, lateVars
    <3>2. CASE CreateWorkflowRun
      BY <3>2 DEF CreateWorkflowRun, TypeOK, temporalVars, lateVars, RunStatus
    <3>3. CASE ExecuteWorkflow \/ ExecuteWorkflowFails
      BY <3>3 DEF ExecuteWorkflow, ExecuteWorkflowFails, TypeOK, stepVars,
                  rowVars, lateVars
    <3>4. CASE SetWorkflowRunTemporalID \/ DoorDies
      <4>1. stamped' \in BOOLEAN
        BY <3>4 DEF SetWorkflowRunTemporalID, DoorDies, TypeOK, rowVars
      <4>2. QED
        BY <3>4, <4>1 DEF SetWorkflowRunTemporalID, DoorDies, TypeOK,
                          temporalVars, rowVars, lateVars
    <3>5. QED  BY <2>1, <3>1, <3>2, <3>3, <3>4 DEF Launch
  <2>2. ASSUME Setup PROVE TypeOK'
    <3> USE DEF stepVars, rowVars, Before, doorVars
    <3>1. CASE StartSelf \/ EnsureWorkflowRun \/ EnsureWorkflowRunFails
      <4>1. stamped' \in BOOLEAN
        BY <3>1 DEF StartSelf, EnsureWorkflowRun, EnsureWorkflowRunFails, TypeOK
      <4>2. QED
        BY <3>1, <4>1 DEF StartSelf, EnsureWorkflowRun, EnsureWorkflowRunFails,
                          Close, TypeOK, RunStatus
    <3>2. CASE ResolveSetup
      <4>1. pc' \in {"inputs", "context", "mark", "abort"}
        BY <3>2 DEF ResolveSetup, SetupNext
      <4>2. QED  BY <3>2, <4>1 DEF ResolveSetup, TypeOK
    <3>3. CASE MarkWorkflowRunRunning
      <4>1. StatusOnly("running") \in RowWrite
        BY StatusOnlyTyped DEF RunStatus
      <4>2. schedule(state, outputs, {})
        BY <3>3 DEF MarkWorkflowRunRunning
      <4>3. state \in [Step -> StepState] /\ outputs \in SUBSET Step
        BY DEF TypeOK
      <4>4. /\ state' \in [Step -> StepState]
            /\ stepPC' \in [Step -> StepPC]
            /\ bound' \in [Step -> SUBSET Step]
            /\ pc' \in {"walk", "return", "finish"}
        BY <4>2, <4>3, ScheduleTyped
      <4>5. /\ rowStatus' \in RunStatus
            /\ rowSteps' \in {NoSteps} \cup [Step -> StepState]
        BY <3>3, <4>1, RowWriteTyped DEF MarkWorkflowRunRunning
      <4>6. QED
        BY <3>3, <4>4, <4>5 DEF MarkWorkflowRunRunning, TypeOK
    <3>4. CASE MarkWorkflowRunRunningFails
      <4>1. StatusOnly("running") \in RowWrite
        BY StatusOnlyTyped DEF RunStatus
      <4>2. /\ rowStatus' \in RunStatus
            /\ rowSteps' \in {NoSteps} \cup [Step -> StepState]
        BY <3>4, <4>1, RowWriteTyped DEF MarkWorkflowRunRunningFails
      <4>3. QED  BY <3>4, <4>2 DEF MarkWorkflowRunRunningFails, TypeOK
    <3>5. CASE SetupCanceled
      <4>1. /\ StatusOnly("running") \in RowWrite
            /\ StatusOnly("pending") \in RowWrite
        BY StatusOnlyTyped DEF RunStatus
      <4>2. /\ rowStatus' \in RunStatus
            /\ rowSteps' \in {NoSteps} \cup [Step -> StepState]
            /\ lateRows' \in SUBSET RowWrite
        BY <3>5, <4>1, AbandonTyped DEF SetupCanceled, TypeOK, NoWrite
      <4>3. QED  BY <3>5, <4>2 DEF SetupCanceled, TypeOK, Close
    <3>6. CASE AbortSetup
      <4>1. StatusOnly("failed") \in RowWrite
        BY StatusOnlyTyped DEF RunStatus
      <4>2. /\ rowStatus' \in RunStatus
            /\ rowSteps' \in {NoSteps} \cup [Step -> StepState]
            /\ lateRows' \in SUBSET RowWrite
        BY <3>6, <4>1, FinishTyped DEF AbortSetup
      <4>3. QED  BY <3>6, <4>2 DEF AbortSetup, TypeOK, Close
    <3>7. QED
      BY <2>2, <3>1, <3>2, <3>3, <3>4, <3>5, <3>6 DEF Setup
  <2>3. ASSUME Teardown PROVE TypeOK'
    <3> USE DEF stepVars, rowVars, Before, doorVars, lateVars
    <3>1. CASE FinishWorkflowRun
      <4>1. [status |-> Outcome, steps |-> state] \in RowWrite
        BY DEF Outcome, RowWrite, RunStatus, TypeOK
      <4>2. /\ rowStatus' \in RunStatus
            /\ rowSteps' \in {NoSteps} \cup [Step -> StepState]
            /\ lateRows' \in SUBSET RowWrite
        BY <3>1, <4>1, FinishTyped DEF FinishWorkflowRun
      <4>3. QED  BY <3>1, <4>2 DEF FinishWorkflowRun, TypeOK
    <3>2. CASE ReturnRunDAG
      BY <3>2 DEF ReturnRunDAG, TypeOK, Close
    <3>3. CASE CancelPendingGates
      <4>1. gate' \in [Step -> GateStatus]
        BY <3>3 DEF CancelPendingGates, TypeOK, GateStatus
      <4>2. QED  BY <3>3, <4>1 DEF CancelPendingGates, TypeOK
    <3>4. CASE FinishCanceled
      <4>1. [status |-> "canceled", steps |-> state] \in RowWrite
        BY DEF RowWrite, RunStatus, TypeOK
      <4>2. /\ rowStatus' \in RunStatus
            /\ rowSteps' \in {NoSteps} \cup [Step -> StepState]
        BY <3>4, <4>1, RowWriteTyped DEF FinishCanceled
      <4>3. QED  BY <3>4, <4>2 DEF FinishCanceled, TypeOK, Close
    <3>5. QED  BY <2>3, <3>1, <3>2, <3>3, <3>4 DEF Teardown
  <2>4. ASSUME Doors PROVE TypeOK'
    <3> USE DEF temporalVars, stepVars, rowVars, lateVars
    <3>1. CASE CancelDoorChecks \/ CancelDoorSignals
      <4>1. canceled' \in BOOLEAN
        BY <3>1 DEF CancelDoorChecks, CancelDoorSignals, TypeOK
      <4>2. QED
        BY <3>1, <4>1 DEF CancelDoorChecks, CancelDoorSignals, TypeOK
    <3>2. ASSUME NEW d \in Decision, DecisionDoorChecks(d) PROVE TypeOK'
      <4>1. decided' \in [Step -> Nat]
        BY <3>2 DEF DecisionDoorChecks, TypeOK, Decision
      <4>2. QED  BY <3>2, <4>1 DEF DecisionDoorChecks, TypeOK
    <3>3. ASSUME NEW d \in Decision, DecisionDoorSignals(d) PROVE TypeOK'
      <4>1. d.step \in Step
        BY DEF Decision
      <4>2. signals' \in [Step -> Seq(Decision)]
        BY <3>3, <4>1 DEF DecisionDoorSignals, TypeOK
      <4>3. QED  BY <3>3, <4>2 DEF DecisionDoorSignals, TypeOK
    <3>4. QED  BY <2>4, <3>1, <3>2, <3>3 DEF Doors
  <2>5. ASSUME LateWrites PROVE TypeOK'
    <3> USE DEF temporalVars, doorVars, rowVars, lateVars
    <3>1. ASSUME NEW s \in Step, LateCreateGate(s) PROVE TypeOK'
      BY <3>1 DEF LateCreateGate, OpenGate, TypeOK, GateStatus
    <3>2. ASSUME NEW s \in Step, LateRecordDecision(s) PROVE TypeOK'
      <4>1. gate' \in [Step -> GateStatus]
        BY <3>2 DEF LateRecordDecision, DecideGate, TypeOK, GateStatus
      <4>2. QED  BY <3>2, <4>1 DEF LateRecordDecision, TypeOK
    <3>3. ASSUME NEW w \in lateRows, LateRowWrite(w) PROVE TypeOK'
      <4>1. w \in RowWrite
        BY <3>3 DEF TypeOK
      <4>2. /\ rowStatus' \in RunStatus
            /\ rowSteps' \in {NoSteps} \cup [Step -> StepState]
        BY <3>3, <4>1, RowWriteTyped DEF LateRowWrite
      <4>3. QED  BY <3>3, <4>2 DEF LateRowWrite, TypeOK
    <3>4. QED  BY <2>5, <3>1, <3>2, <3>3 DEF LateWrites
  <2>6. ASSUME NEW s \in Step, StepAdvances(s) PROVE TypeOK'
    <3> USE DEF rest, doorVars, rowVars, lateVars
    <3>1. CASE ResolveParams(s)
      <4>1. CASE Complete(s, "failed", FALSE)
        BY <3>1, <4>1, CompleteTyped DEF ResolveParams, TypeOK
      <4>2. CASE Goto(s, IF Kind[s] = "plan" THEN "plan" ELSE "child")
        BY <3>1, <4>2, GotoTyped DEF ResolveParams, TypeOK
      <4>3. QED  BY <3>1, <4>1, <4>2 DEF ResolveParams
    <3>2. CASE PlanStep(s)
      BY ZenonT(40), <3>2, CompleteTyped DEF PlanStep, TypeOK
    <3>3. CASE ApplyPinnedPlan(s)
      BY <3>3 DEF ApplyPinnedPlan, temporalVars, TypeOK
    <3>4. CASE EvaluatePolicy(s)
      <4>1. CASE \/ Complete(s, "succeeded", FALSE)
                 \/ Complete(s, "failed", FALSE)
        BY <3>4, <4>1, CompleteTyped DEF EvaluatePolicy, TypeOK
      <4>2. CASE Goto(s, "create")
        BY <3>4, <4>2, GotoTyped DEF EvaluatePolicy, TypeOK
      <4>3. QED  BY <3>4, <4>1, <4>2 DEF EvaluatePolicy
    <3>5. CASE CreateGateRecord(s)
      <4>1. gate' \in [Step -> GateStatus]
        BY <3>5 DEF CreateGateRecord, OpenGate, TypeOK, GateStatus
      <4>2. Goto(s, "await")
        BY <3>5 DEF CreateGateRecord
      <4>3. /\ stepPC' \in [Step -> StepPC]
            /\ UNCHANGED << pc, ret, canceled, state, outputs, bound >>
        BY <4>2, GotoTyped
      <4>4. QED  BY <3>5, <4>1, <4>3 DEF CreateGateRecord, TypeOK
    <3>6. CASE CreateGateRecordFails(s)
      <4>1. gate' \in [Step -> GateStatus]
        BY <3>6 DEF CreateGateRecordFails, OpenGate, TypeOK, GateStatus
      <4>2. QED
        BY <3>6, <4>1, CompleteTyped DEF CreateGateRecordFails, TypeOK
    <3>7. CASE ReceiveDecision(s)
      <4>1. Head(signals[s]) \in Decision /\ Tail(signals[s]) \in Seq(Decision)
        BY <3>7 DEF ReceiveDecision, TypeOK
      <4>2. Head(signals[s]).who \in Principal
        BY <4>1 DEF Decision
      <4>3. approvedBy' \in [Step -> SUBSET Principal]
        BY <3>7, <4>2 DEF ReceiveDecision, TypeOK
      <4>4. verdict' \in [Step -> {"none", "approved", "denied", "expired"}]
        BY <3>7 DEF ReceiveDecision, Verdict, TypeOK
      <4>5. stepPC' \in [Step -> StepPC]
        BY <3>7 DEF ReceiveDecision, Goto, TypeOK
      <4>6. signals' \in [Step -> Seq(Decision)]
        BY <3>7, <4>1 DEF ReceiveDecision, TypeOK
      <4>7. QED
        BY <3>7, <4>3, <4>4, <4>5, <4>6 DEF ReceiveDecision, Goto, TypeOK
    <3>8. CASE GateTimesOut(s)
      BY <3>8 DEF GateTimesOut, Goto, TypeOK
    <3>9. CASE RecordGateDecision(s)
      <4>1. gate' \in [Step -> GateStatus]
        BY <3>9 DEF RecordGateDecision, DecideGate, TypeOK, GateStatus
      <4>2. Recorded(s) \in {"succeeded", "failed"}
        BY DEF Recorded
      <4>3. QED
        BY <3>9, <4>1, <4>2, CompleteTyped DEF RecordGateDecision, TypeOK
    <3>10. CASE RecordGateDecisionFails(s)
      <4>1. gate' \in [Step -> GateStatus]
        BY <3>10 DEF RecordGateDecisionFails, DecideGate, TypeOK, GateStatus
      <4>2. QED
        BY <3>10, <4>1, CompleteTyped DEF RecordGateDecisionFails, TypeOK
    <3>11. CASE StepCanceled(s)
      BY ZenonT(40), <3>11, CompleteTyped DEF StepCanceled, TypeOK
    <3>12. QED
      BY <2>6, <3>1, <3>2, <3>3, <3>4, <3>5, <3>6, <3>7, <3>8, <3>9, <3>10,
         <3>11 DEF StepAdvances
  <2>7. ASSUME NEW s \in Step, NEW ok \in BOOLEAN, NEW publishes \in BOOLEAN,
               ChildReturns(s, ok, publishes)
        PROVE  TypeOK'
    <3>1. (IF ok THEN "succeeded" ELSE "failed") \in {"succeeded", "failed"}
      OBVIOUS
    <3>2. QED
      BY <2>7, <3>1, CompleteTyped
      DEF ChildReturns, TypeOK, rest, doorVars, rowVars, lateVars
  <2>8. CASE UNCHANGED vars
    BY <2>8 DEF vars, temporalVars, doorVars, rowVars, lateVars, TypeOK
  <2>9. QED
    BY <2>1, <2>2, <2>3, <2>4, <2>5, <2>6, <2>7, <2>8
    DEF Next, Own, ChildrenReturn
<1>3. QED  BY <1>1, <1>2, PTL DEF Spec

-----------------------------------------------------------------------------
(* The inductive invariant behind GateHolds. *)

\* A Step's coroutine and RunDAG's state map agree: no coroutine before the
\* Step is started, one while it runs, none after.
Coroutines ==
    \A s \in Step :
        /\ stepPC[s] = "idle" => state[s] \in {"", "skipped"}
        /\ stepPC[s] = "done" => state[s] \in {"succeeded", "failed", "canceled"}
        /\ stepPC[s] \notin {"idle", "done"} => state[s] = "running"

\* A Gate row appears only once a coroutine is at its Gate, and only a Gate
\* Step or an escalating policy Step gets there; a Gate Step goes nowhere else.
AtGate ==
    \A s \in Step :
        /\ gate[s] # "none" =>
              stepPC[s] \notin {"idle", "evaluate", "resolve", "plan", "child"}
        /\ Kind[s] = "gate" =>
              stepPC[s] \notin {"evaluate", "resolve", "plan", "child"}
        /\ s \in lateGates => state[s] = "canceled"

\* Only the Gate's approvers are ever counted, wherever their decision is:
\* in the door, in the signal buffer or in awaitGate's map.
OnlyApprovers ==
    /\ \A d \in deciding : d.who \in Approvers[d.step]
    /\ \A s \in Step : \A i \in 1 .. Len(signals[s]) :
           signals[s][i].who \in Approvers[s]
    /\ \A s \in Step : approvedBy[s] \subseteq Approvers[s]

\* A verdict is reached once, after the wait; an approval has its quorum; and
\* a row reads approved only on that verdict.
Verdicts ==
    \A s \in Step :
        /\ verdict[s] # "none" => stepPC[s] \in {"record", "done"}
        /\ verdict[s] = "approved" => Cardinality(approvedBy[s]) >= Quorum(s)
        /\ gate[s] = "approved" => verdict[s] = "approved"

\* Success past a Gate is success on an approved row.
Passed ==
    \A s \in Step :
        state[s] = "succeeded" /\ (Kind[s] = "gate" \/ gate[s] # "none") =>
            gate[s] = "approved"

GateInv == Coroutines /\ AtGate /\ OnlyApprovers /\ Verdicts /\ Passed
gateVars == << state, stepPC, approvedBy, verdict, signals, deciding, gate,
               lateGates >>

\* An action that leaves the Steps and their Gates alone keeps GateInv.
LEMMA GateFrame ==
    ASSUME GateInv, UNCHANGED gateVars
    PROVE  GateInv'
BY DEF GateInv, Coroutines, AtGate, OnlyApprovers, Verdicts, Passed, gateVars

\* What schedule does to each Step: it decides only pending ones, and starts
\* a coroutine exactly for those it sets running.
Decides(st, fin) ==
    /\ canceled => state' = st
    /\ \A t \in Step :
          /\ st[t] # "" => state'[t] = st[t]
          /\ st[t] = "" => state'[t] \in {"", "running", "skipped"}
          /\ stepPC'[t] = IF st[t] = "" /\ state'[t] = "running" THEN FirstPC(t)
                          ELSE IF t \in fin THEN "done" ELSE stepPC[t]

\* A walk of the DAG only gives states to Steps that had none.
LEMMA ScheduleEffect ==
    ASSUME TypeOK, NEW st \in [Step -> StepState], NEW outs, NEW fin,
           schedule(st, outs, fin)
    PROVE  Decides(st, fin)
<1>1. \A nxt \in Settled(st) : \A t \in Step :
         /\ st[t] # "" => nxt[t] = st[t]
         /\ st[t] = "" => nxt[t] \in {"", "running", "skipped"}
  BY DEF Settled
<1>2. state' \in Walked(st)
  BY DEF schedule
<1>3. canceled => state' = st
  BY <1>2 DEF Walked
<1>4. \A t \in Step :
         /\ st[t] # "" => state'[t] = st[t]
         /\ st[t] = "" => state'[t] \in {"", "running", "skipped"}
  BY <1>1, <1>2 DEF Walked
<1>5. \A t \in Step :
         stepPC'[t] = IF st[t] = "" /\ state'[t] = "running" THEN FirstPC(t)
                      ELSE IF t \in fin THEN "done" ELSE stepPC[t]
  BY DEF schedule
<1>6. QED  BY <1>3, <1>4, <1>5 DEF Decides

\* What a Step's completion does to it and to every other Step.
LEMMA CompleteEffect ==
    ASSUME TypeOK, Coroutines, NEW s \in Step,
           NEW status \in {"succeeded", "failed"}, NEW publishes \in BOOLEAN,
           stepPC[s] \notin {"idle", "done"}, Complete(s, status, publishes)
    PROVE  /\ state'[s] = (IF canceled THEN "canceled" ELSE status)
           /\ stepPC'[s] = "done"
           /\ \A t \in Step \ {s} :
                 IF state[t] = ""
                 THEN \/ state'[t] \in {"", "skipped"} /\ stepPC'[t] = "idle"
                      \/ state'[t] = "running" /\ stepPC'[t] = FirstPC(t)
                 ELSE state'[t] = state[t] /\ stepPC'[t] = stepPC[t]
<1> DEFINE st == [state EXCEPT ![s] = IF canceled THEN "canceled" ELSE status]
           outs == IF publishes THEN outputs \cup {s} ELSE outputs
<1>1. st \in [Step -> StepState]
  BY DEF TypeOK, StepState
<1>2. schedule(st, outs, {s})
  BY DEF Complete
<1>3. /\ st[s] = (IF canceled THEN "canceled" ELSE status)
      /\ \A t \in Step \ {s} : st[t] = state[t]
  BY DEF TypeOK
<1> HIDE DEF st, outs
<1>4. Decides(st, {s})
  BY <1>1, <1>2, ScheduleEffect
<1>5. state'[s] = st[s] /\ stepPC'[s] = "done"
  BY <1>3, <1>4 DEF Decides
<1>6. ASSUME NEW t \in Step \ {s}
      PROVE  IF state[t] = ""
             THEN \/ state'[t] \in {"", "skipped"} /\ stepPC'[t] = "idle"
                  \/ state'[t] = "running" /\ stepPC'[t] = FirstPC(t)
             ELSE state'[t] = state[t] /\ stepPC'[t] = stepPC[t]
  <2>1. state[t] = "" => stepPC[t] = "idle"
    BY DEF Coroutines
  <2>2. QED  BY <1>3, <1>4, <2>1 DEF Decides
<1>7. QED  BY <1>3, <1>5, <1>6

\* A Step that starts enters the first stage of its kind.
LEMMA FirstPCs ==
    ASSUME NEW t \in Step
    PROVE  /\ FirstPC(t) \in {"create", "evaluate", "resolve"}
           /\ Kind[t] = "gate" => FirstPC(t) = "create"
BY DEF FirstPC

\* A completion keeps GateInv when the completing Step's own Gate is right:
\* it succeeds past a Gate only on an approved row, and the row reads approved
\* only on an approving verdict.
LEMMA CompleteKeepsGates ==
    ASSUME TypeOK, GateInv, NEW s \in Step,
           NEW status \in {"succeeded", "failed"}, NEW publishes \in BOOLEAN,
           stepPC[s] \notin {"idle", "done"}, Complete(s, status, publishes),
           UNCHANGED << approvedBy, verdict, signals, deciding >>,
           \A t \in Step \ {s} : gate'[t] = gate[t],
           lateGates' \subseteq lateGates \cup {s},
           s \in lateGates' => canceled,
           gate'[s] = "approved" => verdict[s] = "approved",
           ~canceled /\ status = "succeeded"
               /\ (Kind[s] = "gate" \/ gate'[s] # "none")
             => gate'[s] = "approved"
    PROVE  GateInv'
<1>1. /\ state'[s] = (IF canceled THEN "canceled" ELSE status)
      /\ stepPC'[s] = "done"
      /\ \A t \in Step \ {s} :
            IF state[t] = ""
            THEN \/ state'[t] \in {"", "skipped"} /\ stepPC'[t] = "idle"
                 \/ state'[t] = "running" /\ stepPC'[t] = FirstPC(t)
            ELSE state'[t] = state[t] /\ stepPC'[t] = stepPC[t]
  BY CompleteEffect DEF GateInv
<1>2. \A t \in Step : state[t] = "" => stepPC[t] = "idle"
  BY DEF GateInv, Coroutines
<1>3. Coroutines'
  BY <1>1, FirstPCs DEF GateInv, Coroutines
<1>4. AtGate'
  BY ZenonT(40), <1>1, <1>2, FirstPCs DEF GateInv, AtGate
<1>5. OnlyApprovers'
  BY DEF GateInv, OnlyApprovers
<1>6. Verdicts'
  BY <1>1, <1>2 DEF GateInv, Verdicts, Quorum
<1>7. Passed'
  BY <1>1 DEF GateInv, Passed
<1>8. QED  BY <1>3, <1>4, <1>5, <1>6, <1>7 DEF GateInv

\* The first walk starts from Steps that are all pending, or from where an
\* earlier walk left them: it keeps GateInv too.
LEMMA FirstWalkKeepsGates ==
    ASSUME TypeOK, GateInv, MarkWorkflowRunRunning
    PROVE  GateInv'
<1>1. schedule(state, outputs, {}) /\ state \in [Step -> StepState]
  BY DEF MarkWorkflowRunRunning, TypeOK
<1>2. Decides(state, {})
  BY <1>1, ScheduleEffect
<1>3. \A t \in Step : state[t] = "" => stepPC[t] = "idle"
  BY DEF GateInv, Coroutines
<1>4. UNCHANGED << approvedBy, verdict, signals, deciding, gate, lateGates >>
  BY DEF MarkWorkflowRunRunning, Before, doorVars
<1>5. Coroutines'
  BY <1>2, <1>3, FirstPCs DEF Decides, GateInv, Coroutines
<1>6. AtGate'
  BY <1>2, <1>3, <1>4, FirstPCs DEF Decides, GateInv, AtGate
<1>7. OnlyApprovers'
  BY <1>4 DEF GateInv, OnlyApprovers
<1>8. Verdicts'
  BY <1>2, <1>3, <1>4 DEF Decides, GateInv, Verdicts, Quorum
<1>9. Passed'
  BY <1>2, <1>4 DEF Decides, GateInv, Passed
<1>10. QED  BY <1>5, <1>6, <1>7, <1>8, <1>9 DEF GateInv

\* A decision on its way keeps GateInv: the door admits only the Gate's
\* approvers, and the buffer keeps what the door admitted.
LEMMA DoorsKeepGates ==
    ASSUME TypeOK, GateInv, Doors
    PROVE  GateInv'
<1> USE DEF temporalVars, stepVars, rowVars, lateVars
<1>1. CASE CancelDoorChecks \/ CancelDoorSignals
  BY <1>1, GateFrame DEF CancelDoorChecks, CancelDoorSignals, gateVars
<1>2. ASSUME NEW d \in Decision, DecisionDoorChecks(d) PROVE GateInv'
  <2>1. OnlyApprovers'
    BY <1>2 DEF DecisionDoorChecks, GateInv, OnlyApprovers
  <2>2. Coroutines' /\ AtGate' /\ Verdicts' /\ Passed'
    BY <1>2 DEF DecisionDoorChecks, GateInv, Coroutines, AtGate, Verdicts,
                Passed
  <2>3. QED  BY <2>1, <2>2 DEF GateInv
<1>3. ASSUME NEW d \in Decision, DecisionDoorSignals(d) PROVE GateInv'
  <2>1. d.step \in Step /\ d.who \in Approvers[d.step]
    BY <1>3 DEF DecisionDoorSignals, GateInv, OnlyApprovers, Decision
  <2>2. \A s \in Step : \A i \in 1 .. Len(signals'[s]) :
            signals'[s][i].who \in Approvers[s]
    <3> TAKE s \in Step
    <3>1. CASE signals'[s] = signals[s]
      BY <3>1 DEF GateInv, OnlyApprovers
    <3>2. CASE s = d.step /\ signals'[s] = Append(signals[s], d)
      <4>1. signals[s] \in Seq(Decision)
        BY DEF TypeOK
      <4>2. QED  BY <2>1, <3>2, <4>1 DEF GateInv, OnlyApprovers
    <3>3. QED  BY <1>3, <2>1, <3>1, <3>2 DEF DecisionDoorSignals, TypeOK
  <2>3. OnlyApprovers'
    BY <1>3, <2>2 DEF DecisionDoorSignals, GateInv, OnlyApprovers
  <2>4. Coroutines' /\ AtGate' /\ Verdicts' /\ Passed'
    BY <1>3 DEF DecisionDoorSignals, GateInv, Coroutines, AtGate, Verdicts,
                Passed
  <2>5. QED  BY <2>3, <2>4 DEF GateInv
<1>4. QED  BY <1>1, <1>2, <1>3 DEF Doors

\* The writers that touch Gate rows outside a coroutine: the cancel sweep
\* moves pending rows only, an abandoned create belongs to a canceled Step,
\* and an abandoned decision moves a pending row to its own verdict.
LEMMA SweepKeepsGates ==
    ASSUME TypeOK, GateInv, CancelPendingGates
    PROVE  GateInv'
<1>1. /\ \A s \in Step : gate'[s] \in {gate[s], "canceled"}
      /\ \A s \in Step : gate'[s] # gate[s] => gate[s] = "pending"
      /\ UNCHANGED << state, stepPC, approvedBy, verdict, signals, deciding,
                      lateGates >>
  BY DEF CancelPendingGates, stepVars, doorVars, lateVars
<1>2. AtGate' /\ Verdicts' /\ Passed'
  BY <1>1 DEF GateInv, AtGate, Verdicts, Passed, Quorum
<1>3. Coroutines' /\ OnlyApprovers'
  BY <1>1 DEF GateInv, Coroutines, OnlyApprovers
<1>4. QED  BY <1>2, <1>3 DEF GateInv

\* A late write only hits the Gate of a coroutine that was cancelled.
LEMMA LateWritesKeepGates ==
    ASSUME TypeOK, GateInv, LateWrites
    PROVE  GateInv'
<1> USE DEF temporalVars, doorVars, rowVars
<1>1. ASSUME NEW s \in Step, LateCreateGate(s) PROVE GateInv'
  <2>1. /\ \A t \in Step \ {s} : gate'[t] = gate[t]
        /\ gate'[s] = (IF gate[s] = "none" THEN "pending" ELSE gate[s])
        /\ s \in lateGates
        /\ \A t \in lateGates' : t \in lateGates
        /\ UNCHANGED << state, stepPC, approvedBy, verdict, signals, deciding >>
    BY <1>1 DEF LateCreateGate, OpenGate, TypeOK, lateVars
  <2>2. state[s] = "canceled" /\ stepPC[s] = "done"
    BY <2>1 DEF GateInv, AtGate, Coroutines
  <2>3. AtGate' /\ Verdicts' /\ Passed'
    BY <2>1, <2>2 DEF GateInv, AtGate, Verdicts, Passed, Quorum
  <2>4. Coroutines' /\ OnlyApprovers'
    BY <2>1 DEF GateInv, Coroutines, OnlyApprovers
  <2>5. QED  BY <2>3, <2>4 DEF GateInv
<1>2. ASSUME NEW s \in Step, LateRecordDecision(s) PROVE GateInv'
  <2>1. /\ \A t \in Step \ {s} : gate'[t] = gate[t]
        /\ gate'[s] = (IF gate[s] = "pending" THEN verdict[s] ELSE gate[s])
        /\ UNCHANGED << state, stepPC, approvedBy, verdict, signals, deciding,
                        lateGates >>
    BY <1>2 DEF LateRecordDecision, DecideGate, TypeOK
  <2>2. AtGate' /\ Verdicts' /\ Passed'
    BY <2>1 DEF GateInv, AtGate, Verdicts, Passed, Quorum
  <2>3. Coroutines' /\ OnlyApprovers'
    BY <2>1 DEF GateInv, Coroutines, OnlyApprovers
  <2>4. QED  BY <2>2, <2>3 DEF GateInv
<1>3. ASSUME NEW w \in lateRows, LateRowWrite(w) PROVE GateInv'
  BY <1>3, GateFrame DEF LateRowWrite, gateVars
<1>4. QED  BY <1>1, <1>2, <1>3 DEF LateWrites

\* awaitGate counts one more decision.
LEMMA ReceiveKeepsGates ==
    ASSUME TypeOK, GateInv, NEW s \in Step, ReceiveDecision(s)
    PROVE  GateInv'
<1> DEFINE d == Head(signals[s])
           by == IF d.approve THEN approvedBy[s] \cup {d.who} ELSE approvedBy[s]
           v == Verdict(s, d, by)
<1>1. /\ stepPC[s] = "await" /\ signals[s] # << >>
      /\ approvedBy' = [approvedBy EXCEPT ![s] = by]
      /\ verdict' = [verdict EXCEPT ![s] = v]
      /\ stepPC' = [stepPC EXCEPT ![s] = IF v = "none" THEN "await" ELSE "record"]
      /\ signals' = [signals EXCEPT ![s] = Tail(signals[s])]
      /\ UNCHANGED << state, gate, deciding, lateGates >>
  BY DEF ReceiveDecision, Goto, lateVars
<1>2. signals[s] \in Seq(Decision)
  BY DEF TypeOK
<1>3. d.who \in Approvers[s]
  <2>1. 1 \in 1 .. Len(signals[s]) /\ d = signals[s][1]
    BY <1>1, <1>2
  <2>2. QED  BY <2>1 DEF GateInv, OnlyApprovers
<1>4. by \subseteq Approvers[s]
  BY <1>3 DEF GateInv, OnlyApprovers
<1>5. v = "approved" => Cardinality(by) >= Quorum(s)
  BY DEF Verdict
<1>6. gate[s] # "approved" /\ state[s] = "running"
  BY <1>1 DEF GateInv, Verdicts, Coroutines
<1> HIDE DEF d, by, v
<1>7. Coroutines' /\ AtGate' /\ Passed'
  BY <1>1, <1>6 DEF GateInv, Coroutines, AtGate, Passed, TypeOK
<1>8. Verdicts'
  BY <1>1, <1>5, <1>6 DEF GateInv, Verdicts, Quorum, TypeOK
<1>9. OnlyApprovers'
  <2>1. \A i \in 1 .. Len(Tail(signals[s])) :
            Tail(signals[s])[i].who \in Approvers[s]
    BY <1>1, <1>2 DEF GateInv, OnlyApprovers
  <2>2. QED  BY <1>1, <1>4, <2>1 DEF GateInv, OnlyApprovers, TypeOK
<1>10. QED  BY <1>7, <1>8, <1>9 DEF GateInv

\* A coroutine that moves to another blocking call without touching its
\* Gate's votes keeps GateInv, when the move is one the code makes.
LEMMA GotoKeepsGates ==
    ASSUME TypeOK, GateInv, NEW s \in Step,
           NEW where \in {"plan", "child", "create"}, Goto(s, where),
           stepPC[s] \in {"resolve", "evaluate"},
           UNCHANGED << approvedBy, verdict, gate, signals, deciding, lateGates >>
    PROVE  GateInv'
<1>1. /\ stepPC' = [stepPC EXCEPT ![s] = where]
      /\ UNCHANGED state
  BY DEF Goto
<1>2. Coroutines' /\ AtGate'
  BY ZenonT(40), <1>1 DEF GateInv, Coroutines, AtGate, TypeOK
<1>3. OnlyApprovers' /\ Passed'
  BY <1>1 DEF GateInv, OnlyApprovers, Passed
<1>4. Verdicts'
  BY <1>1 DEF GateInv, Verdicts, Quorum, TypeOK
<1>5. QED  BY <1>2, <1>3, <1>4 DEF GateInv

\* One step of a Step's coroutine keeps GateInv.
LEMMA StepKeepsGates ==
    ASSUME TypeOK, GateInv, NEW s \in Step, StepAdvances(s)
    PROVE  GateInv'
<1> USE DEF rest, doorVars, lateVars
\* A completion with no Gate of its own in play.
<1>a. ASSUME NEW status \in {"succeeded", "failed"}, NEW publishes \in BOOLEAN,
             stepPC[s] \in {"resolve", "plan", "evaluate", "child"},
             Complete(s, status, publishes),
             UNCHANGED << approvedBy, verdict, gate, signals, deciding,
                          lateGates >>
      PROVE  GateInv'
  <2>1. gate[s] = "none" /\ Kind[s] # "gate"
    BY <1>a DEF GateInv, AtGate
  <2>2. s \notin lateGates
    BY <1>a DEF GateInv, AtGate, Coroutines
  <2>3. QED  BY <1>a, <2>1, <2>2, CompleteKeepsGates
\* A failed one at its Gate, whose row may have been written all the same.
<1>b. ASSUME stepPC[s] \notin {"idle", "done"}, Complete(s, "failed", FALSE),
             gate' = gate \/ OpenGate(s) \/ DecideGate(s),
             UNCHANGED << approvedBy, verdict, signals, deciding >>,
             lateGates' \subseteq lateGates \cup {s},
             s \in lateGates' => s \in lateGates \/ canceled
      PROVE  GateInv'
  <2>1. s \notin lateGates
    BY <1>b DEF GateInv, AtGate, Coroutines
  <2>2. \A t \in Step \ {s} : gate'[t] = gate[t]
    BY <1>b DEF OpenGate, DecideGate, TypeOK
  <2>3. gate'[s] = "approved" => verdict[s] = "approved"
    BY <1>b DEF OpenGate, DecideGate, TypeOK, GateInv, Verdicts
  <2>4. QED  BY <1>b, <2>1, <2>2, <2>3, CompleteKeepsGates
<1>1. CASE ResolveParams(s)
  <2>1. CASE Complete(s, "failed", FALSE)
    BY <1>1, <1>a, <2>1 DEF ResolveParams
  <2>2. CASE Goto(s, IF Kind[s] = "plan" THEN "plan" ELSE "child")
    BY <1>1, <2>2, GotoKeepsGates DEF ResolveParams
  <2>3. QED  BY <1>1, <2>1, <2>2 DEF ResolveParams
<1>2. CASE PlanStep(s)
  BY <1>2, <1>a DEF PlanStep
<1>3. CASE ApplyPinnedPlan(s)
  BY <1>3, GateFrame DEF ApplyPinnedPlan, temporalVars, gateVars
<1>4. CASE EvaluatePolicy(s)
  <2>1. CASE Complete(s, "succeeded", FALSE) \/ Complete(s, "failed", FALSE)
    BY <1>4, <1>a, <2>1 DEF EvaluatePolicy
  <2>2. CASE Goto(s, "create")
    BY <1>4, <2>2, GotoKeepsGates DEF EvaluatePolicy
  <2>3. QED  BY <1>4, <2>1, <2>2 DEF EvaluatePolicy
<1>5. CASE CreateGateRecord(s)
  <2>1. /\ stepPC[s] = "create"
        /\ stepPC' = [stepPC EXCEPT ![s] = "await"]
        /\ gate' = [gate EXCEPT ![s] = IF gate[s] = "none" THEN "pending"
                                       ELSE gate[s]]
        /\ UNCHANGED << state, approvedBy, verdict, signals, deciding,
                        lateGates >>
    BY <1>5 DEF CreateGateRecord, OpenGate, Goto
  <2>2. Coroutines' /\ AtGate'
    BY <2>1 DEF GateInv, Coroutines, AtGate, TypeOK
  <2>3. OnlyApprovers'
    BY <2>1 DEF GateInv, OnlyApprovers
  <2>4. gate'[s] # "approved" /\ state[s] = "running"
    BY ZenonT(40), <2>1 DEF GateInv, Verdicts, Coroutines, TypeOK
  <2>5. \A t \in Step \ {s} : gate'[t] = gate[t] /\ stepPC'[t] = stepPC[t]
    BY <2>1 DEF TypeOK
  <2>6. Verdicts'
    BY <2>1, <2>4, <2>5 DEF GateInv, Verdicts, Quorum
  <2>7. Passed'
    BY <2>1, <2>4, <2>5 DEF GateInv, Passed
  <2>8. QED  BY <2>2, <2>3, <2>6, <2>7 DEF GateInv
<1>6. CASE CreateGateRecordFails(s)
  BY <1>6, <1>b DEF CreateGateRecordFails
<1>7. CASE ReceiveDecision(s)
  BY <1>7, ReceiveKeepsGates
<1>8. CASE GateTimesOut(s)
  <2>1. /\ stepPC[s] = "await"
        /\ stepPC' = [stepPC EXCEPT ![s] = "record"]
        /\ verdict' = [verdict EXCEPT ![s] = "expired"]
        /\ UNCHANGED << state, approvedBy, gate, signals, deciding, lateGates >>
    BY <1>8 DEF GateTimesOut, Goto
  <2>2. Coroutines' /\ AtGate'
    BY <2>1 DEF GateInv, Coroutines, AtGate, TypeOK
  <2>3. OnlyApprovers' /\ Passed'
    BY <2>1 DEF GateInv, OnlyApprovers, Passed
  <2>4. Verdicts'
    BY <2>1 DEF GateInv, Verdicts, Quorum, TypeOK
  <2>5. QED  BY <2>2, <2>3, <2>4 DEF GateInv
<1>9. CASE RecordGateDecision(s)
  <2>1. /\ stepPC[s] = "record" /\ ~canceled
        /\ Complete(s, Recorded(s), FALSE)
        /\ UNCHANGED << approvedBy, verdict, signals, deciding, lateGates >>
        /\ DecideGate(s)
    BY <1>9 DEF RecordGateDecision
  <2>2. /\ \A t \in Step \ {s} : gate'[t] = gate[t]
        /\ gate'[s] = "approved" => verdict[s] = "approved"
        /\ Recorded(s) = "succeeded" => gate'[s] = "approved"
        /\ Recorded(s) \in {"succeeded", "failed"}
    BY <2>1 DEF DecideGate, Recorded, TypeOK, GateInv, Verdicts
  <2>3. s \notin lateGates
    BY <2>1 DEF GateInv, AtGate, Coroutines
  <2>4. QED  BY <2>1, <2>2, <2>3, CompleteKeepsGates
<1>10. CASE RecordGateDecisionFails(s)
  BY <1>10, <1>b DEF RecordGateDecisionFails
<1>11. CASE StepCanceled(s)
  BY <1>11, <1>b DEF StepCanceled, Interruptible
<1>12. QED
  BY <1>1, <1>2, <1>3, <1>4, <1>5, <1>6, <1>7, <1>8, <1>9, <1>10, <1>11
  DEF StepAdvances

\* Every step keeps GateInv.
LEMMA NextKeepsGates ==
    ASSUME TypeOK, GateInv, [Next]_vars
    PROVE  GateInv'
<1> USE DEF temporalVars, stepVars, doorVars, rowVars, lateVars, gateVars
<1>1. CASE Launch
  BY <1>1, GateFrame
  DEF Launch, CreateWorkflowRun, ExecuteWorkflow, ExecuteWorkflowFails,
      MarkStartFailed, SetWorkflowRunTemporalID, DoorDies
<1>2. CASE Setup
  <2>1. CASE MarkWorkflowRunRunning
    BY <2>1, FirstWalkKeepsGates
  <2>2. CASE StartSelf \/ EnsureWorkflowRun \/ EnsureWorkflowRunFails
    BY <2>2, GateFrame
    DEF StartSelf, EnsureWorkflowRun, EnsureWorkflowRunFails, Before
  <2>3. CASE ResolveSetup \/ MarkWorkflowRunRunningFails
    BY <2>3, GateFrame DEF ResolveSetup, MarkWorkflowRunRunningFails, Before
  <2>4. CASE SetupCanceled \/ AbortSetup
    BY <2>4, GateFrame DEF SetupCanceled, AbortSetup, Before
  <2>5. QED  BY <1>2, <2>1, <2>2, <2>3, <2>4 DEF Setup
<1>3. CASE Teardown
  <2>1. CASE CancelPendingGates
    BY <2>1, SweepKeepsGates
  <2>2. CASE FinishWorkflowRun \/ ReturnRunDAG \/ FinishCanceled
    BY <2>2, GateFrame
    DEF FinishWorkflowRun, ReturnRunDAG, FinishCanceled, Before
  <2>3. QED  BY <1>3, <2>1, <2>2 DEF Teardown
<1>4. CASE Doors
  BY <1>4, DoorsKeepGates
<1>5. CASE LateWrites
  BY <1>5, LateWritesKeepGates
<1>6. CASE \E s \in Step : StepAdvances(s)
  BY <1>6, StepKeepsGates
<1>7. ASSUME NEW s \in Step, NEW ok \in BOOLEAN, NEW publishes \in BOOLEAN,
             ChildReturns(s, ok, publishes)
      PROVE  GateInv'
  <2>1. /\ stepPC[s] = "child" /\ ~canceled
        /\ Complete(s, IF ok THEN "succeeded" ELSE "failed", publishes)
        /\ UNCHANGED << approvedBy, verdict, gate, signals, deciding, lateGates >>
    BY <1>7 DEF ChildReturns, rest
  <2>2. gate[s] = "none" /\ Kind[s] # "gate" /\ s \notin lateGates
    BY <2>1 DEF GateInv, AtGate, Coroutines
  <2>3. (IF ok THEN "succeeded" ELSE "failed") \in {"succeeded", "failed"}
    OBVIOUS
  <2>4. QED  BY <2>1, <2>2, <2>3, CompleteKeepsGates
<1>8. CASE UNCHANGED vars
  BY <1>8, GateFrame DEF vars
<1>9. QED
  BY <1>1, <1>2, <1>3, <1>4, <1>5, <1>6, <1>7, <1>8
  DEF Next, Own, ChildrenReturn

\* GateInv holds before anything was launched.
LEMMA GateInvInit ==
    ASSUME Init
    PROVE  GateInv
<1>1. Coroutines /\ AtGate /\ Passed
  BY DEF Init, Coroutines, AtGate, Passed
<1>2. OnlyApprovers
  <2>1. \A s \in Step : signals[s] = << >>
    BY DEF Init
  <2>2. \A s \in Step : \A i \in 1 .. Len(signals[s]) :
            signals[s][i].who \in Approvers[s]
    BY <2>1
  <2>3. deciding = {} /\ \A s \in Step : approvedBy[s] = {}
    BY DEF Init
  <2>4. QED  BY <2>2, <2>3 DEF OnlyApprovers
<1>3. Verdicts
  BY DEF Init, Verdicts
<1>4. QED  BY <1>1, <1>2, <1>3 DEF GateInv

\* No Step that asked for human approval succeeds without it: whatever the
\* order of signals, timeouts, failed and abandoned writes and cancels, its
\* row reads approved and a quorum of distinct approvers stands behind it.
THEOREM GatesHold == Spec => []GateHolds
<1>1. Init => GateInv
  BY GateInvInit
<1>2. TypeOK /\ GateInv /\ [Next]_vars => GateInv'
  BY NextKeepsGates
<1>3. GateInv => GateHolds
  <2> SUFFICES ASSUME GateInv, NEW s \in Step, state[s] = "succeeded",
                      Kind[s] = "gate" \/ gate[s] # "none"
               PROVE  /\ gate[s] = "approved"
                      /\ Cardinality(approvedBy[s] \cap Approvers[s]) >= Quorum(s)
    BY DEF GateHolds
  <2>1. gate[s] = "approved"
    BY DEF GateInv, Passed
  <2>2. Cardinality(approvedBy[s]) >= Quorum(s)
    BY <2>1 DEF GateInv, Verdicts
  <2>3. approvedBy[s] \cap Approvers[s] = approvedBy[s]
    BY DEF GateInv, OnlyApprovers
  <2>4. QED  BY <2>1, <2>2, <2>3
<1>4. QED  BY <1>1, <1>2, <1>3, TypeCorrect, PTL DEF Spec

-----------------------------------------------------------------------------
(* The walk. *)

\* Outside the walk no Step changes.
Walkless == UNCHANGED << state, stepPC, outputs, bound >>

\* The next blocking call fits the Step: only a Plan Step plans, only a Step
\* that is no Plan has a child, and both resolve their parameters first.
Fits(s, where) ==
    /\ stepPC[s] # "child" /\ where # "resolve"
    /\ where = "plan" => stepPC[s] = "resolve" /\ Kind[s] = "plan"
    /\ where = "child" => stepPC[s] = "resolve" /\ Kind[s] # "plan"

\* Outside the coroutines only the first walk touches the Steps.
LEMMA OtherShapes ==
    ASSUME Launch \/ Setup \/ Teardown \/ Doors \/ LateWrites
    PROVE  Walkless \/ MarkWorkflowRunRunning
<1> USE DEF temporalVars, stepVars, Walkless
<1>1. CASE Launch
  BY <1>1
  DEF Launch, CreateWorkflowRun, ExecuteWorkflow, ExecuteWorkflowFails,
      MarkStartFailed, SetWorkflowRunTemporalID, DoorDies
<1>2. CASE Setup
  BY <1>2
  DEF Setup, StartSelf, EnsureWorkflowRun, EnsureWorkflowRunFails,
      ResolveSetup, MarkWorkflowRunRunningFails, SetupCanceled, AbortSetup
<1>3. CASE Teardown
  BY <1>3
  DEF Teardown, FinishWorkflowRun, ReturnRunDAG, CancelPendingGates,
      FinishCanceled
<1>4. CASE Doors
  BY <1>4
  DEF Doors, CancelDoorChecks, CancelDoorSignals, DecisionDoorChecks,
      DecisionDoorSignals
<1>5. CASE LateWrites
  BY <1>5 DEF LateWrites, LateCreateGate, LateRecordDecision, LateRowWrite
<1>6. QED  BY <1>1, <1>2, <1>3, <1>4, <1>5

\* The coroutine of s moved to its next blocking call.
Moved(s) ==
    /\ stepPC[s] \notin {"idle", "done"}
    /\ \E where \in StepPC : Goto(s, where) /\ Fits(s, where)

\* The coroutine of s returned.
Returned(s) ==
    /\ stepPC[s] \notin {"idle", "done"}
    /\ \E status \in {"succeeded", "failed"}, publishes \in BOOLEAN :
          Complete(s, status, publishes)

\* A coroutine applies its plan, moves to its next blocking call or returns.
LEMMA CoroutineShapes ==
    ASSUME NEW s \in Step, StepAdvances(s)
    PROVE  Walkless \/ Moved(s) \/ Returned(s)
<1> USE DEF temporalVars, Walkless, Moved, Returned
<1>1. CASE ResolveParams(s) \/ PlanStep(s)
  BY <1>1 DEF ResolveParams, PlanStep, StepPC, Fits
<1>2. CASE ApplyPinnedPlan(s)
  BY <1>2 DEF ApplyPinnedPlan
<1>3. CASE EvaluatePolicy(s)
  BY <1>3 DEF EvaluatePolicy, StepPC, Fits
<1>4. CASE CreateGateRecord(s) \/ CreateGateRecordFails(s)
  BY <1>4 DEF CreateGateRecord, CreateGateRecordFails, StepPC, Fits
<1>5. CASE ReceiveDecision(s)
  BY <1>5 DEF ReceiveDecision, StepPC, Fits
<1>6. CASE GateTimesOut(s)
  BY <1>6 DEF GateTimesOut, StepPC, Fits
<1>7. CASE RecordGateDecision(s) \/ RecordGateDecisionFails(s)
  BY <1>7 DEF RecordGateDecision, RecordGateDecisionFails, Recorded
<1>8. CASE StepCanceled(s)
  BY <1>8 DEF StepCanceled, Interruptible
<1>9. QED
  BY <1>1, <1>2, <1>3, <1>4, <1>5, <1>6, <1>7, <1>8 DEF StepAdvances

\* Every step is one that leaves the Steps' outcomes alone, the first walk,
\* a move of one coroutine to its next blocking call, or a completion.
LEMMA StepShapes ==
    ASSUME [Next]_vars
    PROVE  \/ Walkless
           \/ MarkWorkflowRunRunning
           \/ \E s \in Step : Moved(s)
           \/ \E s \in Step : Returned(s)
<1>1. ASSUME NEW s \in Step, NEW ok \in BOOLEAN, NEW publishes \in BOOLEAN,
             ChildReturns(s, ok, publishes)
      PROVE  Returned(s)
  BY <1>1 DEF ChildReturns, Returned
<1>2. CASE UNCHANGED vars
  BY <1>2 DEF vars, temporalVars, Walkless
<1>3. QED
  BY <1>1, <1>2, OtherShapes, CoroutineShapes DEF Next, Own, ChildrenReturn

\* Once the DAG is cancelled schedule starts nothing, whichever Step returns
\* and whatever its status: a Step that had no coroutine never gets one.
THEOREM CancelStops == Spec => NothingStartsAfterCancel
<1> DEFINE Stops == canceled => \A s \in Step : stepPC[s] = "idle" => stepPC'[s] = "idle"
<1>1. TypeOK /\ GateInv /\ [Next]_vars => [Stops]_vars
  <2> SUFFICES ASSUME TypeOK, GateInv, [Next]_vars, canceled,
                      NEW t \in Step, stepPC[t] = "idle"
               PROVE  stepPC'[t] = "idle"
    OBVIOUS
  <2>1. CASE Walkless
    BY <2>1 DEF Walkless
  <2>2. CASE MarkWorkflowRunRunning
    BY <2>2 DEF MarkWorkflowRunRunning
  <2>3. ASSUME NEW s \in Step, NEW where \in StepPC,
               stepPC[s] \notin {"idle", "done"}, Goto(s, where)
        PROVE  stepPC'[t] = "idle"
    BY <2>3 DEF Goto, TypeOK
  <2>4. ASSUME NEW s \in Step, NEW status \in {"succeeded", "failed"},
               NEW publishes \in BOOLEAN, stepPC[s] \notin {"idle", "done"},
               Complete(s, status, publishes)
        PROVE  stepPC'[t] = "idle"
    <3> DEFINE st == [state EXCEPT ![s] = IF canceled THEN "canceled" ELSE status]
               outs == IF publishes THEN outputs \cup {s} ELSE outputs
    <3>1. st \in [Step -> StepState] /\ st[t] = state[t] /\ t # s
      BY <2>4 DEF TypeOK, StepState
    <3>2. schedule(st, outs, {s})
      BY <2>4 DEF Complete
    <3> HIDE DEF st, outs
    <3>3. Decides(st, {s})
      BY <3>1, <3>2, ScheduleEffect
    <3>4. QED  BY <3>1, <3>3 DEF Decides
  <2>5. QED  BY <2>1, <2>2, <2>3, <2>4, StepShapes DEF Moved, Returned
<1>2. Init => GateInv
  BY GateInvInit
<1>3. TypeOK /\ GateInv /\ [Next]_vars => GateInv'
  BY NextKeepsGates
<1>4. QED
  BY <1>1, <1>2, <1>3, TypeCorrect, PTL DEF Spec, NothingStartsAfterCancel

-----------------------------------------------------------------------------
(* The order of the walk. *)

\* schedule decides a pending Step exactly on its needs' outcomes in the map
\* it stops at.
LEMMA ScheduleOrder ==
    ASSUME NEW st \in [Step -> StepState], NEW outs, NEW fin,
           schedule(st, outs, fin), NEW t \in Step, st[t] = "", state'[t] # ""
    PROVE  /\ \A n \in Needs[t] : state'[n] \in Terminal
           /\ state'[t] # "skipped" <=> Met(t, state')
<1>1. state' \in Settled(st)
  BY DEF schedule, Walked
<1>2. state'[t] = IF ~Ready(t, state') THEN ""
                  ELSE IF Met(t, state') THEN "running" ELSE "skipped"
  BY <1>1 DEF Settled
<1>3. Ready(t, state')
  BY <1>2
<1>4. state'[t] # "skipped" <=> Met(t, state')
  BY <1>2
<1>5. QED  BY <1>3, <1>4 DEF Ready

\* The when-condition, once the needs are decided.
Holds(s, st) ==
    /\ When[s] = "success" => \A n \in Needs[s] : st[n] = "succeeded"
    /\ When[s] = "failure" => \E n \in Needs[s] : st[n] = "failed"

\* The edge test of the walk is the one WalkedInOrder states.
LEMMA MetHolds ==
    ASSUME NEW s \in Step, NEW st
    PROVE  Met(s, st) <=> Holds(s, st)
<1>1. When[s] \in {"success", "failure", "always"}
  BY ConstantTypes
<1>2. QED  BY <1>1 DEF Met, Holds

\* A walk from a map that agrees with the current one on every decided Step
\* keeps the order: the outcomes a decision was made on are terminal, so
\* neither the completing Step nor the walk changes them.
LEMMA WalkKeepsOrder ==
    ASSUME TypeOK, WalkedInOrder, NEW st \in [Step -> StepState],
           NEW outs, NEW fin, schedule(st, outs, fin),
           \A t \in Step : state[t] \in Terminal => st[t] = state[t],
           \A t \in Step : st[t] = "" <=> state[t] = "",
           \A t \in Step : st[t] = "skipped" <=> state[t] = "skipped"
    PROVE  WalkedInOrder'
<1> SUFFICES ASSUME NEW s \in Step, state'[s] # ""
             PROVE  /\ \A n \in Needs[s] : state'[n] \in Terminal
                    /\ state'[s] # "skipped" <=> Holds(s, state')
  BY DEF WalkedInOrder, Holds
<1>1. Needs[s] \subseteq Step
  BY ConstantTypes
<1>2. Decides(st, fin)
  BY ScheduleEffect
<1>3. CASE st[s] = ""
  BY <1>3, ScheduleOrder, MetHolds
<1>4. CASE st[s] # ""
  <2>1. state'[s] = st[s] /\ state[s] # ""
    BY <1>2, <1>4 DEF Decides
  <2>2. /\ \A n \in Needs[s] : state[n] \in Terminal
        /\ state[s] # "skipped" <=> Holds(s, state)
    BY <2>1 DEF WalkedInOrder, Holds
  <2>3. \A n \in Needs[s] : state'[n] = state[n]
    BY <1>1, <1>2, <2>2 DEF Decides, Terminal
  <2>4. Holds(s, state') <=> Holds(s, state)
    BY <2>3 DEF Holds
  <2>5. QED  BY <2>1, <2>2, <2>3, <2>4
<1>5. QED  BY <1>3, <1>4

\* RunDAG never starts a Step before its needs are decided, never skips one
\* whose condition holds, and no later event changes an outcome under a Step
\* that was decided on it.
THEOREM WalksInOrder == Spec => []WalkedInOrder
<1>1. Init => WalkedInOrder
  BY DEF Init, WalkedInOrder
<1>2. TypeOK /\ GateInv /\ WalkedInOrder /\ [Next]_vars => WalkedInOrder'
  <2> SUFFICES ASSUME TypeOK, GateInv, WalkedInOrder, [Next]_vars
               PROVE  WalkedInOrder'
    OBVIOUS
  <2>1. CASE Walkless
    BY <2>1 DEF Walkless, WalkedInOrder
  <2>2. CASE MarkWorkflowRunRunning
    <3>1. schedule(state, outputs, {}) /\ state \in [Step -> StepState]
      BY <2>2 DEF MarkWorkflowRunRunning, TypeOK
    <3>2. QED  BY <3>1, WalkKeepsOrder
  <2>3. ASSUME NEW s \in Step, NEW where \in StepPC, Goto(s, where)
        PROVE  WalkedInOrder'
    BY <2>3 DEF Goto, WalkedInOrder
  <2>4. ASSUME NEW s \in Step, NEW status \in {"succeeded", "failed"},
               NEW publishes \in BOOLEAN, stepPC[s] \notin {"idle", "done"},
               Complete(s, status, publishes)
        PROVE  WalkedInOrder'
    <3> DEFINE st == [state EXCEPT ![s] = IF canceled THEN "canceled" ELSE status]
               outs == IF publishes THEN outputs \cup {s} ELSE outputs
    <3>1. state[s] = "running"
      BY <2>4 DEF GateInv, Coroutines
    <3>2. /\ st \in [Step -> StepState]
          /\ \A t \in Step : state[t] \in Terminal => st[t] = state[t]
          /\ \A t \in Step : st[t] = "" <=> state[t] = ""
          /\ \A t \in Step : st[t] = "skipped" <=> state[t] = "skipped"
      BY <2>4, <3>1 DEF TypeOK, StepState, Terminal
    <3>3. schedule(st, outs, {s})
      BY <2>4 DEF Complete
    <3> HIDE DEF st, outs
    <3>4. QED  BY <3>2, <3>3, WalkKeepsOrder
  <2>5. QED  BY <2>1, <2>2, <2>3, <2>4, StepShapes DEF Moved, Returned
<1>3. Init => GateInv
  BY GateInvInit
<1>4. TypeOK /\ GateInv /\ [Next]_vars => GateInv'
  BY NextKeepsGates
<1>5. QED  BY <1>1, <1>2, <1>3, <1>4, TypeCorrect, PTL DEF Spec

\* The invariant of the Gates, as the proofs below use it.
LEMMA GatesFollowed == Spec => []GateInv
<1>1. Init => GateInv
  BY GateInvInit
<1>2. TypeOK /\ GateInv /\ [Next]_vars => GateInv'
  BY NextKeepsGates
<1>3. QED  BY <1>1, <1>2, TypeCorrect, PTL DEF Spec

-----------------------------------------------------------------------------
(* What a Step binds. *)

\* A Step that schedule does not start.
Kept(t, fin) ==
    /\ bound'[t] = bound[t]
    /\ stepPC'[t] = IF t \in fin THEN "done" ELSE stepPC[t]

\* A Step that schedule starts binds the outputs it is given; every other Step
\* keeps its binding and, unless it has just returned, its coroutine.
LEMMA ScheduleBinds ==
    ASSUME TypeOK, NEW st \in [Step -> StepState], NEW outs, NEW fin,
           schedule(st, outs, fin), NEW t \in Step
    PROVE  bound'[t] = outs \/ Kept(t, fin)
BY DEF schedule, TypeOK, Kept

\* A Step binds every output its needs published.  A need that publishes is
\* running, and WalkedInOrder has no Step started over a running need, so
\* outputs never grow behind the back of a snapshot.
THEOREM BindsNeeds == Spec => []BindsItsNeeds
<1>1. Init => BindsItsNeeds
  BY DEF Init, BindsItsNeeds
<1>2. TypeOK /\ GateInv /\ WalkedInOrder /\ BindsItsNeeds /\ [Next]_vars
        => BindsItsNeeds'
  <2> SUFFICES ASSUME TypeOK, GateInv, WalkedInOrder, BindsItsNeeds,
                      [Next]_vars
               PROVE  BindsItsNeeds'
    OBVIOUS
  <2>1. CASE Walkless
    BY <2>1 DEF Walkless, BindsItsNeeds
  <2>2. CASE MarkWorkflowRunRunning
    <3> SUFFICES ASSUME NEW t \in Step, stepPC'[t] # "idle"
                 PROVE  Needs[t] \cap outputs' \subseteq bound'[t]
      BY DEF BindsItsNeeds
    <3>1. /\ schedule(state, outputs, {}) /\ outputs' = outputs
          /\ state \in [Step -> StepState]
      BY <2>2 DEF MarkWorkflowRunRunning, TypeOK
    <3>2. bound'[t] = outputs \/ Kept(t, {})
      BY <3>1, ScheduleBinds
    <3>3. QED  BY <3>1, <3>2 DEF BindsItsNeeds, Kept
  <2>3. ASSUME NEW s \in Step, NEW where \in StepPC, Goto(s, where),
               stepPC[s] \notin {"idle", "done"}
        PROVE  BindsItsNeeds'
    BY <2>3 DEF Goto, BindsItsNeeds, TypeOK
  <2>4. ASSUME NEW s \in Step, NEW status \in {"succeeded", "failed"},
               NEW publishes \in BOOLEAN, stepPC[s] \notin {"idle", "done"},
               Complete(s, status, publishes)
        PROVE  BindsItsNeeds'
    <3> SUFFICES ASSUME NEW t \in Step, stepPC'[t] # "idle"
                 PROVE  Needs[t] \cap outputs' \subseteq bound'[t]
      BY DEF BindsItsNeeds
    <3> DEFINE st == [state EXCEPT ![s] = IF canceled THEN "canceled" ELSE status]
               outs == IF publishes THEN outputs \cup {s} ELSE outputs
    <3>1. st \in [Step -> StepState]
      BY DEF TypeOK, StepState
    <3>2. schedule(st, outs, {s}) /\ outputs' = outs
      BY <2>4 DEF Complete
    <3>3. outs \subseteq outputs \cup {s}
      OBVIOUS
    <3> HIDE DEF st, outs
    <3>4. CASE bound'[t] = outs
      BY <3>2, <3>4
    <3>5. CASE Kept(t, {s})
      <4>1. stepPC[t] # "idle"
        BY <2>4, <3>5 DEF Kept
      <4>2. state[t] # "" /\ state[s] = "running"
        BY <2>4, <4>1 DEF GateInv, Coroutines
      <4>3. s \notin Needs[t]
        BY <4>2 DEF WalkedInOrder, Terminal
      <4>4. Needs[t] \cap outputs \subseteq bound[t]
        BY <4>1 DEF BindsItsNeeds
      <4>5. QED  BY <3>2, <3>3, <3>5, <4>3, <4>4 DEF Kept
    <3>6. QED  BY <3>1, <3>2, <3>4, <3>5, ScheduleBinds
  <2>5. QED  BY <2>1, <2>2, <2>3, <2>4, StepShapes DEF Moved, Returned
<1>3. QED
  BY <1>1, <1>2, GatesFollowed, WalksInOrder, TypeCorrect, PTL DEF Spec

-----------------------------------------------------------------------------
(* Plan pinning. *)

\* Every edge a plan-pinned Apply transitively depends on is a success edge.
\* Without it the Apply may follow a Gate that was denied (the finding about
\* the loader's check).
SuccessPath ==
    \A s \in Step : PlanFrom[s] # {} /\ Kind[s] \notin {"gate", "plan"} =>
        \A t \in Closure(s) \cup {s} : When[t] = "success"

\* A Step is at a call of its own kind, and what was applied is a child of a
\* Step that was started.
Pinned ==
    /\ \A s \in Step :
          /\ stepPC[s] = "resolve" => Kind[s] \notin {"gate", "policy"}
          /\ stepPC[s] = "child" => Kind[s] \notin {"gate", "policy", "plan"}
    /\ \A s \in applied : /\ Kind[s] \notin {"gate", "policy", "plan"}
                          /\ state[s] \notin {"", "skipped"}

\* Only a child Run applies a plan.
LEMMA AppliedGrows ==
    ASSUME [Next]_vars
    PROVE  \A t \in applied' : t \in applied \/ (t \in Step /\ stepPC[t] = "child")
<1> USE DEF Before, temporalVars, stepVars
<1>1. CASE Launch
  BY <1>1
  DEF Launch, CreateWorkflowRun, ExecuteWorkflow, ExecuteWorkflowFails,
      MarkStartFailed, SetWorkflowRunTemporalID, DoorDies
<1>2. CASE Setup
  BY <1>2
  DEF Setup, StartSelf, EnsureWorkflowRun, EnsureWorkflowRunFails, ResolveSetup,
      MarkWorkflowRunRunning, MarkWorkflowRunRunningFails, SetupCanceled,
      AbortSetup
<1>3. CASE Teardown
  BY <1>3
  DEF Teardown, FinishWorkflowRun, ReturnRunDAG, CancelPendingGates,
      FinishCanceled
<1>4. CASE Doors
  BY <1>4
  DEF Doors, CancelDoorChecks, CancelDoorSignals, DecisionDoorChecks,
      DecisionDoorSignals
<1>5. CASE LateWrites
  BY <1>5 DEF LateWrites, LateCreateGate, LateRecordDecision, LateRowWrite
<1>6. ASSUME NEW s \in Step, StepAdvances(s)
      PROVE  applied' = applied \/ (stepPC[s] = "child" /\ applied' = applied \cup {s})
  BY <1>6
  DEF StepAdvances, ResolveParams, PlanStep, ApplyPinnedPlan, EvaluatePolicy,
      CreateGateRecord, CreateGateRecordFails, ReceiveDecision, GateTimesOut,
      RecordGateDecision, RecordGateDecisionFails, StepCanceled
<1>7. CASE ChildrenReturn
  BY <1>7 DEF ChildrenReturn, ChildReturns
<1>8. CASE UNCHANGED vars
  BY <1>8 DEF vars
<1>9. QED
  BY <1>1, <1>2, <1>3, <1>4, <1>5, <1>6, <1>7, <1>8 DEF Next, Own

\* A walk starts a coroutine at the call of its Step's kind and never takes
\* back that a Step was started.
LEMMA WalkKeepsPinned ==
    ASSUME TypeOK, Pinned, NEW st \in [Step -> StepState], NEW outs, NEW fin,
           schedule(st, outs, fin),
           \A t \in applied' : t \in applied \/ (t \in Step /\ stepPC[t] = "child"),
           \A t \in Step : stepPC[t] = "child" => state[t] = "running",
           \A t \in Step : st[t] \in {"", "skipped"} => state[t] = st[t]
    PROVE  Pinned'
<1>1. Decides(st, fin)
  BY ScheduleEffect
<1>2. ASSUME NEW t \in Step
      PROVE  /\ stepPC'[t] = "resolve" => Kind[t] \notin {"gate", "policy"}
             /\ stepPC'[t] = "child" => Kind[t] \notin {"gate", "policy", "plan"}
  BY <1>1 DEF Decides, Pinned, FirstPC
<1>3. ASSUME NEW t \in applied'
      PROVE  /\ Kind[t] \notin {"gate", "policy", "plan"}
             /\ state'[t] \notin {"", "skipped"}
  <2>1. /\ t \in Step /\ Kind[t] \notin {"gate", "policy", "plan"}
        /\ state[t] \notin {"", "skipped"}
    BY <1>3 DEF Pinned, TypeOK
  <2>2. st[t] \notin {"", "skipped"}
    BY <2>1
  <2>3. QED  BY <1>1, <2>1, <2>2 DEF Decides
<1>4. QED  BY <1>2, <1>3 DEF Pinned

\* Every step keeps Pinned.
LEMMA NextKeepsPinned ==
    ASSUME TypeOK, GateInv, Pinned, [Next]_vars
    PROVE  Pinned'
<1>1. \A t \in applied' : t \in applied \/ (t \in Step /\ stepPC[t] = "child")
  BY AppliedGrows
<1>2. \A t \in Step : stepPC[t] = "child" => state[t] = "running"
  BY DEF GateInv, Coroutines
<1>3. CASE Walkless
  BY <1>1, <1>2, <1>3 DEF Walkless, Pinned
<1>4. CASE MarkWorkflowRunRunning
  <2>1. schedule(state, outputs, {}) /\ state \in [Step -> StepState]
    BY <1>4 DEF MarkWorkflowRunRunning, TypeOK
  <2>2. QED  BY <1>1, <1>2, <2>1, WalkKeepsPinned
<1>5. ASSUME NEW s \in Step, NEW where \in StepPC, Goto(s, where), Fits(s, where)
      PROVE  Pinned'
  BY <1>1, <1>2, <1>5 DEF Goto, Fits, Pinned, TypeOK
<1>6. ASSUME NEW s \in Step, NEW status \in {"succeeded", "failed"},
             NEW publishes \in BOOLEAN, Complete(s, status, publishes)
      PROVE  Pinned'
  <2> DEFINE st == [state EXCEPT ![s] = IF canceled THEN "canceled" ELSE status]
             outs == IF publishes THEN outputs \cup {s} ELSE outputs
  <2>1. /\ st \in [Step -> StepState]
        /\ \A t \in Step : st[t] \in {"", "skipped"} => state[t] = st[t]
    BY <1>6 DEF TypeOK, StepState
  <2>2. schedule(st, outs, {s})
    BY <1>6 DEF Complete
  <2> HIDE DEF st, outs
  <2>3. QED  BY <1>1, <1>2, <2>1, <2>2, WalkKeepsPinned
<1>7. QED  BY <1>3, <1>4, <1>5, <1>6, StepShapes DEF Moved, Returned

\* A Step started on success edges alone has its whole needs-closure behind
\* it: the succeeded Steps of the closure are closed under needs.
LEMMA ClosureSucceeded ==
    ASSUME TypeOK, WalkedInOrder, NEW s \in Step,
           state[s] \notin {"", "skipped"},
           \A t \in Closure(s) \cup {s} : When[t] = "success"
    PROVE  \A t \in Closure(s) : state[t] = "succeeded"
<1> DEFINE C == {t \in Closure(s) : state[t] = "succeeded"}
<1>1. Needs[s] \subseteq Closure(s) /\ \A c \in Closure(s) : Needs[c] \subseteq Closure(s)
  BY ConstantTypes DEF Closure
<1>2. Closure(s) \subseteq Step
  BY DEF Closure
<1>3. \A t \in Step : /\ state[t] \notin {"", "skipped"}
                      /\ t \in Closure(s) \cup {s}
                      => \A n \in Needs[t] : state[n] = "succeeded"
  BY DEF WalkedInOrder
<1>4. Needs[s] \subseteq C
  BY <1>1, <1>3
<1>5. \A c \in C : Needs[c] \subseteq C
  BY <1>1, <1>2, <1>3
<1>6. C \in SUBSET Step
  BY <1>2
<1>7. Closure(s) \subseteq C
  <2> HIDE DEF C
  <2>1. QED  BY <1>4, <1>5, <1>6 DEF Closure
<1>8. QED  BY <1>7

\* No plan is applied that was not approved: when a pinned Apply and all it
\* depends on hang on success edges, the Gate the loader found in its closure
\* succeeded, and a Gate succeeds only on an approved row.
THEOREM AppliesApproved ==
    ASSUME SuccessPath
    PROVE  Spec => []AppliesOnlyApprovedPlans
<1>1. Init => Pinned
  BY DEF Init, Pinned
<1>2. TypeOK /\ GateInv /\ Pinned /\ [Next]_vars => Pinned'
  BY NextKeepsPinned
<1>3. TypeOK /\ GateInv /\ WalkedInOrder /\ Pinned => AppliesOnlyApprovedPlans
  <2> SUFFICES ASSUME TypeOK, GateInv, WalkedInOrder, Pinned,
                      NEW s \in applied, NEW p \in PlanFrom[s]
               PROVE  \E g \in Step : /\ Kind[g] = "gate"
                                      /\ p \in PlanFrom[g]
                                      /\ gate[g] = "approved"
    BY DEF AppliesOnlyApprovedPlans
  <2>1. /\ s \in Step /\ Kind[s] \notin {"gate", "plan"}
        /\ state[s] \notin {"", "skipped"}
    BY DEF Pinned, TypeOK
  <2>2. PICK g \in Closure(s) : Kind[g] = "gate" /\ p \in PlanFrom[g]
    BY <2>1, DeclaredWorkflow DEF ValidateWorkflow, validatePlanPinning
  <2>3. \A t \in Closure(s) \cup {s} : When[t] = "success"
    BY <2>1, SuccessPath DEF SuccessPath
  <2>4. g \in Step /\ state[g] = "succeeded"
    <3>1. Closure(s) \subseteq Step
      BY DEF Closure
    <3>2. QED  BY <2>1, <2>3, <3>1, ClosureSucceeded
  <2>5. QED  BY <2>2, <2>4 DEF GateInv, Passed
<1>4. QED
  BY <1>1, <1>2, <1>3, GatesFollowed, WalksInOrder, TypeCorrect, PTL DEF Spec

-----------------------------------------------------------------------------
(* The end of the walk. *)

\* The closure of a need lies strictly inside the closure of the Step.
LEMMA ClosureShrinks ==
    ASSUME NEW s \in Step, NEW n \in Needs[s]
    PROVE  Closure(n) \subseteq Closure(s) /\ Closure(n) # Closure(s)
<1>1. n \in Step /\ Closure(s) \subseteq Step
  BY ConstantTypes DEF Closure
<1>2. /\ Needs[s] \subseteq Closure(s)
      /\ \A c \in Closure(s) : Needs[c] \subseteq Closure(s)
  BY ConstantTypes DEF Closure
<1>3. n \in Closure(s) /\ Needs[n] \subseteq Closure(s)
  BY <1>2
<1>4. Closure(n) \subseteq Closure(s)
  <2> DEFINE C == Closure(s)
  <2>1. C \in SUBSET Step /\ Needs[n] \subseteq C /\ \A c \in C : Needs[c] \subseteq C
    BY <1>1, <1>2, <1>3
  <2> HIDE DEF C
  <2>2. Closure(n) \subseteq C
    BY <2>1 DEF Closure
  <2>3. QED  BY <2>2 DEF C
<1>5. n \notin Closure(n)
  BY <1>1, DeclaredWorkflow DEF ValidateWorkflow
<1>6. QED  BY <1>3, <1>4, <1>5

\* In every set of Steps some Step needs none of the others: the Step graph
\* is finite and acyclic.
LEMMA SomeStepIsFirst ==
    ASSUME NEW U \in SUBSET Step, U # {}
    PROVE  \E s \in U : Needs[s] \cap U = {}
<1> DEFINE T == {Closure(s) : s \in U}
<1>1. IsWellFoundedOn(StrictSubsetOrdering(Step), FiniteSubsetsOf(Step))
  BY FS_StrictSubsetOrderingWellFounded
<1>2. FiniteSubsetsOf(Step) = SUBSET Step
  BY FS_FiniteSubsetsOfFinite, ConstantTypes
<1>3. IsWellFoundedOn(StrictSubsetOrdering(Step), SUBSET Step)
  BY <1>1, <1>2
<1>4. T \subseteq SUBSET Step /\ T # {}
  <2>1. \A s \in Step : Closure(s) \in SUBSET Step
    BY DEF Closure
  <2>2. QED  BY <2>1
<1>5. \E x \in T : \A y \in T : ~(<<y, x>> \in StrictSubsetOrdering(Step))
  <2> HIDE DEF T
  <2>1. QED  BY <1>3, <1>4, WFMin
<1>6. PICK s \in U : \A y \in T : ~(<<y, Closure(s)>> \in StrictSubsetOrdering(Step))
  BY <1>5
<1>7. ASSUME NEW n \in Needs[s], n \in U PROVE FALSE
  <2>1. Closure(n) \in T
    BY <1>7
  <2>2. /\ Closure(n) \subseteq Closure(s) /\ Closure(n) # Closure(s)
        /\ Closure(n) \in SUBSET Step /\ Closure(s) \in SUBSET Step
    <3>1. Closure(n) \subseteq Step /\ Closure(s) \subseteq Step
      BY DEF Closure
    <3>2. QED  BY <3>1, <1>7, ClosureShrinks
  <2> DEFINE a == Closure(n)
             b == Closure(s)
  <2>3. <<a, b>> \in StrictSubsetOrdering(Step)
    <3> HIDE DEF a, b
    <3>1. a \subseteq b /\ a # b /\ a \in SUBSET Step /\ b \in SUBSET Step
      BY <2>2 DEF a, b
    <3>2. QED  BY <3>1 DEF StrictSubsetOrdering
  <2>4. QED  BY <1>6, <2>1, <2>3
<1>8. QED  BY <1>7

Early == {"idle", "ensure", "load", "inputs", "context", "mark", "abort"}

\* Where RunDAG stands in its phases: nothing is decided before the first
\* walk, everything is after the last, and only a cancelled DAG has canceled
\* Steps.  The door starts an execution that does not run yet.
Phases ==
    /\ Door = "self" => door = "done"
    /\ door \in {"create", "start"} => pc = "idle"
    /\ pc \in Early => \A s \in Step : state[s] = ""
    /\ pc = "finish" => \A s \in Step : state[s] \in {"succeeded", "failed", "skipped"}
    /\ canceled \/ \A s \in Step : state[s] # "canceled"

\* The walk leaves no Step pending with nothing running: a first pending one
\* would have every need decided.
LEMMA WalkEndsDecided ==
    ASSUME TypeOK, NEW st \in [Step -> StepState], NEW outs, NEW fin,
           schedule(st, outs, fin), ~canceled,
           \A t \in Step : state'[t] # "running"
    PROVE  \A t \in Step : state'[t] # ""
<1> DEFINE U == {t \in Step : state'[t] = ""}
<1> SUFFICES ASSUME U # {} PROVE FALSE
  OBVIOUS
<1>1. PICK t \in U : Needs[t] \cap U = {}
  BY SomeStepIsFirst
<1>2. Decides(st, fin)
  BY ScheduleEffect
<1>3. st[t] = ""
  BY <1>2 DEF Decides
<1>4. state' \in Settled(st)
  BY DEF schedule, Walked
<1>5. ~Ready(t, state')
  BY <1>3, <1>4 DEF Settled
<1>6. PICK n \in Needs[t] : state'[n] \notin Terminal
  BY <1>5 DEF Ready
<1>7. n \in Step /\ state'[n] # ""
  BY <1>1, <1>6, ConstantTypes
<1>8. state'[n] \in StepState
  BY <1>2, <1>7 DEF Decides, StepState
<1>9. QED  BY <1>6, <1>7, <1>8 DEF StepState, Terminal

\* A walk keeps the phases.
LEMMA WalkKeepsPhases ==
    ASSUME TypeOK, Phases, NEW st \in [Step -> StepState], NEW outs, NEW fin,
           schedule(st, outs, fin), canceled' = canceled, door' = door,
           door \notin {"create", "start"},
           canceled \/ \A t \in Step : st[t] # "canceled"
    PROVE  Phases'
<1>1. Decides(st, fin)
  BY ScheduleEffect
<1>2. \A t \in Step : state'[t] \in StepState
  BY <1>1 DEF Decides, StepState
<1>3. canceled' \/ \A t \in Step : state'[t] # "canceled"
  BY <1>1 DEF Decides
<1>4. pc' \in {"walk", "return", "finish"}
  BY DEF schedule
<1>5. ASSUME pc' = "finish", NEW t \in Step
      PROVE  state'[t] \in {"succeeded", "failed", "skipped"}
  <2>1. ~canceled /\ \A u \in Step : state'[u] # "running"
    BY <1>5 DEF schedule
  <2>2. state'[t] # ""
    BY <2>1, WalkEndsDecided
  <2>3. QED  BY <1>2, <1>3, <2>1, <2>2 DEF StepState
<1>6. QED  BY <1>3, <1>4, <1>5 DEF Phases, Early

\* A Step returns only from a walk that goes on.
LEMMA CompleteKeepsPhases ==
    ASSUME TypeOK, GateInv, Phases, NEW s \in Step,
           NEW status \in {"succeeded", "failed"}, NEW publishes \in BOOLEAN,
           stepPC[s] \notin {"idle", "done"}, Complete(s, status, publishes),
           door' = door
    PROVE  Phases'
<1> DEFINE st == [state EXCEPT ![s] = IF canceled THEN "canceled" ELSE status]
           outs == IF publishes THEN outputs \cup {s} ELSE outputs
<1>1. state[s] = "running"
  BY DEF GateInv, Coroutines
<1>2. door \notin {"create", "start"}
  BY <1>1 DEF Phases, Early
<1>3. /\ st \in [Step -> StepState]
      /\ canceled \/ \A t \in Step : st[t] # "canceled"
  BY DEF TypeOK, StepState, Phases
<1>4. schedule(st, outs, {s}) /\ canceled' = canceled
  BY DEF Complete
<1> HIDE DEF st, outs
<1>5. QED  BY <1>2, <1>3, <1>4, WalkKeepsPhases

\* Every step keeps the phases.
LEMMA NextKeepsPhases ==
    ASSUME TypeOK, GateInv, Phases, [Next]_vars
    PROVE  Phases'
<1> USE DEF temporalVars, stepVars, doorVars, Early
<1>1. CASE Launch
  BY <1>1
  DEF Launch, CreateWorkflowRun, ExecuteWorkflow, ExecuteWorkflowFails,
      MarkStartFailed, SetWorkflowRunTemporalID, DoorDies, Phases
<1>2. CASE Setup
  <2>1. CASE MarkWorkflowRunRunning
    <3>1. /\ schedule(state, outputs, {}) /\ state \in [Step -> StepState]
          /\ canceled' = canceled /\ door' = door /\ pc = "mark"
      BY <2>1 DEF MarkWorkflowRunRunning, TypeOK, Before
    <3>2. QED  BY <3>1, WalkKeepsPhases DEF Phases
  <2>2. CASE StartSelf
    BY <2>2 DEF StartSelf, Before, Phases
  <2>3. CASE EnsureWorkflowRun \/ EnsureWorkflowRunFails
    BY <2>3 DEF EnsureWorkflowRun, EnsureWorkflowRunFails, Close, Before, Phases
  <2>4. CASE ResolveSetup \/ MarkWorkflowRunRunningFails
    <3>1. /\ pc \in Early /\ pc' \in {"inputs", "context", "mark", "abort"}
          /\ UNCHANGED << state, canceled, door >>
      BY <2>4 DEF ResolveSetup, SetupNext, MarkWorkflowRunRunningFails, Before
    <3>2. door \notin {"create", "start"}
      BY <2>4 DEF ResolveSetup, SetupNext, MarkWorkflowRunRunningFails, Phases
    <3>3. QED  BY <3>1, <3>2 DEF Phases
  <2>5. CASE SetupCanceled \/ AbortSetup
    BY <2>5 DEF SetupCanceled, SetupNext, AbortSetup, Close, Before, Phases
  <2>6. QED  BY <1>2, <2>1, <2>2, <2>3, <2>4, <2>5 DEF Setup
<1>3. CASE Teardown
  BY <1>3
  DEF Teardown, FinishWorkflowRun, ReturnRunDAG, CancelPendingGates,
      FinishCanceled, Close, Before, Phases
<1>4. CASE Doors
  BY <1>4
  DEF Doors, CancelDoorChecks, CancelDoorSignals, DecisionDoorChecks,
      DecisionDoorSignals, Phases
<1>5. CASE LateWrites
  BY <1>5
  DEF LateWrites, LateCreateGate, LateRecordDecision, LateRowWrite, Phases
<1>6. ASSUME NEW s \in Step, StepAdvances(s) PROVE Phases'
  <2>1. ASSUME NEW where, Goto(s, where), door' = door PROVE Phases'
    BY <2>1 DEF Goto, Phases
  <2>2. CASE ResolveParams(s) \/ PlanStep(s)
    BY <2>1, <2>2, CompleteKeepsPhases DEF ResolveParams, PlanStep, rest
  <2>3. CASE ApplyPinnedPlan(s)
    BY <2>3 DEF ApplyPinnedPlan, rest, Phases
  <2>4. CASE EvaluatePolicy(s)
    BY <2>1, <2>4, CompleteKeepsPhases DEF EvaluatePolicy, rest
  <2>5. CASE CreateGateRecord(s) \/ CreateGateRecordFails(s)
    BY <2>1, <2>5, CompleteKeepsPhases
    DEF CreateGateRecord, CreateGateRecordFails, rest
  <2>6. CASE ReceiveDecision(s)
    BY <2>1, <2>6 DEF ReceiveDecision
  <2>7. CASE GateTimesOut(s)
    BY <2>1, <2>7 DEF GateTimesOut, rest
  <2>8. CASE RecordGateDecision(s) \/ RecordGateDecisionFails(s)
    BY <2>8, CompleteKeepsPhases
    DEF RecordGateDecision, RecordGateDecisionFails, Recorded, rest
  <2>9. CASE StepCanceled(s)
    BY <2>9, CompleteKeepsPhases DEF StepCanceled, Interruptible
  <2>10. QED
    BY <1>6, <2>2, <2>3, <2>4, <2>5, <2>6, <2>7, <2>8, <2>9 DEF StepAdvances
<1>7. ASSUME NEW s \in Step, NEW ok \in BOOLEAN, NEW publishes \in BOOLEAN,
             ChildReturns(s, ok, publishes)
      PROVE  Phases'
  BY <1>7, CompleteKeepsPhases DEF ChildReturns, rest
<1>8. CASE UNCHANGED vars
  BY <1>8 DEF vars, Phases
<1>9. QED
  BY <1>1, <1>2, <1>3, <1>4, <1>5, <1>6, <1>7, <1>8
  DEF Next, Own, ChildrenReturn

-----------------------------------------------------------------------------
(* The row. *)

Green == \A s \in Step : state[s] \in {"succeeded", "skipped"}

\* Every write of a succeeded row, made or under way, is the true one.
RowsTrue ==
    /\ rowStatus = "succeeded" => Green /\ rowSteps = state
    /\ \A w \in lateRows : w.status = "succeeded" => Green /\ w.steps = state

\* FinishWorkflowRun is about to write a succeeded row.
Finishing == pc = "finish" /\ Outcome = "succeeded"

\* Where a succeeded row comes from: it was there, a late write had it, or
\* the walk has just ended with no failed Step.
RowSources ==
    /\ \A w \in lateRows' : w.status = "succeeded" =>
          w \in lateRows \/ (Finishing /\ w.steps = state)
    /\ rowStatus' = "succeeded" =>
          \/ rowStatus = "succeeded" /\ rowSteps' = rowSteps
          \/ Finishing /\ rowSteps' = IF state = NoSteps THEN rowSteps ELSE state
          \/ \E w \in lateRows :
                /\ w.status = "succeeded"
                /\ rowSteps' = IF w.steps = NoSteps THEN rowSteps ELSE w.steps

\* Every step writes the row from one of these.
LEMMA RowShapes == ASSUME [Next]_vars PROVE RowSources
<1> USE DEF rowVars, lateVars, RowSources
<1> DEFINE Rowless == UNCHANGED << rowStatus, rowSteps, lateRows >>
<1>0. Rowless => RowSources
  OBVIOUS
<1>1. CASE Launch
  BY <1>1
  DEF Launch, CreateWorkflowRun, ExecuteWorkflow, ExecuteWorkflowFails,
      MarkStartFailed, SetWorkflowRunTemporalID, DoorDies, SetWorkflowRunStatus,
      StatusOnly
<1>2. CASE Setup
  <2>1. CASE MarkWorkflowRunRunning \/ MarkWorkflowRunRunningFails
    BY <2>1
    DEF MarkWorkflowRunRunning, MarkWorkflowRunRunningFails,
        SetWorkflowRunStatus, StatusOnly, NoWrite
  <2>2. CASE StartSelf \/ EnsureWorkflowRun \/ EnsureWorkflowRunFails \/ ResolveSetup
    BY <2>2
    DEF StartSelf, EnsureWorkflowRun, EnsureWorkflowRunFails, ResolveSetup
  <2>3. CASE SetupCanceled
    BY <2>3 DEF SetupCanceled, AbandonRow, StatusOnly, NoWrite
  <2>4. CASE AbortSetup
    BY <2>4
    DEF AbortSetup, finishWorkflowRun, AbandonRow, SetWorkflowRunStatus,
        StatusOnly, NoWrite
  <2>5. QED  BY <1>2, <2>1, <2>2, <2>3, <2>4 DEF Setup
<1>3. CASE Teardown
  <2>1. CASE FinishWorkflowRun
    BY <2>1
    DEF FinishWorkflowRun, finishWorkflowRun, AbandonRow, SetWorkflowRunStatus,
        NoWrite, Finishing
  <2>2. CASE ReturnRunDAG \/ CancelPendingGates
    BY <2>2 DEF ReturnRunDAG, CancelPendingGates
  <2>3. CASE FinishCanceled
    BY <2>3 DEF FinishCanceled, SetWorkflowRunStatus, NoWrite
  <2>4. QED  BY <1>3, <2>1, <2>2, <2>3 DEF Teardown
<1>4. CASE Doors
  BY <1>4
  DEF Doors, CancelDoorChecks, CancelDoorSignals, DecisionDoorChecks,
      DecisionDoorSignals
<1>5. CASE LateWrites
  <2>1. CASE \E s \in Step : LateCreateGate(s) \/ LateRecordDecision(s)
    BY <2>1 DEF LateCreateGate, LateRecordDecision
  <2>2. ASSUME NEW w \in lateRows, LateRowWrite(w) PROVE RowSources
    BY <2>2 DEF LateRowWrite, SetWorkflowRunStatus
  <2>3. QED  BY <1>5, <2>1, <2>2 DEF LateWrites
<1>6. ASSUME NEW s \in Step, StepAdvances(s) PROVE Rowless
  BY <1>6
  DEF StepAdvances, ResolveParams, PlanStep, ApplyPinnedPlan, EvaluatePolicy,
      CreateGateRecord, CreateGateRecordFails, ReceiveDecision, GateTimesOut,
      RecordGateDecision, RecordGateDecisionFails, StepCanceled, rest
<1>7. CASE ChildrenReturn
  BY <1>7 DEF ChildrenReturn, ChildReturns, rest
<1>8. CASE UNCHANGED vars
  BY <1>8 DEF vars
<1> HIDE DEF Rowless, RowSources
<1>9. QED
  BY <1>0, <1>1, <1>2, <1>3, <1>4, <1>5, <1>6, <1>7, <1>8 DEF Next, Own

\* The Steps of a finished DAG with no failed one are green.
LEMMA FinishingIsGreen ==
    ASSUME Phases, Finishing
    PROVE  Green
BY DEF Phases, Finishing, Outcome, Green

\* A green map is final: there is no Step left to start or to return.
LEMMA GreenIsFinal ==
    ASSUME TypeOK, GateInv, Phases, Green, [Next]_vars
    PROVE  state' = state
<1>1. PICK s \in Step : TRUE
  BY DeclaredWorkflow DEF ValidateWorkflow
<1>2. CASE Walkless
  BY <1>2 DEF Walkless
<1>3. ~MarkWorkflowRunRunning
  BY <1>1 DEF MarkWorkflowRunRunning, Phases, Early, Green
<1>4. \A t \in Step : stepPC[t] \in {"idle", "done"}
  BY DEF Green, GateInv, Coroutines
<1>5. QED  BY <1>2, <1>3, <1>4, StepShapes DEF Moved, Returned

\* Every step keeps RowsTrue.
LEMMA NextKeepsRows ==
    ASSUME TypeOK, GateInv, Phases, RowsTrue, [Next]_vars
    PROVE  RowsTrue'
<1>1. RowSources
  BY RowShapes
<1>2. state # NoSteps
  <2>1. DOMAIN state = Step /\ Step # {}
    BY DeclaredWorkflow DEF ValidateWorkflow, TypeOK
  <2>2. DOMAIN NoSteps = {}
    BY DEF NoSteps
  <2>3. QED  BY <2>1, <2>2
<1>3. Green => Green' /\ state' = state
  <2>1. Green => state' = state
    BY GreenIsFinal
  <2>2. QED  BY <2>1 DEF Green
<1>4. Finishing => Green
  BY FinishingIsGreen
<1>5. ASSUME rowStatus' = "succeeded" PROVE Green /\ rowSteps' = state
  BY <1>1, <1>2, <1>4, <1>5 DEF RowSources, RowsTrue
<1>6. ASSUME NEW w \in lateRows', w.status = "succeeded"
      PROVE  Green /\ w.steps = state
  BY <1>1, <1>4, <1>6 DEF RowSources, RowsTrue
<1>7. QED  BY <1>3, <1>5, <1>6 DEF RowsTrue

\* A row that reads succeeded is true of every Step, whichever writer came
\* last, with any number of Steps, faults and late writes: only a walk that
\* ended undisturbed writes succeeded, and what it wrote no Step can change.
THEOREM GreenRowsAreHonest == Spec => []GreenIsHonest
<1>1. Init => Phases /\ RowsTrue
  <2>1. Init => Phases
    BY DEF Init, Phases
  <2>2. Init => RowsTrue
    BY DEF Init, RowsTrue
  <2>3. QED  BY <2>1, <2>2
<1>2. TypeOK /\ GateInv /\ Phases /\ RowsTrue /\ [Next]_vars => Phases' /\ RowsTrue'
  BY NextKeepsPhases, NextKeepsRows
<1>3. RowsTrue => GreenIsHonest
  BY DEF RowsTrue, Green, GreenIsHonest
<1>4. QED  BY <1>1, <1>2, <1>3, GatesFollowed, TypeCorrect, PTL DEF Spec
=============================================================================
