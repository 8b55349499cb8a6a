-------------------------- MODULE NestedRunProofs ---------------------------
(***************************************************************************)
(* Proofs about NestedRun, for any two Workflows: the parent is a          *)
(* WorkflowRun, so what is proved of one holds of it; its nested Step is   *)
(* settled over a closed child; a child recorded canceled has no Gate left *)
(* pending.  The child is followed by an invariant of its own, because it  *)
(* may also be cancelled by its parent.                                    *)
(***************************************************************************)
EXTENDS NestedRun, WorkflowRunProofs

\* The parent of a nested call is a WorkflowRun: the composition only ties the
\* return of the nested Step to its child.
THEOREM ParentIsWorkflowRun == NestedSpec => Spec
<1>1. NestedInit => Init
  BY DEF NestedInit
<1>2. [NestedNext]_<<vars, childVars>> => [Next]_vars
  BY NestedShape
  DEF NestedNext, ParentSteps, StartChild, ChildSteps, ChildCloses,
      CancelReachesChild, Next, ChildrenReturn
<1>3. QED  BY <1>1, <1>2, PTL DEF NestedSpec, Spec

-----------------------------------------------------------------------------
(* The child. *)

\* What the child may do, the cancel it is sent included.
ChildNext == Child!Own \/ Child!ChildrenReturn \/ Child!ParentCancels

\* Every step of the composition is one of the child's or leaves it alone.
LEMMA ChildMoves ==
    ASSUME [NestedNext]_<<vars, childVars>>
    PROVE  [ChildNext]_childVars
<1>1. Child!StartSelf => Child!Own
  BY DEF Child!Own, Child!Setup
<1>2. QED
  BY <1>1 DEF NestedNext, ParentSteps, StartChild, ChildSteps, ChildCloses,
              CancelReachesChild, ChildNext

\* The child has no door of its own, a coroutine belongs to a running Step,
\* and a Step runs only during the walk.
ChildInv ==
    /\ cState \in [ChildStep -> StepState]
    /\ cStepPC \in [ChildStep -> StepPC]
    /\ cDoor = "done"
    /\ \A s \in ChildStep : /\ cStepPC[s] \notin {"idle", "done"} => cState[s] = "running"
                            /\ cState[s] = "running" => cPc = "walk"

\* A step that moves no coroutine and does not leave the walk or the end.
Calm ==
    /\ UNCHANGED << cState, cStepPC, cDoor >>
    /\ cPc' # cPc => cPc \notin {"walk", "closed"}

Active(s) == cStepPC[s] \notin {"idle", "done"}

\* The ways the child's Steps change.
ChildShape ==
    \/ Calm
    \/ /\ cPc = "mark" /\ cDoor' = cDoor
       /\ Child!schedule(cState, cOutputs, {})
    \/ \E s \in ChildStep : /\ Active(s) /\ cDoor' = cDoor
                            /\ \E where \in StepPC : Child!Goto(s, where)
    \/ \E s \in ChildStep : /\ Active(s) /\ cDoor' = cDoor
                            /\ \E status \in {"succeeded", "failed"},
                                  publishes \in BOOLEAN :
                                     Child!Complete(s, status, publishes)

\* Every action of the child has one of these shapes.
LEMMA ChildShapes ==
    ASSUME ChildInv, [ChildNext]_childVars
    PROVE  ChildShape
<1> USE DEF ChildShape, Calm, Active, Child!temporalVars, Child!stepVars,
            Child!doorVars, Child!rest
<1>1. CASE Child!Launch
  BY <1>1
  DEF ChildInv, Child!Launch, Child!CreateWorkflowRun, Child!ExecuteWorkflow,
      Child!ExecuteWorkflowFails, Child!MarkStartFailed,
      Child!SetWorkflowRunTemporalID, Child!DoorDies
<1>2. CASE Child!Setup
  <2>1. CASE Child!MarkWorkflowRunRunning
    BY <2>1 DEF Child!MarkWorkflowRunRunning, Child!Before
  <2>2. CASE Child!StartSelf \/ Child!EnsureWorkflowRun \/ Child!EnsureWorkflowRunFails
    BY <2>2
    DEF Child!StartSelf, Child!EnsureWorkflowRun, Child!EnsureWorkflowRunFails,
        Child!Before
  <2>3. CASE Child!ResolveSetup \/ Child!SetupCanceled
    <3>1. cPc \notin {"walk", "closed"}
      BY <2>3 DEF Child!ResolveSetup, Child!SetupCanceled, Child!SetupNext
    <3>2. UNCHANGED << cState, cStepPC, cDoor >>
      BY <2>3 DEF Child!ResolveSetup, Child!SetupCanceled, Child!Before
    <3>3. QED  BY <3>1, <3>2
  <2>4. CASE Child!MarkWorkflowRunRunningFails \/ Child!AbortSetup
    BY <2>4 DEF Child!MarkWorkflowRunRunningFails, Child!AbortSetup, Child!Before
  <2>5. QED  BY <1>2, <2>1, <2>2, <2>3, <2>4 DEF Child!Setup
<1>3. CASE Child!Teardown
  BY <1>3
  DEF Child!Teardown, Child!FinishWorkflowRun, Child!ReturnRunDAG,
      Child!CancelPendingGates, Child!FinishCanceled, Child!Before
<1>4. CASE Child!Doors
  BY <1>4
  DEF Child!Doors, Child!CancelDoorChecks, Child!CancelDoorSignals,
      Child!DecisionDoorChecks, Child!DecisionDoorSignals
<1>5. CASE Child!LateWrites
  BY <1>5
  DEF Child!LateWrites, Child!LateCreateGate, Child!LateRecordDecision,
      Child!LateRowWrite
<1>6. ASSUME NEW s \in ChildStep, Child!StepAdvances(s) PROVE ChildShape
  <2>1. CASE Child!ResolveParams(s) \/ Child!PlanStep(s)
    BY <2>1 DEF Child!ResolveParams, Child!PlanStep, StepPC
  <2>2. CASE Child!ApplyPinnedPlan(s)
    BY <2>2 DEF Child!ApplyPinnedPlan
  <2>3. CASE Child!EvaluatePolicy(s)
    BY <2>3 DEF Child!EvaluatePolicy, StepPC
  <2>4. CASE Child!CreateGateRecord(s) \/ Child!CreateGateRecordFails(s)
    BY <2>4 DEF Child!CreateGateRecord, Child!CreateGateRecordFails, StepPC
  <2>5. CASE Child!ReceiveDecision(s)
    BY <2>5 DEF Child!ReceiveDecision, StepPC
  <2>6. CASE Child!GateTimesOut(s)
    BY <2>6 DEF Child!GateTimesOut, StepPC
  <2>7. CASE Child!RecordGateDecision(s) \/ Child!RecordGateDecisionFails(s)
    BY <2>7
    DEF Child!RecordGateDecision, Child!RecordGateDecisionFails, Child!Recorded
  <2>8. CASE Child!StepCanceled(s)
    BY <2>8 DEF Child!StepCanceled, Child!Interruptible
  <2>9. QED
    BY <1>6, <2>1, <2>2, <2>3, <2>4, <2>5, <2>6, <2>7, <2>8
    DEF Child!StepAdvances
<1>7. ASSUME NEW s \in ChildStep, NEW ok \in BOOLEAN, NEW publishes \in BOOLEAN,
             Child!ChildReturns(s, ok, publishes)
      PROVE  ChildShape
  BY <1>7 DEF Child!ChildReturns
<1>8. CASE Child!ParentCancels
  BY <1>8 DEF Child!ParentCancels
<1>9. CASE UNCHANGED childVars
  BY <1>9 DEF childVars
<1> HIDE DEF ChildShape
<1>10. QED
  BY <1>1, <1>2, <1>3, <1>4, <1>5, <1>6, <1>7, <1>8, <1>9
  DEF ChildNext, Child!Own, Child!ChildrenReturn

\* A walk of the child starts coroutines for the Steps it sets running, and
\* goes on as long as one runs.
LEMMA ChildWalks ==
    ASSUME ChildInv, NEW st \in [ChildStep -> StepState], NEW outs, NEW fin,
           Child!schedule(st, outs, fin), cDoor' = cDoor,
           \A t \in ChildStep \ fin : st[t] = cState[t]
    PROVE  ChildInv'
<1>1. \A nxt \in Child!Settled(st) :
         /\ nxt \in [ChildStep -> StepState]
         /\ \A t \in ChildStep : st[t] # "" => nxt[t] = st[t]
  BY DEF Child!Settled, StepState
<1>2. /\ cState' \in [ChildStep -> StepState]
      /\ \A t \in ChildStep : st[t] # "" => cState'[t] = st[t]
  BY <1>1 DEF Child!schedule, Child!Walked
<1>3. \A t \in ChildStep : Child!FirstPC(t) \in StepPC
  BY DEF Child!FirstPC, StepPC
<1>4. \A t \in ChildStep :
         cStepPC'[t] = IF st[t] = "" /\ cState'[t] = "running" THEN Child!FirstPC(t)
                       ELSE IF t \in fin THEN "done" ELSE cStepPC[t]
  BY DEF Child!schedule
<1>5. cStepPC' \in [ChildStep -> StepPC]
  BY <1>3 DEF Child!schedule, ChildInv, StepPC
<1>6. \A t \in ChildStep : cState'[t] = "running" => cPc' = "walk"
  BY DEF Child!schedule
<1>7. \A t \in ChildStep : cStepPC'[t] \notin {"idle", "done"} => cState'[t] = "running"
  BY <1>2, <1>4 DEF ChildInv
<1>8. QED  BY <1>2, <1>5, <1>6, <1>7 DEF ChildInv

\* Every step keeps ChildInv.
LEMMA ChildKeeps ==
    ASSUME ChildInv, [ChildNext]_childVars
    PROVE  ChildInv'
<1>1. CASE Calm
  BY <1>1 DEF Calm, ChildInv
<1>2. CASE cPc = "mark" /\ cDoor' = cDoor /\ Child!schedule(cState, cOutputs, {})
  BY <1>2, ChildWalks DEF ChildInv
<1>3. ASSUME NEW s \in ChildStep, NEW where \in StepPC, Active(s), cDoor' = cDoor,
             Child!Goto(s, where)
      PROVE  ChildInv'
  BY <1>3 DEF Child!Goto, Active, ChildInv
<1>4. ASSUME NEW s \in ChildStep, NEW status \in {"succeeded", "failed"},
             NEW publishes \in BOOLEAN, cDoor' = cDoor,
             Child!Complete(s, status, publishes)
      PROVE  ChildInv'
  <2> DEFINE st == [cState EXCEPT ![s] = IF cCanceled THEN "canceled" ELSE status]
             outs == IF publishes THEN cOutputs \cup {s} ELSE cOutputs
  <2>1. /\ st \in [ChildStep -> StepState]
        /\ \A t \in ChildStep \ {s} : st[t] = cState[t]
    BY <1>4 DEF ChildInv, StepState
  <2>2. Child!schedule(st, outs, {s})
    BY <1>4 DEF Child!Complete
  <2> HIDE DEF st, outs
  <2>3. QED  BY <1>4, <2>1, <2>2, ChildWalks
<1>5. QED  BY <1>1, <1>2, <1>3, <1>4, ChildShapes DEF ChildShape

\* A child that has closed stays closed: none of its coroutines is left.
LEMMA ClosedStays ==
    ASSUME ChildInv, [ChildNext]_childVars, cPc = "closed"
    PROVE  cPc' = "closed"
<1>1. \A s \in ChildStep : ~Active(s)
  BY DEF ChildInv, Active
<1>2. Calm
  BY <1>1, ChildShapes DEF ChildShape
<1>3. QED  BY <1>2 DEF Calm

\* ChildInv holds of every composition.
LEMMA ChildFollowed == NestedSpec => []ChildInv
<1>1. NestedInit => ChildInv
  BY DEF NestedInit, Child!Init, ChildInv, StepState, StepPC
<1>2. ChildInv /\ [NestedNext]_<<vars, childVars>> => ChildInv'
  BY ChildMoves, ChildKeeps
<1>3. QED  BY <1>1, <1>2, PTL DEF NestedSpec

-----------------------------------------------------------------------------
(* The nested Step. *)

\* While the nested Step waits for its child, nothing of the parent's own
\* settles it but a cancel.
LEMMA CallWaits ==
    ASSUME TypeOK, GateInv, ParentSteps, stepPC[Call] = "child"
    PROVE  \/ stepPC'[Call] = "child" /\ state'[Call] = state[Call]
           \/ stepPC'[Call] = "done" /\ state'[Call] = "canceled"
<1> DEFINE Stays == stepPC'[Call] = "child" /\ state'[Call] = state[Call]
           Ends == stepPC'[Call] = "done" /\ state'[Call] = "canceled"
<1>0. Call \in Step /\ state[Call] = "running" /\ Coroutines
  BY NestedShape DEF GateInv, Coroutines
<1>1. ASSUME NEW s \in Step \ {Call}, Walkless \/ Moved(s) \/ Returned(s)
      PROVE  Stays
  <2>1. CASE Walkless
    BY <2>1 DEF Walkless
  <2>2. CASE Moved(s)
    BY <1>1, <2>2 DEF Moved, Goto, TypeOK
  <2>3. CASE Returned(s)
    BY <1>0, <1>1, <2>3, CompleteEffect DEF Returned
  <2>4. QED  BY <1>1, <2>1, <2>2, <2>3
<1>2. ASSUME NEW s \in Step \ {Call}, NEW ok \in BOOLEAN, NEW publishes \in BOOLEAN,
             ChildReturns(s, ok, publishes)
      PROVE  Stays
  BY <1>1, <1>2 DEF ChildReturns, Returned
<1>3. ASSUME NEW s \in Step, StepAdvances(s) PROVE Stays \/ Ends
  <2>1. CASE s # Call
    BY <1>1, <1>3, <2>1, CoroutineShapes
  <2>2. CASE s = Call
    <3>1. ApplyPinnedPlan(Call) \/ StepCanceled(Call)
      BY <1>3, <2>2
      DEF StepAdvances, ResolveParams, PlanStep, EvaluatePolicy, CreateGateRecord,
          CreateGateRecordFails, ReceiveDecision, GateTimesOut,
          RecordGateDecision, RecordGateDecisionFails
    <3>2. CASE ApplyPinnedPlan(Call)
      BY <3>2 DEF ApplyPinnedPlan, temporalVars
    <3>3. CASE StepCanceled(Call)
      <4>1. canceled /\ Complete(Call, "failed", FALSE)
        BY <3>3 DEF StepCanceled
      <4>2. QED  BY <1>0, <4>1, CompleteEffect
    <3>4. QED  BY <3>1, <3>2, <3>3
  <2>3. QED  BY <2>1, <2>2
<1>4. CASE Launch \/ Setup \/ Teardown \/ Doors \/ LateWrites
  <2>1. CASE Walkless
    BY <2>1 DEF Walkless
  <2>2. CASE MarkWorkflowRunRunning
    <3>1. schedule(state, outputs, {}) /\ state \in [Step -> StepState]
      BY <2>2 DEF MarkWorkflowRunRunning, TypeOK
    <3>2. Decides(state, {})
      BY <3>1, ScheduleEffect
    <3>3. QED  BY <1>0, <3>2 DEF Decides
  <2>3. QED  BY <1>4, <2>1, <2>2, OtherShapes
<1>5. QED  BY <1>2, <1>3, <1>4 DEF ParentSteps, Own

\* A Step whose coroutine has returned keeps its outcome.
LEMMA CallIsOver ==
    ASSUME TypeOK, GateInv, [Next]_vars, NEW s \in Step, stepPC[s] = "done"
    PROVE  stepPC'[s] = "done" /\ state'[s] = state[s]
<1>1. Coroutines /\ state[s] \notin {"", "running"}
  BY DEF GateInv, Coroutines
<1>2. CASE Walkless
  BY <1>2 DEF Walkless
<1>3. CASE MarkWorkflowRunRunning
  <2>1. schedule(state, outputs, {}) /\ state \in [Step -> StepState]
    BY <1>3 DEF MarkWorkflowRunRunning, TypeOK
  <2>2. Decides(state, {})
    BY <2>1, ScheduleEffect
  <2>3. QED  BY <1>1, <2>2 DEF Decides
<1>4. ASSUME NEW t \in Step, Moved(t) PROVE stepPC'[s] = "done" /\ state'[s] = state[s]
  BY <1>4 DEF Moved, Goto, TypeOK
<1>5. ASSUME NEW t \in Step, Returned(t) PROVE stepPC'[s] = "done" /\ state'[s] = state[s]
  BY <1>1, <1>5, CompleteEffect DEF Returned
<1>6. QED  BY <1>2, <1>3, <1>4, <1>5, StepShapes

\* A child exists only from the time its Step waits for it, and a Step that
\* was settled by its child's return was so over a closed one.
CallInv ==
    /\ cPc # "idle" => stepPC[Call] \in {"child", "done"}
    /\ SettledOverClosedChild

\* Every step keeps CallInv.
LEMMA NextKeepsCall ==
    ASSUME TypeOK, GateInv, ChildInv, CallInv, [NestedNext]_<<vars, childVars>>
    PROVE  CallInv'
<1>0. /\ Call \in Step /\ [Next]_vars /\ [ChildNext]_childVars
      /\ stepPC[Call] = "child" => state[Call] = "running"
  <2>1. [Next]_vars
    BY NestedShape
    DEF NestedNext, ParentSteps, StartChild, ChildSteps, ChildCloses,
        CancelReachesChild, Next, ChildrenReturn
  <2>2. QED  BY <2>1, NestedShape, ChildMoves DEF GateInv, Coroutines
<1>1. CASE ParentSteps
  <2>1. cPc' = cPc
    BY <1>1 DEF ParentSteps, childVars
  <2>2. CASE cPc = "idle"
    BY <2>1, <2>2 DEF CallInv, SettledOverClosedChild
  <2>3. CASE cPc # "idle" /\ stepPC[Call] = "child"
    BY <1>0, <1>1, <2>1, <2>3, CallWaits DEF CallInv, SettledOverClosedChild
  <2>4. CASE cPc # "idle" /\ stepPC[Call] = "done"
    BY <1>0, <2>1, <2>4, CallIsOver DEF CallInv, SettledOverClosedChild
  <2>5. QED  BY <2>2, <2>3, <2>4 DEF CallInv
<1>2. CASE StartChild
  BY <1>0, <1>2 DEF StartChild, vars, temporalVars, CallInv, SettledOverClosedChild
<1>3. CASE ChildSteps
  <2>1. UNCHANGED << stepPC, state >> /\ cPc # "idle"
    BY <1>3 DEF ChildSteps, vars, temporalVars
  <2>2. cPc = "closed" => cPc' = "closed"
    BY <1>0, ClosedStays
  <2>3. QED  BY <2>1, <2>2 DEF CallInv, SettledOverClosedChild
<1>4. CASE ChildCloses
  <2>1. PICK ok \in BOOLEAN : ChildReturns(Call, ok, FALSE)
    BY <1>4 DEF ChildCloses
  <2>2. stepPC'[Call] = "done"
    BY <1>0, <2>1, CompleteEffect DEF ChildReturns, GateInv
  <2>3. cPc' = "closed"
    BY <1>4 DEF ChildCloses, childVars
  <2>4. QED  BY <2>2, <2>3 DEF CallInv, SettledOverClosedChild
<1>5. CASE CancelReachesChild
  BY <1>5
  DEF CancelReachesChild, Child!ParentCancels, vars, temporalVars, CallInv,
      SettledOverClosedChild
<1>6. CASE UNCHANGED <<vars, childVars>>
  BY <1>6 DEF vars, temporalVars, childVars, CallInv, SettledOverClosedChild
<1>7. QED  BY <1>1, <1>2, <1>3, <1>4, <1>5, <1>6 DEF NestedNext

\* The nested Step is settled as succeeded or failed only over a child that
\* was never started or has closed, for any two Workflows and any faults: the
\* parent's own steps can only cancel a Step that waits, and a closed child
\* has no coroutine left that could bring it back.
THEOREM SettlesOverClosedChild == NestedSpec => []SettledOverClosedChild
<1>1. NestedInit => CallInv
  BY NestedShape
  DEF NestedInit, Init, Child!Init, CallInv, SettledOverClosedChild
<1>2. TypeOK /\ GateInv /\ ChildInv /\ CallInv /\ [NestedNext]_<<vars, childVars>>
        => CallInv'
  BY NextKeepsCall
<1>3. CallInv => SettledOverClosedChild
  BY DEF CallInv
<1>4. QED
  BY <1>1, <1>2, <1>3, ParentIsWorkflowRun, TypeCorrect, GatesFollowed,
     ChildFollowed, PTL DEF NestedSpec

-----------------------------------------------------------------------------
(* The child's Gates. *)

\* The writes of the cancel handler do not fail, as in the run.  Attempts the
\* cancel abandoned may write at any time.
Undisturbed == "store" \notin Faults

\* Only a Gate that an abandoned attempt may open is pending.
OnlyLate(opened, late) == \A s \in ChildStep : opened[s] = "pending" => s \in late

\* Once the child's Gates were swept only an abandoned attempt opens one, the
\* row reads canceled only after the sweep, at the end, and no abandoned write
\* of the row makes it so.
Swept ==
    /\ DOMAIN cGate = ChildStep
    /\ \A w \in cLateRows : w.status # "canceled"
    /\ cPc = "cancelFinish" => OnlyLate(cGate, cLateGates)
    /\ cRowStatus = "canceled" => cPc = "closed" /\ OnlyLate(cGate, cLateGates)

\* Only a coroutine at its Gate, or the attempt it abandoned there, opens one.
Opens ==
    /\ DOMAIN cGate' = ChildStep
    /\ \A s \in ChildStep : cGate'[s] = "pending" =>
          cGate[s] = "pending" \/ cStepPC[s] = "create" \/ s \in cLateGates

\* What a step may do to the child's Gates and to its row.
SweptShape ==
    /\ Opens
    /\ cLateGates \subseteq cLateGates'
    /\ \A w \in cLateRows' : w.status # "canceled"
    /\ cRowStatus' = "canceled" =>
          cRowStatus = "canceled" \/ (cPc = "cancelFinish" /\ cPc' = "closed")
    /\ cPc' = "cancelFinish" =>
          \/ cPc = "cancelFinish"
          \/ OnlyLate(cGate', cLateGates')

\* Every action of the child does no more than that.
LEMMA SweptShapes ==
    ASSUME Undisturbed, ChildInv, Swept, [ChildNext]_childVars
    PROVE  SweptShape
<1> USE DEF SweptShape, Opens, OnlyLate, Child!temporalVars, Child!rowVars, Child!lateVars
<1>0. "store" \notin Faults
  BY DEF Undisturbed
<1>a. ASSUME UNCHANGED << cGate, cLateGates >>,
             UNCHANGED cLateRows \/ \A w \in cLateRows' : w.status # "canceled",
             cRowStatus' = "canceled" => cRowStatus = "canceled",
             cPc' = "cancelFinish" => cPc = "cancelFinish"
      PROVE  SweptShape
  BY <1>a DEF Swept
<1>d. ASSUME NEW w, Child!AbandonRow(w), w.status # "canceled"
      PROVE  \A v \in cLateRows' : v.status # "canceled"
  BY <1>d DEF Child!AbandonRow, Swept
<1>b. ASSUME NEW s \in ChildStep, NEW status, NEW publishes,
             Child!Complete(s, status, publishes)
      PROVE  cPc' # "cancelFinish"
  BY <1>b DEF Child!Complete, Child!schedule
<1>c. ASSUME NEW s \in ChildStep, NEW where, Child!Goto(s, where)
      PROVE  cPc' = cPc
  BY <1>c DEF Child!Goto
<1>1. CASE Child!Launch
  BY <1>1
  DEF ChildInv, Child!Launch, Child!CreateWorkflowRun, Child!ExecuteWorkflow,
      Child!ExecuteWorkflowFails, Child!MarkStartFailed,
      Child!SetWorkflowRunTemporalID, Child!DoorDies
<1>2. CASE Child!Setup
  <2> USE DEF Child!Before, Child!SetWorkflowRunStatus, Child!StatusOnly,
              Child!NoWrite, Child!Close
  <2>1. CASE Child!MarkWorkflowRunRunning
    BY <1>a, <2>1 DEF Child!MarkWorkflowRunRunning, Child!schedule
  <2>2. CASE Child!StartSelf \/ Child!EnsureWorkflowRun \/ Child!EnsureWorkflowRunFails
    BY <1>a, <2>2
    DEF Child!StartSelf, Child!EnsureWorkflowRun, Child!EnsureWorkflowRunFails
  <2>3. CASE Child!ResolveSetup
    <3>1. cPc' # "cancelFinish"
      BY <2>3 DEF Child!ResolveSetup, Child!SetupNext
    <3>2. QED  BY <1>a, <2>3, <3>1 DEF Child!ResolveSetup
  <2>4. CASE Child!SetupCanceled
    <3>1. Child!StatusOnly("pending").status # "canceled"
          /\ Child!StatusOnly("running").status # "canceled"
      OBVIOUS
    <3>2. UNCHANGED cLateRows \/ \A w \in cLateRows' : w.status # "canceled"
      BY <1>d, <2>4, <3>1 DEF Child!SetupCanceled
    <3>3. QED  BY <1>a, <2>4, <3>2 DEF Child!SetupCanceled, Child!AbandonRow
  <2>5. CASE Child!AbortSetup
    <3>1. Child!StatusOnly("failed").status # "canceled"
      OBVIOUS
    <3>2. UNCHANGED cLateRows \/ \A w \in cLateRows' : w.status # "canceled"
      BY <1>d, <2>5, <3>1 DEF Child!AbortSetup, Child!finishWorkflowRun
    <3>3. QED
      BY <1>0, <1>a, <2>5, <3>2
      DEF Child!AbortSetup, Child!finishWorkflowRun, Child!AbandonRow
  <2>6. CASE Child!MarkWorkflowRunRunningFails
    BY <1>0, <2>6 DEF Child!MarkWorkflowRunRunningFails
  <2>7. QED  BY <1>2, <2>1, <2>2, <2>3, <2>4, <2>5, <2>6 DEF Child!Setup
<1>3. CASE Child!Teardown
  <2> USE DEF Child!Before, Child!SetWorkflowRunStatus, Child!NoWrite, Child!Close
  <2>1. CASE Child!FinishWorkflowRun
    <3>1. [status |-> Child!Outcome, steps |-> cState].status # "canceled"
      BY DEF Child!Outcome
    <3>2. UNCHANGED cLateRows \/ \A w \in cLateRows' : w.status # "canceled"
      BY <1>d, <2>1, <3>1 DEF Child!FinishWorkflowRun, Child!finishWorkflowRun
    <3>3. QED
      BY <1>0, <1>a, <2>1, <3>1, <3>2
      DEF Child!FinishWorkflowRun, Child!finishWorkflowRun, Child!AbandonRow
  <2>2. CASE Child!ReturnRunDAG
    BY <1>a, <2>2 DEF Child!ReturnRunDAG
  <2>3. CASE Child!CancelPendingGates
    <3>1. cGate' = [s \in ChildStep |-> IF s \in ChildStep /\ cGate[s] = "pending"
                                        THEN "canceled" ELSE cGate[s]]
      BY <1>0, <2>3 DEF Child!CancelPendingGates
    <3>2. UNCHANGED << cLateGates, cLateRows, cRowStatus >>
      BY <2>3 DEF Child!CancelPendingGates
    <3>3. QED  BY <3>1, <3>2 DEF Swept
  <2>4. CASE Child!FinishCanceled
    BY <2>4 DEF Child!FinishCanceled, Swept
  <2>5. QED  BY <1>3, <2>1, <2>2, <2>3, <2>4 DEF Child!Teardown
<1>4. CASE Child!Doors
  BY <1>4, <1>a
  DEF Child!Doors, Child!CancelDoorChecks, Child!CancelDoorSignals,
      Child!DecisionDoorChecks, Child!DecisionDoorSignals
<1>5. CASE Child!LateWrites
  <2>1. ASSUME NEW s \in ChildStep, Child!LateRecordDecision(s) PROVE SweptShape
    <3>1. /\ cGate' = [cGate EXCEPT ![s] = IF cGate[s] = "pending" THEN cVerdict[s]
                                           ELSE cGate[s]]
          /\ UNCHANGED << cLateGates, cLateRows, cRowStatus, cPc >>
      BY <2>1 DEF Child!LateRecordDecision, Child!DecideGate
    <3>2. Opens
      BY <3>1 DEF Swept
    <3>3. QED  BY <3>1, <3>2 DEF Swept
  <2>2. ASSUME NEW s \in ChildStep, Child!LateCreateGate(s) PROVE SweptShape
    <3>1. /\ cGate' = [cGate EXCEPT ![s] = IF cGate[s] = "none" THEN "pending"
                                           ELSE cGate[s]]
          /\ s \in cLateGates
          /\ UNCHANGED << cLateGates, cLateRows, cRowStatus, cPc >>
      BY <2>2 DEF Child!LateCreateGate, Child!OpenGate
    <3>2. Opens
      BY <3>1 DEF Swept
    <3>3. QED  BY <3>1, <3>2 DEF Swept
  <2>3. ASSUME NEW w \in cLateRows, Child!LateRowWrite(w) PROVE SweptShape
    <3>1. /\ w.status # "canceled"
          /\ \A v \in cLateRows' : v.status # "canceled"
      BY <2>3 DEF Child!LateRowWrite, Swept
    <3>2. QED
      BY <1>a, <2>3, <3>1 DEF Child!LateRowWrite, Child!SetWorkflowRunStatus
  <2>4. QED  BY <1>5, <2>1, <2>2, <2>3 DEF Child!LateWrites
<1>6. ASSUME NEW s \in ChildStep, Child!StepAdvances(s) PROVE SweptShape
  <2> USE DEF Child!rest
  \* Its Gate is opened, decided or left alone, and RunDAG stays in the walk.
  <2>1. ASSUME UNCHANGED << cLateRows, cRowStatus >>,
               cLateGates \subseteq cLateGates',
               cPc' = cPc \/ cPc' # "cancelFinish",
               \/ UNCHANGED cGate
               \/ cStepPC[s] = "create" /\ Child!OpenGate(s)
               \/ Child!DecideGate(s)
        PROVE  SweptShape
    <3>1. CASE UNCHANGED cGate
      BY <2>1, <3>1 DEF Swept
    <3>2. CASE cStepPC[s] = "create" /\ Child!OpenGate(s)
      BY <2>1, <3>2 DEF Child!OpenGate, Swept
    <3>3. CASE Child!DecideGate(s)
      BY <2>1, <3>3 DEF Child!DecideGate, Swept
    <3>4. QED  BY <2>1, <3>1, <3>2, <3>3
  <2>2. CASE Child!ResolveParams(s) \/ Child!PlanStep(s) \/ Child!EvaluatePolicy(s)
    BY <1>b, <1>c, <2>1, <2>2
    DEF Child!ResolveParams, Child!PlanStep, Child!EvaluatePolicy
  <2>3. CASE Child!ApplyPinnedPlan(s)
    BY <2>1, <2>3 DEF Child!ApplyPinnedPlan
  <2>4. CASE Child!CreateGateRecord(s) \/ Child!CreateGateRecordFails(s)
    BY <1>b, <1>c, <2>1, <2>4
    DEF Child!CreateGateRecord, Child!CreateGateRecordFails
  <2>5. CASE Child!ReceiveDecision(s) \/ Child!GateTimesOut(s)
    BY <1>c, <2>1, <2>5 DEF Child!ReceiveDecision, Child!GateTimesOut
  <2>6. CASE Child!RecordGateDecision(s) \/ Child!RecordGateDecisionFails(s)
    BY <1>b, <2>1, <2>6
    DEF Child!RecordGateDecision, Child!RecordGateDecisionFails
  <2>7. CASE Child!StepCanceled(s)
    BY <1>0, <1>b, <2>1, <2>7 DEF Child!StepCanceled
  <2>8. QED
    BY <1>6, <2>2, <2>3, <2>4, <2>5, <2>6, <2>7 DEF Child!StepAdvances
<1>7. ASSUME NEW s \in ChildStep, NEW ok \in BOOLEAN, NEW publishes \in BOOLEAN,
             Child!ChildReturns(s, ok, publishes)
      PROVE  SweptShape
  BY <1>a, <1>b, <1>7 DEF Child!ChildReturns, Child!rest
<1>8. CASE Child!ParentCancels
  BY <1>a, <1>8 DEF Child!ParentCancels
<1>9. CASE UNCHANGED childVars
  BY <1>a, <1>9 DEF childVars
<1> HIDE DEF SweptShape
<1>10. QED
  BY <1>1, <1>2, <1>3, <1>4, <1>5, <1>6, <1>7, <1>8, <1>9
  DEF ChildNext, Child!Own, Child!ChildrenReturn

\* A child that a forwarded cancel recorded canceled leaves no Gate pending,
\* for any two Workflows and whatever the attempts abandoned by the cancel write
\* later, when the writes of its cancel handler do not fail: after the sweep no
\* coroutine is left to open another Gate, and only the Gate of an attempt
\* abandoned while it was creating it can still appear.
THEOREM CanceledChildHasNoPendingGate ==
    ASSUME Undisturbed
    PROVE  NestedSpec => []NoPendingGateInChild
<1>1. NestedInit => Swept
  BY DEF NestedInit, Child!Init, Swept
<1>2. ASSUME ChildInv, Swept, [NestedNext]_<<vars, childVars>>
      PROVE  Swept'
  <2>1. SweptShape /\ [ChildNext]_childVars
    BY <1>2, ChildMoves, SweptShapes
  <2>2. cPc = "closed" => cPc' = "closed"
    BY <1>2, <2>1, ClosedStays
  <2>3. cPc # "walk" => \A s \in ChildStep : cStepPC[s] # "create"
    BY <1>2 DEF ChildInv
  <2>4. QED  BY <1>2, <2>1, <2>2, <2>3 DEF Swept, SweptShape, Opens, OnlyLate
<1>3. Swept => NoPendingGateInChild
  BY DEF Swept, OnlyLate, NoPendingGateInChild, Child!CanceledRunHasNoPendingGate
<1>4. QED  BY <1>1, <1>2, <1>3, ChildFollowed, PTL DEF NestedSpec
=============================================================================
