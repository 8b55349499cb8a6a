----------------------------- MODULE NestedRun -----------------------------
(***************************************************************************)
(* A WorkflowRun with a Step that runs another Workflow (ADR-0139): the    *)
(* parent is the specification this module extends, the child a second     *)
(* RunDAG that mints its own row.  runNestedWorkflowStep starts the child, *)
(* waits for it to close and turns what it returned into the Step's        *)
(* status; the child gets a cancel request when the parent is cancelled or *)
(* has closed (PARENT_CLOSE_POLICY_REQUEST_CANCEL).                        *)
(***************************************************************************)
EXTENDS WorkflowRun

CONSTANTS
    Call,  \* the parent's nested Step
    ChildStep, ChildNeeds, ChildWhen, ChildKind, ChildPlanFrom,
    ChildApprovers, ChildThreshold, ChildHasTimeout
                        \* the child Workflow's declaration

VARIABLES
    cDoor, cPc, cRet, cCanceled, cCancelDoor, cState, cStepPC, cOutputs,
    cBound, cApprovedBy, cVerdict, cSignals, cDeciding, cDecided, cStamped,
    cRowStatus, cRowSteps, cGate, cApplied, cLateGates, cLateRecords,
    cLateRows

childVars ==
    << cDoor, cPc, cRet, cCanceled, cCancelDoor, cState, cStepPC, cOutputs,
       cBound, cApprovedBy, cVerdict, cSignals, cDeciding, cDecided,
       cStamped, cRowStatus, cRowSteps, cGate, cApplied, cLateGates,
       cLateRecords, cLateRows >>

Child == INSTANCE WorkflowRun WITH
    Step <- ChildStep, Needs <- ChildNeeds, When <- ChildWhen,
    Kind <- ChildKind, PlanFrom <- ChildPlanFrom,
    Approvers <- ChildApprovers, Threshold <- ChildThreshold,
    HasTimeout <- ChildHasTimeout,
    Door <- "self",
    door <- cDoor, pc <- cPc, ret <- cRet, canceled <- cCanceled,
    cancelDoor <- cCancelDoor, state <- cState, stepPC <- cStepPC,
    outputs <- cOutputs, bound <- cBound, approvedBy <- cApprovedBy,
    verdict <- cVerdict, signals <- cSignals, deciding <- cDeciding,
    decided <- cDecided, stamped <- cStamped, rowStatus <- cRowStatus,
    rowSteps <- cRowSteps, gate <- cGate, applied <- cApplied,
    lateGates <- cLateGates, lateRecords <- cLateRecords,
    lateRows <- cLateRows

ASSUME NestedShape == Call \in Step /\ Kind[Call] = "nested"

NestedInit == Init /\ Child!Init

\* ExecuteChildWorkflow: the child exists from the time the Step waits on it.
StartChild ==
    /\ stepPC[Call] = "child"
    /\ Child!StartSelf
    /\ UNCHANGED vars

\* The child's own progress once it was started.
ChildSteps ==
    /\ cPc # "idle"
    /\ Child!Own \/ Child!ChildrenReturn
    /\ UNCHANGED vars

\* Mutant: the Step does not wait for its child to close.
ChildCloses_Early ==
    /\ cPc # "idle"
    /\ ChildReturns(Call, cRet # "error", FALSE)
    /\ UNCHANGED childVars

\* The nested Step's future resolves when the child closes: with an error
\* when the child's RunDAG returned one.
ChildCloses ==
    /\ cPc = "closed"
    /\ ChildReturns(Call, cRet = "ok", FALSE)
    /\ UNCHANGED childVars

\* Mutant: only the parent's close is forwarded, not its cancel.
CancelReachesChild_OnClose ==
    /\ ~canceled /\ pc = "closed"
    /\ Child!ParentCancels
    /\ UNCHANGED vars

\* Temporal forwards the parent's cancel, and its close, to the child.
CancelReachesChild ==
    /\ canceled \/ pc = "closed"
    /\ Child!ParentCancels
    /\ UNCHANGED vars

ParentSteps ==
    /\ \/ Own
       \/ \E s \in Step \ {Call}, ok, publishes \in BOOLEAN :
              ChildReturns(s, ok, publishes)
    /\ UNCHANGED childVars

NestedNext ==
    \/ ParentSteps \/ StartChild \/ ChildSteps \/ ChildCloses
    \/ CancelReachesChild

NestedFairness ==
    /\ WF_<<vars, childVars>>(StartChild)
    /\ WF_<<vars, childVars>>(ChildCloses)
    /\ WF_<<vars, childVars>>(CancelReachesChild)
    /\ WF_<<vars, childVars>>(ParentSteps /\ ~Doors)
    /\ WF_<<vars, childVars>>(ChildSteps /\ ~Child!Doors)

NestedSpec == NestedInit /\ [][NestedNext]_<<vars, childVars>>

NestedFairSpec == NestedSpec /\ NestedFairness

-----------------------------------------------------------------------------
\* The nested Step is settled as succeeded or failed only over a child that
\* was never started or has closed.
SettledOverClosedChild ==
    state[Call] \in {"succeeded", "failed"} => cPc \in {"idle", "closed"}

\* Once the parent is cancelled or closed, a started child comes to its end
\* too: neither hangs on the other.
NoOrphanChild == (canceled \/ pc = "closed") ~> cPc \in {"idle", "closed"}

\* A child that a forwarded cancel recorded canceled leaves no Gate for an
\* operator to act on, wherever the cancel met it.  The one exemption is a Gate
\* that an activity attempt abandoned by the cancel opens afterwards.
NoPendingGateInChild == Child!CanceledRunHasNoPendingGate

\* The child's terminal status is the Step's status: a nested Step that
\* succeeded ran a Workflow whose row reads succeeded.
NestedStatusIsChildStatus ==
    state[Call] = "succeeded" => cRowStatus = "succeeded"

=============================================================================
