---------------------------- MODULE WorkflowRun ----------------------------
(***************************************************************************)
(* One execution of RunDAG (core/internal/orchestrate/workflow.go): the    *)
(* Temporal workflow that walks a declared Workflow's Steps, the door that *)
(* launches it, the Gates it opens, and the two API doors that act on it   *)
(* while it runs (POST /gates/{id}/decision, POST /workflow-runs/{id}/     *)
(* cancel).                                                                *)
(*                                                                         *)
(* Temporal runs the coroutines of a workflow task until all of them are   *)
(* blocked, so what a coroutine does between two blocking calls is one     *)
(* action here; a blocking call (activity, child workflow, Gate wait) is   *)
(* where other actors interleave.  An activity that fails its three        *)
(* attempts may or may not have written (fault "store"); one whose         *)
(* workflow is cancelled returns at once, and an attempt already started   *)
(* on a worker may still write afterwards (fault "late").                  *)
(***************************************************************************)
EXTENDS Integers, Sequences, FiniteSets

CONSTANTS
    Step,          \* names of the declared Steps
    Needs,         \* [Step -> SUBSET Step]
    When,          \* [Step -> {"success", "failure", "always"}]
    Kind,          \* [Step -> Kinds], the shape of each Step
    PlanFrom,      \* [Step -> SUBSET Step], {} or the one Plan Step named
    Principal,     \* Principals that may call the decision door
    Approvers,     \* [Step -> SUBSET Principal], pinned on the Gate row
    Threshold,     \* [Step -> Nat], declared quorum (0 = undeclared)
    HasTimeout,    \* [Step -> BOOLEAN], timeoutSeconds > 0
    Door,          \* "api" (row pre-created) or "self" (EnsureWorkflowRun)
    Faults,        \* subset of {"store", "late", "door"}
    MaxDecisions   \* bound: decisions signalled to one Gate

Kinds == {"gate", "policy", "plan", "actuation", "action", "nested"}

StepState == {"", "running", "succeeded", "failed", "skipped", "canceled"}
Terminal == {"succeeded", "failed", "skipped", "canceled"}

RunStatus == {"none", "pending", "running", "succeeded", "failed", "canceled"}
RunTerminal == {"succeeded", "failed", "canceled"}
GateStatus == {"none", "pending", "approved", "denied", "expired", "canceled"}

\* The needs-closure of s: every Step s transitively depends on.
Closure(s) ==
    {t \in Step : \A C \in SUBSET Step :
        (Needs[s] \subseteq C /\ \A c \in C : Needs[c] \subseteq C) => t \in C}

\* Every planFrom names a Plan Step and a Gate needs the plan it binds; a
\* plan-pinned Apply has a Gate binding the same plan in its needs-closure.
validatePlanPinning ==
    \A s \in Step : \A p \in PlanFrom[s] :
        /\ Kind[p] = "plan"
        /\ Kind[s] = "gate" => p \in Needs[s]
        /\ Kind[s] \notin {"gate", "plan"} =>
              \E g \in Closure(s) : Kind[g] = "gate" /\ p \in PlanFrom[g]

\* What the desired-state loader admits as a Workflow.
ValidateWorkflow ==
    /\ Step # {}
    /\ \A s \in Step : When[s] # "success" => Needs[s] # {}
    /\ \A s \in Step : s \notin Closure(s)
    /\ validatePlanPinning

ASSUME ConstantTypes ==
    /\ IsFiniteSet(Step)
    /\ Needs \in [Step -> SUBSET Step]
    /\ When \in [Step -> {"success", "failure", "always"}]
    /\ Kind \in [Step -> Kinds]
    /\ PlanFrom \in [Step -> SUBSET Step]
    /\ Approvers \in [Step -> SUBSET Principal]
    /\ Threshold \in [Step -> Nat]
    /\ HasTimeout \in [Step -> BOOLEAN]
    /\ Door \in {"api", "self"}
    /\ Faults \subseteq {"store", "late", "door"}
    /\ MaxDecisions \in Nat

ASSUME DeclaredWorkflow == ValidateWorkflow

\* The summary column before any per-Step map was merged into it.
NoSteps == << >>

VARIABLES
    door,         \* program counter of LaunchWorkflowRun
    pc,           \* program counter of RunDAG's main coroutine
    ret,          \* what RunDAG returned to Temporal
    canceled,     \* ctx.Err() = ErrCanceled
    cancelDoor,   \* program counter of the CancelWorkflowRun handler
    state,        \* RunDAG's map Step -> outcome
    stepPC,       \* program counter of each Step's coroutine
    outputs,      \* Steps whose outputs are in stepOutputs
    bound,        \* [Step -> SUBSET Step], boundOutputs snapshot at launch
    approvedBy,   \* [Step -> SUBSET Principal], awaitGate's distinct approvers
    verdict,      \* [Step -> status awaitGate is about to record]
    signals,      \* [Step -> Seq], buffered decision signals
    deciding,     \* decisions past the door's pending check, not yet signalled
    decided,      \* [Step -> Nat], decisions admitted, for MaxDecisions
    stamped,      \* workflow_run.temporal_id is set
    rowStatus,    \* workflow_run.status, "none" = no row
    rowSteps,     \* workflow_run.summary.steps
    gate,         \* [Step -> GateStatus], graph.gate.status
    applied,      \* plan-pinned Applies that reached their Actuator
    lateGates,    \* abandoned CreateGateRecord attempts, landed or not
    lateRecords,  \* abandoned RecordGateDecision attempts
    lateRows      \* abandoned row writes [status, steps]

temporalVars == << pc, ret, canceled, state, stepPC, outputs, bound,
                   approvedBy, verdict >>
doorVars == << door, cancelDoor, signals, deciding, decided >>
rowVars == << stamped, rowStatus, rowSteps >>
lateVars == << lateGates, lateRecords, lateRows >>
vars == << temporalVars, doorVars, rowVars, gate, applied, lateVars >>

Decision == [step : Step, who : Principal, approve : BOOLEAN]
RowWrite == [status : RunStatus, steps : {NoSteps} \cup [Step -> StepState]]

TypeOK ==
    /\ door \in {"create", "start", "fail", "stamp", "done"}
    /\ pc \in {"idle", "ensure", "load", "inputs", "context", "mark",
               "abort", "walk", "finish", "return", "cancelGates",
               "cancelFinish", "closed"}
    /\ ret \in {"none", "ok", "error"}
    /\ canceled \in BOOLEAN
    /\ cancelDoor \in {"idle", "checked", "sent"}
    /\ state \in [Step -> StepState]
    /\ stepPC \in [Step -> {"idle", "evaluate", "create", "await", "record",
                            "resolve", "plan", "child", "done"}]
    /\ outputs \in SUBSET Step
    /\ bound \in [Step -> SUBSET Step]
    /\ approvedBy \in [Step -> SUBSET Principal]
    /\ verdict \in [Step -> {"none", "approved", "denied", "expired"}]
    /\ signals \in [Step -> Seq(Decision)]
    /\ deciding \in SUBSET Decision
    /\ decided \in [Step -> Nat]
    /\ stamped \in BOOLEAN
    /\ rowStatus \in RunStatus
    /\ rowSteps \in {NoSteps} \cup [Step -> StepState]
    /\ gate \in [Step -> GateStatus]
    /\ applied \in SUBSET Step
    /\ lateGates \in SUBSET Step
    /\ lateRecords \in SUBSET Step
    /\ lateRows \in SUBSET RowWrite

Init ==
    /\ door = IF Door = "api" THEN "create" ELSE "done"
    /\ pc = "idle"
    /\ ret = "none"
    /\ canceled = FALSE
    /\ cancelDoor = "idle"
    /\ state = [s \in Step |-> ""]
    /\ stepPC = [s \in Step |-> "idle"]
    /\ outputs = {}
    /\ bound = [s \in Step |-> {}]
    /\ approvedBy = [s \in Step |-> {}]
    /\ verdict = [s \in Step |-> "none"]
    /\ signals = [s \in Step |-> << >>]
    /\ deciding = {}
    /\ decided = [s \in Step |-> 0]
    /\ stamped = FALSE
    /\ rowStatus = "none"
    /\ rowSteps = NoSteps
    /\ gate = [s \in Step |-> "none"]
    /\ applied = {}
    /\ lateGates = {}
    /\ lateRecords = {}
    /\ lateRows = {}

-----------------------------------------------------------------------------
(* The walk: readiness, the when-condition and schedule. *)

\* stepEligible: no need is pending or running ...
Ready(s, st) == \A n \in Needs[s] : st[n] \in Terminal

\* Mutant: the failure edge wants every need failed.
Met_AllFailed(s, st) ==
    \/ When[s] = "always"
    \/ When[s] = "failure" /\ \A n \in Needs[s] : st[n] = "failed"
    \/ When[s] = "success" /\ \A n \in Needs[s] : st[n] = "succeeded"

\* ... and the when-condition holds over their outcomes.
Met(s, st) ==
    \/ When[s] = "always"
    \/ When[s] = "failure" /\ \E n \in Needs[s] : st[n] = "failed"
    \/ When[s] = "success" /\ \A n \in Needs[s] : st[n] = "succeeded"

\* schedule repeats over the Steps until nothing changes.  The Step graph is
\* acyclic, so the map it stops at is the only one in which every Step that
\* was pending is decided exactly when its needs are terminal.
Settled(st) ==
    {nxt \in {[s \in Step |-> IF st[s] = "" THEN f[s] ELSE st[s]] :
                 f \in [Step -> {"", "running", "skipped"}]} :
        \A s \in Step : st[s] = "" =>
            nxt[s] = IF ~Ready(s, nxt) THEN ""
                     ELSE IF Met(s, nxt) THEN "running" ELSE "skipped"}

\* Mutant: the walk goes on after a cancel.
Walked_IgnoresCancel(st) == Settled(st)

\* schedule returns at once when the DAG is cancelled.
Walked(st) == IF canceled THEN {st} ELSE Settled(st)

\* Where a launched Step's coroutine first blocks.
FirstPC(s) ==
    CASE Kind[s] = "gate" -> "create"
      [] Kind[s] = "policy" -> "evaluate"
      [] OTHER -> "resolve"

\* schedule, then the test of the receive loop: with no Step running RunDAG
\* goes on to finishWorkflowRun, whose activity cannot start once cancelled.
\* fin is the set of Steps whose coroutine has just returned.
schedule(st, outs, fin) ==
    /\ state' \in Walked(st)
    /\ LET launched == {t \in Step : st[t] = "" /\ state'[t] = "running"}
       IN /\ stepPC' = [t \in Step |-> IF t \in launched THEN FirstPC(t)
                                       ELSE IF t \in fin THEN "done"
                                       ELSE stepPC[t]]
          /\ bound' = [t \in Step |-> IF t \in launched THEN outs
                                      ELSE bound[t]]
    /\ pc' = IF \E t \in Step : state'[t] = "running" THEN "walk"
             ELSE IF canceled THEN "return" ELSE "finish"

\* Mutant: scheduling before the outputs are recorded.
Complete_StaleOutputs(s, status, publishes) ==
    LET st == [state EXCEPT ![s] = IF canceled THEN "canceled" ELSE status]
    IN /\ outputs' = IF publishes THEN outputs \cup {s} ELSE outputs
       /\ schedule(st, outputs, {s})
       /\ UNCHANGED << ret, canceled >>

\* A Step's coroutine returns: a cancelled context overrides its status, the
\* main coroutine receives it, records its outputs and schedules.
Complete(s, status, publishes) ==
    LET st == [state EXCEPT ![s] = IF canceled THEN "canceled" ELSE status]
        outs == IF publishes THEN outputs \cup {s} ELSE outputs
    IN /\ outputs' = outs
       /\ schedule(st, outs, {s})
       /\ UNCHANGED << ret, canceled >>

Goto(s, where) ==
    /\ stepPC' = [stepPC EXCEPT ![s] = where]
    /\ UNCHANGED << pc, ret, canceled, state, outputs, bound >>

Close(result) == pc' = "closed" /\ ret' = result

-----------------------------------------------------------------------------
(* The row: SetWorkflowRunStatus overwrites whatever status is there. *)

SetWorkflowRunStatus(w) ==
    /\ rowStatus' = w.status
    /\ rowSteps' = IF w.steps = NoSteps THEN rowSteps ELSE w.steps

NoWrite == UNCHANGED << rowStatus, rowSteps >>

\* The call returns at once because the context was cancelled; its write may
\* still be under way on a worker.
AbandonRow(w) ==
    /\ NoWrite
    /\ \/ UNCHANGED lateRows
       \/ "late" \in Faults /\ lateRows' = lateRows \cup {w}

\* finishWorkflowRun discards the activity's error.
finishWorkflowRun(w) ==
    \/ ~canceled /\ SetWorkflowRunStatus(w) /\ UNCHANGED lateRows
    \/ ~canceled /\ "store" \in Faults /\ NoWrite /\ UNCHANGED lateRows
    \/ canceled /\ AbandonRow(w)

StatusOnly(status) == [status |-> status, steps |-> NoSteps]

-----------------------------------------------------------------------------
(* LaunchWorkflowRun, the door that pre-creates the row. *)

stepVars == << state, stepPC, outputs, bound, approvedBy, verdict >>

CreateWorkflowRun ==
    /\ door = "create"
    /\ rowStatus' = "pending"
    /\ door' = "start"
    /\ UNCHANGED << temporalVars, cancelDoor, signals, deciding, decided,
                    stamped, rowSteps, gate, applied, lateVars >>

ExecuteWorkflow ==
    /\ door = "start"
    /\ pc' = "load"
    /\ door' = "stamp"
    /\ UNCHANGED << ret, canceled, stepVars, cancelDoor, signals, deciding,
                    decided, rowVars, gate, applied, lateVars >>

\* The start call returns an error; Temporal may have started the execution.
ExecuteWorkflowFails ==
    /\ "door" \in Faults
    /\ door = "start"
    /\ pc' \in {"idle", "load"}
    /\ door' = "fail"
    /\ UNCHANGED << ret, canceled, stepVars, cancelDoor, signals, deciding,
                    decided, rowVars, gate, applied, lateVars >>

MarkStartFailed ==
    /\ door = "fail"
    /\ SetWorkflowRunStatus(StatusOnly("failed"))
    /\ door' = "done"
    /\ UNCHANGED << temporalVars, cancelDoor, signals, deciding, decided,
                    stamped, gate, applied, lateVars >>

SetWorkflowRunTemporalID ==
    /\ door = "stamp"
    /\ stamped' = TRUE
    /\ door' = "done"
    /\ UNCHANGED << temporalVars, cancelDoor, signals, deciding, decided,
                    rowStatus, rowSteps, gate, applied, lateVars >>

\* The daemon dies, or the write fails, before the door is through.
DoorDies ==
    /\ "door" \in Faults
    /\ door \in {"start", "fail", "stamp"}
    /\ door' = "done"
    /\ UNCHANGED << temporalVars, cancelDoor, signals, deciding, decided,
                    rowVars, gate, applied, lateVars >>

Launch ==
    \/ CreateWorkflowRun \/ ExecuteWorkflow \/ ExecuteWorkflowFails
    \/ MarkStartFailed \/ SetWorkflowRunTemporalID \/ DoorDies

-----------------------------------------------------------------------------
(* RunDAG before the walk.  The cancellation handler is deferred only after *)
(* MarkWorkflowRunRunning, so a cancel here reaches no writer.              *)

Before == << gate, applied, doorVars, lateGates, lateRecords >>

\* A trigger or a parent DAG starts RunDAG with no row.
StartSelf ==
    /\ Door = "self"
    /\ pc = "idle"
    /\ pc' = "ensure"
    /\ UNCHANGED << ret, canceled, stepVars, rowVars, lateRows, Before >>

\* The row is inserted with the Temporal id of this execution.
EnsureWorkflowRun ==
    /\ pc = "ensure"
    /\ ~canceled
    /\ pc' = "load"
    /\ rowStatus' = "pending"
    /\ stamped' = TRUE
    /\ UNCHANGED << ret, canceled, stepVars, rowSteps, lateRows, Before >>

\* The activity fails (an unknown Workflow before the insert, the store at
\* any point): RunDAG returns the error without a terminal write.
EnsureWorkflowRunFails ==
    /\ pc = "ensure"
    /\ ~canceled
    /\ Close("error")
    /\ \/ UNCHANGED << rowStatus, stamped >>
       \/ "store" \in Faults /\ rowStatus' = "pending" /\ stamped' = TRUE
    /\ UNCHANGED << canceled, stepVars, rowSteps, lateRows, Before >>

\* LoadWorkflow, ResolveLaunchInputs and ResolveChangeContext, in this order.
SetupNext == [load |-> "inputs", inputs |-> "context", context |-> "mark"]

ResolveSetup ==
    /\ pc \in DOMAIN SetupNext
    /\ ~canceled
    /\ pc' \in {SetupNext[pc], "abort"}
    /\ UNCHANGED << ret, canceled, stepVars, rowVars, lateRows, Before >>

MarkWorkflowRunRunning ==
    /\ pc = "mark"
    /\ ~canceled
    /\ SetWorkflowRunStatus(StatusOnly("running"))
    /\ schedule(state, outputs, {})
    /\ UNCHANGED << ret, canceled, outputs, approvedBy, verdict, stamped,
                    lateRows, Before >>

MarkWorkflowRunRunningFails ==
    /\ "store" \in Faults
    /\ pc = "mark"
    /\ ~canceled
    /\ SetWorkflowRunStatus(StatusOnly("running")) \/ NoWrite
    /\ pc' = "abort"
    /\ UNCHANGED << ret, canceled, stepVars, stamped, lateRows, Before >>

\* A setup activity returns CanceledError; the finishWorkflowRun that follows
\* cannot run its activity either.
SetupCanceled ==
    /\ pc \in {"ensure", "mark"} \cup DOMAIN SetupNext
    /\ canceled
    /\ Close("error")
    /\ \/ NoWrite /\ UNCHANGED lateRows
       \/ pc = "ensure" /\ AbandonRow(StatusOnly("pending"))
       \/ pc = "mark" /\ AbandonRow(StatusOnly("running"))
    /\ UNCHANGED << canceled, stepVars, stamped, Before >>

\* finishWorkflowRun(failed, nil, err) on a setup error.
AbortSetup ==
    /\ pc = "abort"
    /\ finishWorkflowRun(StatusOnly("failed"))
    /\ Close("error")
    /\ UNCHANGED << canceled, stepVars, stamped, Before >>

Setup ==
    \/ StartSelf \/ EnsureWorkflowRun \/ EnsureWorkflowRunFails
    \/ ResolveSetup \/ MarkWorkflowRunRunning
    \/ MarkWorkflowRunRunningFails \/ SetupCanceled \/ AbortSetup

-----------------------------------------------------------------------------
(* RunDAG after the walk. *)

\* Mutant: a cleanup branch that ran hides the failure it handled.
Outcome_Handled ==
    IF \E s \in Step : state[s] = "failed" /\ \A t \in Step : s \notin Needs[t]
    THEN "failed" ELSE "succeeded"

\* Mutant: no default status.
Outcome_NoDefault ==
    IF \E s \in Step : state[s] = "failed" THEN "failed" ELSE ""

\* Raw outcomes decide the terminal status.
Outcome == IF \E s \in Step : state[s] = "failed" THEN "failed" ELSE "succeeded"

FinishWorkflowRun ==
    /\ pc = "finish"
    /\ finishWorkflowRun([status |-> Outcome, steps |-> state])
    /\ pc' = "return"
    /\ UNCHANGED << ret, canceled, stepVars, stamped, Before >>

\* RunDAG returns nil whatever the outcome was; its deferred handler runs
\* when the context is cancelled by then.
ReturnRunDAG ==
    /\ pc = "return"
    /\ \/ ~canceled /\ Close("ok")
       \/ canceled /\ pc' = "cancelGates" /\ UNCHANGED ret
    /\ UNCHANGED << canceled, stepVars, rowVars, lateRows, Before >>

\* Mutant: only the Gates of Steps still running are swept, and the cancel has
\* settled those Steps already.
CancelPendingGates_Running ==
    /\ pc = "cancelGates"
    /\ gate' = [s \in Step |-> IF state[s] = "running" /\ gate[s] = "pending"
                               THEN "canceled" ELSE gate[s]]
    /\ pc' = "cancelFinish"
    /\ UNCHANGED << ret, canceled, stepVars, rowVars, applied, doorVars,
                    lateVars >>

\* On a disconnected context: every Gate still pending, then the row.
CancelPendingGates ==
    /\ pc = "cancelGates"
    /\ \E swept \in (IF "store" \in Faults THEN SUBSET Step ELSE {Step}) :
         gate' = [s \in Step |-> IF s \in swept /\ gate[s] = "pending"
                                 THEN "canceled" ELSE gate[s]]
    /\ pc' = "cancelFinish"
    /\ UNCHANGED << ret, canceled, stepVars, rowVars, applied, doorVars,
                    lateVars >>

FinishCanceled ==
    /\ pc = "cancelFinish"
    /\ \/ SetWorkflowRunStatus([status |-> "canceled", steps |-> state])
       \/ "store" \in Faults /\ NoWrite
    /\ Close("ok")
    /\ UNCHANGED << canceled, stepVars, stamped, lateRows, Before >>

Teardown ==
    \/ FinishWorkflowRun \/ ReturnRunDAG \/ CancelPendingGates
    \/ FinishCanceled

-----------------------------------------------------------------------------
(* Step coroutines.  An activity's error makes the Step failed. *)

rest == << rowVars, doorVars, lateVars >>

\* ResolveStepParams, ResolveActionStepParams, ResolveNestedInputs.
ResolveParams(s) ==
    /\ stepPC[s] = "resolve"
    /\ ~canceled
    /\ \/ Goto(s, IF Kind[s] = "plan" THEN "plan" ELSE "child")
       \/ Complete(s, "failed", FALSE)
    /\ UNCHANGED << approvedBy, verdict, gate, applied, rest >>

\* A Plan Step publishes its plan's digest.
PlanStep(s) ==
    /\ stepPC[s] = "plan"
    /\ ~canceled
    /\ Complete(s, "succeeded", TRUE) \/ Complete(s, "failed", FALSE)
    /\ UNCHANGED << approvedBy, verdict, gate, applied, rest >>

\* The child Run of a plan-pinned Apply passes the pin check: the digest it
\* carries is the one its Plan Step published (digestFromStep), never empty.
ApplyPinnedPlan(s) ==
    /\ stepPC[s] = "child"
    /\ s \notin applied
    /\ PlanFrom[s] # {}
    /\ PlanFrom[s] \subseteq bound[s]
    /\ applied' = applied \cup {s}
    /\ UNCHANGED << temporalVars, gate, rest >>

\* The child workflow closes.  A nested Workflow publishes no outputs.
ChildReturns(s, ok, publishes) ==
    /\ stepPC[s] = "child"
    /\ ~canceled
    /\ publishes => ok /\ Kind[s] # "nested"
    /\ ok /\ PlanFrom[s] # {} => s \in applied
    /\ Complete(s, IF ok THEN "succeeded" ELSE "failed", publishes)
    /\ UNCHANGED << approvedBy, verdict, gate, applied, rest >>

\* runPolicyStep: allow and deny settle the Step, require_approval and
\* escalate open a Gate when the decision names an approver.
EvaluatePolicy(s) ==
    /\ stepPC[s] = "evaluate"
    /\ ~canceled
    /\ \/ Complete(s, "succeeded", FALSE)
       \/ Complete(s, "failed", FALSE)
       \/ Approvers[s] # {} /\ Goto(s, "create")
    /\ UNCHANGED << approvedBy, verdict, gate, applied, rest >>

\* CreateGate: the first insert wins.
OpenGate(s) ==
    gate' = [gate EXCEPT ![s] = IF gate[s] = "none" THEN "pending" ELSE gate[s]]

CreateGateRecord(s) ==
    /\ stepPC[s] = "create"
    /\ ~canceled
    /\ OpenGate(s)
    /\ Goto(s, "await")
    /\ UNCHANGED << approvedBy, verdict, applied, rest >>

\* The notice is published after the insert, so an error may leave the row.
CreateGateRecordFails(s) ==
    /\ "store" \in Faults
    /\ stepPC[s] = "create"
    /\ ~canceled
    /\ OpenGate(s) \/ UNCHANGED gate
    /\ Complete(s, "failed", FALSE)
    /\ UNCHANGED << approvedBy, verdict, applied, rest >>

\* awaitGate's quorum: a threshold below one means one.
Quorum(s) == IF Threshold[s] < 1 THEN 1 ELSE Threshold[s]

\* Mutant: any approval ends the wait.
Verdict_NoQuorum(s, d, by) == IF d.approve THEN "approved" ELSE "denied"

\* What a received decision leads to: a denial ends the wait, an approval
\* only with the quorum.
Verdict(s, d, by) ==
    IF ~d.approve THEN "denied"
    ELSE IF Cardinality(by) >= Quorum(s) THEN "approved" ELSE "none"

\* awaitGate receives one signal; approvals accumulate by distinct Principal.
ReceiveDecision(s) ==
    /\ stepPC[s] = "await"
    /\ ~canceled
    /\ signals[s] # << >>
    /\ LET d == Head(signals[s])
           by == IF d.approve THEN approvedBy[s] \cup {d.who}
                 ELSE approvedBy[s]
           v == Verdict(s, d, by)
       IN /\ approvedBy' = [approvedBy EXCEPT ![s] = by]
          /\ verdict' = [verdict EXCEPT ![s] = v]
          /\ Goto(s, IF v = "none" THEN "await" ELSE "record")
    /\ signals' = [signals EXCEPT ![s] = Tail(signals[s])]
    /\ UNCHANGED << gate, applied, door, cancelDoor, deciding, decided,
                    rowVars, lateVars >>

GateTimesOut(s) ==
    /\ stepPC[s] = "await"
    /\ ~canceled
    /\ HasTimeout[s]
    /\ verdict' = [verdict EXCEPT ![s] = "expired"]
    /\ Goto(s, "record")
    /\ UNCHANGED << approvedBy, gate, applied, rest >>

\* DecideGate: only a pending Gate transitions; the decision it already has is
\* a no-op.
DecideGate(s) ==
    gate' = [gate EXCEPT ![s] = IF gate[s] = "pending" THEN verdict[s]
                                ELSE gate[s]]

\* Mutant: a recorded decision, whichever it is, lets the Step succeed.
Recorded_AnyDecision(s) ==
    IF gate[s] \in {"pending", verdict[s]} THEN "succeeded" ELSE "failed"

\* The Step's status once the decision is recorded; DecideGate on a Gate that
\* was decided otherwise is a conflict, a repeated decision is not.
Recorded(s) ==
    IF verdict[s] = "approved" /\ gate[s] \in {"pending", verdict[s]}
    THEN "succeeded" ELSE "failed"

RecordGateDecision(s) ==
    /\ stepPC[s] = "record"
    /\ ~canceled
    /\ DecideGate(s)
    /\ Complete(s, Recorded(s), FALSE)
    /\ UNCHANGED << approvedBy, verdict, applied, rest >>

RecordGateDecisionFails(s) ==
    /\ "store" \in Faults
    /\ stepPC[s] = "record"
    /\ ~canceled
    /\ DecideGate(s) \/ UNCHANGED gate
    /\ Complete(s, "failed", FALSE)
    /\ UNCHANGED << approvedBy, verdict, applied, rest >>

\* Mutant: the Gate's select has no ctx.Done branch.
Interruptible_NotGate(s) == stepPC[s] \notin {"idle", "done", "await"}

\* The blocking calls a cancelled context releases: all of them.
Interruptible(s) == stepPC[s] \notin {"idle", "done"}

\* Whatever the Step was blocked on returns CanceledError, the Gate's select
\* through its ctx.Done branch.  A Gate write may still be under way.
StepCanceled(s) ==
    /\ Interruptible(s)
    /\ canceled
    /\ Complete(s, "failed", FALSE)
    /\ \/ UNCHANGED << lateGates, lateRecords >>
       \/ /\ "late" \in Faults
          /\ stepPC[s] = "create"
          /\ lateGates' = lateGates \cup {s}
          /\ UNCHANGED lateRecords
       \/ /\ "late" \in Faults
          /\ stepPC[s] = "record"
          /\ lateRecords' = lateRecords \cup {s}
          /\ UNCHANGED lateGates
    /\ UNCHANGED << approvedBy, verdict, gate, applied, rowVars, doorVars,
                    lateRows >>

StepAdvances(s) ==
    \/ ResolveParams(s) \/ PlanStep(s) \/ ApplyPinnedPlan(s)
    \/ EvaluatePolicy(s) \/ CreateGateRecord(s) \/ CreateGateRecordFails(s)
    \/ ReceiveDecision(s) \/ GateTimesOut(s) \/ RecordGateDecision(s)
    \/ RecordGateDecisionFails(s) \/ StepCanceled(s)

-----------------------------------------------------------------------------
(* The API doors and the writes of abandoned activities. *)

Executing == pc \notin {"idle", "closed"}

\* CancelWorkflowRun reads the row: only a pending or running one goes on.
CancelDoorChecks ==
    /\ cancelDoor = "idle"
    /\ rowStatus \in {"pending", "running"}
    /\ cancelDoor' = "checked"
    /\ UNCHANGED << temporalVars, door, signals, deciding, decided, rowVars,
                    gate, applied, lateVars >>

\* It then signals Temporal, which refuses a closed execution.
CancelDoorSignals ==
    /\ cancelDoor = "checked"
    /\ cancelDoor' = "sent"
    /\ canceled' = (canceled \/ Executing)
    /\ UNCHANGED << pc, ret, stepVars, door, signals, deciding, decided,
                    rowVars, gate, applied, lateVars >>

\* A parent that was cancelled or has closed requests its child's cancel.
ParentCancels ==
    /\ Executing
    /\ ~canceled
    /\ canceled' = TRUE
    /\ UNCHANGED << pc, ret, stepVars, doorVars, rowVars, gate, applied,
                    lateVars >>

\* The decision door admits an approver while the row reads pending.
DecisionDoorChecks(d) ==
    /\ gate[d.step] = "pending"
    /\ d.who \in Approvers[d.step]
    /\ d \notin deciding
    /\ decided[d.step] < MaxDecisions
    /\ deciding' = deciding \cup {d}
    /\ decided' = [decided EXCEPT ![d.step] = @ + 1]
    /\ UNCHANGED << temporalVars, door, cancelDoor, signals, rowVars, gate,
                    applied, lateVars >>

\* The signal is buffered by the execution, or refused when the row has no
\* Temporal id or the execution has closed.
DecisionDoorSignals(d) ==
    /\ d \in deciding
    /\ deciding' = deciding \ {d}
    /\ signals' = IF stamped /\ Executing
                  THEN [signals EXCEPT ![d.step] = Append(@, d)]
                  ELSE signals
    /\ UNCHANGED << temporalVars, door, cancelDoor, decided, rowVars, gate,
                    applied, lateVars >>

\* CreateGate is an upsert: landing once more changes nothing.
LateCreateGate(s) ==
    /\ s \in lateGates
    /\ OpenGate(s)
    /\ UNCHANGED << temporalVars, doorVars, rowVars, applied, lateVars >>

LateRecordDecision(s) ==
    /\ s \in lateRecords
    /\ DecideGate(s)
    /\ lateRecords' = lateRecords \ {s}
    /\ UNCHANGED << temporalVars, doorVars, rowVars, applied, lateGates,
                    lateRows >>

LateRowWrite(w) ==
    /\ w \in lateRows
    /\ SetWorkflowRunStatus(w)
    /\ stamped' = (stamped \/ w.status = "pending")
    /\ lateRows' = lateRows \ {w}
    /\ UNCHANGED << temporalVars, doorVars, gate, applied, lateGates,
                    lateRecords >>

Doors ==
    \/ CancelDoorChecks \/ CancelDoorSignals
    \/ \E d \in Decision : DecisionDoorChecks(d) \/ DecisionDoorSignals(d)

LateWrites ==
    \/ \E s \in Step : LateCreateGate(s) \/ LateRecordDecision(s)
    \/ \E w \in lateRows : LateRowWrite(w)

\* Everything but the return of a child workflow, which a composition ties
\* to that child, and the request of a parent.
Own ==
    \/ Launch \/ Setup \/ Teardown \/ Doors \/ LateWrites
    \/ \E s \in Step : StepAdvances(s)

ChildrenReturn ==
    \E s \in Step, ok, publishes \in BOOLEAN : ChildReturns(s, ok, publishes)

Next == Own \/ ChildrenReturn

Spec == Init /\ [][Next]_vars

\* Temporal drives an execution to its end: the main coroutine, every
\* activity, timer and buffered signal, and every child makes progress.  No
\* fairness on the doors: nobody has to decide a Gate or to cancel.
Fairness ==
    /\ WF_vars(Setup)
    /\ WF_vars(Teardown)
    /\ \A s \in Step : WF_vars(StepAdvances(s))
    /\ \A s \in Step : WF_vars(\E ok, publishes \in BOOLEAN :
                                    ChildReturns(s, ok, publishes))

FairSpec == Spec /\ Fairness

-----------------------------------------------------------------------------
(* Properties. *)

\* A Step that asked for human approval succeeds only with its Gate row
\* recorded approved on a quorum of distinct authorized Principals: no late
\* signal, timeout, retry or cancel sweep gets it past the Gate otherwise.
GateHolds ==
    \A s \in Step :
        state[s] = "succeeded" /\ (Kind[s] = "gate" \/ gate[s] # "none") =>
            /\ gate[s] = "approved"
            /\ Cardinality(approvedBy[s] \cap Approvers[s]) >= Quorum(s)

\* Every Step that was started or skipped was so on the outcomes its needs
\* still have: nothing is started early and no outcome changes under it.
WalkedInOrder ==
    \A s \in Step : state[s] # "" =>
        /\ \A n \in Needs[s] : state[n] \in Terminal
        /\ state[s] # "skipped" <=>
              /\ When[s] = "success" => \A n \in Needs[s] : state[n] = "succeeded"
              /\ When[s] = "failure" => \E n \in Needs[s] : state[n] = "failed"

\* A Step binds against every output its needs had published.
BindsItsNeeds ==
    \A s \in Step : stepPC[s] # "idle" => Needs[s] \cap outputs \subseteq bound[s]

\* A row that reads succeeded is true of every Step and carries their map:
\* none failed, none was cancelled in flight, none is pending or running,
\* whichever of the writers came last.
GreenIsHonest ==
    rowStatus = "succeeded" =>
        /\ rowSteps = state
        /\ \A s \in Step : state[s] \in {"succeeded", "skipped"}

\* Nothing new starts once the DAG is cancelled.
NothingStartsAfterCancel ==
    [][canceled => \A s \in Step : stepPC[s] = "idle" => stepPC'[s] = "idle"]_vars

\* A plan-pinned Apply reaches its Actuator only when a Gate that binds the
\* same plan was approved.
AppliesOnlyApprovedPlans ==
    \A s \in applied : \A p \in PlanFrom[s] :
        \E g \in Step : /\ Kind[g] = "gate"
                        /\ p \in PlanFrom[g]
                        /\ gate[g] = "approved"

\* A cancel that reached the execution ends it, a pending Gate included.
CancelEnds == canceled ~> pc = "closed"

\* The DAG never waits out of sight: it ends, or some Gate row is pending.
WaitsAreVisible ==
    pc = "walk" ~> (pc = "closed" \/ \E s \in Step : gate[s] = "pending")

\* An execution that has closed leaves its row terminal.
ClosedRunIsTerminal == pc = "closed" => rowStatus \in RunTerminal

\* A walk, however it ended, closes with a terminal row.
WalkedRunIsTerminal ==
    pc = "closed" /\ (\E s \in Step : state[s] # "") => rowStatus \in RunTerminal

\* A WorkflowRun recorded canceled leaves no Gate pending, but for one that an
\* abandoned CreateGateRecord attempt opened after the sweep.
CanceledRunHasNoPendingGate ==
    rowStatus = "canceled" =>
        \A s \in Step : gate[s] = "pending" => s \in lateGates

=============================================================================
