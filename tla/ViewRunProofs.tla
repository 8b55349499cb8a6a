--------------------------- MODULE ViewRunProofs ---------------------------
(***************************************************************************)
(* Proofs about ViewRun for every set of slices, every number of attempts  *)
(* and every combination of faults.                                        *)
(***************************************************************************)
EXTENDS ViewRun, TLAPS

\* TypeOK by the part of the system the variables belong to.
WfOK ==
  /\ flow \in {"view", "action"} /\ pc \in Stage /\ cancel \in BOOLEAN
  /\ slices \subseteq Slices /\ row \in RunStatus /\ note \in BOOLEAN
  /\ ret \in {"none", "ok", "err"} /\ late \in RunStatus
ActOK ==
  /\ n \in [Slices -> 0..MaxAttempts]
  /\ hub \in [Slices -> {"none", "dispatch", "await"}]
  /\ out \in [Slices -> Result]
ExOK == ex \in [Slices -> [Attempts -> {"none"} \cup Working \cup Ended]]
K8sOK ==
  /\ job \in [Slices -> JobState] /\ content \subseteq Slices
  /\ started \in [Slices -> Nat]
  /\ exits \in [Slices -> SUBSET {"ok", "failed", "bad", "error"}]
  /\ gone \subseteq Slices
SiteOK ==
  /\ queue \in [Slices -> 0..MaxAttempts] /\ tries \in [Slices -> 0..MaxAttempts]
  /\ agent \in Slices \cup {Nobody} /\ reply \in [Slices -> Result]
  /\ stop \in BOOLEAN

\* The message the agent is handling was delivered and not acknowledged yet.
Handled == agent # Nobody => queue[agent] # 0 /\ tries[agent] # 0

\* TypeOK is the conjunction of its parts.
LEMMA Split == TypeOK <=> WfOK /\ ActOK /\ ExOK /\ K8sOK /\ SiteOK
BY DEF TypeOK, WfOK, ActOK, ExOK, K8sOK, SiteOK

\* The same in the next state.
LEMMA SplitNext == TypeOK' <=> WfOK' /\ ActOK' /\ ExOK' /\ K8sOK' /\ SiteOK'
BY DEF TypeOK, WfOK, ActOK, ExOK, K8sOK, SiteOK

\* A part that an action leaves alone keeps its types.
LEMMA WfSame == WfOK /\ UNCHANGED wfVars => WfOK'
BY DEF WfOK, wfVars, Stage, Activity, Script
\* The same for the attempts of the activities.
LEMMA ActSame == ActOK /\ UNCHANGED actVars => ActOK'
BY DEF ActOK, actVars
\* The same for the executions of Dispatcher.Run.
LEMMA ExSame == ExOK /\ UNCHANGED ex => ExOK'
BY DEF ExOK
\* The same for the Jobs of the cluster.
LEMMA K8sSame == K8sOK /\ UNCHANGED k8sVars => K8sOK'
BY DEF K8sOK, k8sVars
\* The same for the Site.
LEMMA SiteSame == SiteOK /\ UNCHANGED siteVars => SiteOK'
BY DEF SiteOK, siteVars

\* Moving the workflow to a stage of its flow.
LEMMA GotoTypes ==
  ASSUME WfOK, NEW stage \in Stage, Goto(stage), NEW st \in RunStatus, row' = st,
         note' \in BOOLEAN, ret' \in {"none", "ok", "err"}, late' \in RunStatus
  PROVE  WfOK'
BY DEF WfOK, Goto, Stage, Activity, Script

\* The script of either flow leads from one of its stages to another.
LEMMA ScriptTypes ==
  ASSUME WfOK
  PROVE  /\ FirstActivity(flow) \in Stage
         /\ {"fail", "cleanup", "stamp", "closed"} \subseteq Stage
         /\ \A a \in DOMAIN Script : Script[a] \in Stage
         /\ Stage \cap Plain \subseteq DOMAIN Script
         /\ {"MarkRunning", "Execute"} \subseteq DOMAIN Script
BY DEF WfOK, FirstActivity, Stage, Activity, Script, ViewScript, ActionScript, Plain

\* The actions of the workflow keep the types of its variables.
LEMMA WorkflowTypes ==
  ASSUME TypeOK, Workflow \/ CancelRun \/ LateWrite
  PROVE  TypeOK'
<1> USE Split, SplitNext, WfSame, ActSame, ExSame, K8sSame, SiteSame, ScriptTypes,
        GotoTypes
<1>0. WfOK /\ ActOK /\ ExOK /\ K8sOK /\ SiteOK /\ pc \in Stage /\ row \in RunStatus
      /\ note \in BOOLEAN /\ late \in RunStatus /\ ret \in {"none", "ok", "err"}
  BY DEF WfOK
<1>1. CASE LaunchRun
  BY <1>0, <1>1 DEF LaunchRun, SetRunStatus, RunStatus, Rest
<1>2. CASE EnsureRun
  BY <1>0, <1>2 DEF EnsureRun, SetRunStatus, RunStatus, Rest
<1>3. CASE PlainActivity
  BY <1>0, <1>3 DEF PlainActivity, Rest
<1>4. CASE MarkRunning
  BY <1>0, <1>4 DEF MarkRunning, SetRunStatus, RunStatus, Rest
<1>5. CASE ExecuteSettles
  BY <1>0, <1>5 DEF ExecuteSettles, Rest
<1>6. CASE FinishRun
  BY <1>0, <1>6 DEF FinishRun, Return, Merged, SetRunStatus, RunStatus, Rest
<1>7. CASE finishRun
  BY <1>0, <1>7 DEF finishRun, Return, SetRunStatus, RunStatus, Rest
<1>8. CASE Canceled
  BY <1>0, <1>8 DEF Canceled, Writes, Merged, RunStatus, Rest
<1>9. CASE CleanupRun
  <2>1. PICK S \in SUBSET Slices : Delete(S)
    BY <1>9 DEF CleanupRun
  <2>2. K8sOK'
    BY <1>0, <2>1 DEF Delete, K8sOK, JobState
  <2>3. SiteOK'
    BY <1>0, <1>9 DEF CleanupRun, SiteOK
  <2> QED BY <1>0, <1>9, <2>2, <2>3 DEF CleanupRun, actVars
<1>10. CASE FinishCanceled
  BY <1>0, <1>10 DEF FinishCanceled, SetRunStatus, RunStatus, Rest
<1>11. CASE CancelRun
  <2>1. WfOK'
    BY <1>0, <1>11 DEF CancelRun, WfOK, Stage, Activity, Script
  <2> QED BY <1>0, <1>11, <2>1 DEF CancelRun, Rest
<1>12. CASE LateWrite
  <2>1. WfOK'
    BY <1>0, <1>12 DEF LateWrite, SetRunStatus, WfOK, Stage, Activity, Script, RunStatus
  <2> QED BY <1>0, <1>12, <2>1 DEF LateWrite, Rest
<1> QED BY <1>1, <1>2, <1>3, <1>4, <1>5, <1>6, <1>7, <1>8, <1>9, <1>10, <1>11,
           <1>12 DEF Workflow

\* What Temporal does with an attempt keeps the types of its variables.
LEMMA StartTypes ==
  ASSUME ActOK, ExOK, NEW s \in Slices, n[s] < MaxAttempts, StartAttempt(s)
  PROVE  ActOK' /\ ExOK'
<1>1. n[s] + 1 \in Attempts /\ FirstStep(s) \in Working
  BY ConstantsAssumption DEF FirstStep, Working, ActOK, Attempts
<1>2. n' \in [Slices -> 0..MaxAttempts]
  BY <1>1 DEF StartAttempt, ActOK, Attempts
<1>3. hub' \in [Slices -> {"none", "dispatch", "await"}] /\ out' = out
  BY DEF StartAttempt, ActOK
<1>4. ex' = ex \/ ex' = [ex EXCEPT ![s][n[s] + 1] = FirstStep(s)]
  BY DEF StartAttempt
<1>5. ExOK'
  BY <1>1, <1>4 DEF ExOK
<1> QED BY <1>2, <1>3, <1>5 DEF ActOK

\* Settling an activity with a result keeps the types.
LEMMA SettleTypes ==
  ASSUME ActOK, ExOK, NEW s \in Slices, NEW r \in Result, Settle(s, r)
  PROVE  ActOK' /\ ExOK'
BY DEF Settle, ActOK, ExOK

\* Starting the next attempt, or settling after the last, keeps the types.
LEMMA RetryTypes ==
  ASSUME ActOK, ExOK, NEW s \in Slices, Retry(s)
  PROVE  ActOK' /\ ExOK'
<1>1. "error" \in Result
  BY DEF Result
<1> QED BY <1>1, StartTypes, SettleTypes DEF Retry

\* The activity of a slice keeps the types.
LEMMA ExecuteTypes ==
  ASSUME TypeOK, NEW s \in Slices,
         Execute(s) \/ Refuse(s) \/ AttemptTimesOut(s) \/ DispatchLate(s)
  PROVE  TypeOK'
<1> USE Split, SplitNext, WfSame, ActSame, ExSame, K8sSame, SiteSame, RetryTypes,
        SettleTypes, StartTypes
<1>0. WfOK /\ ActOK /\ ExOK /\ K8sOK /\ SiteOK
  OBVIOUS
<1>1. CASE ScheduleExecute(s)
  BY <1>0, <1>1, ConstantsAssumption DEF ScheduleExecute
<1>2. CASE AttemptEnds(s)
  BY <1>0, <1>2 DEF AttemptEnds, Result
<1>3. CASE Refuse(s)
  <2>1. ExOK'
    BY <1>0, <1>3, ConstantsAssumption DEF Refuse, Ended, ExOK, Attempts
  <2>2. ActOK'
    BY <1>0, <1>3 DEF Refuse, Result, ActOK
  <2> QED BY <1>0, <1>3, <2>1, <2>2 DEF Refuse
<1>4. CASE AttemptTimesOut(s)
  BY <1>0, <1>4 DEF AttemptTimesOut
<1>5. CASE Dispatch(s)
  <2>1. SiteOK'
    BY <1>0, <1>5, ConstantsAssumption DEF Dispatch, SiteOK
  <2>2. ActOK' /\ ExOK'
    <3>1. CASE Retry(s)
      BY <1>0, <3>1
    <3>2. CASE hub' = [hub EXCEPT ![s] = "await"] /\ UNCHANGED <<n, out, ex>>
      BY <1>0, <3>2 DEF ActOK, ExOK
    <3> QED BY <1>5, <3>1, <3>2 DEF Dispatch
  <2> QED BY <1>0, <1>5, <2>1, <2>2 DEF Dispatch
<1>6. CASE AwaitResult(s)
  <2>1. reply[s] \in Result
    BY <1>0 DEF SiteOK
  <2> QED BY <1>0, <1>6, <2>1 DEF AwaitResult
<1>7. CASE DispatchLate(s)
  <2>1. SiteOK' /\ ActOK' /\ ExOK'
    BY <1>0, <1>7, ConstantsAssumption DEF DispatchLate, SiteOK, ActOK, ExOK
  <2> QED BY <1>0, <1>7, <2>1 DEF DispatchLate
<1> QED BY <1>1, <1>2, <1>3, <1>4, <1>5, <1>6, <1>7 DEF Execute

\* An execution of Dispatcher.Run keeps the types.
LEMMA DispatcherTypes ==
  ASSUME TypeOK, NEW s \in Slices, NEW k \in Attempts,
         Dispatcher(s, k) \/ AbandonedEnds(s, k)
  PROVE  TypeOK'
<1> USE Split, SplitNext, WfSame, ActSame, SiteSame
<1>0. WfOK /\ ActOK /\ ExOK /\ K8sOK /\ SiteOK
  OBVIOUS
<1>1. /\ \E p \in Working \cup Ended : ex' = [ex EXCEPT ![s][k] = p]
      /\ content' \subseteq Slices
      /\ job' = job \/ job' = [job EXCEPT ![s] = "pending"]
      /\ exits' = exits \/ \E r \in {"ok", "bad", "error"} :
                             exits' = [exits EXCEPT ![s] = @ \cup {r}]
      /\ UNCHANGED <<started, gone, wfVars, actVars, siteVars>>
  BY <1>0 DEF Dispatcher, AbandonedEnds, createContent, createJob, waitForPod,
     waitForJob, ApplyRaw, Step, End, Working, Ended, K8sOK
<1>2. ExOK'
  BY <1>0, <1>1 DEF ExOK
<1>3. K8sOK'
  BY <1>0, <1>1 DEF K8sOK, JobState
<1> QED BY <1>0, <1>1, <1>2, <1>3

\* The cluster and the Site keep the types.
LEMMA WorldTypes ==
  ASSUME TypeOK, Handled,
         \/ CancelAtSite
         \/ \E s \in Slices : Kubernetes(s) \/ JobExpires(s)
         \/ \E s \in Remote : Site(s) \/ AgentCrashes(s)
  PROVE  TypeOK'
<1> USE Split, SplitNext, WfSame, ActSame, ExSame, K8sSame, SiteSame, ConstantsAssumption
<1>0. WfOK /\ ActOK /\ ExOK /\ K8sOK /\ SiteOK
  OBVIOUS
<1>1. CASE CancelAtSite
  <2>1. Remote \in SUBSET Slices /\ SiteOK'
    BY <1>0, <1>1 DEF CancelAtSite, SiteOK
  <2>2. K8sOK'
    BY <1>0, <1>1, <2>1 DEF CancelAtSite, Delete, K8sOK, k8sVars, JobState
  <2> QED BY <1>0, <1>1, <2>1, <2>2 DEF CancelAtSite
<1>2. ASSUME NEW s \in Slices, Kubernetes(s) \/ JobExpires(s) PROVE TypeOK'
  <2>1. K8sOK'
    BY <1>0, <1>2 DEF Kubernetes, JobExpires, PodStarts, PodExits, JobDeadline, K8sOK,
       JobState
  <2> QED BY <1>0, <1>2, <2>1 DEF Kubernetes, JobExpires, PodStarts, PodExits, JobDeadline
<1>3. ASSUME NEW s \in Remote, Deliver(s) PROVE TypeOK'
  <2>1. s \in Slices /\ tries[s] + 1 \in Attempts
    BY <1>0, <1>3 DEF Deliver, SiteOK, Attempts
  <2>2. SiteOK'
    BY <1>0, <1>3, <2>1 DEF Deliver, SiteOK, Result, Attempts
  <2>3. ExOK'
    BY <1>0, <1>3, <2>1 DEF Deliver, ExOK, Working
  <2> QED BY <1>0, <1>3, <2>2, <2>3 DEF Deliver
<1>4. ASSUME NEW s \in Remote, HandlerEnds(s) PROVE TypeOK'
  <2>1. SiteOK'
    <3>1. UNCHANGED <<tries, stop>> /\ agent' = Nobody /\ s \in Slices
      BY <1>4 DEF HandlerEnds
    <3>2. reply' \in [Slices -> Result]
      BY <1>0, <1>4, <3>1 DEF HandlerEnds, SiteOK, Result
    <3>3. queue' \in [Slices -> 0..MaxAttempts]
      <4>1. queue[s] \in 1..MaxAttempts
        BY <1>0, <1>4, <3>1 DEF HandlerEnds, Handled, SiteOK, Nobody
      <4> QED BY <1>0, <1>4, <3>1, <4>1 DEF HandlerEnds, SiteOK
    <3> QED BY <1>0, <3>1, <3>2, <3>3 DEF SiteOK
  <2> QED BY <1>0, <1>4, <2>1 DEF HandlerEnds
<1>5. ASSUME NEW s \in Remote, AgentCrashes(s) PROVE TypeOK'
  <2>1. SiteOK'
    BY <1>0, <1>5 DEF AgentCrashes, SiteOK
  <2>2. ExOK'
    BY <1>0, <1>5 DEF AgentCrashes, Step, Ended, ExOK
  <2> QED BY <1>0, <1>5, <2>1, <2>2 DEF AgentCrashes
<1> QED BY <1>1, <1>2, <1>3, <1>4, <1>5 DEF Site

\* Every step keeps the types.
LEMMA StepTypes == TypeOK /\ Handled /\ [Next]_vars => TypeOK' /\ Handled'
<1> SUFFICES ASSUME TypeOK, Handled, [Next]_vars PROVE TypeOK' /\ Handled'
  OBVIOUS
<1>1. CASE UNCHANGED vars
  <2>1. UNCHANGED <<wfVars, actVars, ex, k8sVars, siteVars>>
    BY <1>1 DEF vars
  <2>2. TypeOK'
    BY <2>1, Split, SplitNext, WfSame, ActSame, ExSame, K8sSame, SiteSame
  <2> QED BY <2>1, <2>2 DEF Handled, siteVars, Nobody
<1>2. CASE Next
  <2>1. TypeOK'
    BY <1>2, <1>1, WorkflowTypes, ExecuteTypes, DispatcherTypes, WorldTypes DEF Next, Quiet
  <2>2. CASE UNCHANGED <<agent, queue, tries>>
    BY <2>1, <2>2 DEF Handled, Nobody
  <2>3. ASSUME NEW s \in Slices, Dispatch(s) \/ DispatchLate(s) PROVE Handled'
    BY <2>3, Split, ConstantsAssumption DEF Dispatch, DispatchLate, Handled, SiteOK, Nobody
  <2>4. ASSUME NEW s \in Remote, Site(s) \/ AgentCrashes(s) PROVE Handled'
    <3>1. agent' = Nobody \/ (agent' = s /\ queue[s] # 0 /\ UNCHANGED queue /\ tries'[s] # 0)
      BY <2>4, Split, ConstantsAssumption DEF Site, Deliver, HandlerEnds, AgentCrashes, SiteOK
    <3> QED BY <3>1 DEF Handled, Nobody
  <2>5. CASE Workflow \/ CancelRun \/ LateWrite \/ CancelAtSite
    <3>1. UNCHANGED <<agent, queue, tries>>
      BY <2>5 DEF Workflow, CancelRun, LateWrite, CancelAtSite, LaunchRun, EnsureRun,
         PlainActivity, MarkRunning, ExecuteSettles, FinishRun, finishRun, Canceled,
         CleanupRun, FinishCanceled, Rest, siteVars
    <3> QED BY <2>2, <3>1
  <2>6. ASSUME NEW s \in Slices,
               \/ ScheduleExecute(s) \/ AttemptEnds(s) \/ AwaitResult(s) \/ Refuse(s)
               \/ AttemptTimesOut(s) \/ Kubernetes(s) \/ JobExpires(s)
        PROVE  Handled'
    BY <2>2, <2>6 DEF ScheduleExecute, AttemptEnds, AwaitResult, Refuse, AttemptTimesOut,
       Kubernetes, PodStarts, PodExits, JobDeadline, JobExpires, siteVars
  <2>7. ASSUME NEW s \in Slices, NEW k \in Attempts, Dispatcher(s, k) \/ AbandonedEnds(s, k)
        PROVE  Handled'
    BY <2>2, <2>7 DEF Dispatcher, AbandonedEnds, createContent, createJob, waitForPod,
       waitForJob, ApplyRaw, siteVars
  <2>8. CASE Quiet
    BY <2>2, <2>8 DEF Quiet, vars, siteVars
  <2> QED BY <1>2, <2>1, <2>3, <2>4, <2>5, <2>6, <2>7, <2>8 DEF Next, Execute
<1> QED BY <1>1, <1>2

\* They hold of a Run at the door.
LEMMA InitTypes == Init => TypeOK /\ Handled
<1>1. ASSUME Init PROVE TypeOK /\ Handled
  <2>1. flow \in {"view", "action"} /\ slices \subseteq Slices
    BY <1>1, ConstantsAssumption DEF Init
  <2>2. WfOK
    BY <1>1, <2>1 DEF Init, WfOK, Stage, RunStatus
  <2>3. ActOK /\ ExOK
    BY <1>1, ConstantsAssumption DEF Init, ActOK, ExOK, Result
  <2>4. K8sOK
    BY <1>1 DEF Init, K8sOK, JobState
  <2>5. 0 \in 0..MaxAttempts
    BY ConstantsAssumption
  <2>6. SiteOK /\ Handled
    BY <1>1, <2>5 DEF Init, SiteOK, Handled, Result
  <2> QED BY <2>2, <2>3, <2>4, <2>6, Split
<1> QED BY <1>1

\* Type correctness of the Run, its attempts, the cluster and the Site, for
\* any slices, number of attempts and faults.
THEOREM TypesHold == Spec => []TypeOK
BY InitTypes, StepTypes, PTL DEF Spec

-----------------------------------------------------------------------------
\* Wherever an "ok" travels, a tool of that slice ended well: from the Job to
\* the execution that followed it, to the Site's reply, to the activity's
\* result, and from all of them to the row.
Traced ==
  /\ \A s \in Slices :
       /\ job[s] = "ok" \/ out[s] = "ok" \/ reply[s] = "ok" => "ok" \in exits[s]
       /\ \A k \in Attempts : ex[s][k] = "ok" => "ok" \in exits[s]
  /\ row = "succeeded" \/ late = "succeeded" \/ ret = "ok" =>
       \A s \in slices : "ok" \in exits[s]

\* An action that takes no slice closer to "ok" and leaves the row alone, or
\* makes it green over green slices, keeps the trace.
LEMMA TraceKept ==
  ASSUME TypeOK, Traced, UNCHANGED <<slices, out, reply, ex, exits>>,
         \A s \in Slices : job'[s] = "ok" => job[s] = "ok",
         \/ Merged = "succeeded"
         \/ /\ row' = "succeeded" => row = "succeeded" \/ late = "succeeded"
            /\ late' = "succeeded" => late = "succeeded"
            /\ ret' = "ok" => ret = "ok"
  PROVE  Traced'
<1>1. Merged = "succeeded" => \A s \in slices : "ok" \in exits[s]
  BY DEF Merged, Traced, TypeOK
<1> QED BY <1>1 DEF Traced

\* The workflow writes a green row only over green results.
LEMMA WorkflowTraced ==
  ASSUME TypeOK, Traced, Workflow \/ CancelRun \/ LateWrite \/ CancelAtSite
  PROVE  Traced'
<1> USE TraceKept DEF Rest, Goto, SetRunStatus, actVars, k8sVars, siteVars, wfVars
<1>1. CASE LaunchRun \/ EnsureRun
  BY <1>1 DEF LaunchRun, EnsureRun
<1>2. CASE PlainActivity \/ ExecuteSettles \/ CancelRun
  BY <1>2 DEF PlainActivity, ExecuteSettles, CancelRun
<1>3. CASE MarkRunning \/ finishRun \/ FinishCanceled
  BY <1>3 DEF MarkRunning, finishRun, Return, FinishCanceled
<1>4. CASE FinishRun
  <2>1. Merged \in {"succeeded", "failed"}
    BY DEF Merged
  <2> QED BY <1>4, <2>1 DEF FinishRun, Return
<1>5. CASE Canceled
  <2>1. Writes = "succeeded" => Merged = "succeeded"
    BY DEF Writes
  <2> QED BY <1>5, <2>1 DEF Canceled
<1>6. CASE CleanupRun
  <2>1. PICK S : Delete(S)
    BY <1>6 DEF CleanupRun
  <2> QED BY <1>6, <2>1 DEF CleanupRun, Delete
<1>7. CASE LateWrite
  BY <1>7 DEF LateWrite
<1>8. CASE CancelAtSite
  BY <1>8 DEF CancelAtSite, Delete
<1> QED BY <1>1, <1>2, <1>3, <1>4, <1>5, <1>6, <1>7, <1>8 DEF Workflow

\* Starting, retrying and settling attempts adds an "ok" only when one of the
\* executions or the Site has it.
LEMMA RetryTraced ==
  ASSUME TypeOK, Traced, NEW s \in Slices, Retry(s) \/ (n[s] = 0 /\ StartAttempt(s)),
         UNCHANGED <<wfVars, k8sVars, reply>>
  PROVE  Traced'
<1>1. \A t \in Slices : out'[t] = "ok" => out[t] = "ok"
  BY DEF Retry, StartAttempt, Settle, TypeOK, Result
<1>2. \A t \in Slices, k \in Attempts : ex'[t][k] = "ok" => ex[t][k] = "ok"
  <2>1. ex' = ex \/ ex' = [ex EXCEPT ![s][n[s] + 1] = FirstStep(s)]
    BY DEF Retry, StartAttempt, Settle
  <2>2. FirstStep(s) # "ok"
    BY DEF FirstStep
  <2> QED BY <2>1, <2>2 DEF TypeOK
<1> QED BY <1>1, <1>2 DEF Traced, wfVars, k8sVars

\* A result that some execution stands for keeps the trace.
LEMMA SettleTraced ==
  ASSUME TypeOK, Traced, NEW s \in Slices, NEW r, Settle(s, r),
         r = "ok" => "ok" \in exits[s], UNCHANGED <<wfVars, k8sVars, reply>>
  PROVE  Traced'
BY DEF Traced, Settle, TypeOK, wfVars, k8sVars

LEMMA ExecuteTraced ==
  ASSUME TypeOK, Traced, NEW s \in Slices,
         Execute(s) \/ Refuse(s) \/ AttemptTimesOut(s) \/ DispatchLate(s)
  PROVE  Traced'
<1>1. CASE ScheduleExecute(s) \/ AttemptTimesOut(s)
  BY <1>1, RetryTraced DEF ScheduleExecute, AttemptTimesOut, siteVars
<1>2. CASE AttemptEnds(s)
  <2>1. n[s] \in Attempts /\ UNCHANGED <<wfVars, k8sVars, reply>>
    BY <1>2 DEF AttemptEnds, TypeOK, Attempts, siteVars
  <2>2. CASE Settle(s, ex[s][n[s]])
    BY <2>1, <2>2, SettleTraced DEF Traced
  <2> QED BY <1>2, <2>1, <2>2, RetryTraced DEF AttemptEnds
<1>3. CASE Refuse(s)
  <2>1. \A t \in Slices : out'[t] = "ok" => out[t] = "ok"
    BY <1>3 DEF Refuse, TypeOK
  <2>2. \A t \in Slices, k \in Attempts : ex'[t][k] = "ok" => ex[t][k] = "ok"
    BY <1>3 DEF Refuse, TypeOK
  <2> QED BY <1>3, <2>1, <2>2 DEF Refuse, Traced, wfVars, k8sVars, siteVars
<1>4. CASE Dispatch(s)
  <2>1. UNCHANGED <<wfVars, k8sVars, reply>>
    BY <1>4 DEF Dispatch
  <2>2. CASE UNCHANGED <<n, out, ex>>
    BY <2>1, <2>2 DEF Traced, wfVars, k8sVars
  <2> QED BY <1>4, <2>1, <2>2, RetryTraced DEF Dispatch
<1>5. CASE AwaitResult(s)
  <2>1. UNCHANGED <<wfVars, k8sVars, reply>> /\ (reply[s] = "ok" => "ok" \in exits[s])
    BY <1>5 DEF AwaitResult, siteVars, Traced
  <2> QED BY <1>5, <2>1, RetryTraced, SettleTraced DEF AwaitResult
<1>6. CASE DispatchLate(s)
  BY <1>6 DEF DispatchLate, Traced, wfVars, k8sVars
<1> QED BY <1>1, <1>2, <1>3, <1>4, <1>5, <1>6 DEF Execute

LEMMA DispatcherTraced ==
  ASSUME TypeOK, Traced, NEW s \in Slices, NEW k \in Attempts,
         Dispatcher(s, k) \/ AbandonedEnds(s, k)
  PROVE  Traced'
<1>1. /\ UNCHANGED <<wfVars, out, reply>>
      /\ \A t \in Slices : job'[t] = "ok" => job[t] = "ok"
      /\ \A t \in Slices : exits[t] \subseteq exits'[t]
  <2>1. CASE ApplyRaw(s, k)
    BY <2>1 DEF ApplyRaw, TypeOK, actVars, siteVars
  <2>2. CASE createJob(s, k)
    BY <2>2 DEF createJob, TypeOK, actVars, siteVars
  <2>3. CASE createContent(s, k) \/ waitForPod(s, k)
    BY <2>3 DEF createContent, waitForPod, actVars, siteVars
  <2>4. CASE waitForJob(s, k) \/ AbandonedEnds(s, k)
    BY <2>4 DEF waitForJob, AbandonedEnds, actVars, siteVars
  <2> QED BY <2>1, <2>2, <2>3, <2>4 DEF Dispatcher
<1>2. \A r : Step(s, k, r) /\ (r = "ok" => "ok" \in exits'[s]) =>
        \A t \in Slices, j \in Attempts : ex'[t][j] = "ok" => "ok" \in exits'[t]
  BY <1>1 DEF Step, Traced, TypeOK
<1>3. \A t \in Slices, j \in Attempts : ex'[t][j] = "ok" => "ok" \in exits'[t]
  <2>1. CASE ApplyRaw(s, k)
    BY <2>1, <1>2 DEF ApplyRaw, TypeOK
  <2>2. CASE waitForJob(s, k)
    BY <2>2, <1>2 DEF waitForJob, End, Traced
  <2>3. CASE createContent(s, k) \/ createJob(s, k) \/ waitForPod(s, k) \/ AbandonedEnds(s, k)
    BY <2>3, <1>2 DEF createContent, createJob, waitForPod, AbandonedEnds, End
  <2> QED BY <2>1, <2>2, <2>3 DEF Dispatcher
<1>4. slices \subseteq Slices
  BY DEF TypeOK
<1> QED BY <1>1, <1>3, <1>4 DEF Traced, wfVars

LEMMA WorldTraced ==
  ASSUME TypeOK, Handled, Traced,
         \/ \E s \in Slices : Kubernetes(s) \/ JobExpires(s)
         \/ \E s \in Remote : Site(s) \/ AgentCrashes(s)
  PROVE  Traced'
<1>1. ASSUME NEW s \in Slices, Kubernetes(s) \/ JobExpires(s) PROVE Traced'
  <2>1. /\ UNCHANGED <<wfVars, out, reply, ex>>
        /\ \A t \in Slices : exits[t] \subseteq exits'[t]
        /\ \A t \in Slices : job'[t] = "ok" => job[t] = "ok" \/ "ok" \in exits'[t]
    <3>1. CASE PodStarts(s) \/ JobExpires(s)
      BY <3>1 DEF PodStarts, JobExpires, TypeOK, actVars, siteVars
    <3>2. CASE PodExits(s)
      BY <3>2 DEF PodExits, TypeOK, actVars, siteVars
    <3>3. CASE JobDeadline(s)
      BY <3>3 DEF JobDeadline, TypeOK, actVars, siteVars
    <3> QED BY <1>1, <3>1, <3>2, <3>3 DEF Kubernetes
  <2>2. slices \subseteq Slices
    BY DEF TypeOK
  <2> QED BY <2>1, <2>2 DEF Traced, wfVars
<1>2. ASSUME NEW s \in Remote, Site(s) \/ AgentCrashes(s) PROVE Traced'
  <2>1. s \in Slices
    BY ConstantsAssumption
  <2>2. UNCHANGED <<wfVars, out, k8sVars>>
    BY <1>2 DEF Site, Deliver, HandlerEnds, AgentCrashes, actVars
  <2>3. \A t \in Slices, k \in Attempts : ex'[t][k] = "ok" => ex[t][k] = "ok"
    BY <1>2, <2>1 DEF Site, Deliver, HandlerEnds, AgentCrashes, Step, TypeOK
  <2>4. \A t \in Slices : reply'[t] = "ok" => "ok" \in exits[t]
    <3>1. CASE HandlerEnds(s)
      <4>1. agent = s /\ s # Nobody
        BY <2>1, <3>1, ConstantsAssumption DEF HandlerEnds, Nobody
      <4>2. ex[s][tries[s]] = "ok" => "ok" \in exits[s]
        <5>1. tries[s] \in Attempts
          BY <2>1, <4>1 DEF TypeOK, Attempts, Handled
        <5> QED BY <2>1, <5>1 DEF Traced
      <4>3. \A t \in Slices : reply'[t] = "ok" => reply[t] = "ok" \/ (t = s /\ ex[s][tries[s]] = "ok")
        BY <2>1, <3>1 DEF HandlerEnds, TypeOK
      <4> QED BY <4>2, <4>3 DEF Traced
    <3>2. CASE Deliver(s) \/ AgentCrashes(s)
      BY <2>1, <3>2 DEF Deliver, AgentCrashes, TypeOK, Traced
    <3> QED BY <1>2, <3>1, <3>2 DEF Site
  <2> QED BY <2>2, <2>3, <2>4 DEF Traced, wfVars, k8sVars
<1> QED BY <1>1, <1>2

\* A green Run is honest whatever was retried, abandoned, redelivered or
\* written late: GreenRunIsHonest holds for any fan-out and any faults.
THEOREM GreenIsTraced == Spec => []GreenRunIsHonest
<1>1. Init => TypeOK /\ Handled
  BY InitTypes
<1>2. Init => Traced
  BY DEF Init, Traced
<1>3. TypeOK /\ Handled /\ Traced /\ [Next]_vars => Traced'
  <2> SUFFICES ASSUME TypeOK, Handled, Traced, [Next]_vars PROVE Traced'
    OBVIOUS
  <2>1. CASE UNCHANGED vars
    BY <2>1 DEF vars, wfVars, actVars, k8sVars, siteVars, Traced
  <2> QED BY <2>1, WorkflowTraced, ExecuteTraced, DispatcherTraced, WorldTraced
          DEF Next, Quiet
<1>4. Traced => GreenRunIsHonest
  BY DEF Traced, GreenRunIsHonest
<1> QED BY <1>1, <1>2, <1>3, <1>4, StepTypes, PTL DEF Spec

-----------------------------------------------------------------------------
\* A Job that was never deleted and never expired has started its tool at most
\* once, and not at all while it is absent or pending.
Once ==
  \A s \in Slices \ Port : s \notin gone =>
    started[s] <= 1 /\ (job[s] \in {"none", "pending"} => started[s] = 0)

\* Adopting the Job of an earlier attempt is what makes the tool run once:
\* ToolRunsOnce holds for any number of attempts, zombies and deliveries.
THEOREM ToolStartsOnce == Spec => []ToolRunsOnce
<1>1. Init => TypeOK /\ Handled
  BY InitTypes
<1>2. Init => Once
  BY DEF Init, Once
<1>3. TypeOK /\ Handled /\ Once /\ [Next]_vars => Once'
  <2> SUFFICES ASSUME TypeOK, Handled, Once, [Next]_vars PROVE Once'
    OBVIOUS
  <2>0. CASE UNCHANGED <<job, started, gone>>
    BY <2>0 DEF Once
  <2>1. CASE UNCHANGED vars
    BY <2>0, <2>1 DEF vars, k8sVars
  <2>2. ASSUME NEW S, Delete(S) PROVE Once'
    BY <2>2 DEF Delete, Once, TypeOK
  <2>3. CASE Workflow \/ CancelRun \/ LateWrite \/ CancelAtSite
    BY <2>0, <2>2, <2>3 DEF Workflow, LaunchRun, EnsureRun, PlainActivity, MarkRunning,
       ExecuteSettles, FinishRun, finishRun, Canceled, CleanupRun, FinishCanceled,
       CancelRun, LateWrite, CancelAtSite, Rest, k8sVars
  <2>4. ASSUME NEW s \in Slices,
               Execute(s) \/ Refuse(s) \/ AttemptTimesOut(s) \/ DispatchLate(s)
        PROVE  Once'
    BY <2>0, <2>4 DEF Execute, ScheduleExecute, AttemptEnds, Dispatch, AwaitResult,
       Refuse, AttemptTimesOut, DispatchLate, k8sVars
  <2>5. ASSUME NEW s \in Slices, NEW k \in Attempts, Dispatcher(s, k) \/ AbandonedEnds(s, k)
        PROVE  Once'
    <3>1. CASE createJob(s, k)
      BY <3>1 DEF createJob, Once, TypeOK
    <3> QED BY <2>0, <2>5, <3>1 DEF Dispatcher, createContent, waitForPod, waitForJob,
            ApplyRaw, AbandonedEnds, k8sVars
  <2>6. ASSUME NEW s \in Slices, Kubernetes(s) \/ JobExpires(s) PROVE Once'
    <3>1. CASE PodStarts(s)
      BY <3>1 DEF PodStarts, Once, TypeOK
    <3>2. CASE PodExits(s) \/ JobDeadline(s) \/ JobExpires(s)
      BY <3>2 DEF PodExits, JobDeadline, JobExpires, Once, TypeOK, Live
    <3> QED BY <2>6, <3>1, <3>2 DEF Kubernetes
  <2>7. ASSUME NEW s \in Remote, Site(s) \/ AgentCrashes(s) PROVE Once'
    BY <2>0, <2>7 DEF Site, Deliver, HandlerEnds, AgentCrashes, k8sVars
  <2> QED BY <2>1, <2>3, <2>4, <2>5, <2>6, <2>7 DEF Next, Quiet
<1>4. TypeOK /\ Once => ToolRunsOnce
  BY DEF Once, ToolRunsOnce, TypeOK
<1> QED BY <1>1, <1>2, <1>3, <1>4, StepTypes, PTL DEF Spec
=============================================================================
