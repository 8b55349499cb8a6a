------------------------------ MODULE ViewRun ------------------------------
(***************************************************************************)
(* One Run of the core: the Temporal workflows RunAgainstView (an Actuator *)
(* against the members of a View) and RunAction (one connector Action),    *)
(* from the door that launches it to its terminal row.                     *)
(*                                                                         *)
(* The workflow walks a script of activities.  Its fan-out starts one      *)
(* Execute activity per slice; Temporal retries an attempt that failed or  *)
(* fell silent, and the silent attempt may still be running.  An attempt   *)
(* drives the Dispatcher (a ConfigMap with the content, a Kubernetes Job   *)
(* named after the Run and the slice), calls a plugin over the port, or    *)
(* publishes a dispatch message to a Site, whose agent drives a Dispatcher *)
(* of its own and publishes the result.                                    *)
(*                                                                         *)
(* A cancel makes the workflow leave its script, delete the Jobs, tell the *)
(* Sites and stamp the row.                                                *)
(***************************************************************************)
EXTENDS Naturals, FiniteSets

CONSTANTS
  Slices,       \* the slices a View may be split into
  Remote,       \* the slices whose targets live at the Site
  Port,         \* the slices whose Actuator is a plugin called over the port
  Launches,     \* what may be launched: a flow and the slices it fans out to
  MaxAttempts,  \* attempts of an activity, and deliveries of a message
  Faults        \* which of the faults below occur

\* "store"  an activity or an API call exhausts its attempts
\* "stall"  an attempt falls silent, and may go on as a zombie
\* "late"   an activity abandoned by a cancel still writes the row
\* "agent"  the Site's agent crashes, a core NATS message is lost
\* "dup"    a dispatch is published again after the stream's dedup window
\* "ttl"    a finished Job expires while somebody may still ask for it
FaultNames == {"store", "stall", "late", "agent", "dup", "ttl"}

ASSUME ConstantsAssumption ==
  /\ "nobody" \notin Slices
  /\ Remote \subseteq Slices /\ Port \subseteq Slices \ Remote
  /\ \A l \in Launches :
       \/ l.flow = "view" /\ l.slices \subseteq Slices
       \/ l.flow = "action" /\ \E s \in Slices \ Remote : l.slices = {s}
  /\ MaxAttempts \in Nat \ {0}
  /\ Faults \subseteq FaultNames

VARIABLES
  flow,      \* "view" (RunAgainstView) or "action" (RunAction)
  pc,        \* the activity the workflow is blocked in, or a handler's stage
  cancel,    \* a cancel was requested
  slices,    \* the slices of the fan-out
  row,       \* graph.run.status
  note,      \* the row says that a Job could not be deleted
  ret,       \* what the workflow returned to its parent
  late,      \* the status an abandoned activity may still write
  n,         \* the current attempt of each slice's Execute
  hub,       \* a remote slice's attempt: publishing or awaiting
  out,       \* the settled result of each slice's Execute
  ex,        \* the pc of each execution of Dispatcher.Run, by attempt
  job,       \* the Kubernetes Job of each slice
  content,   \* the slices whose ConfigMap exists
  started,   \* history: how often the slice's tool was started
  exits,     \* history: the outcomes the slice's tool ended with
  gone,      \* history: the slices whose Job was deleted or expired
  queue,     \* unacknowledged dispatch messages of each remote slice
  tries,     \* deliveries of them so far
  agent,     \* the slice the Site's agent is handling
  reply,     \* the first result published for each remote slice
  stop       \* a cancel message is on its way to the Site

wfVars   == <<flow, pc, cancel, slices, row, note, ret, late>>
actVars  == <<n, hub, out>>
k8sVars  == <<job, content, started, exits, gone>>
siteVars == <<queue, tries, agent, reply, stop>>
vars     == <<wfVars, actVars, ex, k8sVars, siteVars>>

Attempts == 1..MaxAttempts
Nobody   == "nobody"

RunStatus == {"none", "pending", "running", "succeeded", "failed", "canceled"}
Result    == {"none", "ok", "bad", "error"}

\* Where Dispatcher.Run is: creating content, creating the Job, waiting for
\* the Pod, following it to the end; "applying" is a call over the port.
Working == {"content", "job", "pod", "wait", "applying"}
Ended   == {"ok", "bad", "error", "dead"}

\* A Job past its deadline has failed, and its Pod was deleted: "overdue".
JobState == {"none", "pending", "active", "ok", "failed", "overdue"}
Live     == {"pending", "active"}

\* The activities of the two workflows, each with the one that follows it.
ViewScript ==
  [CheckExecutionGrant |-> "ResolveTargetsBySite",
   ResolveTargetsBySite |-> "MarkRunning", MarkRunning |-> "ResolveCredentials",
   ResolveCredentials |-> "Execute", Execute |-> "CollectFacts",
   CollectFacts |-> "ProjectFacts", ProjectFacts |-> "FinishRun",
   FinishRun |-> "closed"]

ActionScript ==
  [MarkRunning |-> "ResolveCredentials", ResolveCredentials |-> "Execute",
   Execute |-> "ValidateActionOutputs",
   ValidateActionOutputs |-> "RecordActionResult",
   RecordActionResult |-> "FinishRun", FinishRun |-> "closed"]

Script == IF flow = "view" THEN ViewScript ELSE ActionScript
FirstActivity(f) == IF f = "view" THEN "CheckExecutionGrant" ELSE "MarkRunning"

\* Activities that read or project and leave the Run's own row alone.
Plain == {"CheckExecutionGrant", "ResolveTargetsBySite", "ResolveCredentials",
          "CollectFacts", "ProjectFacts", "ValidateActionOutputs",
          "RecordActionResult"}
Activity == DOMAIN Script
Stage == Activity \cup {"door", "ensure", "fail", "cleanup", "stamp", "closed"}

\* A door created by a launch (LaunchRun) or by a parent workflow (EnsureRun).
Init ==
  /\ \E l \in Launches : flow = l.flow /\ slices = l.slices
  /\ pc \in {"door", "ensure"}
  /\ cancel = FALSE /\ row = "none" /\ note = FALSE
  /\ ret = "none" /\ late = "none"
  /\ n = [s \in Slices |-> 0] /\ hub = [s \in Slices |-> "none"]
  /\ out = [s \in Slices |-> "none"]
  /\ ex = [s \in Slices |-> [k \in Attempts |-> "none"]]
  /\ job = [s \in Slices |-> "none"] /\ content = {}
  /\ started = [s \in Slices |-> 0] /\ exits = [s \in Slices |-> {}]
  /\ gone = {}
  /\ queue = [s \in Slices |-> 0] /\ tries = [s \in Slices |-> 0]
  /\ agent = Nobody /\ reply = [s \in Slices |-> "none"] /\ stop = FALSE

-----------------------------------------------------------------------------
(* The doors and the script.                                               *)

Goto(stage) == pc' = stage /\ UNCHANGED <<flow, slices, cancel>>
Rest == UNCHANGED <<actVars, ex, k8sVars, siteVars>>

\* Graph.SetRunStatus writes whatever it is given: the row has no guard.
SetRunStatus(status) == row' = status

\* LaunchRun and launchAction: the row, then the start; a start that fails
\* marks the row, and that write may fail as well.
LaunchRun ==
  /\ pc = "door"
  /\ \/ SetRunStatus("pending") /\ Goto(FirstActivity(flow)) /\ ret' = ret
     \/ /\ "store" \in Faults
        /\ \E status \in {"none", "pending", "failed"} : SetRunStatus(status)
        /\ Goto("closed") /\ ret' = "err"
  /\ UNCHANGED <<note, late>> /\ Rest

\* EnsureRun and EnsureActionRun: the row of a Run started by a parent.  A
\* failure or a cancel here returns before the handler has a Run to stamp;
\* the row may have been created by an attempt nobody heard of.
EnsureRun ==
  /\ pc = "ensure"
  /\ \/ SetRunStatus("pending") /\ Goto(FirstActivity(flow)) /\ ret' = ret
     \/ /\ cancel \/ "store" \in Faults
        /\ \E status \in {"none", "pending"} : SetRunStatus(status)
        /\ Goto("closed") /\ ret' = "err"
  /\ UNCHANGED <<note, late>> /\ Rest

\* The grant, the resolution of targets and credentials, the facts: each
\* blocks the workflow and fails the Run when it fails.
PlainActivity ==
  /\ pc \in Plain
  /\ \/ Goto(Script[pc])
     \/ "store" \in Faults /\ Goto("fail")
  /\ UNCHANGED <<row, note, ret, late>> /\ Rest

MarkRunning ==
  /\ pc = "MarkRunning"
  /\ \/ SetRunStatus("running") /\ Goto(Script[pc])
     \/ "store" \in Faults /\ Goto("fail") /\ row' \in {row, "running"}
  /\ UNCHANGED <<note, ret, late>> /\ Rest

\* Mutant: one good slice makes the Run green.
Merged_AnySlice == IF \E s \in slices : out[s] = "ok" THEN "succeeded" ELSE "failed"

\* mergeResults: the Run is green when every slice is.
Merged == IF \A s \in slices : out[s] = "ok" THEN "succeeded" ELSE "failed"

\* All futures are read before the first error is acted on.  An Action whose
\* result is not a success fails the Run at once.
ExecuteSettles ==
  /\ pc = "Execute" /\ \A s \in slices : out[s] # "none"
  /\ IF \/ \E s \in slices : out[s] = "error"
        \/ flow = "action" /\ Merged = "failed"
     THEN Goto("fail") ELSE Goto(Script[pc])
  /\ UNCHANGED <<row, note, ret, late>> /\ Rest

\* The workflow function returns: its deferred handler runs when a cancel was
\* requested by then.
Return == Goto(IF cancel THEN "cleanup" ELSE "closed")

\* FinishRun writes the row first; what follows it (sites, outputs, notice,
\* end of the event stream) may still fail the activity.
FinishRun ==
  /\ pc = "FinishRun" /\ Return
  /\ \/ SetRunStatus(Merged)
        /\ ret' = IF Merged = "succeeded" THEN "ok" ELSE "err"
     \/ "store" \in Faults /\ row' \in {row, Merged} /\ ret' = "err"
  /\ UNCHANGED <<note, late>> /\ Rest

\* finishRun: the failed row of an early return; its error is dropped.
finishRun ==
  /\ pc = "fail" /\ Return /\ ret' = "err"
  /\ \/ SetRunStatus("failed")
     \/ "store" \in Faults /\ row' = row
  /\ UNCHANGED <<note, late>> /\ Rest

-----------------------------------------------------------------------------
(* The cancel.                                                             *)

CancelRun ==
  /\ ~cancel /\ pc \notin {"door", "closed"} /\ cancel' = TRUE
  /\ UNCHANGED <<flow, pc, slices, row, note, ret, late>> /\ Rest

\* What an activity cut short by the cancel would have written.
Writes == CASE pc = "MarkRunning" -> "running" [] pc = "FinishRun" -> Merged
            [] pc = "fail" -> "failed" [] OTHER -> "none"

\* Every blocking call returns on a canceled context; the deferred handler
\* runs.  The activity's attempt is not waited for.
Canceled ==
  /\ cancel /\ pc \in Activity \cup {"fail"} /\ Goto("cleanup")
  /\ late' = IF "late" \in Faults THEN Writes ELSE late
  /\ ret' = "err" /\ UNCHANGED <<row, note>> /\ Rest

\* The abandoned attempt's write arrives.
LateWrite ==
  /\ late # "none" /\ SetRunStatus(late) /\ late' = "none"
  /\ UNCHANGED <<flow, pc, cancel, slices, note, ret>> /\ Rest

Delete(S) ==
  /\ job' = [s \in Slices |-> IF s \in S THEN "none" ELSE job[s]]
  /\ gone' = gone \cup {s \in S : job[s] # "none"}
  /\ UNCHANGED <<content, started, exits>>

\* CleanupRun: DeleteRunJobs at the hub, then the cancel message to the Sites
\* the fan-out touched.  A failure is carried to the row of a View Run; a
\* failure of RunAction's is only logged.
CleanupRun ==
  /\ pc = "cleanup" /\ Goto("stamp")
  /\ \/ /\ Delete(Slices \ Remote) /\ note' = note
        /\ stop' = (stop \/ slices \cap Remote # {})
     \/ /\ "store" \in Faults /\ note' = (flow = "view")
        /\ \E S \in SUBSET (Slices \ Remote) : Delete(S)
        /\ stop' = stop
  /\ UNCHANGED <<row, ret, late, actVars, ex, queue, tries, agent, reply>>

FinishCanceled ==
  /\ pc = "stamp" /\ Goto("closed")
  /\ \/ SetRunStatus("canceled")
     \/ "store" \in Faults /\ row' = row
  /\ UNCHANGED <<note, ret, late>> /\ Rest

-----------------------------------------------------------------------------
(* The Execute activity of a slice, as Temporal runs it at the hub.        *)

Fanned(s) == pc = "Execute" /\ s \in slices /\ out[s] = "none"

FirstStep(s) == IF s \in Port THEN "applying" ELSE "content"

\* An attempt starts: at a Site the gateway will publish, else it works here.
StartAttempt(s) ==
  /\ n' = [n EXCEPT ![s] = @ + 1] /\ UNCHANGED out
  /\ IF s \in Remote
     THEN hub' = [hub EXCEPT ![s] = "dispatch"] /\ UNCHANGED ex
     ELSE ex' = [ex EXCEPT ![s][n[s] + 1] = FirstStep(s)] /\ UNCHANGED hub

Settle(s, r) == out' = [out EXCEPT ![s] = r] /\ UNCHANGED <<n, hub, ex>>

\* Temporal's answer to an attempt that failed: retry, up to MaxAttempts.
Retry(s) == IF n[s] < MaxAttempts THEN StartAttempt(s) ELSE Settle(s, "error")

ScheduleExecute(s) ==
  /\ Fanned(s) /\ n[s] = 0 /\ StartAttempt(s)
  /\ UNCHANGED <<wfVars, k8sVars, siteVars>>

\* The current attempt of a slice executed at the hub has ended.
AttemptEnds(s) ==
  /\ Fanned(s) /\ n[s] > 0 /\ s \notin Remote
  /\ LET r == ex[s][n[s]] IN
       \/ r \in {"ok", "bad"} /\ Settle(s, r)
       \/ r \in {"error", "dead"} /\ Retry(s)
  /\ UNCHANGED <<wfVars, k8sVars, siteVars>>

\* A non-retryable refusal: no such actuator, an ungranted write scope, a
\* spec that must not leave the hub.
Refuse(s) ==
  /\ "store" \in Faults /\ Fanned(s) /\ n[s] = 1
  /\ IF s \in Remote THEN hub[s] = "dispatch" ELSE ex[s][1] = FirstStep(s)
  /\ out' = [out EXCEPT ![s] = "error"]
  /\ ex' = IF s \in Remote THEN ex ELSE [ex EXCEPT ![s][1] = "dead"]
  /\ UNCHANGED <<wfVars, n, hub, k8sVars, siteVars>>

\* Mutant: a dispatch to a Site has no timeout.
AttemptTimesOut_HubOnly(s) ==
  /\ "stall" \in Faults /\ Fanned(s) /\ n[s] > 0 /\ s \notin Remote /\ Retry(s)
  /\ UNCHANGED <<wfVars, k8sVars, siteVars>>

\* A heartbeat or start-to-close timeout.  The attempt is lost to Temporal:
\* its worker is dead, or still works on it.
AttemptTimesOut(s) ==
  /\ "stall" \in Faults /\ Fanned(s) /\ n[s] > 0 /\ Retry(s)
  /\ UNCHANGED <<wfVars, k8sVars, siteVars>>

-----------------------------------------------------------------------------
(* Dispatcher.Run and RunStream, k-th execution for slice s.               *)

Step(s, k, next) == ex' = [ex EXCEPT ![s][k] = next]

\* The attempt is the one Temporal, or the Site's consumer, is waiting for.
Current(s, k) ==
  IF s \in Remote THEN agent = s /\ tries[s] = k ELSE Fanned(s) /\ n[s] = k

\* The deferred cleanupContent runs on every return after createContent.
End(s, k, r) == Step(s, k, r) /\ content' = content \ {s}

createContent(s, k) ==
  /\ ex[s][k] = "content"
  /\ \/ Step(s, k, "job") /\ content' = content \cup {s}
     \/ "store" \in Faults /\ Step(s, k, "error") /\ UNCHANGED content
  /\ UNCHANGED <<wfVars, actVars, job, started, exits, gone, siteVars>>

\* Mutant: an attempt whose Job exists starts it again.
createJob_PerAttempt(s, k) ==
  /\ ex[s][k] = "job" /\ Step(s, k, "pod") /\ job' = [job EXCEPT ![s] = "pending"]
  /\ UNCHANGED <<wfVars, actVars, content, started, exits, gone, siteVars>>

\* The Job has one name per slice: a second create adopts the first Job.
createJob(s, k) ==
  /\ ex[s][k] = "job"
  /\ \/ /\ Step(s, k, "pod") /\ UNCHANGED content
        /\ job' = IF job[s] = "none" THEN [job EXCEPT ![s] = "pending"] ELSE job
     \/ "store" \in Faults /\ End(s, k, "error") /\ UNCHANGED job
  /\ UNCHANGED <<wfVars, actVars, started, exits, gone, siteVars>>

\* A Pod that runs or has ended; one that cannot start; or none, because it was
\* deleted, and the loop goes on.
waitForPod(s, k) ==
  /\ ex[s][k] = "pod"
  /\ \/ job[s] \in {"active", "ok", "failed"} /\ Step(s, k, "wait")
        /\ UNCHANGED content
     \/ job[s] = "pending" /\ End(s, k, "error")
     \/ "store" \in Faults /\ End(s, k, "error")
  /\ UNCHANGED <<wfVars, actVars, job, started, exits, gone, siteVars>>

\* The log is followed to its end, then the Job's verdict is read: a Job that
\* is no longer there is an error.  The governor of a typed stream may turn
\* the exit of an obedient process into a failure, never the reverse.
waitForJob(s, k) ==
  /\ ex[s][k] = "wait"
  /\ \/ job[s] = "ok" /\ \E r \in {"ok", "bad"} : End(s, k, r)
     \/ job[s] \in {"failed", "overdue"} /\ End(s, k, "bad")
     \/ job[s] = "none" /\ End(s, k, "error")
     \/ "store" \in Faults /\ End(s, k, "error")
  /\ UNCHANGED <<wfVars, actVars, job, started, exits, gone, siteVars>>

\* executePlugin and InvokeRaw: the call itself is the execution.
ApplyRaw(s, k) ==
  /\ ex[s][k] = "applying"
  /\ \E r \in {"ok", "bad", "error"} :
       Step(s, k, r) /\ exits' = [exits EXCEPT ![s] = @ \cup {r}]
  /\ UNCHANGED <<wfVars, actVars, job, content, started, gone, siteVars>>

\* An attempt nobody waits for learns it from its next heartbeat, and cleans
\* up, or dies with its worker.
AbandonedEnds(s, k) ==
  /\ ex[s][k] \in Working /\ ~Current(s, k) /\ s \notin Remote
  /\ End(s, k, "dead") \/ (Step(s, k, "dead") /\ UNCHANGED content)
  /\ UNCHANGED <<wfVars, actVars, job, started, exits, gone, siteVars>>

Dispatcher(s, k) ==
  \/ createContent(s, k) \/ createJob(s, k) \/ waitForPod(s, k)
  \/ waitForJob(s, k) \/ ApplyRaw(s, k)

-----------------------------------------------------------------------------
(* The cluster, as the Job that createJob builds makes it behave.          *)

PodStarts(s) ==
  /\ job[s] = "pending" /\ s \in content
  /\ job' = [job EXCEPT ![s] = "active"]
  /\ started' = [started EXCEPT ![s] = @ + 1]
  /\ UNCHANGED <<wfVars, actVars, ex, content, exits, gone, siteVars>>

\* backoffLimit 0: the first exit is the Job's verdict.
PodExits(s) ==
  /\ job[s] = "active"
  /\ \E r \in {"ok", "failed"} :
       /\ job' = [job EXCEPT ![s] = r]
       /\ exits' = [exits EXCEPT ![s] = @ \cup {r}]
  /\ UNCHANGED <<wfVars, actVars, ex, content, started, gone, siteVars>>

\* activeDeadlineSeconds, counted from the Job's creation: the Job fails and
\* Kubernetes deletes the Pod, started or not.
JobDeadline(s) ==
  /\ job[s] \in Live /\ job' = [job EXCEPT ![s] = "overdue"]
  /\ exits' = [exits EXCEPT ![s] = @ \cup {"failed"}]
  /\ UNCHANGED <<wfVars, actVars, ex, content, started, gone, siteVars>>

\* ttlSecondsAfterFinished is an hour: whoever follows the Job has read it, but
\* not who still waits for a Pod that was deleted.
JobExpires(s) ==
  /\ "ttl" \in Faults /\ job[s] \in {"ok", "failed", "overdue"}
  /\ \A k \in Attempts : /\ ex[s][k] # "wait"
                         /\ ex[s][k] = "pod" => job[s] = "overdue"
  /\ job' = [job EXCEPT ![s] = "none"] /\ gone' = gone \cup {s}
  /\ UNCHANGED <<wfVars, actVars, ex, content, started, exits, siteVars>>

-----------------------------------------------------------------------------
(* The gateway and the Site's agent.                                       *)

\* Gateway.Dispatch: the message id is the Run and the slice, so the stream
\* drops a second publish within its dedup window.
Dispatch(s) ==
  /\ Fanned(s) /\ hub[s] = "dispatch"
  /\ \/ /\ hub' = [hub EXCEPT ![s] = "await"] /\ UNCHANGED <<n, out, ex>>
        /\ \/ n[s] = 1 /\ queue' = [queue EXCEPT ![s] = 1]
           \/ n[s] > 1 /\ queue' = queue
           \/ /\ "dup" \in Faults /\ n[s] > 1 /\ queue[s] < MaxAttempts
              /\ queue' = [queue EXCEPT ![s] = @ + 1]
     \/ "store" \in Faults /\ Retry(s) /\ UNCHANGED queue
  /\ UNCHANGED <<wfVars, k8sVars, tries, agent, reply, stop>>

\* The attempt that was publishing when the cancel came publishes after it.
DispatchLate(s) ==
  /\ "late" \in Faults /\ pc \notin Activity /\ hub[s] = "dispatch"
  /\ queue[s] < MaxAttempts /\ queue' = [queue EXCEPT ![s] = @ + 1]
  /\ hub' = [hub EXCEPT ![s] = "await"]
  /\ UNCHANGED <<wfVars, n, out, ex, k8sVars, tries, agent, reply, stop>>

\* Gateway.AwaitResult reads the result subject from its beginning: it gets
\* the first result ever published for this slice.
AwaitResult(s) ==
  /\ Fanned(s) /\ hub[s] = "await"
  /\ \/ reply[s] \in {"ok", "bad"} /\ Settle(s, reply[s])
     \/ reply[s] = "error" /\ Retry(s)
  /\ UNCHANGED <<wfVars, k8sVars, siteVars>>

\* ConsumeDispatch hands the agent one message at a time.  A Site without
\* the interpreter or the credential answers with a terminal error.
Deliver(s) ==
  /\ agent = Nobody /\ queue[s] > 0 /\ tries[s] < MaxAttempts
  /\ tries' = [tries EXCEPT ![s] = @ + 1]
  /\ \/ /\ agent' = s /\ ex' = [ex EXCEPT ![s][tries[s] + 1] = "content"]
        /\ UNCHANGED <<queue, reply>>
     \/ /\ "store" \in Faults /\ reply[s] = "none" /\ tries[s] = 0
        /\ reply' = [reply EXCEPT ![s] = "error"]
        /\ queue' = [queue EXCEPT ![s] = @ - 1] /\ UNCHANGED <<agent, ex>>
  /\ UNCHANGED <<wfVars, actVars, k8sVars, stop>>

\* Mutant: the agent does not finish a dispatch that failed.
HandlerEnds_ErrorUnanswered(s) ==
  /\ agent = s /\ ex[s][tries[s]] \in {"ok", "bad"} /\ agent' = Nobody
  /\ reply' = [reply EXCEPT ![s] = IF @ = "none" THEN ex[s][tries[s]] ELSE @]
  /\ queue' = [queue EXCEPT ![s] = @ - 1]
  /\ UNCHANGED <<wfVars, actVars, ex, k8sVars, tries, stop>>

\* handlePush and handleTyped: a result is published, then the message is
\* acknowledged; an error naks it, and so does a publish that failed.
HandlerEnds(s) ==
  /\ agent = s /\ ex[s][tries[s]] \in {"ok", "bad", "error"}
  /\ agent' = Nobody
  /\ LET r == ex[s][tries[s]]
         First == [reply EXCEPT ![s] = IF @ = "none" THEN r ELSE @]
     IN \/ r # "error" /\ reply' = First /\ queue' = [queue EXCEPT ![s] = @ - 1]
        \/ /\ r # "error" /\ "agent" \in Faults
           /\ reply' \in {First, reply} /\ queue' = queue
        \/ r = "error" /\ UNCHANGED <<reply, queue>>
  /\ UNCHANGED <<wfVars, actVars, ex, k8sVars, tries, stop>>

AgentCrashes(s) ==
  /\ "agent" \in Faults /\ agent = s /\ agent' = Nobody
  /\ Step(s, tries[s], "dead")
  /\ UNCHANGED <<wfVars, actVars, k8sVars, queue, tries, reply, stop>>

\* SubscribeCancel: the agent deletes the Jobs it finds; the message may
\* never arrive.
CancelAtSite ==
  /\ stop /\ stop' = FALSE
  /\ \/ Delete(Remote)
     \/ "agent" \in Faults /\ UNCHANGED k8sVars
  /\ UNCHANGED <<wfVars, actVars, ex, queue, tries, agent, reply>>

-----------------------------------------------------------------------------
Workflow ==
  \/ LaunchRun \/ EnsureRun \/ PlainActivity \/ MarkRunning \/ ExecuteSettles
  \/ FinishRun \/ finishRun \/ Canceled \/ CleanupRun \/ FinishCanceled

Execute(s) ==
  \/ ScheduleExecute(s) \/ AttemptEnds(s) \/ Dispatch(s) \/ AwaitResult(s)

Site(s) == Deliver(s) \/ HandlerEnds(s)

Kubernetes(s) == PodStarts(s) \/ PodExits(s) \/ JobDeadline(s)

\* Everything is over: the workflow has returned and nothing is in flight.
Quiet == pc = "closed" /\ UNCHANGED vars

Next ==
  \/ Workflow \/ CancelRun \/ LateWrite \/ CancelAtSite \/ Quiet
  \/ \E s \in Slices :
       \/ Execute(s) \/ Refuse(s) \/ AttemptTimesOut(s)
       \/ Kubernetes(s) \/ JobExpires(s) \/ DispatchLate(s)
       \/ \E k \in Attempts : Dispatcher(s, k) \/ AbandonedEnds(s, k)
  \/ \E s \in Remote : Site(s) \/ AgentCrashes(s)

Spec == Init /\ [][Next]_vars

\* Temporal drives the workflow, its attempts and their timeouts; Kubernetes
\* drives its Jobs; the agent's process drives its handler.  None of them is
\* ever idle while it has a step to take.
Progress ==
  \/ Workflow \/ CancelAtSite
  \/ \E s \in Slices :
       \/ Execute(s) \/ AttemptTimesOut(s) \/ Kubernetes(s)
       \/ \E k \in Attempts : Dispatcher(s, k)
  \/ \E s \in Remote : Site(s)

FairSpec == Spec /\ WF_vars(Progress)

-----------------------------------------------------------------------------
TypeOK ==
  /\ flow \in {"view", "action"} /\ pc \in Stage /\ cancel \in BOOLEAN
  /\ slices \subseteq Slices /\ row \in RunStatus /\ note \in BOOLEAN
  /\ ret \in {"none", "ok", "err"} /\ late \in RunStatus
  /\ n \in [Slices -> 0..MaxAttempts]
  /\ hub \in [Slices -> {"none", "dispatch", "await"}]
  /\ out \in [Slices -> Result]
  /\ ex \in [Slices -> [Attempts -> {"none"} \cup Working \cup Ended]]
  /\ job \in [Slices -> JobState] /\ content \subseteq Slices
  /\ started \in [Slices -> Nat]
  /\ exits \in [Slices -> SUBSET {"ok", "failed", "bad", "error"}]
  /\ gone \subseteq Slices
  /\ queue \in [Slices -> 0..MaxAttempts] /\ tries \in [Slices -> 0..MaxAttempts]
  /\ agent \in Slices \cup {Nobody} /\ reply \in [Slices -> Result]
  /\ stop \in BOOLEAN

\* A Run is green, on its row or to the parent workflow that waits for it,
\* only when every slice of its fan-out was executed by a tool that ended
\* well, however the attempts were retried, abandoned or redelivered.
GreenRunIsHonest ==
  row = "succeeded" \/ ret = "ok" => \A s \in slices : "ok" \in exits[s]

\* A slice's tool runs once for all attempts, zombies and deliveries of it:
\* whoever creates the Job second adopts it.  It runs again only when the Job
\* was deleted by a cancel or expired.
ToolRunsOnce ==
  \A s \in Slices \ Port : started[s] > 1 => s \in gone

\* Every launched Run closes: no attempt, Site or Job can keep the workflow
\* waiting for ever.
RunCloses == pc \notin {"door", "closed"} ~> pc = "closed"

\* The agent waits for a Pod that was deleted, with its Job by a cancel or by
\* Kubernetes when the Job's deadline passed: no poll of waitForPod finds it.
WaitsForDeletedPod(s) ==
  ex[s][tries[s]] = "pod" /\ job[s] \in {"none", "overdue"}

\* A Site handles one dispatch at a time, so a dispatch it never finishes
\* starves every later Run.  It gets free again, whatever happens to its Job and
\* to the Run, but when the Pod is deleted under the loop that waits for it.
SiteIsFreed ==
  \A s \in Remote : agent = s ~> (agent = Nobody \/ WaitsForDeletedPod(s))

\* A canceled Run whose row does not say otherwise has nothing running: its
\* Jobs were deleted at the hub and, once the message is there, at the Site.
CanceledRunIsStopped ==
  row = "canceled" /\ ~note /\ ~stop => \A s \in Slices : job[s] # "active"
=============================================================================
