------------------------------ MODULE Findings ------------------------------
(***************************************************************************)
(* From a drifting Entity to a delivered notification.                     *)
(*                                                                         *)
(* A schedule runs RunBaselineCheck, one at a time: an activity observes   *)
(* the Baseline's targets, records the observations on their Findings in   *)
(* one transaction and publishes a Notice for each Finding it opened;      *)
(* another seals an Evidence bundle for every open Finding without one.    *)
(* An activity that fails runs again, whatever its earlier attempt left    *)
(* behind.  The leader's Dispatcher takes each Notice to the Subscriptions *)
(* and delivers it through a Run named after the Notice's content, and the *)
(* desired-state controller resolves the Findings of dead Entities.        *)
(***************************************************************************)
EXTENDS Naturals, FiniteSets

CONSTANTS
  Targets,      \* Entities the Baseline checks
  Subs,         \* Subscriptions matching finding.open
  ByName,       \* the pairs of them in the order of their names
  Cooled,       \* the ones with a cooldown
  Broken,       \* the ones whose Sink is missing, denied or unrenderable
  Damping,      \* DampingObservations, at least 1
  Facet,        \* whether the Baseline reads Facets (or launches a check Run)
  MaxAttempts,  \* of an activity
  MaxChecks,    \* bound: how often the schedule fires
  MaxFaults,    \* bound: faults
  Faults        \* the kinds of fault, among "reply", "emit", "seal", "late",
                \* "lookup", "launch", "record", "lease", "ackwait" and "crash"

ASSUME ConstantsAssumption ==
  /\ Cooled \subseteq Subs /\ Broken \subseteq Subs
  /\ \A s, q \in Subs : s = q \/ (<<s, q>> \in ByName <=> <<q, s>> \notin ByName)
  /\ Damping \in Nat \ {0} /\ MaxAttempts \in Nat \ {0}
  /\ Facet \in BOOLEAN
  /\ MaxChecks \in Nat /\ MaxFaults \in Nat

VARIABLES
  alive,    \* Entities not tombstoned
  check,    \* the check under way
  row,      \* the latest Finding of each target
  opened,   \* Findings opened so far, by target
  manifest, \* the bundle the latest Finding's manifest names
  object,   \* the bundle the object store serves under its key
  flight,   \* bundles whose PutObject may still land
  inserts,  \* manifests whose INSERT may still commit
  stream,   \* finding.open Notices, by opening: "none", "queued", "acked" ...
  window,   \* contents inside JetStream's deduplication window
  led,      \* whether the Dispatcher's leader context is alive
  job,      \* the Notice the Dispatcher is handling
  cool,     \* Subscriptions inside their cooldown
  run,      \* the delivery Run of each Subscription, by content
  record,   \* notify_delivery
  faults, checks,
  sends,    \* history: deliveries started, by Subscription and content
  relisted, \* history: Findings listed again while an INSERT of theirs was out
  overtaken,\* history: Findings whose attempts that timed out wrote after a later one
  swallowed,\* history: outcomes no record was made of, by Subscription and opening
  streak,   \* history: consecutive checks that found the target drifted
  doubled   \* history: targets a check counted more than once

findingVars == <<row, opened, streak, doubled>>
sealVars    == <<manifest, object, flight, inserts, relisted, overtaken>>
notifyVars  == <<led, job, cool, run, record, sends, swallowed>>
vars == <<alive, check, findingVars, sealVars, stream, window, notifyVars,
          faults, checks>>

Tails    == {"full", "cut"}  \* a bundle, by how much of the Run's stream it holds
MaxOpened == MaxChecks * MaxAttempts
Openings == Targets \X (1 .. MaxOpened)
Idle     == [at |-> "idle", n |-> 0, obs |-> [t \in Targets |-> "none"],
             todo |-> {}, tail |-> "none", counted |-> {}]
NoJob    == [msg |-> <<>>, todo |-> {}, sub |-> {}, started |-> FALSE, err |-> FALSE]
NoRow    == [status |-> "none", count |-> 0]

Init ==
  /\ alive = Targets /\ check = Idle
  /\ row = [t \in Targets |-> NoRow] /\ opened = [t \in Targets |-> 0]
  /\ manifest = [t \in Targets |-> "none"] /\ object = [t \in Targets |-> "none"]
  /\ flight = {} /\ inserts = {} /\ relisted = {} /\ overtaken = {}
  /\ stream = [m \in Openings |-> "none"] /\ window = {}
  /\ led = TRUE /\ job = NoJob /\ cool = {} /\ swallowed = {}
  /\ run = [s \in Subs |-> [t \in Targets |-> "none"]]
  /\ record = [s \in Subs |-> [m \in Openings |-> "none"]]
  /\ faults = 0 /\ checks = 0
  /\ sends = [s \in Subs |-> [t \in Targets |-> 0]]
  /\ streak = [t \in Targets |-> 0] /\ doubled = {}

Fault(k) == k \in Faults /\ faults < MaxFaults /\ faults' = faults + 1
Live(t)  == row[t].status \in {"pending", "open"}

-----------------------------------------------------------------------------
(* RunBaselineCheck.                                                       *)

OnlyCheck == UNCHANGED <<alive, notifyVars, checks>>

\* The schedule skips a firing that finds the last check still open.
StartCheck ==
  /\ check.at = "idle" /\ checks < MaxChecks
  /\ checks' = checks + 1
  /\ check' = [Idle EXCEPT !.at = "observe", !.n = 1]
  /\ UNCHANGED <<alive, findingVars, sealVars, stream, window, notifyVars, faults>>

\* Each target is clean, drifted, or evidence of neither: failed, unreachable,
\* gone from the selection.
Observe ==
  /\ check.at = "observe"
  /\ \E o \in [Targets -> {"none", "clean", "drifted"}] :
       /\ \A t \in Targets \ alive : o[t] = "none"
       /\ check' = [check EXCEPT !.at = "record", !.obs = o]
  /\ OnlyCheck /\ UNCHANGED <<findingVars, sealVars, stream, window, faults>>

\* An attempt fails: its activity starts again, up to MaxAttempts.
Retry(from) ==
  check' = IF check.n < MaxAttempts
           THEN [check EXCEPT !.at = from, !.n = @ + 1, !.todo = {}]
           ELSE Idle

Again == IF Facet THEN "observe" ELSE "record"

\* RecordBaselineObservations, one transaction.
Observed(t) == check.obs[t]
Opens(t) ==
  /\ Observed(t) = "drifted" /\ row[t].status # "open"
  /\ IF Live(t) THEN row[t].count + 1 >= Damping ELSE Damping = 1

\* Mutant: a clean observation leaves a pending Finding alone.
Recorded_KeepsPending(t) ==
  CASE Observed(t) = "drifted" ->
         [status |-> IF Opens(t) \/ row[t].status = "open" THEN "open" ELSE "pending",
          count |-> IF Live(t) THEN row[t].count + 1 ELSE 1]
    [] Observed(t) = "clean" /\ row[t].status = "open" ->
         [status |-> "resolved", count |-> 0]
    [] OTHER -> row[t]

Recorded(t) ==
  CASE Observed(t) = "drifted" ->
         [status |-> IF Opens(t) \/ row[t].status = "open" THEN "open" ELSE "pending",
          count |-> IF Live(t) THEN row[t].count + 1 ELSE 1]
    [] Observed(t) = "clean" /\ row[t].status = "pending" -> NoRow
    [] Observed(t) = "clean" /\ row[t].status = "open" ->
         [status |-> "resolved", count |-> 0]
    [] OTHER -> row[t]

\* A fresh row is a fresh Finding: nothing is sealed under its id.
Fresh(t) == Observed(t) = "drifted" /\ ~Live(t)

RecordBaselineObservations ==
  /\ check.at = "record"
  /\ row' = [t \in Targets |-> Recorded(t)]
  /\ opened' = [t \in Targets |-> IF Opens(t) THEN opened[t] + 1 ELSE opened[t]]
  /\ manifest' = [t \in Targets |-> IF Fresh(t) THEN "none" ELSE manifest[t]]
  /\ object' = [t \in Targets |-> IF Fresh(t) THEN "none" ELSE object[t]]
  /\ flight' = {f \in flight : ~Fresh(f[1])}
  /\ inserts' = {f \in inserts : ~Fresh(f[1])}
  /\ relisted' = {t \in relisted : ~Fresh(t)}
  /\ overtaken' = {t \in overtaken : ~Fresh(t)}
  /\ streak' = [t \in Targets |->
       CASE Observed(t) = "clean" -> 0
         [] Observed(t) = "drifted" /\ t \notin check.counted -> streak[t] + 1
         [] OTHER -> streak[t]]
  /\ doubled' = {t \in Targets :
       /\ Observed(t) # "clean"
       /\ t \in doubled \/ (Observed(t) = "drifted" /\ t \in check.counted)}
  /\ LET seen == check.counted \cup {t \in Targets : Observed(t) # "none"}
         opening == {t \in Targets : Opens(t)}
     IN \/ /\ check' = [check EXCEPT !.at = "emit", !.todo = opening, !.counted = seen]
           /\ UNCHANGED faults
        \/ /\ Fault("reply")
           /\ check' = IF check.n < MaxAttempts
                       THEN [check EXCEPT !.at = Again, !.n = @ + 1, !.counted = seen]
                       ELSE Idle
  /\ OnlyCheck /\ UNCHANGED <<stream, window>>

\* emitFindingNotices: the Finding's number is not in the Notice, so a Notice
\* for a target inside the deduplication window is dropped by the stream.
PublishNotice(t) ==
  /\ check.at = "emit" /\ t \in check.todo
  /\ stream' = IF t \in window THEN stream
               ELSE [stream EXCEPT ![<<t, opened[t]>>] = "queued"]
  /\ window' = window \cup {t}
  /\ \/ check' = [check EXCEPT !.todo = @ \ {t}] /\ UNCHANGED faults
     \/ Fault("emit") /\ Retry(Again)
  /\ OnlyCheck /\ UNCHANGED <<findingVars, sealVars>>

PublishFails ==
  /\ check.at = "emit" /\ check.todo # {}
  /\ Fault("emit") /\ Retry(Again)
  /\ OnlyCheck /\ UNCHANGED <<findingVars, sealVars, stream, window>>

\* Mutant: the work-list is every open Finding.
Unsealed_All == {t \in Targets : row[t].status = "open"}

\* ListUnsealedFindings: the open Findings without a manifest.
Unsealed == {t \in Targets : row[t].status = "open" /\ manifest[t] = "none"}

\* SealEvidence begins, or begins again, with its work-list.
ListUnsealed ==
  /\ \/ check.at = "emit" /\ check.todo = {}
        /\ check' = [check EXCEPT !.at = "seal", !.n = 1, !.todo = Unsealed]
     \/ check.at = "relist" /\ check' = [check EXCEPT !.at = "seal", !.todo = Unsealed]
  /\ relisted' = relisted \cup {t \in Unsealed : \E tail \in Tails : <<t, tail>> \in inserts}
  /\ OnlyCheck
  /\ UNCHANGED <<findingVars, manifest, object, flight, inserts, overtaken, stream, window,
                 faults>>

\* buildEvidenceBundle and the PutObject.  A call that times out may land later.
Seal(t) ==
  /\ check.at = "seal" /\ t \in check.todo
  /\ \E tail \in Tails :
       \/ /\ object' = [object EXCEPT ![t] = tail]
          /\ check' = [check EXCEPT !.at = "manifest", !.todo = {t}, !.tail = tail]
          /\ UNCHANGED <<flight, faults>>
       \/ Fault("seal") /\ object' = [object EXCEPT ![t] = tail]
          /\ Retry("relist") /\ UNCHANGED flight
       \/ Fault("late") /\ flight' = flight \cup {<<t, tail>>}
          /\ Retry("relist") /\ UNCHANGED object
  /\ OnlyCheck
  /\ UNCHANGED <<findingVars, manifest, inserts, relisted, overtaken, stream, window>>

\* A PutObject that its attempt gave up: it replaces what a later one stored.
PutLands(t, tail) ==
  /\ <<t, tail>> \in flight
  /\ flight' = flight \ {<<t, tail>>}
  /\ object' = [object EXCEPT ![t] = tail]
  /\ overtaken' = IF \/ manifest[t] # "none"
                     \/ check.at = "manifest" /\ check.todo = {t}
                     \/ \E x \in Tails : <<t, x>> \in inserts
                  THEN overtaken \cup {t} ELSE overtaken
  /\ UNCHANGED <<alive, check, findingVars, manifest, inserts, relisted, stream, window,
                 notifyVars, faults, checks>>

\* The manifest is written once: whoever comes second has ErrConflict, and goes on.
Vouched(t, tail) == IF manifest[t] = "none" THEN tail ELSE manifest[t]

\* RecordEvidence.  An INSERT that times out may commit later.
RecordEvidence(t) ==
  /\ check.at = "manifest" /\ check.todo = {t}
  /\ \/ /\ manifest' = [manifest EXCEPT ![t] = Vouched(t, check.tail)]
        /\ \/ check' = [check EXCEPT !.at = "relist"] /\ UNCHANGED faults
           \/ Fault("seal") /\ Retry("relist")
        /\ UNCHANGED inserts
     \/ /\ Fault("late") /\ inserts' = inserts \cup {<<t, check.tail>>}
        /\ Retry("relist") /\ UNCHANGED manifest
  /\ OnlyCheck
  /\ UNCHANGED <<findingVars, object, flight, relisted, overtaken, stream, window>>

\* An INSERT that its attempt gave up: it vouches for that attempt's bundle.
InsertLands(t, tail) ==
  /\ <<t, tail>> \in inserts
  /\ inserts' = inserts \ {<<t, tail>>}
  /\ manifest' = [manifest EXCEPT ![t] = Vouched(t, tail)]
  /\ overtaken' = overtaken \cup ({t} \cap relisted)
  /\ UNCHANGED <<alive, check, findingVars, object, flight, relisted, stream, window,
                 notifyVars, faults, checks>>

EndCheck ==
  /\ check.at = "seal" /\ check.todo = {}
  /\ check' = Idle
  /\ OnlyCheck /\ UNCHANGED <<findingVars, sealVars, stream, window, faults>>

-----------------------------------------------------------------------------
(* The controller, and the world.                                          *)

Dies(t) ==
  /\ t \in alive /\ alive' = alive \ {t}
  /\ UNCHANGED <<check, findingVars, sealVars, stream, window, notifyVars, faults,
                 checks>>

\* Mutant: only open Findings are resolved.
ResolveFindingsForTombstonedEntities_OpenOnly ==
  /\ \E t \in Targets \ alive : row[t].status = "open"
  /\ LET moot == {t \in Targets \ alive : row[t].status = "open"}
     IN /\ row' = [t \in Targets |-> IF t \in moot
                     THEN [status |-> "resolved", count |-> 0] ELSE row[t]]
        /\ streak' = [t \in Targets |-> IF t \in moot THEN 0 ELSE streak[t]]
        /\ doubled' = doubled \ moot
  /\ UNCHANGED <<alive, check, opened, sealVars, stream, window, notifyVars, faults,
                 checks>>

ResolveFindingsForTombstonedEntities ==
  /\ \E t \in Targets \ alive : Live(t)
  /\ LET moot == {t \in Targets \ alive : Live(t)}
     IN /\ row' = [t \in Targets |-> IF t \in moot
                     THEN [status |-> "resolved", count |-> 0] ELSE row[t]]
        /\ streak' = [t \in Targets |-> IF t \in moot THEN 0 ELSE streak[t]]
        /\ doubled' = doubled \ moot
  /\ UNCHANGED <<alive, check, opened, sealVars, stream, window, notifyVars, faults,
                 checks>>

WindowEnds ==
  /\ window # {} /\ window' = {}
  /\ UNCHANGED <<alive, check, findingVars, sealVars, stream, notifyVars, faults,
                 checks>>

-----------------------------------------------------------------------------
(* notify.Dispatcher.                                                      *)

OnlyNotify == UNCHANGED <<alive, check, findingVars, sealVars, window, checks>>

\* A call of the Dispatcher fails by a fault, or because the context of its
\* leadership is cancelled.
Errs(k) == IF led THEN Fault(k) ELSE UNCHANGED faults

Take(m) ==
  /\ led /\ job = NoJob /\ stream[m] = "queued"
  /\ job' = [NoJob EXCEPT !.msg = m, !.todo = Subs]
  /\ OnlyNotify /\ UNCHANGED <<stream, led, cool, run, record, sends, swallowed, faults>>

\* The Subscriptions come by name.  suppressed stamps the
\* cooldown before the delivery is tried.
Consider(s) ==
  /\ s \in job.todo /\ job.sub = {}
  /\ \A q \in job.todo \ {s} : <<s, q>> \in ByName
  /\ IF s \in cool
     THEN job' = [job EXCEPT !.todo = @ \ {s}] /\ UNCHANGED cool
     ELSE /\ job' = [job EXCEPT !.todo = @ \ {s}, !.sub = {s}]
          /\ cool' = cool \cup ({s} \cap Cooled)
  /\ OnlyNotify /\ UNCHANGED <<stream, led, run, record, sends, swallowed, faults>>

CooldownEnds(s) ==
  /\ s \in cool /\ cool' = cool \ {s}
  /\ OnlyNotify /\ UNCHANGED <<stream, led, job, run, record, sends, swallowed, faults>>

Recording(s, r) == record' = [record EXCEPT ![s][job.msg] = r]

\* Mutant: an unusable Sink makes the Notice come again.
Poison_Naks(s) ==
  /\ job.sub = {s} /\ ~job.started /\ led
  /\ (s \in Broken /\ UNCHANGED faults) \/ Fault("lookup")
  /\ Recording(s, "failed")
  /\ job' = [job EXCEPT !.sub = {}, !.err = TRUE]
  /\ OnlyNotify /\ UNCHANGED <<stream, led, cool, run, sends, swallowed>>

\* A Sink that cannot be used, or looked up, fails the delivery for good.
Poison(s) ==
  /\ job.sub = {s} /\ ~job.started /\ led
  /\ (s \in Broken /\ UNCHANGED faults) \/ Fault("lookup")
  /\ Recording(s, "failed")
  /\ job' = [job EXCEPT !.sub = {}, !.started = FALSE]
  /\ OnlyNotify /\ UNCHANGED <<stream, led, cool, run, sends, swallowed>>

\* Mutant: a closed execution's id may be used again.
Adopts_OnlyRunning(s) == run[s][job.msg[1]] = "running"

\* A second execution of one workflow id is refused, and the first adopted.
Adopts(s) == run[s][job.msg[1]] # "none"

\* ExecuteWorkflow, whose answer may be lost.
Deliver(s) ==
  /\ job.sub = {s} /\ ~job.started /\ s \notin Broken /\ led
  /\ IF Adopts(s) THEN UNCHANGED <<run, sends>>
     ELSE /\ run' = [run EXCEPT ![s][job.msg[1]] = "running"]
          /\ sends' = [sends EXCEPT ![s][job.msg[1]] = @ + 1]
  /\ \/ job' = [job EXCEPT !.started = TRUE] /\ UNCHANGED faults
     \/ job' = [job EXCEPT !.sub = {}, !.err = TRUE] /\ Fault("launch")
  /\ OnlyNotify /\ UNCHANGED <<stream, led, cool, record, swallowed>>

LaunchFails(s) ==
  /\ job.sub = {s} /\ ~job.started /\ s \notin Broken
  /\ Errs("launch")
  /\ job' = [job EXCEPT !.sub = {}, !.err = TRUE]
  /\ OnlyNotify /\ UNCHANGED <<stream, led, cool, run, record, sends, swallowed>>

RunEnds(s, t) ==
  /\ run[s][t] = "running"
  /\ \E r \in {"delivered", "failed"} : run' = [run EXCEPT ![s][t] = r]
  /\ OnlyNotify /\ UNCHANGED <<stream, led, job, cool, record, sends, swallowed, faults>>

\* The Run's status is the verdict; without it the delivery counts as failed.
Await(s) ==
  /\ job.sub = {s} /\ job.started /\ led
  /\ run[s][job.msg[1]] \in {"delivered", "failed"}
  /\ \/ Recording(s, run[s][job.msg[1]]) /\ UNCHANGED faults
     \/ Recording(s, "failed") /\ Fault("lookup")
  /\ job' = [job EXCEPT !.sub = {}, !.started = FALSE]
  /\ OnlyNotify /\ UNCHANGED <<stream, led, cool, run, sends, swallowed>>

\* RecordDelivery fails, which is logged.  On a cancelled context it does at
\* any point of a delivery: the Sink is not found, or the Run not awaited.
RecordFails(s) ==
  /\ job.sub = {s}
  /\ led => IF job.started THEN run[s][job.msg[1]] \in {"delivered", "failed"}
            ELSE s \in Broken
  /\ Errs("record")
  /\ swallowed' = swallowed \cup {<<s, job.msg>>}
  /\ job' = [job EXCEPT !.sub = {}, !.started = FALSE]
  /\ OnlyNotify /\ UNCHANGED <<stream, led, cool, run, record, sends>>

\* Mutant: a failed delivery does not hold the acknowledgement back.
Finish_AcksAnyway ==
  /\ job # NoJob /\ job.todo = {} /\ job.sub = {}
  /\ stream' = [stream EXCEPT ![job.msg] = IF @ = "again" THEN "queued" ELSE "acked"]
  /\ job' = NoJob
  /\ OnlyNotify /\ UNCHANGED <<led, cool, run, record, sends, swallowed, faults>>

\* Ack, or Nak when a delivery returned an error; neither needs the context.
Finish ==
  /\ job # NoJob /\ job.todo = {} /\ job.sub = {}
  /\ stream' = [stream EXCEPT ![job.msg] =
                  IF job.err THEN "queued"
                  ELSE IF @ = "again" THEN "queued" ELSE "acked"]
  /\ job' = NoJob
  /\ OnlyNotify /\ UNCHANGED <<led, cool, run, record, sends, swallowed, faults>>

\* The server redelivers what is not acknowledged in time.
AckWaitElapses ==
  /\ job # NoJob /\ stream[job.msg] = "queued" /\ Fault("ackwait")
  /\ stream' = [stream EXCEPT ![job.msg] = "again"]
  /\ OnlyNotify /\ UNCHANGED notifyVars

\* The process dies: the Notice under way comes again, to a new leader without
\* cooldowns.
DispatcherStops ==
  /\ job # NoJob /\ Fault("crash")
  /\ stream' = [stream EXCEPT ![job.msg] = "queued"]
  /\ job' = NoJob /\ cool' = {} /\ led' = TRUE
  /\ OnlyNotify /\ UNCHANGED <<run, record, sends, swallowed>>

\* The Lease is lost: the context is cancelled, and the handler runs on.
LoseLeadership ==
  /\ led /\ Fault("lease")
  /\ led' = FALSE
  /\ OnlyNotify /\ UNCHANGED <<stream, job, cool, run, record, sends, swallowed>>

\* A leader starts a Dispatcher of its own, without cooldowns.
Lead ==
  /\ ~led /\ job = NoJob
  /\ led' = TRUE /\ cool' = {}
  /\ OnlyNotify /\ UNCHANGED <<stream, job, run, record, sends, swallowed, faults>>

-----------------------------------------------------------------------------
CheckStep ==
  \/ Observe \/ RecordBaselineObservations
  \/ \E t \in Targets : PublishNotice(t) \/ Seal(t) \/ RecordEvidence(t)
  \/ PublishFails \/ ListUnsealed \/ EndCheck

NotifyStep ==
  \/ \E m \in Openings : Take(m)
  \/ \E s \in Subs : Consider(s) \/ Poison(s) \/ Deliver(s) \/ Await(s)
  \/ \E s \in Subs : LaunchFails(s) \/ RecordFails(s)
  \/ Finish \/ Lead

Next ==
  \/ StartCheck \/ CheckStep \/ NotifyStep
  \/ \E t \in Targets : Dies(t) \/ \E tail \in Tails : PutLands(t, tail) \/ InsertLands(t, tail)
  \/ ResolveFindingsForTombstonedEntities \/ WindowEnds
  \/ \E s \in Subs : CooldownEnds(s) \/ \E t \in Targets : RunEnds(s, t)
  \/ AckWaitElapses \/ DispatcherStops \/ LoseLeadership

Spec == Init /\ [][Next]_vars

\* Workers and the Dispatcher run, Temporal ends what it started, and the
\* controller sweeps every cycle.
FairSpec ==
  /\ Spec
  /\ WF_vars(CheckStep) /\ WF_vars(NotifyStep)
  /\ \A s \in Subs, t \in Targets : WF_vars(RunEnds(s, t))
  /\ WF_vars(ResolveFindingsForTombstonedEntities)

-----------------------------------------------------------------------------
TypeOK ==
  /\ alive \subseteq Targets
  /\ check.at \in {"idle", "observe", "record", "emit", "relist", "seal", "manifest"}
  /\ check.n \in 0 .. MaxAttempts /\ check.todo \subseteq Targets
  /\ check.obs \in [Targets -> {"none", "clean", "drifted"}]
  /\ check.tail \in Tails \cup {"none"} /\ check.counted \subseteq Targets
  /\ row \in [Targets -> [status : {"none", "pending", "open", "resolved"},
                          count : Nat]]
  /\ opened \in [Targets -> 0 .. MaxOpened]
  /\ manifest \in [Targets -> Tails \cup {"none"}]
  /\ object \in [Targets -> Tails \cup {"none"}]
  /\ flight \subseteq Targets \X Tails /\ inserts \subseteq Targets \X Tails
  /\ relisted \subseteq Targets /\ overtaken \subseteq Targets
  /\ stream \in [Openings -> {"none", "queued", "again", "acked"}]
  /\ window \subseteq Targets /\ cool \subseteq Cooled
  /\ job.msg \in Openings \cup {<<>>} /\ job.todo \subseteq Subs
  /\ job.sub \subseteq Subs /\ job.started \in BOOLEAN
  /\ job.err \in BOOLEAN /\ led \in BOOLEAN
  /\ run \in [Subs -> [Targets -> {"none", "running", "delivered", "failed"}]]
  /\ record \in [Subs -> [Openings -> {"none", "delivered", "failed"}]]
  /\ faults \in 0 .. MaxFaults /\ checks \in 0 .. MaxChecks
  /\ sends \in [Subs -> [Targets -> Nat]] /\ swallowed \subseteq Subs \X Openings
  /\ streak \in [Targets -> 0 .. MaxChecks] /\ doubled \subseteq Targets

\* Flap damping: an open Finding was found drifted by Damping checks in a row,
\* and a pending one by fewer, unless a check counted it twice.
OpensWhenEarned ==
  \A t \in Targets \ doubled :
    /\ row[t].status = "open" => streak[t] >= Damping
    /\ row[t].status = "pending" => streak[t] \in 1 .. Damping - 1

\* Redeliveries, retries and a change of leader never send a Notice twice to
\* one Subscription.
SentOnce == \A s \in Subs, t \in Targets : sends[s][t] <= 1

\* An acknowledged Notice is on the status surface of every Subscription,
\* delivered or failed, unless a cooldown held it back: a delivery that could
\* not be launched is tried again, by whoever leads.  The one exemption is an
\* outcome whose RecordDelivery failed, by a fault or on the cancelled context
\* of a lost leadership: that is logged, and the Notice acknowledged.
AckedIsRecorded ==
  \A m \in Openings, s \in Subs \ Cooled :
    stream[m] = "acked" =>
      record[s][m] \in {"delivered", "failed"} \/ <<s, m>> \in swallowed

\* Under a manifest's key there is a bundle, and it is the one the manifest
\* vouches for, through attempts that fail before, between and after the two
\* writes.  The one exemption is a write of an attempt that timed out taking
\* effect after a later attempt's: a PutObject after a later PutObject or
\* manifest, or an INSERT after a later attempt listed the Finding unsealed.
SealedVerifies ==
  \A t \in Targets : manifest[t] # "none" =>
    object[t] # "none" /\ (t \in overtaken \/ object[t] = manifest[t])

\* Every Notice that reached the stream is acknowledged in the end.
NoticesAreAnswered == <>[](\A m \in Openings : stream[m] \in {"none", "acked"})

\* A Finding does not outlive its Entity.
DeadFindingsResolve == <>[](\A t \in Targets \ alive : ~Live(t))

\* Each opening of a Finding is an occurrence of its own, and is sent.
EveryOpeningIsSent ==
  \A t \in Targets, s \in Subs \ (Broken \cup Cooled) :
    sends[s][t] >= Cardinality({k \in 1 .. MaxOpened : stream[<<t, k>>] = "acked"})
=============================================================================
