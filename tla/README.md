# A TLA+ model of the Stratt control plane

Stratt is an estate-automation platform: a typed graph of an estate in Postgres,
Workflows executed on Temporal, events on NATS JetStream, and tools behind a
plugin port. This directory holds TLA+ modules of the parts that carry its
concurrency, the TLC configurations that check them on small instances, and
TLAPS proofs of what matters most. `PROJECT.json` maps every definition to the
lines it models and lists the runs, mutants, findings, hazards and theorems.

    tlc -workers 2 -config WorkflowRun_plan.cfg MCWorkflowRun
    tlapm WorkflowRunProofs.tla

## 1. The system

| Part | State | Operations | Where it is hard |
|---|---|---|---|
| Workflow runs (`orchestrate/workflow.go`, `launch.go`, `policystep.go`, `graph/workflowstore.go`) | the maps of a RunDAG execution; `graph.workflow_run`, `graph.gate` | launch, setup, walk the DAG, open and decide Gates, cancel, finish | many writers of one row, activities that fail or write late, cancel at any point |
| Nested workflow runs (`workflow.go:532`) | two executions | start child, forward cancel, take its status | each waits for the other |
| Plan pinning (`desiredstate.go:4067`, `orchestrate.go:1592`) | plan digests, Gate approvals | validate a declaration, check at the Apply | what is checked when a Workflow is declared and what when it runs |
| Runs against a View, Actions (`orchestrate.go`, `action.go`, `graph/runstore.go`) | `graph.run`, the fan-out of an execution | route, execute slices, fold results, clean up on cancel | abandoned attempts that go on, retries |
| Job dispatch and remote Sites (`dispatch`, `sitegw`, `cmd/stratt-agent`) | Jobs, ConfigMaps, dispatch and result streams | create or adopt, wait, delete; dispatch, redeliver, answer, cancel | at-least-once work, a message that nobody stores, a crashing agent |
| Findings and Baselines (`graph/findingstore.go`, `orchestrate/baseline.go`, `evidencestore`) | `graph.finding`, manifests, objects | observe, damp, open, seal, resolve | a retried activity repeats what it committed |
| Notifications (`notify`, `events/notice.go`) | stream, in-memory cooldown, delivery Runs and rows | publish, match, suppress, deliver, record, ack | three layers of deduplication, each by content |
| Source re-home (`orchestrate/rehome.go`, `graph/rehome.go`, `homegate`) | a Source row in each of two databases | seal, adopt, complete, abort; look up, claim, sync; sweep | lost replies between Cells, no common transaction |
| Projection (`graph/projector.go`, `pluginhost/host.go`) | Entities, Facets, Relations, presence, cursors | upsert, revive, relate, tombstone, prune | overlapping READ COMMITTED transactions of several Sources |
| Trigger engine (`triggerengine`, `graph/triggerwindow.go`, `events/emitter.go`) | stream, `graph.trigger_window`, Temporal ids | deliver, decide, reset, launch, ack; sweep | redelivery, two engines, windows in time |
| Audit stream (`graph/auditstore.go`, `audit`, `forwarder`) | `audit.event`, `seal_head`, `forward_offset`, `forward_delivery` | insert, seal, verify, ship, report | commit order is not seq order, two Sealers, two forwarders |
| OpenTofu state (`statebackend`, `graph/statestore.go`) | ciphertext, lock document | lock, check, write, unlock | check and write are separate |
| Leader election (`leader`) | a Lease | acquire, lose | two leaders around a failover |
| Desired state, schedules, cutover, provisioning | declarations | reconcile loops | several reconcilers of one estate |

Who talks to whom. The HTTP API creates a `workflow_run` row and starts `RunDAG`
on Temporal; `RunDAG` runs activities that write rows, starts a child execution
per actuation (`RunAgainstView`), Action (`RunAction`) and nested Step, and waits
for Gates; the API sends it decisions and cancels as signals. A Run drives
Kubernetes Jobs itself or has the agent of a Site drive them, over JetStream. The
trigger engine consumes emitter events and starts the same executions. Syncers
project the systems of record into the graph, each Source in the Cell that homes
it. A Baseline observes the graph or launches a check, records Findings and
publishes Notices; the Dispatcher turns those into delivery Runs. Everything
records audit events, which the Sealer chains and the forwarder ships. The
singletons (trigger engine, Dispatcher, Sealer, sweeps, reconcilers) run on the
leader; the fences in the database are what is left when there are two for a while.

What makes each part correct, in a line. A Workflow passes no Gate without its
quorum, starts nothing after a cancel and reports what happened. A Run is green
only over tools that ended well, and runs each of them once. A Trigger fires on
evidence, and an event that fires it is launched before it is acked. A Source has one writer, and survives a move.
An Entity lives exactly as long as a Source observes it. A Finding opens when its
drift persisted, and whoever subscribed hears of it once. The audit events form
one chain, and the offset passes none the SIEM lacks.

## 2. The modules

### WorkflowRun

One execution of `RunDAG` with its doors. The variables are the `state` and
`stepOutputs` maps of `RunDAG`, a program counter for the main coroutine (`pc`)
and one per Step coroutine (`stepPC`), the `workflow_run` row (`rowStatus`,
`rowSteps`), the Gate rows (`gate`), the decision channel of each Gate and the
approvers counted, the launch, cancel and decision doors between their check and
their signal, and the writes an abandoned activity attempt may still make.

Granularity. Temporal runs the coroutines of a workflow task until all are
blocked, so the code between two blocking calls is one action; an activity, a
child execution and a Gate wait are where others interleave. `Complete` is the
whole body of the receive loop: it records the outcome, then walks every Step
that has become ready, as `schedule` does. `ValidateWorkflow` is what the loader
admits; it is an ASSUME of the module, so each instance is a declarable Workflow.

Faults. `"store"`: an activity fails its three attempts (a start or a row write
may or may not have happened). `"late"`: an attempt that was running when its
workflow was cancelled writes afterwards. `"door"`: the launching replica dies
after the start.

### NestedRun

Two instances of `WorkflowRun`, parent (EXTENDS) and child (INSTANCE with its own
variables), joined by the three things that connect them: the Step starts the
child, the child's close resolves the Step with the error or nil that `RunDAG`
returned, and a cancel or close of the parent is forwarded
(`ParentClosePolicy: REQUEST_CANCEL`).

### ViewRun

The execution behind an actuation or Action Step: `RunAgainstView` and `RunAction`
as one workflow whose script of activities depends on `flow`. Four parties act.
The workflow (`pc`, `slices`, `row`, `ret`) walks its script, fans out, merges, and
on a cancel runs `CleanupRun` and the final write. Temporal (`n`, `out`) starts the
attempts of each slice's `Execute`, retries one that failed or stopped its
heartbeat, and settles the activity after the last; the attempt it gave up on goes
on as a zombie. An execution of `Dispatcher.Run` (`ex`, one per slice and attempt,
on the hub or at the Site) writes the ConfigMap, creates or adopts the Job, waits
for the Pod, then for the Job, reads the result and deletes the ConfigMap.
Kubernetes (`job`, `started`, `exits`) starts and ends Pods, applies the deadline
and the TTL. A remote slice goes by the dispatch stream (`queue`, `tries`) to the
one handler of the agent (`agent`), which answers on the result stream (`reply`)
or crashes; the cancel (`stop`) is a core NATS message nobody stores. A slice of
`Port` is a plugin called in process, with no Job. `exits`, `started` and `gone` are
histories for the properties.

### SourceRehome

One Source in a fleet of Cells, each with a database of its own: `row` is its
`graph.source` row (home, seal, epoch), `held` the row whose id its Syncer writes
under, `served` the Cells that show the Source's Entities as live. `homegate.Supervise` is
`Resolve`, one probe per peer, `RegisterSource` and the Syncer, each its own action,
so that what a Cell learned of another is stale when it acts. The workflow of a
move (`move`) is seal, adopt (an HTTP request that the destination may refuse,
commit and answer, commit with the reply lost, or receive late: `posts`; only the
request a move still waits for, `awaited`, answers it), then
complete or abort, with every activity's retries; why a completion fails (a Source with
Relations does, in `GraphProjection`) is left open there. `Sweep` is the collision sweep
with an arbitrary set of answering peers. `doubt` is a history: a claim was made on
a stale look, or a move was aborted whose adopt could still count.

### GraphProjection

The Syncers of one Cell and the Projector's transactions. A sync is a listing page
by page, a transaction per Entity and per edge, a final tombstone of what a full
feed no longer lists (or what a delta feed names as gone), and the cursor. A
transaction is `Begin..`, a statement that reads, and `Commit..`, with the rows it
locks, as READ COMMITTED gives them; those of different Sources overlap. `sor` is
what each system of record lists, `live`, `known`, `pres`, `rel`, `relpres` are the
tables, `run` and `fact` the Facets a Run writes back on the host it was launched
against, `home` a Source's move to another Cell, of which `CompleteRehome` is the
local end, a transaction of its own (`move`) beside whatever the Source's own sync has
open: it takes no lock the sync would hold. It commits only for a Source without
Relations: deleting the Source row cascades to `relation_presence`, whose trigger
refuses the re-home's write path, and the transaction rolls back (`CompleteFails`).
`skewed` and `raced` are histories of the overlaps the code leaves open (section 6).

### Findings

From observation to delivery. `RunBaselineCheck` is its activities (`check`):
observe, `RecordBaselineObservations` (one transaction with the damping of
`findingstore.go`) and the publication of Notices, then for each open Finding
without a manifest an object and its record. An activity that fails runs again
over what it did, and an object write (`flight`) or a manifest INSERT (`inserts`) whose
caller timed out lands at any later time. `stream` is the Notice stream with its deduplication window;
`job`, `cool`, `run`, `record` are the Dispatcher's message, its in-memory
cooldowns, the delivery executions in Temporal and the delivery rows. Subscriptions are
served in the order of their names (`ByName`). Losing the lease does not end the
Dispatcher but cancels its context: a launch it then makes fails and naks the Notice,
a lookup or a record fails and is only logged (`swallowed`). Entities die
(`Dies`) and the controller's sweep resolves what they leave. A Sink that is
missing, denied or unrenderable is a member of `Broken`.

### TriggerEngine

One durable consumer, the Triggers of one emitter, `trigger_window` rows with a
logical clock, and the executions Temporal has open. `handle` is one action per
store or Temporal call: `ListTriggers`, `Decide` (the rule, the key and the single
upsert), `TriggerWindowFired`, `Launch`, `AckOrNak`. A rule is the index of the
condition an event satisfies, a payload is its correlation key, and `Binds` says
which payloads the parameters resolve against (others are dropped, as in the
code). An engine that loses the lease (`led`) goes on with a cancelled context, under
which every store and Temporal call fails: a failed advance is logged like a rule error
and the event acked without a decision (`swallowed`), a failed launch naks it. `matched`,
`fires` and `swallowed` are histories that only the properties read.

### AuditStream

`audit.event` as seqs that are free, being inserted, rows or lost; an INSERT is two
actions because `bigserial` allocates before the commit, and any number of them
overlap. `passed` is a history: the rows that committed when the offset, or a batch a
forwarder had already read, was past their seq. A hash is the sequence of seqs it was chained from (collision resistance). `SealPending` is
lock, read, commit; `VerifyAudit` is head, rows; a forwarder round is offset, batch,
ship, offset commit, delivery row.

### Ledger

What the audit stream promises, without Sealers, locks, batches or forwarders: records
become visible in any order and are never taken back; one chain grows at its end and
holds no record twice; records reach the SIEM in any order; and the committed offset
only moves forward, over records the SIEM has or that came too late for it (`missed`),
which a record above all others never does. It has no code of its own. `AuditStream`
maps onto it with `Rows`, `head.hash`, `siem`, `offset` and `passed`;
`ImplementsLedger` is its `Spec` under that mapping.

### Proof modules

`WorkflowRunProofs` (types, Gates, the order of the walk, cancel, binding, pinned Applies, the
green row), `NestedRunProofs` (the parent, the nested Step, the child's Gates),
`ViewRunProofs` (types, green Runs, one start), `AuditStreamProofs` (the refinement of
`Ledger`, egress, the chain), `SourceRehomeProofs` (who serves a Source, who writes it, that a
move does not lose it), `GraphProjectionProofs` (types, the life of an Entity),
`FindingsProofs` (damping, evidence, delivery) and `TriggerEngineProofs` (windows, cooldowns,
acked events, the sweep). See section 5.

## 3. The runs

Passing runs:

| Run | Instance | Shows |
|---|---|---|
| `dag_plan_gate_apply` | plan, Gate with a quorum of two, pinned Apply, `always` Step; API door; all faults | types; `GateHolds`, `BindsItsNeeds`, `GreenIsHonest`, `AppliesOnlyApprovedPlans`, `NothingStartsAfterCancel` |
| `dag_branches` | policy checkpoint and Gate side by side, Action behind both, nested Workflow on the failure edge; started by a Trigger; store and late faults; fair | `WalkedInOrder`, `CancelEnds` |
| `nested_run` | a call and a Step after it; a child with one Gate; abandoned attempts that write late; fair | `SettledOverClosedChild`, `NoPendingGateInChild`, `NoOrphanChild` |
| `view_run` | a View with one slice at the hub, one at a Site, or two behind plugins; an Action; two attempts; all faults; fair | `GreenRunIsHonest`, `ToolRunsOnce`, `RunCloses`, `SiteIsFreed` |
| `source_rehome` | two Cells, one of which starts up to two moves; two faults of any kind; fair | `OneWriter`, `ServedIsHomed`, `SourceSurvives`, `CollisionIsReported`, `HomedIsProjected` |
| `graph_sync` | a full feed and a delta feed over two hosts and an edge, one change outside, one failed sync or re-home, a Run on one host, a move of one Source beside its sync; fair | `LiveIsPresent`, `PresentIsLive`, `FactsDieWithHost`, `Converges` |
| `findings_notices` | three checks of one Entity, damping of two, three Subscriptions (plain, unusable, unusable with a cooldown), one fault of any kind, a lost lease among them; fair | `OpensWhenEarned`, `SentOnce`, `AckedIsRecorded`, `SealedVerifies`, `NoticesAreAnswered`, `DeadFindingsResolve` |
| `trigger_windows` | a counting Trigger with cooldown, an `allOf` and a plain Trigger, three events, clock 0..2, one engine, one failure of any kind, a lost lease among them | `WindowIsEvidence`, `CooldownHolds`, `AckedIsLaunched`, `SweepLeavesLiveWindows` |
| `audit_ledger` | two events whose inserts may overlap, two Sealers, two forwarders, batches of two, one failure, fair | `OneChain`, `EgressDropsNothing`, `ImplementsLedger`, `EveryEventIsSealed`, `EveryEventIsForwarded` |

Each property of a passing run has a mutant in `PROJECT.json`: a plausible bug in
a mapped definition under which TLC finds that property violated.

Violated runs, each a disagreement between the code and something the repository
says of it (the quotes are under `findings`):

| Run | What happens |
|---|---|
| `trigger_race` | two engines on one stream: the second advances the window between the threshold the first reached and its reset, and both fire on the same matches |
| `nested_status` | a failed nested Workflow makes its Step succeed: RunDAG returns nil |
| `findings_reopen` | a Finding that opens again publishes the Notice of its first opening: it is recorded as delivered and never sent |

### Bounds

Step sets are declared DAGs of four Steps with every Step kind and `when` edge in
one of the two. `MaxDecisions = 2` in `dag_plan_gate_apply` lets one Principal decide
twice and two Principals form the quorum; the other instances have one approver
and one decision. `MaxFailures` is one: a failure at every call. Two audit events with `BatchLimit = 2` give full
and partial batches, a gap at either end, a lower seq that commits after a higher one,
and a forwarder that lags another. `MaxTime = 2` passes the window, the cooldown and the
retention (1 each).

`view_run` has `MaxAttempts = 2`: a first attempt, its zombie and the last one, and for
the Site a delivery and a redelivery. The slices of a fan-out share only the merge,
which the two plugin slices exercise; a Job slice is alone with its cluster or its
Site, where the interleavings are. `source_rehome` has two Cells, the least that move
and collide; `MaxMoves = 2` repeats a move after an abort, with an adopt of the first
still on its way; `MaxAttempts = 2` stands for the three of the code. Only one Cell
starts moves: section 6 says why. In `graph_sync` both feeds list
one host, so their first passes overlap on its insert; the second host, which the edge of
the full feed points to, comes by the one change, or the shared host goes by it, at
any point of them. The edge appears only once both its ends live, so the full feed's
Source is re-homed with and without Relations.
`findings_notices` has three checks: enough to be pending, to flap and come back, and
to open and resolve with a damping of two; one target, because targets share nothing
but the transaction; one fault, so that each property is stated against every single
fault.

### Deadlock

Most of these systems may come to rest: a Workflow ends, an engine without events
has nothing to do, bounded changes and checks run out. Their configurations do not
check for deadlock; that they do not stop early is what the liveness properties
say. `view_run` marks the rest of a closed Run (`Quiet`) and is checked for deadlock, and so
are the audit loops, which never stop.

### Fairness

`WorkflowRun`: weak fairness of the execution's own steps (Temporal retries a
workflow task until a worker takes it) and of children and activities, which have
timeouts; none of the doors: nobody has to decide a Gate or cancel. `NestedRun`:
the same for both executions, and of the forwarded cancel. `ViewRun`: of its progress
as a whole (`Progress`), not of each party: something that can move does. It covers
the workflow, attempts and their timeouts, the Dispatcher, Kubernetes, the handler of
a live agent; no cancel, fault or crash is owed. `SourceRehome`: each Cell's supervisor and
its sweep with every peer answering keep turning; a move owes nothing. `GraphProjection`:
each SyncLoop turns (`main.go` restarts it on a ticker), and strongly, because what may
hold up a transaction for a while is a row lock, which Postgres grants in the order it was
asked for; the world need not change, and no re-home has to begin or end. `Findings`: workers and the Dispatcher go on, Temporal
ends the Runs it started, the controller sweeps every cycle. `AuditStream`: each Sealer's
ticker and each forwarder's loop goes on; nobody has to insert or verify. Failures
are bounded in number, which is the assumption that outages end.

## 4. What the passing runs leave open

`AppliesOnlyApprovedPlans` holds when the Apply, and every Step it transitively needs, is
`when: success`.
`NoPendingGateInChild` is checked without store failures: a cancel handler whose
activities fail cannot record anything. `AckedIsLaunched` is about Triggers without
pattern and cooldown. `CooldownHolds` is about one engine; with two the race of
`trigger_race` fires twice. Several properties name the cases in which the code
gives no guarantee, as histories: `OneWriter` (`doubt`), `LiveIsPresent` (`skewed`),
`PresentIsLive` and `FactsDieWithHost` (`raced`), `OpensWhenEarned` (`doubled`),
`SealedVerifies` (`overtaken`), `AckedIsRecorded` and `AckedIsLaunched` (`swallowed`),
`EgressDropsNothing` and `EveryEventIsForwarded` (`passed`), `CooldownHolds` (a fire whose
stamp was not written), `NoPendingGateInChild` (`lateGates`), `ToolRunsOnce` (`gone`);
`SiteIsFreed` names the state in which the agent waits for a deleted Pod. A history is set at the one step that opens
the case, so everything outside it is checked; section 6 says what happens inside.

## 5. What is proved

For every set of Steps, needs, Principals and fault set that satisfies the
assumptions of `WorkflowRun`:

- `TypeCorrect`: `Spec => []TypeOK`.
- `GatesHold`: `Spec => []GateHolds`. `GateHolds` is not inductive: it relates a
  Step that has succeeded to a row and a set of approvers written earlier by other
  actions. The strengthening `GateInv` follows one Gate through its coroutine:
  `Coroutines` (a Step's state and its program counter agree), `AtGate` (only Gate
  and policy Steps are ever inside `awaitGate`), `OnlyApprovers` (the set counted
  holds Principals pinned on the row), `Verdicts` (an approving verdict that is
  about to be recorded has its quorum) and `Passed` (a Step past its Gate has the
  approved row, which no later write changes). Each is a conjunct that some action
  needs: a late write may only hit a Gate of a cancelled coroutine, which
  `Coroutines` shows to be another one.
- `CancelStops`: `Spec => NothingStartsAfterCancel`, from the types alone.
- `WalksInOrder`: `Spec => []WalkedInOrder`. The lemma `StepShapes` reduces the many actions
  to the few ways the state map changes (nothing, one running Step becomes
  terminal with a walk after it, a walk alone); the proof is then about those.
- `BindsNeeds`: `Spec => []BindsItsNeeds`. The property alone is not inductive: a Step could
  publish after a Step that needs it took its snapshot. `WalkedInOrder` excludes it, since
  whoever publishes is still running.
- `AppliesApproved`: `Spec => []AppliesOnlyApprovedPlans`, when every edge a pinned Apply
  transitively depends on is a success edge (`SuccessPath`; section 6 has the counterexample
  without it). `Pinned` says that what was applied is an Apply that was started. The Steps of
  its needs-closure that succeeded are then closed under needs, so they are the whole
  closure, and the Gate `validatePlanPinning` finds in it succeeded on an approved row.
- `GreenRowsAreHonest`: `Spec => []GreenIsHonest`. `Phases`: no Step is decided before the first
  walk, all are after the last, and a Step is canceled only when the DAG is. Its hard case is
  that a walk which leaves nothing running leaves nothing pending (`WalkEndsDecided`): a
  finite acyclic graph has a first pending Step (`SomeStepIsFirst`, by well-foundedness of
  strict inclusion on the needs-closures), and all its needs are decided. `RowsTrue`: a
  succeeded row, written or still held by an abandoned attempt, carries the map of a DAG
  that can no longer change.

For any two Workflows, the child's constants unrestricted:

- `ParentIsWorkflowRun`: `NestedSpec => Spec`. The composition restricts only the return of the
  nested Step, so everything above holds of the parent.
- `SettlesOverClosedChild`: `NestedSpec => []SettledOverClosedChild`, for every set of faults.
  `CallInv` adds that a child exists only once its Step waits for it. A parent's own step
  can only cancel a Step that waits (`CallWaits`), and a closed child stays closed, because
  its coroutines are those of running Steps and Steps run during the walk (`ChildInv`).
- `CanceledChildHasNoPendingGate`: `NestedSpec => []NoPendingGateInChild`, without store failures
  (`Undisturbed`, as in the run; section 4) and with abandoned attempts. `Swept`: a row
  reads canceled only at the end, after the sweep, when no coroutine is left to open a
  Gate; what an abandoned attempt opens or reopens is in `lateGates`.

For every set of slices, wherever each runs, every number of attempts and every
fault set that satisfies the assumptions of `ViewRun`:

- `TypesHold`: `Spec => []TypeOK` (no run repeats it). `TypeOK` alone is not inductive: acknowledging a message
  takes one off the queue, so the proof carries `Handled` (the message the agent
  handles is unacknowledged and was delivered). The proof goes by the part of the
  system the variables belong to, so each action is looked at where it acts.
- `GreenIsTraced`: `Spec => []GreenRunIsHonest`. The strengthening `Traced` follows an "ok"
  backwards: row and return value, settled result, the Site's reply, the execution
  that read it, the finished Job, the tool that ended well. Retries, zombies,
  redeliveries and late writes each move one of those along and add none.
- `ToolStartsOnce`: `Spec => []ToolRunsOnce`. The strengthening ties the number of starts to
  the Job: none while it is absent or pending, at most one otherwise, unless it was
  deleted or expired; a second create adopts the Job it finds.

For every number of events, Sealers and forwarders, every batch limit, any number
of failures and any overlap of inserts that satisfy the assumption of `AuditStream`:

- `StreamIsLedger`: `Spec => ImplementsLedger`. Every step is a step of `Ledger` or not
  visible in it. The invariant it needs, `LedgerInv`, has four parts: `Recording` (only rows
  are sealed), `Sealing` (whoever is inside SealPending holds the lock, so that the tail
  it read is still unsealed), `OneChain` and `Forwarding` (a forwarder's batch starts no
  higher than the offset and holds every row from there to its last one but those in
  `passed`, and what is about to be reported the SIEM has). The second makes the commit a
  `Seal` that repeats nothing; the fourth makes a report that comes after another
  forwarder's a `Commit` or a stutter, never a rewind or a hole.
- `OffsetCoversTheSIEM`: `Spec => []EgressDropsNothing`, from `Forwarding`.
- `SealersKeepOneChain`: `Spec => []OneChain`. A commit extends the walk from the genesis by
  the tail it read, each row chained from the one before; the lock keeps the head the tail
  was chained from. It says nothing of the order of the walk, which is the order of
  sealing and not of seqs when inserts overlap (section 6).

For every set of Cells and any number of moves, attempts and faults that satisfy the
assumption of `SourceRehome`:

- `OnlyHomesServe`: `Spec => []ServedIsHomed`. `ServedInv` adds that a Syncer which believes
  it writes under a row has one (`HeldIsHomed`), and that only the request a move waits
  for can answer it (`Awaits`); the completion is the one step that removes a row, and it
  takes the Entities with it.
- `OneMoverOneWriter`: `Spec => []OneWriter`, and `MovesKeepTheSource`: `Spec =>
  SourceSurvives`, while moves start from one Cell (`OneMover`, as in the run; section 6
  shows both refuted with two). `MoverInv` follows the seal: nobody but the mover is sealed
  or posts (`Unmoved`), a move completes only when its destination has a row (`Landed`),
  the seal names the destination of the move (`Intent`), a request on its way is for the
  Cell its sender is sealed for or for one that has adopted already (`Heading`), and two
  rows exist only while one is sealed for the other (`OneHome`). All but the first two
  are stated outside `doubt`, and `MovesKeepTheSource` needs only those two: a Source is not
  lost even after a stale claim or a late adopt.

For every set of Sources and hosts, whatever each Source lists, and any number of changes
and faults that satisfy the assumption of `GraphProjection`:

- `TypesHold`: `Spec => []TypeOK` (no run repeats it): presence is of Entities that have rows.
- `LifeNeedsPresence`: `Spec => []LiveIsPresent`, `PresenceKeepsAlive`: `Spec =>
  []PresentIsLive`, `RevivedStartsClean`: `Spec => []FactsDieWithHost`. They are one invariant,
  `LifeInv`, because a retraction decides in one statement whom it buries and buries in a
  later one: `Outgoing` (it buries only what it withdraws, and a Source's sync and its
  re-home never withdraw the same Entity), `Spared` (what it decided to
  leave alive, or what another Source withdraws at the same time, is observed by a Source that
  is not withdrawing it), `Doomed` (what it decided to bury nobody else observes),
  `Crossed` (an Entity that is written and retracted at once is `raced`) and `Marked` (whoever
  revives an Entity with Facets of its former life saw it dead, or has lost its Source to
  a re-home and cannot commit). `Retracted` gathers what a commit of the sync's tombstones
  and one of the re-home have in common, and is used for both. `Spared` and
  `Doomed` are the decision of the first statement as it must still hold at the second; they
  are what the row locks of the Projector preserve, outside `skewed` and `raced`.

For every set of targets and Subscriptions, every damping and any number of checks,
attempts and faults that satisfy the assumption of `Findings`:

- `DampingHolds`: `Spec => []OpensWhenEarned`. `Damped` adds the rows that are not open: a
  pending Finding's count is the streak of drifted checks and below the damping, a resolved
  one has no streak.
- `EvidenceVerifies`: `Spec => []SealedVerifies`. `Bundled`: a Finding on
  the work-list has no manifest, or was overtaken by a late write; an INSERT on its way for
  it is there only because a retry listed it again (`relisted`); the bundle about to be
  recorded is the one stored; and an INSERT still on its way vouches for what is stored
  until its Finding is relisted or overtaken.
- `NoticesAreSentOnce`: `Spec => []SentOnce`, from `Named`: a Notice was sent to a Subscription
  exactly when the Run named after both exists.
- `OutcomeBeforeAck`: `Spec => []AckedIsRecorded`, from `Handled`: a Subscription the
  Dispatcher has done with, without an error so far, has its outcome recorded or
  swallowed.

For every list of event Triggers that `ValidateTrigger` admits, every set of events and
keys and any number of failures:

- `RowsRestOnMatches`: `Spec => []WindowIsEvidence`, for any number of engines and any fault,
  because the upsert is one statement. `Walking` (an engine is at a Trigger of the list, with
  a key when it fires) and `Dated` (types; every history entry has a number of its own)
  come first; `Backed` is the property with the clock: no row was opened in the future.
- `FiresAreACooldownApart`: `Spec => []CooldownHolds`, for one engine (`OneEngine`) and a
  retention no shorter than any cooldown (`Retained`), whatever fails. `Cooling`: a row
  remembers a stamped fire as long as its cooldown lasts, through reopened windows, sweeps
  and later fires whose stamp failed; `Due`: an engine about to fire has waited for every
  earlier one.
- `AckedEventsAreLaunched`: `Spec => []AckedIsLaunched`, for any number of engines and any
  fault, without a hypothesis. `Serving`: for every Trigger an engine is past without an
  error so far, the event it handles was launched or swallowed, and for an acked event all
  were; a redelivery to another engine takes nothing back.
- `SweepSparesLiveWindows`: `Spec => SweepLeavesLiveWindows`, for any number of engines,
  with a retention no shorter than any window and cooldown.

Assumptions: the named ASSUMEs of the modules, evaluated by TLC in every run of
them, and the hypotheses named above. Every invariant and action property a
passing run checks is proved. Only model-checked: the liveness properties
(the prover has no support for fairness), among them `CancelEnds`, `NoOrphanChild`,
`RunCloses`, `SiteIsFreed`, `EveryEventIsSealed`, `EveryEventIsForwarded`,
`CollisionIsReported`, `HomedIsProjected`, `Converges`, `NoticesAreAnswered` and
`DeadFindingsResolve`.

## 6. What TLC refutes outside the runs

The passing runs keep inside the conditions under which their properties hold.
Outside them TLC refutes the following, on the same modules. A property named here
that no run checks is defined in its module; each is stated with what to change.

Workflow runs, Triggers and the audit stream:

- `AppliesOnlyApprovedPlans` with `When <- MCWhenAlways`: a pinned Apply declared
  `when: always` runs although its Gate was denied. The declaration check asks for a
  Gate in the needs-closure, and the digest comes from the Plan Step.
- `ClosedRunIsTerminal`: a cancel before the deferred handler is registered leaves
  the row pending or running for good.
- `NoPendingGateInChild` without `lateGates`: an abandoned CreateGateRecord opens a Gate
  after CancelPendingGates (against `workflow.go:1011`).
- A terminal row is not final: SetWorkflowRunStatus has no guard, and a cancel
  delivered between the last write and the close turns succeeded into canceled.
- `AckedIsLaunched` for Triggers with a pattern or a cooldown: the launch fails, and the
  redelivery meets the window that was reset, or the cooldown that was stamped, before it.
- `AckedIsLaunched` without `swallowed`: TriggerWindowAdvance fails, as it does whenever the
  lease is lost under a message, `handle` logs it like a rule that cannot decide
  (`engine.go:79-85`) and the event is acked. `engine.go:65-67` says of infrastructure
  failures that "at-least-once holds end to end".
- `SweepLeavesLiveWindows` with `Keep` below `Within`, that is a declared
  `withinSeconds` above the sweep's 24 hours, which no check forbids.
- An event is launched twice when its redelivery arrives after the first
  execution closed.
- `EgressDropsNothing` without `passed`: two inserts overlap, the higher seq commits first
  and is forwarded, and the lower one, committed after, is never shipped. `server.go:3110-3112`
  says that "a dropped audit record is impossible by design".
- `VerifyAccusesNobody`: a seal between the two reads of VerifyAudit reads as a
  truncated tail; and a lower seq that commits after a higher one was sealed is chained
  after it, so that VerifyAudit's walk in seq order reports an untampered ledger broken.

Runs (`CanceledRunIsStopped` on the instance of `view_run`):

- CleanupRun deletes the Jobs that exist. An attempt that Temporal gave up on may
  create its Job afterwards (`orchestrate.go:296`), and the tool of a canceled Run
  runs to its end.
- The cancel reaches a Site as one core NATS message, and the dispatch is not
  withdrawn: a message delivered to the agent after the cancel, or redelivered after a
  crash, is executed.
- `SiteIsFreed` without `WaitsForDeletedPod`: when a cancel deletes a Job whose Pod is still
  pending, or Kubernetes deletes the Pod because the Job's `activeDeadlineSeconds` passed,
  waitForPod (`dispatch.go:929-969`) polls for ever under the agent's context, which has no
  timeout (`stratt-agent/main.go:213`), and with it the one handler of the Site.
- `Execute` failing all its attempts fails the row and leaves the Job alive; RunAction
  logs a failed cleanup and reports the cancel (`action.go:63`).

Re-home:

- `AbortFencesAdopt`: the abort bumps the epoch of the source Cell's row, which the
  destination never reads: an adopt that arrives after the abort is inserted, and two
  Cells write (`graph/rehome.go:202`). `CollisionIsReported` is what is left.
- `SealIsShown`: a Source stays sealed with no Finding when the abort's retries are
  spent, or the seal committed and its Finding did not.
- `MovedAwayStandsBy`: the Syncer of a Cell that handed its Source over is never told and
  keeps syncing into refusals.
- `OneWriter` and `SourceSurvives` with `Movers = {a, b}`: two opposite moves with equal
  epochs; each destination takes the other's request for a replay.
- A retry of CompleteRehome after its reply was lost finds no row and fails; the
  Finding of the removed row stays open.

Projection:

- `LivenessIsUnion`: two Sources retract an Entity in overlapping transactions, each of
  which sees the presence of the other under READ COMMITTED; the Entity lives with
  nobody observing it (`projector.go:510`). Or CompleteRehome has retracted what the
  Source observes, the Source's own sync commits one more presence, and the Source row
  takes it along by cascade: nobody tombstones that Entity (`graph/rehome.go:127-169`).
- A Source with Relations cannot be re-homed: the cascade to `relation_presence` meets the
  trigger of migration 00037, which does not know the re-home's write path; every attempt
  of CompleteRehome rolls back (`CompleteFails`) and the Source stays sealed.
- `PresentIsLive` without `raced`: a tombstone that began before an upsert committed buries
  the Entity that was just observed; it stays so until its next observation.
- An edge of a delta feed whose target another Source has not projected yet is
  dropped and not offered again; hence `Converges` speaks of the edges of full feeds.

Findings and Notices:

- `OpensWhenEarned` without `doubled`: the recording activity commits, its reply is lost,
  and the retry counts the same check again. The retry also finds the Finding already
  open, so the first attempt's Notice is not published by anybody when it was the
  commit's reply that was lost (`baseline.go:292`).
- `AckedIsRecorded` for Subscriptions with a cooldown: the stamp precedes the delivery
  (`notify/dispatcher.go:128`), so the redelivery of a failed delivery is suppressed.
- `AckedIsRecorded` without `swallowed`: `record` and `poison` only log a failed
  RecordDelivery (`notify/dispatcher.go:253-269`), as every one is on the cancelled context
  of a lost lease, and the Notice is acked with no trace of its outcome.
- `SealedVerifies` without `overtaken`: a PutObject that timed out lands after the one that was
  recorded; or the INSERT of an abandoned attempt commits after the retry listed, which then
  overwrites the object, gets ErrConflict and goes on. Either way the bundle no longer matches
  its digest. `baseline.go:248` says of that branch "the object is write-once anyway".
- A Finding that is resolved before its evidence was sealed is never sealed:
  ListUnsealedFindings reads open Findings.

## 7. What is not modelled

Content: parameter templating, CEL evaluation, contracts, encryption, the pod
specification of a Job, log streams, the bodies of events. Parts of modelled
components: Runs across Cells (`across.go`), agent-driven groups, reach-via; Findings'
remediation and the reconcile of Baseline schedules; identity merges, labels and View
resolution in the graph; Site heartbeats and enrolment; the routing of reads to a
Source's home Cell. Adapters: the AWX facade, the MCP server, plugins, the UI.
Generated code (protobuf, the OpenAPI server) has no behaviour of its own.
Authorization is an input (who may decide a Gate, whether a grant holds); grants live
in OpenFGA. The declaration loader (`desiredstate.go`) is a long sequence of
independent checks over parsed files: of it the modules take the two that the runtime
relies on. The OpenTofu backend, the schedule reconcile, cutover, provisioning and the
desired-state controller are loops of their own over one row or one declaration at a
time; their hazards are listed where they have one. `PROJECT.json` lists every part
with its status and, under `hazards`, a note for each one no property covers.

## 8. Where it could go

Abstract specifications: an approval (pending, then one
verdict) that a Gate of `WorkflowRun` implements; a single-writer register that
`SourceRehome` implements outside `doubt`. The composition of `ViewRun` with an actuation
Step of `WorkflowRun`.
