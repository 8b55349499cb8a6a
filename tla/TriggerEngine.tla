--------------------------- MODULE TriggerEngine ---------------------------
(***************************************************************************)
(* The Trigger engine (core/internal/triggerengine/engine.go) between the  *)
(* durable emitter stream it consumes (core/internal/events/emitter.go),   *)
(* the shared window rows it decides on (core/internal/graph/              *)
(* triggerwindow.go) and the Temporal executions it starts.                *)
(*                                                                         *)
(* A consumer runs handle on one message at a time and acks or naks it at  *)
(* the end; an unacked message is delivered again.  Each call handle makes *)
(* to the store or to Temporal is one action, so several consumers (two    *)
(* replicas, or two leaders around a failover) and the hourly sweep        *)
(* interleave between them.  Time is a logical clock.                      *)
(***************************************************************************)
EXTENDS Integers, Sequences, FiniteSets

CONSTANTS
    Consumer,    \* running engines on the one durable consumer
    Event,       \* ingested emitter events, by content hash
    Triggers,    \* the event Triggers of the emitter, in ListTriggers order
    Key,         \* correlation keys
    NoKey,       \* a payload with no value for the key
    Conditions,  \* [Trigger -> set of allOf indices], {} for a when: Trigger
    Count,       \* [Trigger -> Nat]
    Within,      \* [Trigger -> Nat], 0 = no window
    Cooldown,    \* [Trigger -> Nat]
    Matches,     \* [Trigger -> [Event -> Nat \cup {-1}]], the first condition
                 \* the event satisfies (0 for when:), -1 none or a rule error
    Payload,     \* [Trigger -> [Event -> Key \cup {NoKey}]]
    Binds,       \* [Trigger -> SUBSET Event], payloads the params bind to
    Keep,        \* the sweep's retention
    Faults,      \* subset of {"advance", "reset", "launch", "crash", "ackwait",
                 \* "lead"}
    MaxTime,     \* bound on the clock
    MaxFailures  \* bound on outages, crashes, lost leaderships, ack timeouts

Trigger == {Triggers[i] : i \in 1 .. Len(Triggers)}

\* What the desired-state loader admits as an event Trigger.
ValidateTrigger(t) ==
    /\ Conditions[t] # {} => /\ Cardinality(Conditions[t]) > 1
                             /\ Count[t] <= 1
                             /\ Within[t] > 0
    /\ Count[t] > 1 => Within[t] > 0

ASSUME TriggerShapes ==
    /\ NoKey \notin Key /\ Event # {} /\ Triggers \in Seq(Trigger)
    /\ Keep \in Nat /\ MaxTime \in Nat /\ MaxFailures \in Nat
    /\ \A t \in Trigger :
          /\ Count[t] \in Nat /\ Within[t] \in Nat /\ Cooldown[t] \in Nat
          /\ IsFiniteSet(Conditions[t]) /\ ValidateTrigger(t)
          /\ \A e \in Event : /\ Matches[t][e] \in Nat \cup {-1}
                               /\ Payload[t][e] \in Key \cup {NoKey}

NoRow == [opened |-> -1, count |-> 0, satisfied |-> {}, fired |-> -1]

VARIABLES
    msg,       \* [Event -> "new" | "ready" | "out" | "done"], the stream
    pc,        \* [Consumer -> where handle is]
    handling,  \* [Consumer -> Event], meaningful unless pc is "idle"
    at,        \* [Consumer -> index into Triggers]
    failed,    \* [Consumer -> BOOLEAN], launchErr # nil
    led,       \* [Consumer -> BOOLEAN], its leader context is alive
    row,       \* [Trigger -> [Key -> row]], graph.trigger_window
    running,   \* launches [trigger, event] Temporal has open
    started,   \* [Trigger -> [Event -> Nat]], executions ever started
    now,       \* the clock
    failures,  \* failures so far
    matched,   \* history of window advances [trigger, key, cond, time, n]
    fires,     \* history of fires [trigger, key, time, n, stamped]
    swallowed  \* history of decisions lost to a failed advance [trigger, event]

vars == << msg, pc, handling, at, failed, led, row, running, started, now,
           failures, matched, fires, swallowed >>

TypeOK ==
    /\ msg \in [Event -> {"new", "ready", "out", "done"}]
    /\ pc \in [Consumer -> {"idle", "list", "decide", "fire", "launch", "ack"}]
    /\ handling \in [Consumer -> Event]
    /\ at \in [Consumer -> 1 .. Len(Triggers) + 1]
    /\ failed \in [Consumer -> BOOLEAN]
    /\ led \in [Consumer -> BOOLEAN]
    /\ \A t \in Trigger, k \in Key :
          /\ row[t][k].opened \in -1 .. MaxTime
          /\ row[t][k].fired \in -1 .. MaxTime
          /\ row[t][k].count \in Nat
          /\ row[t][k].satisfied \subseteq Conditions[t]
    /\ started \in [Trigger -> [Event -> Nat]]
    /\ now \in 0 .. MaxTime
    /\ failures \in 0 .. MaxFailures

Init ==
    /\ msg = [e \in Event |-> "new"]
    /\ pc = [c \in Consumer |-> "idle"]
    /\ handling = [c \in Consumer |-> CHOOSE e \in Event : TRUE]
    /\ at = [c \in Consumer |-> 1]
    /\ failed = [c \in Consumer |-> FALSE]
    /\ led = [c \in Consumer |-> TRUE]
    /\ row = [t \in Trigger |-> [k \in Key |-> NoRow]]
    /\ running = {}
    /\ started = [t \in Trigger |-> [e \in Event |-> 0]]
    /\ now = 0
    /\ failures = 0
    /\ matched = {}
    /\ fires = {}
    /\ swallowed = {}

CanFail(f) == f \in Faults /\ failures < MaxFailures

Fails == failures' = failures + 1

\* A call of engine c on f fails: an outage, or any call at all once the
\* context of its leadership is cancelled.
Errs(c, f) == IF led[c] THEN CanFail(f) /\ Fails ELSE UNCHANGED failures

-----------------------------------------------------------------------------
(* The stream. *)

PublishEmitterEvent(e) ==
    /\ msg[e] = "new"
    /\ msg' = [msg EXCEPT ![e] = "ready"]
    /\ UNCHANGED << pc, handling, at, failed, led, row, running, started,
                    now, failures, matched, fires, swallowed >>

Deliver(c, e) ==
    /\ pc[c] = "idle" /\ led[c]
    /\ msg[e] = "ready"
    /\ msg' = [msg EXCEPT ![e] = "out"]
    /\ pc' = [pc EXCEPT ![c] = "list"]
    /\ handling' = [handling EXCEPT ![c] = e]
    /\ at' = [at EXCEPT ![c] = 1]
    /\ failed' = [failed EXCEPT ![c] = FALSE]
    /\ UNCHANGED << led, row, running, started, now, failures, matched,
                    fires, swallowed >>

\* The ack did not arrive in time, whether handle still runs or died.
AckWait(e) ==
    /\ msg[e] = "out"
    /\ \/ \A c \in Consumer : pc[c] = "idle" \/ handling[c] # e
       \/ CanFail("ackwait")
    /\ msg' = [msg EXCEPT ![e] = "ready"]
    /\ IF \A c \in Consumer : pc[c] = "idle" \/ handling[c] # e
       THEN UNCHANGED failures ELSE Fails
    /\ UNCHANGED << pc, handling, at, failed, led, row, running, started,
                    now, matched, fires, swallowed >>

\* handle returns: nil acks the message, an error naks it.  A redelivery that
\* is already on its way is handled whatever the first delivery came to.
AckOrNak(c) ==
    LET e == handling[c]
    IN /\ pc[c] = "ack"
       /\ \/ ~failed[c] /\ msg' = [msg EXCEPT ![e] = "done"]
          \/ failed[c] /\ msg[e] # "done" /\ msg' = [msg EXCEPT ![e] = "ready"]
          \/ (failed[c] => msg[e] = "done") /\ msg[e] # "out" /\ UNCHANGED msg
       /\ pc' = [pc EXCEPT ![c] = "idle"]
       /\ UNCHANGED << handling, at, failed, led, row, running, started,
                       now, failures, matched, fires, swallowed >>

Crash(c) ==
    /\ pc[c] # "idle"
    /\ CanFail("crash")
    /\ Fails
    /\ pc' = [pc EXCEPT ![c] = "idle"]
    /\ UNCHANGED << msg, handling, at, failed, led, row, running, started,
                    now, matched, fires, swallowed >>

\* The lease is lost: only the context ends, handle runs on with it.
LoseLeadership(c) ==
    /\ led[c]
    /\ CanFail("lead")
    /\ Fails
    /\ led' = [led EXCEPT ![c] = FALSE]
    /\ UNCHANGED << msg, pc, handling, at, failed, row, running, started, now,
                    matched, fires, swallowed >>

\* The demoted replica is elected again, with a context of its own.
Lead(c) ==
    /\ ~led[c] /\ pc[c] = "idle"
    /\ led' = [led EXCEPT ![c] = TRUE]
    /\ UNCHANGED << msg, pc, handling, at, failed, row, running, started, now,
                    failures, matched, fires, swallowed >>

-----------------------------------------------------------------------------
(* handle, one Trigger after the other. *)

\* Where handle goes on after Trigger i.
After(i) == IF i < Len(Triggers) THEN "decide" ELSE "ack"

NextTrigger(c) ==
    /\ at' = [at EXCEPT ![c] = @ + 1]
    /\ pc' = [pc EXCEPT ![c] = After(at[c])]

\* ListTriggers; its error naks the message.
ListTriggers(c) ==
    /\ pc[c] = "list"
    /\ \/ /\ led[c]
          /\ pc' = [pc EXCEPT ![c] = After(0)]
          /\ UNCHANGED << failed, failures >>
       \/ /\ Errs(c, "advance")
          /\ pc' = [pc EXCEPT ![c] = "ack"]
          /\ failed' = [failed EXCEPT ![c] = TRUE]
    /\ UNCHANGED << msg, handling, at, led, row, running, started, now,
                    matched, fires, swallowed >>

\* Mutant: an event without the key joins one shared window.
correlationKey_Shared(t, e) ==
    IF Payload[t][e] = NoKey THEN CHOOSE k \in Key : TRUE ELSE Payload[t][e]

\* An event without a value for the key is excluded, never bucketed.
correlationKey(t, e) == Payload[t][e]

\* The reopen decision of the upsert.
Expired(t, r) == Within[t] > 0 /\ now - r.opened > Within[t]

\* The row after one matching event.
TriggerWindowAdvance(t, r, i) ==
    LET hit == {i} \cap Conditions[t]
    IN IF r = NoRow \/ Expired(t, r)
       THEN [opened |-> now, count |-> 1, satisfied |-> hit, fired |-> r.fired]
       ELSE [r EXCEPT !.count = r.count + 1, !.satisfied = r.satisfied \cup hit]

Damped(t, r) == Cooldown[t] > 0 /\ r.fired >= 0 /\ now - r.fired < Cooldown[t]

\* The pattern: every condition, the count, or any match.
Complete(t, r) ==
    IF Conditions[t] # {} THEN Cardinality(r.satisfied) >= Cardinality(Conditions[t])
    ELSE Count[t] > 1 => r.count >= Count[t]

\* decide: the rule, the key, the window, the cooldown, the pattern.
Decide(c) ==
    LET t == Triggers[at[c]]
        e == handling[c]
        k == correlationKey(t, e)
        r == TriggerWindowAdvance(t, row[t][k], Matches[t][e])
    IN /\ pc[c] = "decide"
       /\ IF Matches[t][e] = -1 \/ k = NoKey
          THEN NextTrigger(c) /\ UNCHANGED << row, matched >>
          ELSE /\ led[c]
               /\ row' = [row EXCEPT ![t][k] = r]
               /\ matched' = matched \cup
                     {[trigger |-> t, key |-> k, event |-> e, time |-> now,
                       n |-> Cardinality(matched)]}
               /\ IF ~Damped(t, r) /\ Complete(t, r)
                  THEN pc' = [pc EXCEPT ![c] = "fire"] /\ UNCHANGED at
                  ELSE NextTrigger(c)
       /\ UNCHANGED << msg, handling, failed, led, running, started, now,
                       failures, fires, swallowed >>

\* The advance fails: logged like a rule error, and handle goes on.
DecideFails(c) ==
    LET t == Triggers[at[c]]
        e == handling[c]
    IN /\ pc[c] = "decide"
       /\ Matches[t][e] # -1 /\ correlationKey(t, e) # NoKey
       /\ Errs(c, "advance")
       /\ swallowed' = swallowed \cup {[trigger |-> t, event |-> e]}
       /\ NextTrigger(c)
       /\ UNCHANGED << msg, handling, failed, led, row, running, started, now,
                       matched, fires >>

\* Mutant: the reset forgets when the Trigger fired.
Reset_NoStamp == [opened |-> now, count |-> 0, satisfied |-> {}, fired |-> -1]

\* The window after a fire.
Reset == [opened |-> now, count |-> 0, satisfied |-> {}, fired |-> now]

\* TriggerWindowFired, before the launch; its error is only logged.
TriggerWindowFired(c) ==
    LET t == Triggers[at[c]]
        k == correlationKey(t, handling[c])
        fire(b) == [trigger |-> t, key |-> k, time |-> now,
                    n |-> Cardinality(fires), stamped |-> b]
    IN /\ pc[c] = "fire" /\ led[c]
       /\ pc' = [pc EXCEPT ![c] = "launch"]
       /\ \/ /\ row' = [row EXCEPT ![t][k] = Reset]
             /\ fires' = fires \cup {fire(TRUE)}
             /\ UNCHANGED failures
          \/ /\ CanFail("reset")
             /\ Fails
             /\ fires' = fires \cup {fire(FALSE)}
             /\ UNCHANGED row
       /\ UNCHANGED << msg, handling, at, failed, led, running, started, now,
                       matched, swallowed >>

\* Temporal refuses the id only while an execution with it is open.
Start(t, e) ==
    LET l == [trigger |-> t, event |-> e]
    IN /\ running' = running \cup {l}
       /\ started' = IF l \in running THEN started
                     ELSE [started EXCEPT ![t][e] = @ + 1]

\* launch: a payload that does not bind is dropped.
Launch(c) ==
    LET t == Triggers[at[c]]
        e == handling[c]
    IN /\ pc[c] = "launch"
       /\ led[c] \/ e \notin Binds[t]
       /\ IF e \in Binds[t] THEN Start(t, e) ELSE UNCHANGED << running, started >>
       /\ NextTrigger(c)
       /\ UNCHANGED << msg, handling, failed, led, row, now, failures,
                       matched, fires, swallowed >>

\* Mutant: a failed launch is logged and acked.
OnLaunchError_Acks(c) == UNCHANGED failed

\* launchErr: the message will be nakked.
OnLaunchError(c) == failed' = [failed EXCEPT ![c] = TRUE]

\* The start call fails; the execution may exist all the same.
LaunchFails(c) ==
    LET t == Triggers[at[c]]
        e == handling[c]
    IN /\ pc[c] = "launch"
       /\ e \in Binds[t]
       /\ Errs(c, "launch")
       /\ Start(t, e) \/ UNCHANGED << running, started >>
       /\ OnLaunchError(c)
       /\ NextTrigger(c)
       /\ UNCHANGED << msg, handling, led, row, now, matched, fires,
                       swallowed >>

\* On a cancelled context the reset fails, which is logged, and then the launch.
FireFails(c) ==
    /\ pc[c] = "fire" /\ ~led[c]
    /\ IF handling[c] \in Binds[Triggers[at[c]]] THEN OnLaunchError(c)
       ELSE UNCHANGED failed
    /\ NextTrigger(c)
    /\ UNCHANGED << msg, handling, led, row, running, started, now, failures,
                    matched, fires, swallowed >>

-----------------------------------------------------------------------------

LaunchCloses(l) ==
    /\ l \in running
    /\ running' = running \ {l}
    /\ UNCHANGED << msg, pc, handling, at, failed, led, row, started, now,
                    failures, matched, fires, swallowed >>

\* Mutant: the age of the window is not asked for.
Stale_FiredOnly(r) == r # NoRow /\ (r.fired = -1 \/ now - r.fired > Keep)

\* Rows opened, and last fired, longer than Keep ago are deleted.
Stale(r) ==
    /\ r # NoRow
    /\ now - r.opened > Keep
    /\ r.fired = -1 \/ now - r.fired > Keep

TriggerWindowSweep ==
    /\ \E t \in Trigger, k \in Key : Stale(row[t][k])
    /\ row' = [t \in Trigger |-> [k \in Key |->
                  IF Stale(row[t][k]) THEN NoRow ELSE row[t][k]]]
    /\ UNCHANGED << msg, pc, handling, at, failed, led, running, started,
                    now, failures, matched, fires, swallowed >>

Tick ==
    /\ now < MaxTime
    /\ now' = now + 1
    /\ UNCHANGED << msg, pc, handling, at, failed, led, row, running,
                    started, failures, matched, fires, swallowed >>

Handle(c) ==
    \/ ListTriggers(c) \/ Decide(c) \/ TriggerWindowFired(c) \/ Launch(c)
    \/ AckOrNak(c) \/ DecideFails(c) \/ FireFails(c) \/ LaunchFails(c)

Next ==
    \/ \E e \in Event : PublishEmitterEvent(e) \/ AckWait(e)
    \/ \E c \in Consumer, e \in Event : Deliver(c, e)
    \/ \E c \in Consumer : Handle(c) \/ Crash(c) \/ LoseLeadership(c) \/ Lead(c)
    \/ \E l \in running : LaunchCloses(l)
    \/ TriggerWindowSweep \/ Tick

Spec == Init /\ [][Next]_vars

-----------------------------------------------------------------------------
(* Properties. *)

\* A pattern Trigger's row claims no more than what was matched inside its
\* window, by events that carry the row's own key: conditions are satisfied,
\* and counted, by events about the same thing and recent enough.
WindowIsEvidence ==
    \A t \in Trigger, k \in Key :
        LET seen == {m \in matched :
                        /\ m.trigger = t
                        /\ Payload[t][m.event] = k
                        /\ m.time >= row[t][k].opened}
            last == {m \in seen : m.time <= row[t][k].opened + Within[t]}
            span == IF Within[t] > 0 THEN last ELSE seen
        IN /\ row[t][k].count <= Cardinality(span)
           /\ \A i \in row[t][k].satisfied :
                 \E m \in span : Matches[t][m.event] = i

\* Of two engines that race on a counting Trigger the fifth event has exactly
\* one winner: every fire stands on Count matches of its own.  The increment is
\* atomic, but the threshold is read before the reset, a statement later: a
\* second engine that advances in between fires as well, so this fails.
OneWinner ==
    \A t \in Trigger, k \in Key : Count[t] > 1 =>
        Cardinality({f \in fires : f.trigger = t /\ f.key = k}) * Count[t] <=
            Cardinality({m \in matched : m.trigger = t /\ m.key = k})

\* A fire whose stamp was written is a cooldown away from every later fire of
\* the Trigger for that key, across restarts, redeliveries, window resets, the
\* sweep and fires in between whose own stamp was lost.
CooldownHolds ==
    \A f, g \in fires :
        f.trigger = g.trigger /\ f.key = g.key /\ f.n < g.n /\ f.stamped =>
            g.time - f.time >= Cooldown[f.trigger]

\* An event is acked only once a when: Trigger it satisfies, with no pattern
\* and no cooldown, was launched for it: through failed launches, crashes, lost
\* leaderships and redeliveries to any engine, no match is dropped.  The one
\* exemption is what handle swallows: a decision whose window advance failed
\* is logged like a rule error, and the event acked without it.
AckedIsLaunched ==
    \A t \in Trigger, e \in Event :
        /\ msg[e] = "done" /\ e \in Binds[t] /\ Matches[t][e] # -1
        /\ correlationKey(t, e) # NoKey
        /\ Count[t] <= 1 /\ Conditions[t] = {} /\ Cooldown[t] = 0
        => started[t][e] > 0 \/ [trigger |-> t, event |-> e] \in swallowed

\* The sweep deletes no row that would still take part in a decision: no open
\* window and no cooldown in force.
SweepLeavesLiveWindows ==
    [][TriggerWindowSweep => \A t \in Trigger, k \in Key :
          row'[t][k] # row[t][k] =>
              /\ ~Damped(t, row[t][k])
              /\ Within[t] > 0 /\ row[t][k].count > 0 => Expired(t, row[t][k])]_vars

=============================================================================
