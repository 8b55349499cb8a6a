---------------------------- MODULE FindingsProofs ----------------------------
(***************************************************************************)
(* For any number of targets, Subscriptions, checks, attempts and faults:  *)
(* a Finding opens when its damping is earned, its sealed bundle is the    *)
(* one its manifest vouches for unless a write of an abandoned attempt     *)
(* came late, a Notice is sent once to a Subscription and acknowledged     *)
(* only when its outcome is recorded or the record of it failed.           *)
(***************************************************************************)
EXTENDS Findings, TLAPS

Checks == [at : {"idle", "observe", "record", "emit", "relist", "seal", "manifest"},
           n : Nat, obs : [Targets -> {"none", "clean", "drifted"}],
           todo : SUBSET Targets, tail : Tails \cup {"none"}, counted : SUBSET Targets]
Rows   == [status : {"none", "pending", "open", "resolved"}, count : Nat]
Jobs   == [msg : Openings \cup {<<>>}, todo : SUBSET Subs, sub : SUBSET Subs,
           started : BOOLEAN, err : BOOLEAN]
Ended  == {"delivered", "failed"}

-----------------------------------------------------------------------------
(* Types, by the part of the state an action writes.                       *)

CheckTypes == check \in Checks
FindingTypes ==
  row \in [Targets -> Rows] /\ streak \in [Targets -> Nat] /\ doubled \subseteq Targets
SealTypes ==
  /\ manifest \in [Targets -> Tails \cup {"none"}] /\ object \in [Targets -> Tails \cup {"none"}]
  /\ flight \subseteq Targets \X Tails /\ inserts \subseteq Targets \X Tails
  /\ relisted \subseteq Targets /\ overtaken \subseteq Targets
NotifyTypes ==
  /\ job \in Jobs /\ cool \subseteq Cooled
  /\ stream \in [Openings -> {"none", "queued", "again", "acked"}]
  /\ run \in [Subs -> [Targets -> {"none", "running", "delivered", "failed"}]]
  /\ record \in [Subs -> [Openings -> {"none", "delivered", "failed"}]]
  /\ sends \in [Subs -> [Targets -> Nat]]

\* The values a check and a job start and end with.
LEMMA Empties ==
  /\ Idle \in Checks /\ NoJob \in Jobs /\ NoRow \in Rows
  /\ Idle.at = "idle" /\ Idle.todo = {} /\ NoJob.sub = {} /\ NoJob.msg = <<>> /\ NoJob.err = FALSE
BY DEF Idle, NoJob, NoRow, Checks, Jobs, Rows

\* An attempt that fails leaves nothing to do to the next one.
LEMMA RetryShape ==
  ASSUME CheckTypes, NEW from \in {"observe", "record", "relist"}, Retry(from)
  PROVE  check' \in Checks /\ check'.at \in {from, "idle"} /\ check'.todo = {}
<1>1. check \in Checks /\ check.n + 1 \in Nat
  BY DEF CheckTypes, Checks
<1>2. CASE check' = [check EXCEPT !.at = from, !.n = check.n + 1, !.todo = {}]
  BY <1>1, <1>2 DEF Checks
<1> QED BY <1>2, Empties DEF Retry

\* Where an attempt of the first activity starts again.
LEMMA AgainShape == Again \in {"observe", "record"}
BY DEF Again

\* Every step keeps the check well formed.
LEMMA CheckTypesStep ==
  ASSUME CheckTypes, [Next]_vars
  PROVE  CheckTypes'
<1>1. check \in Checks /\ check.n + 1 \in Nat
  BY DEF CheckTypes, Checks
<1>2. CASE UNCHANGED check
  BY <1>2 DEF CheckTypes
<1>3. CASE StartCheck
  BY <1>3, Empties DEF StartCheck, CheckTypes, Checks
<1>4. CASE Observe
  BY <1>1, <1>4 DEF Observe, CheckTypes, Checks
<1>5. CASE RecordBaselineObservations
  <2> DEFINE seen == check.counted \cup {t \in Targets : Observed(t) # "none"}
             opening == {t \in Targets : Opens(t)}
  <2>1. \/ check' = [check EXCEPT !.at = "emit", !.todo = opening, !.counted = seen]
        \/ check' = [check EXCEPT !.at = Again, !.n = check.n + 1, !.counted = seen]
        \/ check' = Idle
    BY <1>5 DEF RecordBaselineObservations
  <2>2. opening \in SUBSET Targets /\ seen \in SUBSET Targets
    BY <1>1 DEF Checks
  <2> HIDE DEF opening, seen
  <2> QED BY ZenonT(40), <1>1, <2>1, <2>2, AgainShape, Empties DEF CheckTypes, Checks
<1>6. ASSUME NEW t \in Targets, PublishNotice(t) PROVE CheckTypes'
  <2>1. check' = [check EXCEPT !.todo = check.todo \ {t}] \/ Retry(Again)
    BY <1>6 DEF PublishNotice
  <2> QED BY <1>1, <2>1, RetryShape, AgainShape DEF CheckTypes, Checks
<1>7. CASE PublishFails
  BY <1>7, RetryShape, AgainShape DEF PublishFails, CheckTypes
<1>8. CASE ListUnsealed
  <2>1. \/ check' = [check EXCEPT !.at = "seal", !.n = 1, !.todo = Unsealed]
        \/ check' = [check EXCEPT !.at = "seal", !.todo = Unsealed]
    BY <1>8 DEF ListUnsealed
  <2>2. Unsealed \in SUBSET Targets
    BY DEF Unsealed
  <2>3. [check EXCEPT !.at = "seal", !.todo = Unsealed] \in Checks
    BY <1>1, <2>2 DEF Checks
  <2>4. [check EXCEPT !.at = "seal", !.n = 1, !.todo = Unsealed] \in Checks
    BY <1>1, <2>2 DEF Checks
  <2> QED BY <2>1, <2>3, <2>4 DEF CheckTypes
<1>9. ASSUME NEW t \in Targets, Seal(t) PROVE CheckTypes'
  <2>1. (\E tail \in Tails : check' = [check EXCEPT !.at = "manifest", !.todo = {t}, !.tail = tail])
        \/ Retry("relist")
    BY <1>9 DEF Seal
  <2>2. ASSUME NEW tail \in Tails, check' = [check EXCEPT !.at = "manifest", !.todo = {t}, !.tail = tail]
        PROVE  CheckTypes'
    BY <1>1, <2>2 DEF CheckTypes, Checks
  <2> QED BY <2>1, <2>2, RetryShape DEF CheckTypes
<1>10. ASSUME NEW t \in Targets, RecordEvidence(t) PROVE CheckTypes'
  BY <1>1, <1>10, RetryShape DEF RecordEvidence, CheckTypes, Checks
<1>11. CASE EndCheck
  BY <1>11, Empties DEF EndCheck, CheckTypes
<1>12. CASE ~(StartCheck \/ CheckStep)
  BY <1>2, <1>12
     DEF Next, NotifyStep, Take, Consider, Poison, Deliver, LaunchFails, RecordFails, Await, Finish, Lead, Dies, PutLands, InsertLands,
         ResolveFindingsForTombstonedEntities, WindowEnds, CooldownEnds, RunEnds, AckWaitElapses,
         DispatcherStops, LoseLeadership, OnlyNotify, vars
<1> QED BY <1>3, <1>4, <1>5, <1>6, <1>7, <1>8, <1>9, <1>10, <1>11, <1>12 DEF CheckStep

-----------------------------------------------------------------------------
(* Damping.                                                                *)

\* While no check has counted a target twice, a pending Finding's count is
\* the streak, and a Finding that is not live has none.
Damped ==
  \A t \in Targets \ doubled :
    /\ row[t].status \in {"none", "resolved"} => streak[t] = 0
    /\ row[t].status = "pending" => row[t].count = streak[t] /\ streak[t] \in 1 .. Damping - 1
    /\ row[t].status = "open" => streak[t] >= Damping

\* What an observation makes of one Finding.
LEMMA RecordedShape ==
  ASSUME FindingTypes, CheckTypes, NEW t \in Targets
  PROVE  /\ Recorded(t) \in Rows
         /\ Observed(t) = "drifted" =>
              /\ Recorded(t).status = IF Opens(t) \/ row[t].status = "open" THEN "open" ELSE "pending"
              /\ Recorded(t).count = IF Live(t) THEN row[t].count + 1 ELSE 1
         /\ Observed(t) = "clean" => Recorded(t).status \in {"none", "resolved"}
         /\ Observed(t) = "none" => Recorded(t) = row[t]
<1>1. /\ row[t] \in Rows /\ row[t].count \in Nat /\ row[t].count + 1 \in Nat
      /\ row[t].status \in {"none", "pending", "open", "resolved"}
  BY DEF FindingTypes, Rows
<1>2. Observed(t) \in {"none", "clean", "drifted"}
  BY DEF Observed, CheckTypes, Checks
<1>3. CASE Observed(t) = "drifted"
  <2>1. Recorded(t) = [status |-> IF Opens(t) \/ row[t].status = "open" THEN "open" ELSE "pending",
                       count |-> IF Live(t) THEN row[t].count + 1 ELSE 1]
    BY <1>3 DEF Recorded
  <2> QED BY <1>1, <1>3, <2>1 DEF Rows
<1>4. CASE Observed(t) = "clean"
  <2>1. \/ Recorded(t) = NoRow
        \/ Recorded(t) = [status |-> "resolved", count |-> 0]
        \/ Recorded(t) = row[t] /\ row[t].status \notin {"pending", "open"}
    BY <1>4 DEF Recorded
  <2>2. NoRow.status = "none" /\ [status |-> "resolved", count |-> 0] \in Rows
    BY DEF NoRow, Rows
  <2> QED BY <1>1, <1>4, <2>1, <2>2, Empties
<1>5. CASE Observed(t) = "none"
  BY <1>1, <1>5 DEF Recorded
<1> QED BY <1>2, <1>3, <1>4, <1>5

\* RecordBaselineObservations keeps count and streak together.
LEMMA RecordDamped ==
  ASSUME FindingTypes, CheckTypes, Damped, RecordBaselineObservations
  PROVE  FindingTypes' /\ Damped'
<1>1. /\ row' = [t \in Targets |-> Recorded(t)]
      /\ streak' = [t \in Targets |->
           CASE Observed(t) = "clean" -> 0
             [] Observed(t) = "drifted" /\ t \notin check.counted -> streak[t] + 1
             [] OTHER -> streak[t]]
      /\ doubled' = {t \in Targets :
           /\ Observed(t) # "clean"
           /\ t \in doubled \/ (Observed(t) = "drifted" /\ t \in check.counted)}
  BY DEF RecordBaselineObservations
<1>2. ASSUME NEW t \in Targets
      PROVE  /\ streak'[t] \in Nat
             /\ Observed(t) = "clean" => streak'[t] = 0
             /\ Observed(t) = "drifted" /\ t \notin check.counted => streak'[t] = streak[t] + 1
             /\ Observed(t) = "none" => streak'[t] = streak[t]
  <2>1. streak[t] \in Nat /\ streak[t] + 1 \in Nat
    BY DEF FindingTypes
  <2> QED BY <1>1, <2>1
<1>3. FindingTypes'
  BY <1>1, <1>2, RecordedShape DEF FindingTypes
<1>4. ASSUME NEW t \in Targets \ doubled'
      PROVE  /\ row'[t].status \in {"none", "resolved"} => streak'[t] = 0
             /\ row'[t].status = "pending" =>
                  row'[t].count = streak'[t] /\ streak'[t] \in 1 .. Damping - 1
             /\ row'[t].status = "open" => streak'[t] >= Damping
  <2>1. row'[t] = Recorded(t)
    BY <1>1
  <2>2. Observed(t) \in {"none", "clean", "drifted"}
    BY DEF Observed, CheckTypes, Checks
  <2>3. CASE Observed(t) = "clean"
    BY <1>2, <2>1, <2>3, RecordedShape
  <2>4. CASE Observed(t) = "none"
    BY <1>1, <1>2, <1>4, <2>1, <2>4, RecordedShape DEF Damped
  <2>5. CASE Observed(t) = "drifted"
    <3>1. t \notin doubled /\ t \notin check.counted
      BY <1>1, <1>4, <2>5
    <3>2. streak'[t] = streak[t] + 1 /\ streak[t] \in Nat /\ row[t].count \in Nat
      BY <1>2, <2>5, <3>1 DEF FindingTypes, Rows
    <3>3. /\ row'[t].status = IF Opens(t) \/ row[t].status = "open" THEN "open" ELSE "pending"
          /\ row'[t].count = IF Live(t) THEN row[t].count + 1 ELSE 1
      BY <2>1, <2>5, RecordedShape
    <3>4. CASE row[t].status = "open"
      BY <3>1, <3>2, <3>3, <3>4, ConstantsAssumption DEF Damped
    <3>5. CASE row[t].status = "pending"
      <4>1. Live(t) /\ (Opens(t) <=> row[t].count + 1 >= Damping)
        BY <2>5, <3>5 DEF Live, Opens
      <4>2. row[t].count = streak[t] /\ streak[t] \in 1 .. Damping - 1
        BY <3>1, <3>5 DEF Damped
      <4> QED BY <3>2, <3>3, <3>5, <4>1, <4>2, ConstantsAssumption
    <3>6. CASE row[t].status \in {"none", "resolved"}
      <4>1. ~Live(t) /\ (Opens(t) <=> Damping = 1)
        BY <2>5, <3>6 DEF Live, Opens
      <4>2. streak[t] = 0
        BY <3>1, <3>6 DEF Damped
      <4> QED BY <3>2, <3>3, <3>6, <4>1, <4>2, ConstantsAssumption
    <3> QED BY <3>4, <3>5, <3>6 DEF FindingTypes, Rows
  <2> QED BY <2>2, <2>3, <2>4, <2>5
<1>5. Damped'
  BY <1>4 DEF Damped
<1> QED BY <1>3, <1>5

\* Every step does.
LEMMA DampedStep ==
  ASSUME FindingTypes, CheckTypes, Damped, [Next]_vars
  PROVE  FindingTypes' /\ Damped'
<1>1. CASE UNCHANGED findingVars
  BY <1>1 DEF findingVars, FindingTypes, Damped
<1>2. CASE ResolveFindingsForTombstonedEntities
  <2> DEFINE moot == {t \in Targets \ alive : Live(t)}
  <2>1. /\ row' = [t \in Targets |-> IF t \in moot
                     THEN [status |-> "resolved", count |-> 0] ELSE row[t]]
        /\ streak' = [t \in Targets |-> IF t \in moot THEN 0 ELSE streak[t]]
        /\ doubled' = doubled \ moot
    BY <1>2 DEF ResolveFindingsForTombstonedEntities
  <2> HIDE DEF moot
  <2>2. [status |-> "resolved", count |-> 0] \in Rows
    BY DEF Rows
  <2>3. FindingTypes'
    BY <2>1, <2>2 DEF FindingTypes
  <2>4. \A t \in Targets : IF t \in moot THEN row'[t].status = "resolved" /\ streak'[t] = 0
                           ELSE row'[t] = row[t] /\ streak'[t] = streak[t]
    BY <2>1
  <2> QED BY <2>1, <2>3, <2>4 DEF Damped
<1> QED
  BY <1>1, <1>2, RecordDamped
     DEF Next, CheckStep, StartCheck, Observe, PublishNotice, Seal, RecordEvidence, PublishFails,
         ListUnsealed, EndCheck, NotifyStep, Take, Consider, Poison, Deliver, LaunchFails, RecordFails, Await, Finish,
         Lead, LoseLeadership, Dies, PutLands, InsertLands, WindowEnds, CooldownEnds, RunEnds, AckWaitElapses, DispatcherStops, OnlyNotify,
         vars

\* Flap damping holds whatever the retries of RecordBaselineObservations
\* repeat: an open Finding was found drifted by Damping checks in a row,
\* unless a check counted it twice.
THEOREM DampingHolds == Spec => []OpensWhenEarned
<1> DEFINE I == CheckTypes /\ FindingTypes /\ Damped
<1>1. Init => I
  BY Empties DEF Init, CheckTypes, FindingTypes, Damped, NoRow
<1>2. I /\ [Next]_vars => I'
  BY CheckTypesStep, DampedStep
<1>3. I => OpensWhenEarned
  BY DEF Damped, OpensWhenEarned
<1> QED BY <1>1, <1>2, <1>3, PTL DEF Spec

-----------------------------------------------------------------------------
(* Evidence.                                                               *)

\* What is about to be recorded, or may still be, is what is stored: the
\* bundle of the check under way, and the one of an INSERT that is still out
\* while no attempt has listed its Finding again; unless a late write has
\* overtaken it.  A Finding on the work-list has no manifest, or one that came
\* after it was listed.
Bundled ==
  /\ check.at \in {"seal", "manifest"} =>
       \A t \in check.todo : manifest[t] = "none" \/ t \in overtaken
  /\ check.at \in {"seal", "manifest"} =>
       \A t \in check.todo, tail \in Tails : <<t, tail>> \in inserts => t \in relisted
  /\ check.at = "manifest" =>
       /\ check.tail \in Tails
       /\ \E t \in Targets : /\ check.todo = {t} /\ object[t] # "none"
                             /\ t \notin overtaken => object[t] = check.tail
  /\ \A t \in Targets, tail \in Tails : <<t, tail>> \in inserts =>
       object[t] # "none" /\ (t \in relisted \/ t \in overtaken \/ object[t] = tail)

SealInv == SealTypes /\ Bundled /\ SealedVerifies

\* Steps that leave bundles and check alone.
LEMMA QuietSeals ==
  ASSUME SealInv, UNCHANGED <<check, sealVars>>
  PROVE  SealInv'
BY DEF SealInv, SealTypes, Bundled, SealedVerifies, sealVars

\* Steps of the check that leave the bundles alone and start no work-list.
LEMMA ElsewhereSeals ==
  ASSUME SealInv, UNCHANGED sealVars, check'.at \notin {"seal", "manifest"}
  PROVE  SealInv'
BY DEF SealInv, SealTypes, Bundled, SealedVerifies, sealVars

\* A Finding that opens afresh has nothing sealed under its id.
LEMMA RecordSeals ==
  ASSUME CheckTypes, SealInv, RecordBaselineObservations
  PROVE  SealInv'
<1> USE DEF SealInv
<1>1. /\ manifest' = [t \in Targets |-> IF Fresh(t) THEN "none" ELSE manifest[t]]
      /\ object' = [t \in Targets |-> IF Fresh(t) THEN "none" ELSE object[t]]
      /\ flight' = {f \in flight : ~Fresh(f[1])}
      /\ inserts' = {f \in inserts : ~Fresh(f[1])}
      /\ relisted' = {t \in relisted : ~Fresh(t)}
      /\ overtaken' = {t \in overtaken : ~Fresh(t)}
  BY DEF RecordBaselineObservations
<1>2. check'.at \in {"emit", "observe", "record", "idle"}
  <2>1. \/ check'.at = "emit" \/ check'.at = Again \/ check' = Idle
    BY DEF RecordBaselineObservations, CheckTypes, Checks
  <2> QED BY <2>1, AgainShape, Empties
<1>3. SealTypes'
  BY <1>1 DEF SealTypes
<1>4. SealedVerifies'
  BY <1>1 DEF SealedVerifies
<1>5. ASSUME NEW t \in Targets, NEW tail \in Tails, <<t, tail>> \in inserts'
      PROVE  object'[t] # "none" /\ (t \in relisted' \/ t \in overtaken' \/ object'[t] = tail)
  <2>1. <<t, tail>> \in inserts /\ ~Fresh(t)
    BY <1>1, <1>5
  <2> QED BY <1>1, <2>1 DEF Bundled
<1> QED BY <1>2, <1>3, <1>4, <1>5 DEF Bundled

\* SealEvidence stores only under the key of a Finding without a manifest, and
\* an INSERT that is still out for it will be marked when it lands.
LEMMA SealSeals ==
  ASSUME CheckTypes, SealInv, NEW t \in Targets, Seal(t)
  PROVE  SealInv'
<1> USE DEF SealInv
<1>1. /\ manifest[t] = "none" \/ t \in overtaken
      /\ \A tail \in Tails : <<t, tail>> \in inserts => t \in relisted
      /\ UNCHANGED <<manifest, inserts, relisted, overtaken>>
  BY DEF Seal, Bundled
<1>2. PICK tail \in Tails :
       \/ /\ object' = [object EXCEPT ![t] = tail]
          /\ check' = [check EXCEPT !.at = "manifest", !.todo = {t}, !.tail = tail]
          /\ UNCHANGED flight
       \/ object' = [object EXCEPT ![t] = tail] /\ Retry("relist") /\ UNCHANGED flight
       \/ flight' = flight \cup {<<t, tail>>} /\ Retry("relist") /\ UNCHANGED object
  BY DEF Seal
<1>3. /\ object' = object \/ object' = [object EXCEPT ![t] = tail]
      /\ flight' = flight \/ flight' = flight \cup {<<t, tail>>}
      /\ tail # "none"
  BY <1>2 DEF Tails
<1>4. SealTypes'
  BY <1>1, <1>3 DEF SealTypes
<1>5. SealedVerifies'
  BY <1>1, <1>3 DEF SealTypes, SealedVerifies
<1>6. \A x \in Targets, y \in Tails : <<x, y>> \in inserts' =>
        object'[x] # "none" /\ (x \in relisted' \/ x \in overtaken' \/ object'[x] = y)
  BY <1>1, <1>3 DEF SealTypes, Bundled
<1>7. CASE Retry("relist")
  BY <1>4, <1>5, <1>6, <1>7, RetryShape DEF Bundled
<1>8. CASE /\ object' = [object EXCEPT ![t] = tail]
           /\ check' = [check EXCEPT !.at = "manifest", !.todo = {t}, !.tail = tail]
  <2>1. check'.at = "manifest" /\ check'.todo = {t} /\ check'.tail = tail
    BY <1>8 DEF CheckTypes, Checks
  <2>2. object'[t] = tail
    BY <1>8 DEF SealTypes
  <2> QED BY <1>1, <1>3, <1>4, <1>5, <1>6, <2>1, <2>2 DEF Bundled
<1> QED BY <1>2, <1>7, <1>8

\* A PutObject that lands late marks what it overtakes.
LEMMA LandSeals ==
  ASSUME SealInv, NEW t \in Targets, NEW tail \in Tails, PutLands(t, tail)
  PROVE  SealInv'
<1> USE DEF SealInv
<1>1. /\ UNCHANGED <<check, manifest, inserts, relisted>> /\ flight' \subseteq flight
      /\ object' = [object EXCEPT ![t] = tail] /\ overtaken' \in {overtaken, overtaken \cup {t}}
      /\ manifest[t] # "none" => t \in overtaken'
      /\ check.at = "manifest" /\ check.todo = {t} => t \in overtaken'
      /\ \A x \in Tails : <<t, x>> \in inserts => t \in overtaken'
  BY DEF PutLands
<1>2. SealTypes'
  BY <1>1 DEF SealTypes
<1>3. /\ \A x \in Targets : x # t => object'[x] = object[x]
      /\ object'[t] # "none"
  BY <1>1 DEF SealTypes, Tails
<1>4. SealedVerifies'
  BY <1>1, <1>3 DEF SealTypes, SealedVerifies
<1>5. Bundled'
  <2>1. ASSUME check.at = "manifest"
        PROVE  \E x \in Targets : /\ check.todo = {x} /\ object'[x] # "none"
                                  /\ x \notin overtaken' => object'[x] = check.tail
    <3>1. PICK x \in Targets : /\ check.todo = {x} /\ object[x] # "none"
                               /\ x \notin overtaken => object[x] = check.tail
      BY <2>1 DEF Bundled
    <3> QED BY <1>1, <1>3, <2>1, <3>1
  <2>2. ASSUME NEW x \in Targets, NEW y \in Tails, <<x, y>> \in inserts
        PROVE  object'[x] # "none" /\ (x \in relisted \/ x \in overtaken' \/ object'[x] = y)
    BY <1>1, <1>3, <2>2 DEF Bundled
  <2>3. \A x : x \in overtaken => x \in overtaken'
    BY <1>1
  <2> QED BY <1>1, <2>1, <2>2, <2>3 DEF Bundled
<1> QED BY <1>2, <1>4, <1>5

\* RecordEvidence vouches for the bundle that was stored, or leaves the
\* manifest that came first.
LEMMA ManifestSeals ==
  ASSUME CheckTypes, SealInv, NEW t \in Targets, RecordEvidence(t)
  PROVE  SealInv'
<1> USE DEF SealInv
<1>1. /\ UNCHANGED <<object, flight, relisted, overtaken>> /\ check.at = "manifest" /\ check.todo = {t}
      /\ check.tail \in Tails /\ object[t] # "none" /\ (t \notin overtaken => object[t] = check.tail)
  BY DEF RecordEvidence, Bundled
<1>2. \/ UNCHANGED inserts /\ manifest' = [manifest EXCEPT ![t] = Vouched(t, check.tail)]
      \/ UNCHANGED manifest /\ inserts' = inserts \cup {<<t, check.tail>>}
  BY DEF RecordEvidence
<1>3. check'.at \in {"relist", "idle"}
  BY RetryShape DEF RecordEvidence, CheckTypes, Checks
<1>4. manifest[t] = "none" => Vouched(t, check.tail) = check.tail
  BY DEF Vouched
<1>5. manifest[t] # "none" => Vouched(t, check.tail) = manifest[t]
  BY DEF Vouched
<1>6. SealTypes'
  <2>1. Vouched(t, check.tail) \in Tails \cup {"none"}
    BY <1>1, <1>4, <1>5 DEF SealTypes
  <2> QED BY <1>1, <1>2, <2>1 DEF SealTypes
<1>7. SealedVerifies'
  BY <1>1, <1>2, <1>4, <1>5 DEF SealTypes, SealedVerifies
<1>8. \A x \in Targets, y \in Tails : <<x, y>> \in inserts' =>
        object'[x] # "none" /\ (x \in relisted' \/ x \in overtaken' \/ object'[x] = y)
  BY <1>1, <1>2 DEF Bundled
<1> QED BY <1>3, <1>6, <1>7, <1>8 DEF Bundled

\* An INSERT that lands late vouches for what is stored, unless an attempt
\* listed its Finding again: then it is marked.
LEMMA InsertSeals ==
  ASSUME SealInv, NEW t \in Targets, NEW tail \in Tails, InsertLands(t, tail)
  PROVE  SealInv'
<1> USE DEF SealInv
<1>1. /\ UNCHANGED <<check, object, flight, relisted>> /\ inserts' \subseteq inserts
      /\ manifest' = [manifest EXCEPT ![t] = Vouched(t, tail)]
      /\ overtaken' = overtaken \cup ({t} \cap relisted) /\ <<t, tail>> \in inserts
  BY DEF InsertLands
<1>2. /\ manifest[t] = "none" => Vouched(t, tail) = tail
      /\ manifest[t] # "none" => Vouched(t, tail) = manifest[t]
  BY DEF Vouched
<1>3. Vouched(t, tail) \in Tails \cup {"none"}
  BY <1>2 DEF SealTypes
<1>4. SealTypes'
  BY <1>1, <1>3 DEF SealTypes
<1>5. object[t] # "none" /\ (t \in overtaken' \/ object[t] = tail)
  BY <1>1 DEF Bundled
<1>6. \A x \in Targets : x # t => manifest'[x] = manifest[x]
  BY <1>1 DEF SealTypes
<1>7. manifest'[t] = Vouched(t, tail)
  BY <1>1 DEF SealTypes
<1>8. SealedVerifies'
  <2>1. object[t] # "none" /\ (t \in overtaken' \/ object[t] = manifest'[t])
    BY <1>1, <1>2, <1>5, <1>7 DEF SealedVerifies
  <2> QED BY <1>1, <1>6, <2>1 DEF SealedVerifies
<1>9. Bundled'
  <2>1. ASSUME check.at \in {"seal", "manifest"}, NEW x \in check.todo
        PROVE  manifest'[x] = "none" \/ x \in overtaken'
    <3>1. CASE x = t
      BY <1>1, <2>1, <3>1 DEF Bundled
    <3>2. CASE x # t
      <4>1. manifest'[x] = manifest[x]
        BY <1>1, <3>2 DEF SealTypes
      <4> QED BY <1>1, <2>1, <4>1 DEF Bundled
    <3> QED BY <3>1, <3>2
  <2> QED BY <1>1, <2>1 DEF Bundled
<1> QED BY <1>4, <1>8, <1>9

\* A work-list has no manifests, and marks the INSERTs that are still out.
LEMMA ListSeals ==
  ASSUME CheckTypes, SealInv, ListUnsealed
  PROVE  SealInv'
<1> USE DEF SealInv
<1>1. /\ UNCHANGED <<manifest, object, flight, inserts, overtaken>>
      /\ relisted' = relisted \cup {t \in Unsealed : \E tail \in Tails : <<t, tail>> \in inserts}
  BY DEF ListUnsealed
<1>2. Unsealed \subseteq Targets /\ \A t \in Unsealed : manifest[t] = "none"
  BY DEF Unsealed
<1>3. check'.at = "seal" /\ check'.todo = Unsealed
  BY DEF ListUnsealed, CheckTypes, Checks
<1>4. SealTypes' /\ SealedVerifies'
  BY <1>1, <1>2 DEF SealTypes, SealedVerifies
<1> QED BY <1>1, <1>2, <1>3, <1>4 DEF Bundled

\* Every step keeps bundles and manifests together.
LEMMA SealsStep ==
  ASSUME CheckTypes, SealInv, [Next]_vars
  PROVE  SealInv'
<1>1. check \in Checks
  BY DEF CheckTypes
<1>2. CASE StartCheck
  <2>1. check'.at = "observe"
    BY <1>2, Empties DEF StartCheck, Checks
  <2> QED BY <1>2, <2>1, ElsewhereSeals DEF StartCheck
<1>3. CASE Observe
  <2>1. check'.at = "record"
    BY <1>1, <1>3 DEF Observe, Checks
  <2> QED BY <1>3, <2>1, ElsewhereSeals DEF Observe
<1>4. ASSUME NEW t \in Targets, PublishNotice(t) PROVE SealInv'
  <2>1. check'.at \in {"emit", "observe", "record", "idle"}
    BY <1>1, <1>4, RetryShape, AgainShape DEF PublishNotice, Checks
  <2> QED BY <1>4, <2>1, ElsewhereSeals DEF PublishNotice
<1>5. CASE PublishFails
  <2>1. check'.at \in {"observe", "record", "idle"}
    BY <1>5, RetryShape, AgainShape DEF PublishFails
  <2> QED BY <1>5, <2>1, ElsewhereSeals DEF PublishFails
<1>6. CASE EndCheck
  <2>1. check'.at = "idle"
    BY <1>6, Empties DEF EndCheck
  <2> QED BY <1>6, <2>1, ElsewhereSeals DEF EndCheck
<1>7. CASE UNCHANGED <<check, sealVars>>
  BY <1>7, QuietSeals
<1>8. CASE \/ UNCHANGED vars \/ NotifyStep \/ \E t \in Targets : Dies(t)
           \/ ResolveFindingsForTombstonedEntities \/ WindowEnds
           \/ \E s \in Subs : CooldownEnds(s) \/ \E t \in Targets : RunEnds(s, t)
           \/ AckWaitElapses \/ DispatcherStops \/ LoseLeadership
  BY <1>7, <1>8
     DEF NotifyStep, Take, Consider, Poison, Deliver, LaunchFails, RecordFails, Await, Finish, Lead, Dies,
         ResolveFindingsForTombstonedEntities, WindowEnds, CooldownEnds, RunEnds, AckWaitElapses,
         DispatcherStops, LoseLeadership, OnlyNotify, vars
<1> QED BY <1>2, <1>3, <1>4, <1>5, <1>6, <1>8, RecordSeals, SealSeals, LandSeals, ManifestSeals,
           InsertSeals, ListSeals
        DEF Next, CheckStep

\* Under a manifest's key there is a bundle, and it is the one SealEvidence
\* recorded, through attempts that fail or time out at either write, unless a
\* write of an abandoned attempt took effect after a later attempt's.
THEOREM EvidenceVerifies == Spec => []SealedVerifies
<1> DEFINE I == CheckTypes /\ SealInv
<1>1. Init => I
  BY Empties DEF Init, CheckTypes, SealInv, SealTypes, Bundled, SealedVerifies
<1>2. I /\ [Next]_vars => I'
  BY CheckTypesStep, SealsStep
<1>3. I => SealedVerifies
  BY DEF SealInv
<1> QED BY <1>1, <1>2, <1>3, PTL DEF Spec

-----------------------------------------------------------------------------
(* Notices.                                                                *)

\* A Notice has a delivery Run for a Subscription when it was sent there.
Named == \A s \in Subs, t \in Targets : sends[s][t] = IF run[s][t] = "none" THEN 0 ELSE 1

\* The outcome of a delivery is recorded, or the record of it failed.
Told(s, m) == record[s][m] \in Ended \/ <<s, m>> \in swallowed

\* A Subscription the Dispatcher has done with, without an error, has its
\* outcome told; and it works on a Notice that exists.
Handled ==
  /\ job = NoJob \/ job.msg \in Openings
  /\ job # NoJob /\ ~job.err =>
       \A s \in Subs \ (Cooled \cup job.todo \cup job.sub) : Told(s, job.msg)

NotifyInv == NotifyTypes /\ Named /\ Handled /\ AckedIsRecorded

\* The Dispatcher at a Subscription has a Notice, of a target.
LEMMA AtWork ==
  ASSUME NotifyInv, job # NoJob
  PROVE  job.msg \in Openings /\ job.msg[1] \in Targets
<1>1. job.msg \in Openings
  BY DEF NotifyInv, Handled
<1> QED BY <1>1 DEF Openings

\* A job at a Subscription is not the empty one.
LEMMA HasJob ==
  ASSUME NEW s, job.sub = {s} \/ s \in job.todo
  PROVE  job # NoJob
BY DEF NoJob

\* Outcomes are recorded and never taken back.
LEMMA RecordingShape ==
  ASSUME NotifyInv, NEW s \in Subs, job # NoJob, NEW r \in Ended, Recording(s, r)
  PROVE  /\ record' \in [Subs -> [Openings -> {"none", "delivered", "failed"}]]
         /\ record'[s][job.msg] = r
         /\ \A q \in Subs, m \in Openings : record[q][m] \in Ended => record'[q][m] \in Ended
<1>1. job.msg \in Openings
  BY AtWork
<1>2. record' = [record EXCEPT ![s][job.msg] = r]
  BY DEF Recording
<1>3. record \in [Subs -> [Openings -> {"none", "delivered", "failed"}]] /\ r \in {"none", "delivered", "failed"}
  BY DEF NotifyInv, NotifyTypes, Ended
<1> QED BY <1>1, <1>2, <1>3 DEF Ended

\* Poison, Await and RecordFails: the Subscription is done with, its outcome
\* told.
LEMMA OutcomeNotices ==
  ASSUME NotifyInv, NEW s \in Subs, job.sub = {s}, UNCHANGED <<cool, stream, run, sends>>,
         job' = [job EXCEPT !.sub = {}, !.started = FALSE],
         record' \in [Subs -> [Openings -> {"none", "delivered", "failed"}]],
         swallowed \subseteq swallowed',
         record'[s][job.msg] \in Ended \/ <<s, job.msg>> \in swallowed',
         \A q \in Subs, m \in Openings : record[q][m] \in Ended => record'[q][m] \in Ended
  PROVE  NotifyInv'
<1> USE DEF NotifyInv
<1>1. job # NoJob /\ job.msg \in Openings
  BY HasJob, AtWork
<1>2. /\ job' \in Jobs /\ job'.msg = job.msg /\ job'.todo = job.todo /\ job'.sub = {}
      /\ job'.err = job.err
  BY DEF NotifyTypes, Jobs
<1>3. NotifyTypes' /\ Named'
  BY <1>2 DEF NotifyTypes, Named
<1>4. Handled'
  BY <1>1, <1>2 DEF Handled, Told
<1>5. AckedIsRecorded'
  BY DEF AckedIsRecorded, Ended
<1> QED BY <1>3, <1>4, <1>5

\* Steps of the job that record nothing.
LEMMA JobNotices ==
  ASSUME NotifyInv, UNCHANGED <<stream, run, record, sends, swallowed>>, cool' \subseteq Cooled,
         job # NoJob, job' \in Jobs, job'.msg = job.msg,
         ~job'.err => /\ ~job.err
                      /\ job.todo \cup job.sub \subseteq job'.todo \cup job'.sub \cup Cooled
  PROVE  NotifyInv'
<1> USE DEF NotifyInv
<1>1. job.msg \in Openings
  BY AtWork
<1>2. NotifyTypes' /\ Named'
  BY DEF NotifyTypes, Named
<1>3. Handled' /\ AckedIsRecorded'
  BY <1>1 DEF Handled, Told, AckedIsRecorded
<1> QED BY <1>2, <1>3

\* Take begins with every Subscription to do.
LEMMA TakeNotices ==
  ASSUME NotifyInv, NEW m \in Openings, Take(m)
  PROVE  NotifyInv'
<1> USE DEF NotifyInv
<1>1. job' = [NoJob EXCEPT !.msg = m, !.todo = Subs] /\ UNCHANGED <<stream, cool, run, record, sends, swallowed>>
  BY DEF Take
<1>2. job' \in Jobs /\ job'.msg = m /\ job'.todo = Subs
  BY <1>1 DEF NoJob, Jobs
<1>3. NotifyTypes' /\ Named' /\ AckedIsRecorded'
  BY <1>1, <1>2 DEF NotifyTypes, Named, AckedIsRecorded
<1>4. Handled'
  BY <1>2 DEF Handled
<1> QED BY <1>3, <1>4

\* The job ends, or is given up: the Notice is acknowledged only when every
\* Subscription that is not cooled has its outcome.
LEMMA EndNotices ==
  ASSUME NotifyInv, job # NoJob, job' = NoJob, UNCHANGED <<run, record, sends, swallowed>>, cool' \subseteq Cooled,
         NEW r \in {"queued", "acked"}, stream' = [stream EXCEPT ![job.msg] = r],
         r = "acked" => job.todo = {} /\ job.sub = {} /\ ~job.err
  PROVE  NotifyInv'
<1> USE DEF NotifyInv
<1>1. job.msg \in Openings
  BY AtWork
<1>2. NotifyTypes' /\ Named'
  BY <1>1, Empties DEF NotifyTypes, Named
<1>3. Handled'
  BY DEF Handled, NoJob
<1>4. AckedIsRecorded'
  BY <1>1 DEF NotifyTypes, Handled, Told, AckedIsRecorded, Ended
<1> QED BY <1>2, <1>3, <1>4

\* The delivery Run of a Subscription starts, once, and ends.
LEMMA RunNotices ==
  ASSUME NotifyInv, NEW s \in Subs, NEW t \in Targets, NEW r \in {"running", "delivered", "failed"},
         run' = [run EXCEPT ![s][t] = r], UNCHANGED <<stream, record, swallowed>>,
         \/ run[s][t] = "none" /\ sends' = [sends EXCEPT ![s][t] = sends[s][t] + 1]
         \/ run[s][t] # "none" /\ UNCHANGED sends
  PROVE  /\ run' \in [Subs -> [Targets -> {"none", "running", "delivered", "failed"}]]
         /\ sends' \in [Subs -> [Targets -> Nat]] /\ Named'
<1> USE DEF NotifyInv
<1>1. run' \in [Subs -> [Targets -> {"none", "running", "delivered", "failed"}]]
  BY DEF NotifyTypes
<1>2. \A q \in Subs, x \in Targets : run'[q][x] = IF q = s /\ x = t THEN r ELSE run[q][x]
  BY DEF NotifyTypes
<1>3. sends' \in [Subs -> [Targets -> Nat]]
  <2>1. sends[s][t] + 1 \in Nat /\ sends \in [Subs -> [Targets -> Nat]]
    BY DEF NotifyTypes
  <2>2. [sends EXCEPT ![s][t] = sends[s][t] + 1] \in [Subs -> [Targets -> Nat]]
    <3> DEFINE k == sends[s][t] + 1
    <3> HIDE DEF k
    <3>1. k \in Nat
      BY <2>1 DEF k
    <3>2. [sends EXCEPT ![s][t] = k] \in [Subs -> [Targets -> Nat]]
      BY <2>1, <3>1
    <3> QED BY <3>2 DEF k
  <2> QED BY <2>1, <2>2
<1>4. CASE run[s][t] = "none" /\ sends' = [sends EXCEPT ![s][t] = sends[s][t] + 1]
  <2>1. sends[s][t] = 0
    BY <1>4 DEF Named
  <2>2. \A q \in Subs, x \in Targets : sends'[q][x] = IF q = s /\ x = t THEN 1 ELSE sends[q][x]
    BY <1>4, <2>1 DEF NotifyTypes
  <2>3. Named'
    BY <1>2, <2>2 DEF Named
  <2> QED BY <1>1, <1>3, <2>3
<1>5. CASE run[s][t] # "none" /\ UNCHANGED sends
  <2>1. Named'
    BY <1>2, <1>5 DEF Named
  <2> QED BY <1>1, <1>3, <2>1
<1> QED BY <1>4, <1>5

\* Publishing, and the end of an AckWait, never acknowledge.
LEMMA StreamNotices ==
  ASSUME NotifyInv, UNCHANGED notifyVars, NEW m, NEW r \in {"queued", "again"},
         stream' = stream \/ stream' = [stream EXCEPT ![m] = r]
  PROVE  NotifyInv'
<1> USE DEF NotifyInv
<1>1. NotifyTypes' /\ Named' /\ Handled'
  BY DEF notifyVars, NotifyTypes, Named, Handled, Told
<1>2. AckedIsRecorded'
  BY DEF notifyVars, NotifyTypes, AckedIsRecorded
<1> QED BY <1>1, <1>2

\* Every step keeps Notices, deliveries and outcomes together.
LEMMA NoticesStep ==
  ASSUME NotifyInv, [Next]_vars
  PROVE  NotifyInv'
<1>0. job \in Jobs /\ cool \subseteq Cooled
  BY DEF NotifyInv, NotifyTypes
<1>1. CASE UNCHANGED <<stream, job, cool, run, record, sends, swallowed>>
  BY <1>1 DEF NotifyInv, NotifyTypes, Named, Handled, Told, AckedIsRecorded
<1>2. ASSUME NEW t \in Targets, PublishNotice(t) PROVE NotifyInv'
  BY <1>2, StreamNotices DEF PublishNotice, OnlyCheck
<1>3. CASE AckWaitElapses
  BY <1>3, StreamNotices DEF AckWaitElapses
<1>4. ASSUME NEW s \in Subs, Consider(s) PROVE NotifyInv'
  <2>1. job # NoJob
    BY <1>4, HasJob DEF Consider
  <2>2. CASE s \in cool
    <3>1. job' = [job EXCEPT !.todo = job.todo \ {s}] /\ UNCHANGED <<cool, stream, run, record, sends, swallowed>>
      BY <1>4, <2>2 DEF Consider
    <3>2. /\ job' \in Jobs /\ job'.msg = job.msg /\ job'.todo = job.todo \ {s} /\ job'.sub = job.sub
          /\ job'.err = job.err
      BY <1>0, <3>1 DEF Jobs
    <3> QED BY <1>0, <2>1, <2>2, <3>1, <3>2, JobNotices
  <2>3. CASE s \notin cool
    <3>1. /\ job' = [job EXCEPT !.todo = job.todo \ {s}, !.sub = {s}] /\ job.sub = {}
          /\ cool' \subseteq Cooled /\ UNCHANGED <<stream, run, record, sends, swallowed>>
      BY <1>0, <1>4, <2>3 DEF Consider
    <3>2. /\ job' \in Jobs /\ job'.msg = job.msg /\ job'.todo = job.todo \ {s} /\ job'.sub = {s}
          /\ job'.err = job.err
      BY <1>0, <3>1 DEF Jobs
    <3> QED BY <2>1, <3>1, <3>2, JobNotices
  <2> QED BY <2>2, <2>3
<1>5. ASSUME NEW s \in Subs, Poison(s) \/ Await(s) PROVE NotifyInv'
  <2>1. \E r \in Ended : Recording(s, r)
    BY <1>5 DEF Poison, Await, Ended
  <2>2. job # NoJob
    BY <1>5, HasJob DEF Poison, Await
  <2>3. /\ record' \in [Subs -> [Openings -> {"none", "delivered", "failed"}]]
        /\ record'[s][job.msg] \in Ended
        /\ \A q \in Subs, m \in Openings : record[q][m] \in Ended => record'[q][m] \in Ended
    BY <2>1, <2>2, RecordingShape
  <2> QED BY <1>5, <2>3, OutcomeNotices DEF Poison, Await
<1>13. ASSUME NEW s \in Subs, RecordFails(s) PROVE NotifyInv'
  <2>1. record' \in [Subs -> [Openings -> {"none", "delivered", "failed"}]]
    BY <1>13 DEF RecordFails, NotifyInv, NotifyTypes
  <2> QED BY <1>13, <2>1, OutcomeNotices DEF RecordFails
<1>6. ASSUME NEW s \in Subs, Deliver(s) PROVE NotifyInv'
  <2>1. job # NoJob
    BY <1>6, HasJob DEF Deliver
  <2>2. job.msg[1] \in Targets /\ job.msg \in Openings
    BY <2>1, AtWork
  <2>3. /\ run' \in [Subs -> [Targets -> {"none", "running", "delivered", "failed"}]]
        /\ sends' \in [Subs -> [Targets -> Nat]] /\ Named'
    <3>1. CASE Adopts(s)
      BY <1>6, <3>1 DEF Deliver, NotifyInv, NotifyTypes, Named
    <3>2. CASE ~Adopts(s)
      <4>1. /\ run[s][job.msg[1]] = "none" /\ run' = [run EXCEPT ![s][job.msg[1]] = "running"]
            /\ sends' = [sends EXCEPT ![s][job.msg[1]] = sends[s][job.msg[1]] + 1]
        BY <1>6, <2>2, <3>2 DEF Deliver, Adopts, NotifyInv, NotifyTypes
      <4> QED BY <1>6, <2>2, <4>1, RunNotices DEF Deliver
    <3> QED BY <3>1, <3>2
  <2>4. /\ UNCHANGED <<stream, cool, record, swallowed>>
        /\ \/ job' = [job EXCEPT !.started = TRUE]
           \/ job' = [job EXCEPT !.sub = {}, !.err = TRUE]
    BY <1>6 DEF Deliver
  <2>5. /\ job' \in Jobs /\ job'.msg = job.msg
        /\ job'.err \/ (job'.err = job.err /\ job'.todo = job.todo /\ job'.sub = job.sub)
    BY <1>0, <2>4 DEF Jobs
  <2>6. NotifyTypes'
    BY <2>3, <2>4, <2>5 DEF NotifyInv, NotifyTypes
  <2>7. Handled' /\ AckedIsRecorded'
    BY <2>1, <2>2, <2>4, <2>5 DEF NotifyInv, Handled, Told, AckedIsRecorded
  <2> QED BY <2>3, <2>6, <2>7 DEF NotifyInv
<1>7. ASSUME NEW s \in Subs, LaunchFails(s) PROVE NotifyInv'
  <2>1. job # NoJob
    BY <1>7, HasJob DEF LaunchFails
  <2>2. job' \in Jobs /\ job'.msg = job.msg /\ job'.err
    BY <1>0, <1>7 DEF LaunchFails, Jobs
  <2> QED BY <1>0, <1>7, <2>1, <2>2, JobNotices DEF LaunchFails
<1>8. CASE Finish
  <2>1. \E r \in {"queued", "acked"} : /\ stream' = [stream EXCEPT ![job.msg] = r]
                                       /\ r = "acked" => ~job.err
    BY <1>8 DEF Finish
  <2> QED BY <1>0, <1>8, <2>1, EndNotices DEF Finish
<1>9. CASE DispatcherStops
  <2>1. {} \subseteq Cooled
    OBVIOUS
  <2> QED BY <1>9, <2>1, EndNotices DEF DispatcherStops
<1>10. ASSUME NEW s \in Subs, CooldownEnds(s) PROVE NotifyInv'
  BY <1>0, <1>10
     DEF CooldownEnds, NotifyInv, NotifyTypes, Named, Handled, Told, AckedIsRecorded
<1>11. ASSUME NEW s \in Subs, NEW t \in Targets, RunEnds(s, t) PROVE NotifyInv'
  <2>1. \E r \in {"running", "delivered", "failed"} : run' = [run EXCEPT ![s][t] = r]
    BY <1>11 DEF RunEnds
  <2>2. /\ run[s][t] # "none"
        /\ UNCHANGED <<stream, job, cool, record, sends, swallowed>>
    BY <1>11 DEF RunEnds
  <2>3. /\ run' \in [Subs -> [Targets -> {"none", "running", "delivered", "failed"}]]
        /\ Named'
    BY <2>1, <2>2, RunNotices
  <2> QED BY <2>2, <2>3 DEF NotifyInv, NotifyTypes, Handled, Told, AckedIsRecorded
<1>14. CASE Lead
  <2>1. UNCHANGED <<stream, job, run, record, sends, swallowed>> /\ cool' = {}
    BY <1>14 DEF Lead
  <2> QED BY <2>1 DEF NotifyInv, NotifyTypes, Named, Handled, Told, AckedIsRecorded
<1>12. CASE \/ UNCHANGED vars \/ StartCheck
            \/ Observe \/ RecordBaselineObservations
            \/ \E t \in Targets : Seal(t) \/ RecordEvidence(t)
            \/ PublishFails \/ ListUnsealed \/ EndCheck
            \/ \E t \in Targets : Dies(t) \/ \E tail \in Tails : PutLands(t, tail) \/ InsertLands(t, tail)
            \/ ResolveFindingsForTombstonedEntities \/ WindowEnds \/ LoseLeadership
  BY <1>1, <1>12
     DEF StartCheck, Observe, RecordBaselineObservations, Seal, RecordEvidence, PublishFails,
         ListUnsealed, EndCheck, Dies, PutLands, InsertLands, ResolveFindingsForTombstonedEntities,
         WindowEnds, LoseLeadership, OnlyCheck, OnlyNotify, notifyVars, vars
<1> QED BY <1>2, <1>3, <1>4, <1>5, <1>6, <1>7, <1>8, <1>9, <1>10, <1>11, <1>12,
           <1>13, <1>14, TakeNotices
        DEF Next, CheckStep, NotifyStep

\* An empty stream has nothing sent and nothing acknowledged.
LEMMA NoticesStart == Init => NotifyInv
<1>1. Init => NotifyTypes
  BY Empties DEF Init, NotifyTypes
<1> QED BY <1>1 DEF Init, NotifyInv, Named, Handled, AckedIsRecorded

\* One delivery per Notice and Subscription, through redeliveries, failed
\* launches and changes of leader: the Run is named after the content.
THEOREM NoticesAreSentOnce == Spec => []SentOnce
<1>1. NotifyInv => SentOnce
  BY DEF NotifyInv, NotifyTypes, Named, SentOnce
<1> QED BY <1>1, NoticesStart, NoticesStep, PTL DEF Spec

\* The Dispatcher acknowledges a Notice only when its outcome is on the status
\* surface of every Subscription that has no cooldown, through failed
\* launches, crashes and lost leaderships; the one exemption is an outcome
\* whose RecordDelivery failed.
THEOREM OutcomeBeforeAck == Spec => []AckedIsRecorded
<1>1. NotifyInv => AckedIsRecorded
  BY DEF NotifyInv
<1> QED BY <1>1, NoticesStart, NoticesStep, PTL DEF Spec
=============================================================================
