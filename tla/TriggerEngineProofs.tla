------------------------ MODULE TriggerEngineProofs ------------------------
(***************************************************************************)
(* For any Triggers, events, keys, engines and failures: what a window row *)
(* claims was matched, and an acked event was launched; with one engine,   *)
(* stamped fires are a cooldown apart.                                     *)
(***************************************************************************)
EXTENDS TriggerEngine, FiniteSetTheorems, TLAPS

AnyCondition == UNION {Conditions[t] : t \in Trigger}
Rows  == [opened : Int, count : Nat, satisfied : SUBSET AnyCondition, fired : Int]
Hits  == [trigger : Trigger, key : Key, event : Event, time : Nat, n : Nat]
Fires == [trigger : Trigger, key : Key, time : Nat, n : Nat, stamped : BOOLEAN]

\* The Trigger a consumer is at, and the key of its event.
TriggerOf(c) == Triggers[at[c]]
KeyOf(c)     == correlationKey(TriggerOf(c), handling[c])

-----------------------------------------------------------------------------
(* handle is at a Trigger of the list, with an event of the stream.        *)

Walking ==
  /\ pc \in [Consumer -> {"idle", "list", "decide", "fire", "launch", "ack"}]
  /\ at \in [Consumer -> Nat] /\ handling \in [Consumer -> Event]
  /\ \A c \in Consumer : pc[c] = "list" => at[c] = 1
  /\ \A c \in Consumer : pc[c] \in {"decide", "fire", "launch"} => at[c] \in 1 .. Len(Triggers)
  /\ \A c \in Consumer : pc[c] = "fire" => KeyOf(c) \in Key

\* The list of Triggers, by index.
LEMMA TriggerAt ==
  /\ Len(Triggers) \in Nat
  /\ \A i \in 1 .. Len(Triggers) : Triggers[i] \in Trigger
BY TriggerShapes DEF Trigger

\* A consumer that goes on to the next Trigger.
LEMMA NextShape ==
  ASSUME Walking, NEW c \in Consumer, at[c] \in 1 .. Len(Triggers), NextTrigger(c), UNCHANGED handling
  PROVE  Walking' /\ pc'[c] \in {"decide", "ack"} /\ \A d \in Consumer : d # c =>
           pc'[d] = pc[d] /\ at'[d] = at[d]
<1>1. /\ at' = [at EXCEPT ![c] = at[c] + 1] /\ pc' = [pc EXCEPT ![c] = After(at[c])]
  BY DEF NextTrigger, Walking
<1>2. After(at[c]) \in {"decide", "ack"} /\ (After(at[c]) = "decide" => at[c] + 1 \in 1 .. Len(Triggers))
  BY TriggerAt DEF After
<1>3. /\ at'[c] = at[c] + 1 /\ pc'[c] = After(at[c])
      /\ \A d \in Consumer : d # c => pc'[d] = pc[d] /\ at'[d] = at[d]
  BY <1>1 DEF Walking
<1>4. at' \in [Consumer -> Nat]
      /\ pc' \in [Consumer -> {"idle", "list", "decide", "fire", "launch", "ack"}]
  BY <1>1, <1>2 DEF Walking
<1>5. \A d \in Consumer : pc'[d] = "fire" => KeyOf(d)' \in Key
  BY <1>2, <1>3 DEF Walking, KeyOf, TriggerOf
<1> QED BY <1>2, <1>3, <1>4, <1>5 DEF Walking

\* A consumer that changes its place and stays at its Trigger.
LEMMA PlaceShape ==
  ASSUME Walking, NEW c \in Consumer, NEW p \in {"idle", "decide", "fire", "launch", "ack"},
         pc' = [pc EXCEPT ![c] = p], UNCHANGED <<at, handling>>,
         p \in {"decide", "fire", "launch"} => at[c] \in 1 .. Len(Triggers),
         p = "fire" => KeyOf(c) \in Key
  PROVE  Walking' /\ pc'[c] = p /\ \A d \in Consumer : d # c => pc'[d] = pc[d]
<1>1. pc'[c] = p /\ \A d \in Consumer : d # c => pc'[d] = pc[d]
  BY DEF Walking
<1>2. \A d \in Consumer : KeyOf(d)' = KeyOf(d)
  BY DEF KeyOf, TriggerOf, correlationKey
<1>3. \A d \in Consumer : pc'[d] = "fire" => KeyOf(d)' \in Key
  BY <1>1, <1>2 DEF Walking
<1>4. pc' \in [Consumer -> {"idle", "list", "decide", "fire", "launch", "ack"}]
  BY DEF Walking
<1> QED BY <1>1, <1>3, <1>4 DEF Walking

\* What Decide does: nothing, or an advance of the event's window.
LEMMA DecideShape ==
  ASSUME Walking, NEW c \in Consumer, Decide(c)
  PROVE  /\ TriggerOf(c) \in Trigger /\ handling[c] \in Event
         /\ UNCHANGED <<handling, now, fires>>
         /\ \/ NextTrigger(c) /\ UNCHANGED <<row, matched>>
            \/ /\ KeyOf(c) \in Key /\ Matches[TriggerOf(c)][handling[c]] \in Nat
               /\ row' = [row EXCEPT ![TriggerOf(c)][KeyOf(c)] =
                    TriggerWindowAdvance(TriggerOf(c), row[TriggerOf(c)][KeyOf(c)],
                                         Matches[TriggerOf(c)][handling[c]])]
               /\ matched' = matched \cup
                    {[trigger |-> TriggerOf(c), key |-> KeyOf(c), event |-> handling[c],
                      time |-> now, n |-> Cardinality(matched)]}
               /\ \/ NextTrigger(c)
                  \/ /\ LET r == TriggerWindowAdvance(TriggerOf(c), row[TriggerOf(c)][KeyOf(c)],
                                                     Matches[TriggerOf(c)][handling[c]])
                        IN ~Damped(TriggerOf(c), r) /\ Complete(TriggerOf(c), r)
                     /\ pc' = [pc EXCEPT ![c] = "fire"] /\ UNCHANGED at
<1>1. at[c] \in 1 .. Len(Triggers) /\ handling[c] \in Event
  BY DEF Decide, Walking
<1>2. TriggerOf(c) \in Trigger
  BY <1>1, TriggerAt DEF TriggerOf
<1>3. /\ Matches[TriggerOf(c)][handling[c]] \in Nat \cup {-1}
      /\ KeyOf(c) \in Key \cup {NoKey}
  BY <1>1, <1>2, TriggerShapes DEF KeyOf, correlationKey
<1>4. UNCHANGED <<handling, now, fires>>
  BY DEF Decide
<1>5. CASE Matches[TriggerOf(c)][handling[c]] = -1 \/ KeyOf(c) = NoKey
  BY <1>1, <1>2, <1>4, <1>5 DEF Decide, TriggerOf, KeyOf
<1>6. CASE ~(Matches[TriggerOf(c)][handling[c]] = -1 \/ KeyOf(c) = NoKey)
  BY <1>1, <1>2, <1>3, <1>4, <1>6 DEF Decide, TriggerOf, KeyOf
<1> QED BY <1>5, <1>6

\* Every step keeps handle at a Trigger of the list.
LEMMA WalkingStep ==
  ASSUME Walking, [Next]_vars
  PROVE  Walking'
<1>1. CASE UNCHANGED <<pc, at, handling>>
  BY <1>1 DEF Walking, KeyOf, TriggerOf, correlationKey
<1>2. ASSUME NEW c \in Consumer, NEW e \in Event, Deliver(c, e) PROVE Walking'
  <2>1. /\ pc' = [pc EXCEPT ![c] = "list"] /\ handling' = [handling EXCEPT ![c] = e]
        /\ at' = [at EXCEPT ![c] = 1]
    BY <1>2 DEF Deliver
  <2>2. pc'[c] = "list" /\ at'[c] = 1 /\ \A d \in Consumer : d # c =>
          pc'[d] = pc[d] /\ at'[d] = at[d] /\ handling'[d] = handling[d]
    BY <2>1 DEF Walking
  <2>3. \A d \in Consumer : pc'[d] = "fire" => KeyOf(d)' \in Key
    BY <2>2 DEF Walking, KeyOf, TriggerOf, correlationKey
  <2>4. /\ pc' \in [Consumer -> {"idle", "list", "decide", "fire", "launch", "ack"}]
        /\ at' \in [Consumer -> Nat] /\ handling' \in [Consumer -> Event]
    BY <2>1 DEF Walking
  <2> QED BY <2>2, <2>3, <2>4 DEF Walking
<1>3. ASSUME NEW c \in Consumer, ListTriggers(c) PROVE Walking'
  <2>1. at[c] = 1 /\ UNCHANGED <<at, handling>>
    BY <1>3 DEF ListTriggers, Walking
  <2>2. \E p \in {"decide", "ack"} : pc' = [pc EXCEPT ![c] = p] /\ (p = "decide" => 0 < Len(Triggers))
    BY <1>3 DEF ListTriggers, After
  <2>3. 0 < Len(Triggers) => 1 \in 1 .. Len(Triggers)
    BY TriggerAt
  <2> QED BY <2>1, <2>2, <2>3, PlaceShape
<1>4. ASSUME NEW c \in Consumer, Decide(c) PROVE Walking'
  <2>1. at[c] \in 1 .. Len(Triggers)
    BY <1>4 DEF Decide, Walking
  <2>2. UNCHANGED handling
    BY <1>4, DecideShape
  <2>3. CASE NextTrigger(c)
    BY <2>1, <2>2, <2>3, NextShape
  <2>4. CASE pc' = [pc EXCEPT ![c] = "fire"] /\ UNCHANGED at /\ KeyOf(c) \in Key
    BY <2>1, <2>2, <2>4, PlaceShape
  <2> QED BY <1>4, <2>3, <2>4, DecideShape
<1>5. ASSUME NEW c \in Consumer, TriggerWindowFired(c) PROVE Walking'
  <2>1. at[c] \in 1 .. Len(Triggers)
    BY <1>5 DEF TriggerWindowFired, Walking
  <2> QED BY <1>5, <2>1, PlaceShape DEF TriggerWindowFired
<1>6. ASSUME NEW c \in Consumer, Launch(c) \/ LaunchFails(c) \/ DecideFails(c) \/ FireFails(c)
      PROVE  Walking'
  <2>1. at[c] \in 1 .. Len(Triggers)
    BY <1>6 DEF Launch, LaunchFails, DecideFails, FireFails, Walking
  <2> QED BY <1>6, <2>1, NextShape DEF Launch, LaunchFails, DecideFails, FireFails
<1>7. ASSUME NEW c \in Consumer, AckOrNak(c) \/ Crash(c) PROVE Walking'
  BY <1>7, PlaceShape DEF AckOrNak, Crash
<1>8. CASE \/ UNCHANGED vars \/ \E e \in Event : PublishEmitterEvent(e) \/ AckWait(e)
           \/ \E l \in running : LaunchCloses(l)
           \/ \E c \in Consumer : LoseLeadership(c) \/ Lead(c)
           \/ TriggerWindowSweep \/ Tick
  BY <1>1, <1>8 DEF vars, PublishEmitterEvent, AckWait, LaunchCloses, LoseLeadership, Lead,
                    TriggerWindowSweep, Tick
<1> QED BY <1>2, <1>3, <1>4, <1>5, <1>6, <1>7, <1>8 DEF Next, Handle

-----------------------------------------------------------------------------
(* Rows and histories.                                                     *)

Dated ==
  /\ now \in Nat /\ row \in [Trigger -> [Key -> Rows]]
  /\ matched \subseteq Hits /\ IsFiniteSet(matched)
  /\ \A m \in matched : m.n < Cardinality(matched)
  /\ fires \subseteq Fires /\ IsFiniteSet(fires)
  /\ \A f \in fires : f.n < Cardinality(fires)

\* An entry numbered by the size of the history is a new one.
LEMMA NewEntry ==
  ASSUME NEW S, IsFiniteSet(S), \A x \in S : x.n \in Nat /\ x.n < Cardinality(S),
         NEW y, y.n = Cardinality(S)
  PROVE  /\ y \notin S /\ IsFiniteSet(S \cup {y}) /\ Cardinality(S) \in Nat
         /\ Cardinality(S \cup {y}) = Cardinality(S) + 1
         /\ \A x \in S \cup {y} : x.n < Cardinality(S \cup {y})
<1>1. Cardinality(S) \in Nat
  BY FS_CardinalityType
<1>2. y \notin S
  BY <1>1
<1>3. IsFiniteSet(S \cup {y}) /\ Cardinality(S \cup {y}) = Cardinality(S) + 1
  BY <1>2, FS_AddElement
<1>4. ASSUME NEW x \in S \cup {y} PROVE x.n < Cardinality(S) + 1
  <2>1. x.n \in Nat /\ x.n <= Cardinality(S)
    BY <1>1
  <2> QED BY <1>1, <2>1
<1> QED BY <1>1, <1>2, <1>3, <1>4

\* Row a is row r after a match of condition i, reopened or carried on.
Advanced(t, r, i, a) ==
  /\ a.fired = r.fired
  /\ \/ a.opened = now /\ a.count = 1 /\ a.satisfied = {i} \cap Conditions[t]
     \/ /\ ~Expired(t, r) /\ a.opened = r.opened /\ a.count = r.count + 1
        /\ a.satisfied = r.satisfied \cup ({i} \cap Conditions[t])

\* What the upsert returns.
LEMMA AdvanceShape ==
  ASSUME NEW t \in Trigger, NEW r \in Rows, NEW i \in Nat, now \in Nat
  PROVE  /\ TriggerWindowAdvance(t, r, i) \in Rows
         /\ Advanced(t, r, i, TriggerWindowAdvance(t, r, i))
<1> DEFINE hit == {i} \cap Conditions[t]
<1>1. hit \in SUBSET AnyCondition
  BY DEF AnyCondition
<1>2. TriggerWindowAdvance(t, r, i) =
        IF r = NoRow \/ Expired(t, r)
        THEN [opened |-> now, count |-> 1, satisfied |-> hit, fired |-> r.fired]
        ELSE [r EXCEPT !.count = r.count + 1, !.satisfied = r.satisfied \cup hit]
  BY DEF TriggerWindowAdvance
<1> HIDE DEF hit
<1>3. CASE r = NoRow \/ Expired(t, r)
  <2>1. TriggerWindowAdvance(t, r, i) =
          [opened |-> now, count |-> 1, satisfied |-> hit, fired |-> r.fired]
    BY <1>2, <1>3
  <2>2. r.fired \in Int /\ now \in Int
    BY DEF Rows
  <2> QED BY <1>1, <2>1, <2>2 DEF Rows, Advanced, hit
<1>4. CASE ~(r = NoRow \/ Expired(t, r))
  <2>1. TriggerWindowAdvance(t, r, i) =
          [r EXCEPT !.count = r.count + 1, !.satisfied = r.satisfied \cup hit]
    BY <1>2, <1>4
  <2>2. r.count + 1 \in Nat /\ r.satisfied \cup hit \in SUBSET AnyCondition
    BY <1>1 DEF Rows
  <2> DEFINE k == r.count + 1
             u == r.satisfied \cup hit
  <2>3. k \in Nat /\ u \in SUBSET AnyCondition /\ TriggerWindowAdvance(t, r, i) = [r EXCEPT !.count = k, !.satisfied = u]
    BY <2>1, <2>2
  <2> HIDE DEF k, u
  <2>4. /\ TriggerWindowAdvance(t, r, i) \in Rows /\ TriggerWindowAdvance(t, r, i).fired = r.fired
        /\ TriggerWindowAdvance(t, r, i).opened = r.opened
        /\ TriggerWindowAdvance(t, r, i).count = k /\ TriggerWindowAdvance(t, r, i).satisfied = u
    BY <2>3 DEF Rows
  <2> QED BY <1>4, <2>4 DEF k, u, hit, Advanced
<1> QED BY <1>3, <1>4

\* An empty row, a reset one.
LEMMA RowShapes ==
  ASSUME now \in Nat
  PROVE  /\ NoRow \in Rows /\ Reset \in Rows
         /\ NoRow.count = 0 /\ NoRow.satisfied = {} /\ NoRow.fired = -1
         /\ Reset.count = 0 /\ Reset.satisfied = {} /\ Reset.fired = now
BY DEF NoRow, Reset, Rows

\* The steps that write rows and histories.
LEMMA HistoryShapes ==
  ASSUME [Next]_vars
  PROVE  \/ UNCHANGED <<row, matched, fires, now>>
         \/ \E c \in Consumer : Decide(c) \/ TriggerWindowFired(c)
         \/ TriggerWindowSweep \/ Tick
BY DEF Next, Handle, vars, PublishEmitterEvent, AckWait, Deliver, ListTriggers, Launch, AckOrNak,
       DecideFails, FireFails, LaunchFails, Crash, LoseLeadership, Lead, LaunchCloses

\* A fire: stamped with the row reset, or neither.
Fire(t, k, b) == [trigger |-> t, key |-> k, time |-> now, n |-> Cardinality(fires), stamped |-> b]

\* A fire is recorded, and the row reset or, when the reset fails, left.
LEMMA FireShape ==
  ASSUME Walking, NEW c \in Consumer, TriggerWindowFired(c)
  PROVE  /\ TriggerOf(c) \in Trigger /\ KeyOf(c) \in Key /\ UNCHANGED <<now, matched>>
         /\ \/ /\ row' = [row EXCEPT ![TriggerOf(c)][KeyOf(c)] = Reset]
               /\ fires' = fires \cup {Fire(TriggerOf(c), KeyOf(c), TRUE)}
            \/ /\ UNCHANGED row
               /\ fires' = fires \cup {Fire(TriggerOf(c), KeyOf(c), FALSE)}
<1>1. pc[c] = "fire"
  BY DEF TriggerWindowFired
<1>2. at[c] \in 1 .. Len(Triggers) /\ KeyOf(c) \in Key
  BY <1>1 DEF Walking
<1>3. TriggerOf(c) \in Trigger
  BY <1>2, TriggerAt DEF TriggerOf
<1> QED BY <1>2, <1>3 DEF TriggerWindowFired, TriggerOf, KeyOf, Fire

\* A consumer about to reset the window of t and k.
AtFire(c, t, k) == pc[c] = "fire" /\ TriggerOf(c) = t /\ KeyOf(c) = k

\* A fire is of the row it resets, and leaves the others.
LEMMA FireValues ==
  ASSUME Walking, Dated, NEW c \in Consumer, TriggerWindowFired(c)
  PROVE  \E t \in Trigger, k \in Key, b \in BOOLEAN :
           /\ AtFire(c, t, k) /\ UNCHANGED <<now, matched>>
           /\ fires' = fires \cup {Fire(t, k, b)}
           /\ row' = IF b THEN [row EXCEPT ![t][k] = Reset] ELSE row
<1>1. PICK t \in Trigger, k \in Key : t = TriggerOf(c) /\ k = KeyOf(c)
  BY FireShape
<1>2. AtFire(c, t, k)
  BY <1>1 DEF AtFire, TriggerWindowFired
<1> QED BY <1>1, <1>2, FireShape

\* One row changes.
LEMMA RowChange ==
  ASSUME Dated, NEW t \in Trigger, NEW k \in Key, NEW r \in Rows, row' = [row EXCEPT ![t][k] = r]
  PROVE  /\ row' \in [Trigger -> [Key -> Rows]] /\ row'[t][k] = r
         /\ \A u \in Trigger, j \in Key : ~(u = t /\ j = k) => row'[u][j] = row[u][j]
BY DEF Dated

\* Every step keeps rows and histories well formed.
LEMMA DatedStep ==
  ASSUME Walking, Dated, [Next]_vars
  PROVE  Dated'
<1>1. CASE UNCHANGED <<row, matched, fires, now>>
  BY <1>1 DEF Dated
<1>2. ASSUME NEW c \in Consumer, Decide(c) PROVE Dated'
  <2> DEFINE t == TriggerOf(c)
             k == KeyOf(c)
             h == [trigger |-> t, key |-> k, event |-> handling[c], time |-> now,
                   n |-> Cardinality(matched)]
  <2>1. t \in Trigger /\ handling[c] \in Event /\ UNCHANGED <<now, fires>>
    BY <1>2, DecideShape
  <2>2. CASE UNCHANGED <<row, matched>>
    BY <2>1, <2>2 DEF Dated
  <2>3. CASE /\ k \in Key /\ Matches[t][handling[c]] \in Nat
             /\ row' = [row EXCEPT ![t][k] = TriggerWindowAdvance(t, row[t][k], Matches[t][handling[c]])]
             /\ matched' = matched \cup {h}
    <3>1. row[t][k] \in Rows /\ now \in Nat
      BY <2>1, <2>3 DEF Dated
    <3>2. TriggerWindowAdvance(t, row[t][k], Matches[t][handling[c]]) \in Rows
      BY <2>1, <2>3, <3>1, AdvanceShape
    <3>3. row' \in [Trigger -> [Key -> Rows]]
      BY <2>1, <2>3, <3>2, RowChange
    <3>4. /\ IsFiniteSet(matched') /\ Cardinality(matched) \in Nat
          /\ \A m \in matched' : m.n < Cardinality(matched')
      <4>1. h.n = Cardinality(matched) /\ \A m \in matched : m.n \in Nat /\ m.n < Cardinality(matched)
        BY DEF Dated, Hits
      <4> HIDE DEF h
      <4> QED BY <2>3, <4>1, NewEntry DEF Dated
    <3>5. h \in Hits
      BY <2>1, <2>3, <3>1, <3>4 DEF Hits
    <3> HIDE DEF h
    <3> QED BY <2>1, <2>3, <3>3, <3>4, <3>5 DEF Dated
  <2> QED BY <1>2, <2>2, <2>3, DecideShape
<1>3. ASSUME NEW c \in Consumer, TriggerWindowFired(c) PROVE Dated'
  <2>0. PICK b \in BOOLEAN : fires' = fires \cup {Fire(TriggerOf(c), KeyOf(c), b)}
    BY <1>3, FireShape
  <2> DEFINE g == Fire(TriggerOf(c), KeyOf(c), b)
  <2>1. /\ TriggerOf(c) \in Trigger /\ KeyOf(c) \in Key /\ UNCHANGED <<now, matched>>
        /\ fires' = fires \cup {g}
        /\ UNCHANGED row \/ row' = [row EXCEPT ![TriggerOf(c)][KeyOf(c)] = Reset]
    BY <1>3, <2>0, FireShape
  <2>2. now \in Nat
    BY DEF Dated
  <2>3. row' \in [Trigger -> [Key -> Rows]]
    BY <2>1, <2>2, RowShapes, RowChange DEF Dated
  <2>4. /\ IsFiniteSet(fires') /\ Cardinality(fires) \in Nat
        /\ \A f \in fires' : f.n < Cardinality(fires')
    <3>1. g.n = Cardinality(fires) /\ \A f \in fires : f.n \in Nat /\ f.n < Cardinality(fires)
      BY DEF Dated, Fires, Fire
    <3> HIDE DEF g
    <3> QED BY <2>1, <3>1, NewEntry DEF Dated
  <2>5. g \in Fires
    BY <2>1, <2>2, <2>4 DEF Fires, Fire
  <2> HIDE DEF g
  <2> QED BY <2>1, <2>3, <2>4, <2>5 DEF Dated
<1>4. CASE TriggerWindowSweep
  <2>1. row' \in [Trigger -> [Key -> Rows]]
    BY <1>4, RowShapes DEF TriggerWindowSweep, Dated
  <2> QED BY <1>4, <2>1 DEF TriggerWindowSweep, Dated
<1>5. CASE Tick
  BY <1>5 DEF Tick, Dated
<1> QED BY <1>1, <1>2, <1>3, <1>4, <1>5, HistoryShapes

-----------------------------------------------------------------------------
(* What a window row claims.                                               *)

\* The matches a row may rest on: of its own key and inside its window.
Evidence(t, k) ==
  {m \in matched : /\ m.trigger = t /\ Payload[t][m.event] = k
                   /\ m.time >= row[t][k].opened
                   /\ Within[t] > 0 => m.time <= row[t][k].opened + Within[t]}

\* A row was opened in the past and claims no more than its evidence.
Claims(t, k) ==
  /\ row[t][k].opened <= now
  /\ row[t][k].count <= Cardinality(Evidence(t, k))
  /\ \A i \in row[t][k].satisfied : \E m \in Evidence(t, k) : Matches[t][m.event] = i

Backed == \A t \in Trigger, k \in Key : Claims(t, k)

\* The same matches, as the property computes them.
Span(t, k) ==
  LET seen == {m \in matched : /\ m.trigger = t
                               /\ Payload[t][m.event] = k
                               /\ m.time >= row[t][k].opened}
      last == {m \in seen : m.time <= row[t][k].opened + Within[t]}
  IN IF Within[t] > 0 THEN last ELSE seen

\* The invariant is the property, and that the clock does not run back.
LEMMA BackedIsEvidence == Backed => WindowIsEvidence
<1> SUFFICES ASSUME Backed PROVE WindowIsEvidence
  OBVIOUS
<1>1. ASSUME NEW t \in Trigger, NEW k \in Key
      PROVE  Span(t, k) = Evidence(t, k)
  BY DEF Evidence, Span
<1>2. ASSUME NEW t \in Trigger, NEW k \in Key
      PROVE  /\ row[t][k].count <= Cardinality(Span(t, k))
             /\ \A i \in row[t][k].satisfied :
                    \E m \in Span(t, k) : Matches[t][m.event] = i
  <2>1. /\ row[t][k].count <= Cardinality(Evidence(t, k))
        /\ \A i \in row[t][k].satisfied :
               \E m \in Evidence(t, k) : Matches[t][m.event] = i
    BY DEF Backed, Claims
  <2> QED BY <1>1, <2>1
<1>3. (\A t \in Trigger, k \in Key :
         /\ row[t][k].count <= Cardinality(Span(t, k))
         /\ \A i \in row[t][k].satisfied :
                \E m \in Span(t, k) : Matches[t][m.event] = i)
      => WindowIsEvidence
  BY Zenon DEF Span, WindowIsEvidence
<1> QED BY <1>2, <1>3

\* A finite set is no smaller than its part.
LEMMA PartIsSmaller ==
  ASSUME NEW S, NEW T, T \subseteq S, IsFiniteSet(S)
  PROVE  /\ IsFiniteSet(T) /\ Cardinality(T) \in Nat /\ Cardinality(S) \in Nat
         /\ Cardinality(T) <= Cardinality(S)
BY FS_Subset, FS_CardinalityType

\* A row that does not change keeps its evidence.
LEMMA KeptClaims ==
  ASSUME Dated, Dated', NEW t \in Trigger, NEW k \in Key, Claims(t, k),
         row'[t][k] = row[t][k], matched \subseteq matched', now <= now'
  PROVE  Claims(t, k)'
<1>1. Evidence(t, k) \subseteq Evidence(t, k)'
  BY DEF Evidence
<1>2. IsFiniteSet(Evidence(t, k)')
  BY PartIsSmaller DEF Dated, Evidence
<1>3. /\ Cardinality(Evidence(t, k)) \in Nat /\ Cardinality(Evidence(t, k)') \in Nat
      /\ Cardinality(Evidence(t, k)) <= Cardinality(Evidence(t, k)')
  BY <1>1, <1>2, PartIsSmaller
<1>4. row[t][k].count \in Nat /\ row[t][k].opened \in Int /\ now \in Nat /\ now' \in Nat
  BY DEF Dated, Rows
<1> QED BY <1>1, <1>3, <1>4 DEF Claims

\* A row with nothing in it claims nothing.
LEMMA EmptyClaims ==
  ASSUME Dated', NEW t \in Trigger, NEW k \in Key, row'[t][k].count = 0, row'[t][k].satisfied = {},
         row'[t][k].opened <= now'
  PROVE  Claims(t, k)'
<1>1. IsFiniteSet(Evidence(t, k)')
  BY PartIsSmaller DEF Dated, Evidence
<1>2. Cardinality(Evidence(t, k)') \in Nat
  BY <1>1, FS_CardinalityType
<1> QED BY <1>2 DEF Claims

\* A match is evidence for the row it advances.
LEMMA AdvanceClaims ==
  ASSUME Dated, Dated', NEW t \in Trigger, NEW k \in Key, Claims(t, k), NEW e \in Event,
         Payload[t][e] = k, Matches[t][e] \in Nat, now' = now,
         row'[t][k] = TriggerWindowAdvance(t, row[t][k], Matches[t][e]),
         NEW h \in Hits, h.trigger = t, h.event = e, h.time = now, h \notin matched,
         matched' = matched \cup {h}
  PROVE  Claims(t, k)'
<1> DEFINE r == row[t][k]
           a == row'[t][k]
           i == Matches[t][e]
<1>1. r \in Rows /\ now \in Nat /\ r.opened \in Int /\ r.count \in Nat /\ Within[t] \in Nat
  BY TriggerShapes DEF Dated, Rows
<1>2. IsFiniteSet(Evidence(t, k)') /\ Cardinality(Evidence(t, k)') \in Nat
  BY PartIsSmaller DEF Dated, Evidence
<1>3. \/ a.opened = now /\ a.count = 1 /\ a.satisfied = {i} \cap Conditions[t]
      \/ /\ ~Expired(t, r) /\ a.opened = r.opened /\ a.count = r.count + 1
         /\ a.satisfied = r.satisfied \cup ({i} \cap Conditions[t])
  <2>1. Advanced(t, r, i, a)
    BY <1>1, AdvanceShape
  <2> QED BY <2>1 DEF Advanced
<1>4. CASE a.opened = now /\ a.count = 1 /\ a.satisfied = {i} \cap Conditions[t]
  <2>1. {h} \subseteq Evidence(t, k)'
    BY <1>1, <1>4 DEF Evidence
  <2>2. Cardinality({h}) = 1
    BY FS_Singleton
  <2>3. 1 <= Cardinality(Evidence(t, k)')
    BY <1>2, <2>1, <2>2, PartIsSmaller
  <2> QED BY <1>1, <1>4, <2>1, <2>3 DEF Claims
<1>5. CASE /\ ~Expired(t, r) /\ a.opened = r.opened /\ a.count = r.count + 1
           /\ a.satisfied = r.satisfied \cup ({i} \cap Conditions[t])
  <2>1. r.opened <= now /\ (Within[t] > 0 => now <= r.opened + Within[t])
    BY <1>1, <1>5 DEF Claims, Expired
  <2>2. Evidence(t, k) \cup {h} \subseteq Evidence(t, k)'
    BY <1>5, <2>1 DEF Evidence
  <2>3. IsFiniteSet(Evidence(t, k)) /\ h \notin Evidence(t, k)
    BY PartIsSmaller DEF Dated, Evidence
  <2>4. /\ Cardinality(Evidence(t, k)) \in Nat
        /\ Cardinality(Evidence(t, k) \cup {h}) = Cardinality(Evidence(t, k)) + 1
    BY <2>3, FS_AddElement, FS_CardinalityType
  <2>5. Cardinality(Evidence(t, k)) + 1 <= Cardinality(Evidence(t, k)')
    BY <1>2, <2>2, <2>4, PartIsSmaller
  <2>6. a.count <= Cardinality(Evidence(t, k)')
    BY <1>1, <1>2, <1>5, <2>4, <2>5 DEF Claims
  <2>7. \A j \in a.satisfied : \E m \in Evidence(t, k)' : Matches[t][m.event] = j
    BY <1>5, <2>2 DEF Claims
  <2> QED BY <1>5, <2>1, <2>6, <2>7 DEF Claims
<1> QED BY <1>3, <1>4, <1>5

\* The entry Decide adds to the history is new.
LEMMA NewHit ==
  ASSUME Dated, NEW t \in Trigger, NEW k \in Key, NEW e \in Event
  PROVE  LET h == [trigger |-> t, key |-> k, event |-> e, time |-> now, n |-> Cardinality(matched)]
         IN h \in Hits /\ h \notin matched
<1> DEFINE h == [trigger |-> t, key |-> k, event |-> e, time |-> now, n |-> Cardinality(matched)]
<1>1. Cardinality(matched) \in Nat /\ now \in Nat
  BY FS_CardinalityType DEF Dated
<1>2. h \in Hits /\ h.n = Cardinality(matched)
  BY <1>1 DEF Hits
<1> HIDE DEF h
<1>3. h \notin matched
  BY <1>1, <1>2 DEF Dated
<1> QED BY <1>2, <1>3 DEF h

\* No step makes a row claim what was not matched.
LEMMA BackedStep ==
  ASSUME Walking, Dated, Dated', Backed, [Next]_vars
  PROVE  Backed'
<1>0. now \in Nat
  BY DEF Dated
<1>1. ASSUME NEW c \in Consumer, Decide(c) PROVE Backed'
  <2>0. PICK t \in Trigger, e \in Event, k \in Key \cup {NoKey} : t = TriggerOf(c) /\ k = KeyOf(c) /\ e = handling[c]
    BY <1>1, DecideShape, TriggerShapes DEF KeyOf, correlationKey
  <2>1. now' = now /\ now <= now'
    BY <1>0, <1>1, DecideShape
  <2>2. CASE UNCHANGED <<row, matched>>
    BY <2>1, <2>2, KeptClaims DEF Backed
  <2>3. CASE /\ k \in Key /\ Matches[t][e] \in Nat
             /\ row' = [row EXCEPT ![t][k] = TriggerWindowAdvance(t, row[t][k], Matches[t][e])]
             /\ matched' = matched \cup {[trigger |-> t, key |-> k, event |-> e, time |-> now,
                                         n |-> Cardinality(matched)]}
    <3>0. PICK h : h = [trigger |-> t, key |-> k, event |-> e, time |-> now, n |-> Cardinality(matched)]
      OBVIOUS
    <3>1. h \in Hits /\ h \notin matched
      BY <2>3, <3>0, NewHit
    <3>2. TriggerWindowAdvance(t, row[t][k], Matches[t][e]) \in Rows
      BY <1>0, <2>3, AdvanceShape DEF Dated
    <3>3. /\ row'[t][k] = TriggerWindowAdvance(t, row[t][k], Matches[t][e])
          /\ \A u \in Trigger, j \in Key : ~(u = t /\ j = k) => row'[u][j] = row[u][j]
      BY <2>3, <3>2 DEF Dated
    <3>4. h.trigger = t /\ h.event = e /\ h.time = now /\ Payload[t][e] = k
      BY <2>0, <3>0 DEF KeyOf, correlationKey
    <3>5. Claims(t, k)'
      BY <2>1, <2>3, <3>0, <3>1, <3>3, <3>4, AdvanceClaims DEF Backed
    <3>6. \A u \in Trigger, j \in Key : ~(u = t /\ j = k) => Claims(u, j)'
      BY <2>1, <2>3, <3>3, KeptClaims DEF Backed
    <3> QED BY <3>5, <3>6 DEF Backed
  <2> QED BY <1>1, <2>0, <2>2, <2>3, DecideShape
<1>2. ASSUME NEW c \in Consumer, TriggerWindowFired(c) PROVE Backed'
  <2>0. PICK t \in Trigger, k \in Key, b \in BOOLEAN :
          /\ UNCHANGED <<now, matched>>
          /\ row' = IF b THEN [row EXCEPT ![t][k] = Reset] ELSE row
    BY <1>2, FireValues
  <2>1. /\ now' = now /\ matched' = matched /\ now <= now'
        /\ UNCHANGED row \/ row' = [row EXCEPT ![t][k] = Reset]
    BY <1>0, <2>0
  <2>2. CASE UNCHANGED row
    BY <2>1, <2>2, KeptClaims DEF Backed
  <2>3. CASE row' = [row EXCEPT ![t][k] = Reset]
    <3>1. /\ row'[t][k] = Reset
          /\ \A u \in Trigger, j \in Key : ~(u = t /\ j = k) => row'[u][j] = row[u][j]
      BY <2>1, <2>3 DEF Dated
    <3>2. Reset.count = 0 /\ Reset.satisfied = {} /\ Reset.opened = now
      BY DEF Reset
    <3>3. Claims(t, k)'
      BY <1>0, <2>1, <3>1, <3>2, EmptyClaims
    <3>4. \A u \in Trigger, j \in Key : ~(u = t /\ j = k) => Claims(u, j)'
      BY <2>1, <3>1, KeptClaims DEF Backed
    <3> QED BY <3>3, <3>4 DEF Backed
  <2> QED BY <2>1, <2>2, <2>3
<1>3. CASE TriggerWindowSweep
  <2>1. now' = now /\ matched' = matched /\ now <= now' /\ \A t \in Trigger, k \in Key :
          row'[t][k] = NoRow \/ row'[t][k] = row[t][k]
    BY <1>0, <1>3 DEF TriggerWindowSweep
  <2>2. NoRow.count = 0 /\ NoRow.satisfied = {} /\ NoRow.opened <= now
    BY <1>0 DEF NoRow
  <2>3. ASSUME NEW t \in Trigger, NEW k \in Key PROVE Claims(t, k)'
    <3>1. CASE row'[t][k] = row[t][k]
      BY <2>1, <3>1, KeptClaims DEF Backed
    <3>2. CASE row'[t][k] = NoRow
      BY <2>1, <2>2, <3>2, EmptyClaims
    <3> QED BY <2>1, <3>1, <3>2
  <2> QED BY <2>3 DEF Backed
<1>4. CASE Tick \/ UNCHANGED <<row, matched, fires, now>>
  <2>1. row' = row /\ matched' = matched /\ now <= now'
    BY <1>0, <1>4 DEF Tick
  <2> QED BY <2>1, KeptClaims DEF Backed
<1> QED BY <1>1, <1>2, <1>3, <1>4, HistoryShapes

\* No row has claimed anything yet.
LEMMA HistoriesStart == Init => Walking /\ Dated /\ Backed
<1> SUFFICES ASSUME Init PROVE Walking /\ Dated /\ Backed
  OBVIOUS
<1>1. Walking
  BY TriggerShapes DEF Init, Walking
<1>2. NoRow \in Rows /\ NoRow.opened = -1 /\ NoRow.count = 0 /\ NoRow.satisfied = {}
  BY DEF NoRow, Rows
<1>3. Dated
  BY <1>2, FS_EmptySet DEF Init, Dated
<1>4. \A t \in Trigger, k \in Key : Evidence(t, k) = {}
  BY DEF Init, Evidence
<1>5. ASSUME NEW t \in Trigger, NEW k \in Key PROVE Claims(t, k)
  <2>1. row[t][k] = NoRow /\ now = 0
    BY DEF Init
  <2> QED BY <1>2, <1>4, <2>1, FS_EmptySet DEF Claims
<1> QED BY <1>1, <1>3, <1>5 DEF Backed

\* However many engines share the window rows, and whatever fails, the upsert
\* of TriggerWindowAdvance counts, and ticks off, only matches of the row's
\* own key inside its window.
THEOREM RowsRestOnMatches == Spec => []WindowIsEvidence
<1> DEFINE I == Walking /\ Dated /\ Backed
<1>1. Init => I
  BY HistoriesStart
<1>2. I /\ [Next]_vars => I'
  BY WalkingStep, DatedStep, BackedStep
<1>3. I => WindowIsEvidence
  BY BackedIsEvidence
<1> QED BY <1>1, <1>2, <1>3, PTL DEF Spec

-----------------------------------------------------------------------------
(* One engine: a stamped fire is a cooldown away from every later one.     *)

OneEngine == \A c, d \in Consumer : c = d

Fired(t, k) == {f \in fires : f.trigger = t /\ f.key = k}

\* No fire lies in the future.
Past == \A f \in fires : f.time <= now

\* A row remembers a stamped fire for as long as the cooldown is in force.
Cooling ==
  \A f \in fires : f.stamped =>
    row[f.trigger][f.key].fired >= f.time \/ now - f.time >= Cooldown[f.trigger]

\* Whoever is about to fire has waited for the cooldown of every stamped fire.
Due ==
  \A c \in Consumer, t \in Trigger, k \in Key : AtFire(c, t, k) =>
    \A f \in Fired(t, k) : f.stamped => now - f.time >= Cooldown[t]

\* What Decide does, by the values it reads.
LEMMA DecideValues ==
  ASSUME Walking, Dated, NEW c \in Consumer, Decide(c)
  PROVE  /\ UNCHANGED <<now, fires>>
         /\ \/ UNCHANGED <<row, matched>> /\ pc'[c] # "fire"
            \/ \E t \in Trigger, k \in Key, e \in Event, a \in Rows :
                 /\ Advanced(t, row[t][k], Matches[t][e], a)
                 /\ row' = [row EXCEPT ![t][k] = a]
                 /\ matched' = matched \cup {[trigger |-> t, key |-> k, event |-> e, time |-> now,
                                              n |-> Cardinality(matched)]}
                 /\ pc'[c] = "fire" => AtFire(c, t, k)' /\ ~Damped(t, a) /\ Complete(t, a)
<1>1. /\ TriggerOf(c) \in Trigger /\ handling[c] \in Event /\ UNCHANGED <<handling, now, fires>>
  BY DecideShape
<1>2. at[c] \in 1 .. Len(Triggers)
  BY DEF Decide, Walking
<1>3. NextTrigger(c) => pc'[c] # "fire"
  BY <1>1, <1>2, NextShape
<1>4. CASE NextTrigger(c) /\ UNCHANGED <<row, matched>>
  BY <1>1, <1>3, <1>4
<1>5. CASE ~(NextTrigger(c) /\ UNCHANGED <<row, matched>>)
  <2>1. PICK t \in Trigger, e \in Event, k \in Key :
          t = TriggerOf(c) /\ e = handling[c] /\ k = KeyOf(c) /\ Matches[t][e] \in Nat
    BY <1>1, <1>5, DecideShape
  <2>2. PICK a : a = TriggerWindowAdvance(t, row[t][k], Matches[t][e])
    OBVIOUS
  <2>3. a \in Rows /\ Advanced(t, row[t][k], Matches[t][e], a)
    BY <2>1, <2>2, AdvanceShape DEF Dated
  <2>4. /\ row' = [row EXCEPT ![t][k] = a]
        /\ matched' = matched \cup {[trigger |-> t, key |-> k, event |-> e, time |-> now,
                                     n |-> Cardinality(matched)]}
        /\ \/ NextTrigger(c)
           \/ ~Damped(t, a) /\ Complete(t, a) /\ pc' = [pc EXCEPT ![c] = "fire"] /\ UNCHANGED at
    BY <1>5, <2>1, <2>2, DecideShape
  <2>5. UNCHANGED at => TriggerOf(c)' = t /\ KeyOf(c)' = k
    BY <1>1, <2>1 DEF TriggerOf, KeyOf, correlationKey
  <2>6. pc'[c] = "fire" => AtFire(c, t, k)' /\ ~Damped(t, a) /\ Complete(t, a)
    BY <1>3, <2>4, <2>5 DEF AtFire
  <2> QED BY <1>1, <2>3, <2>4, <2>6
<1> QED BY <1>4, <1>5

\* The one engine that is at a fire, and did not just decide it, was there.
LEMMA StaysAtFire ==
  ASSUME OneEngine, Walking, [Next]_vars, \A d \in Consumer : ~Decide(d),
         NEW c \in Consumer, NEW t, NEW k, AtFire(c, t, k)'
  PROVE  AtFire(c, t, k) /\ UNCHANGED <<fires, matched>>
<1>0. pc'[c] = "fire"
  BY DEF AtFire
<1>1. CASE UNCHANGED <<pc, at, handling, fires, matched>>
  BY <1>1 DEF AtFire, TriggerOf, KeyOf, correlationKey
<1>2. ASSUME NEW e \in Event, Deliver(c, e) PROVE FALSE
  BY <1>0, <1>2 DEF Deliver, Walking
<1>3. ASSUME ListTriggers(c) \/ TriggerWindowFired(c) \/ AckOrNak(c) \/ Crash(c) PROVE FALSE
  BY <1>0, <1>3 DEF ListTriggers, After, TriggerWindowFired, AckOrNak, Crash, Walking
<1>4. ASSUME Launch(c) \/ LaunchFails(c) \/ DecideFails(c) \/ FireFails(c) PROVE FALSE
  <2>1. at[c] \in 1 .. Len(Triggers) /\ NextTrigger(c) /\ UNCHANGED handling
    BY <1>4 DEF Launch, LaunchFails, DecideFails, FireFails, Walking
  <2> QED BY <1>0, <2>1, NextShape
<1>5. CASE \/ UNCHANGED vars \/ \E e \in Event : PublishEmitterEvent(e) \/ AckWait(e)
           \/ \E l \in running : LaunchCloses(l)
           \/ \E d \in Consumer : LoseLeadership(d) \/ Lead(d)
           \/ TriggerWindowSweep \/ Tick
  BY <1>1, <1>5 DEF vars, PublishEmitterEvent, AckWait, LaunchCloses, LoseLeadership, Lead,
                    TriggerWindowSweep, Tick
<1> QED BY <1>2, <1>3, <1>4, <1>5 DEF Next, Handle, OneEngine

\* The sweep keeps a row for as long as its Trigger cools down.
Retained == \A t \in Trigger : Cooldown[t] <= Keep

\* The types of what the cooldown compares.
LEMMA CoolTypes ==
  ASSUME Dated
  PROVE  /\ now \in Nat
         /\ \A f \in fires : /\ f.trigger \in Trigger /\ f.key \in Key /\ f.time \in Nat /\ f.n \in Nat
                             /\ Cooldown[f.trigger] \in Nat
                             /\ row[f.trigger][f.key].fired \in Int
<1>1. \A f \in fires : f.trigger \in Trigger /\ f.key \in Key /\ f.time \in Nat /\ f.n \in Nat
  BY DEF Dated, Fires
<1>2. \A t \in Trigger, k \in Key : row[t][k].fired \in Int
  BY DEF Dated, Rows
<1> QED BY <1>1, <1>2, TriggerShapes DEF Dated

\* No step forgets a fire before its cooldown is over.
LEMMA CoolingStep ==
  ASSUME Retained, Walking, Dated, Dated', Past, Cooling, [Next]_vars
  PROVE  Past' /\ Cooling'
<1>0. /\ now \in Nat
      /\ \A f \in fires : /\ f.trigger \in Trigger /\ f.key \in Key /\ f.time \in Nat
                          /\ Cooldown[f.trigger] \in Nat /\ row[f.trigger][f.key].fired \in Int
  BY CoolTypes
<1>1. ASSUME UNCHANGED fires, now' \in Nat, now' >= now,
             \A t \in Trigger, k \in Key : row'[t][k].fired = row[t][k].fired
      PROVE  Past' /\ Cooling'
  BY <1>0, <1>1 DEF Past, Cooling
<1>2. ASSUME NEW c \in Consumer, Decide(c) PROVE Past' /\ Cooling'
  <2>1. UNCHANGED <<now, fires>>
    BY <1>2, DecideValues
  <2>2. CASE UNCHANGED row
    BY <1>0, <1>1, <2>1, <2>2
  <2>3. ASSUME NEW t \in Trigger, NEW k \in Key, NEW i, NEW a, Advanced(t, row[t][k], i, a),
               row' = [row EXCEPT ![t][k] = a]
        PROVE  Past' /\ Cooling'
    <3>1. a.fired = row[t][k].fired
      BY <2>3 DEF Advanced
    <3>2. \A u \in Trigger, j \in Key : row'[u][j].fired = row[u][j].fired
      BY <2>3, <3>1 DEF Dated
    <3> QED BY <1>0, <1>1, <2>1, <3>2
  <2> QED BY <1>2, <2>2, <2>3, DecideValues
<1>3. ASSUME NEW c \in Consumer, TriggerWindowFired(c) PROVE Past' /\ Cooling'
  <2>1. PICK t \in Trigger, k \in Key, b \in BOOLEAN :
          /\ UNCHANGED <<now, matched>> /\ fires' = fires \cup {Fire(t, k, b)}
          /\ row' = IF b THEN [row EXCEPT ![t][k] = Reset] ELSE row
    BY <1>3, FireValues
  <2>2. /\ b => row'[t][k].fired = now
        /\ ~b => row'[t][k] = row[t][k]
        /\ \A u \in Trigger, j \in Key : ~(u = t /\ j = k) => row'[u][j] = row[u][j]
    <3>1. Reset.fired = now
      BY DEF Reset
    <3> QED BY <2>1, <3>1 DEF Dated
  <2>3. PICK g : g = Fire(t, k, b) /\ fires' = fires \cup {g}
    BY <2>1
  <2>4. g.trigger = t /\ g.key = k /\ g.time = now /\ g.stamped = b
    BY <2>3 DEF Fire
  <2>5. Past'
    BY <1>0, <2>1, <2>3, <2>4 DEF Past
  <2>6. ASSUME NEW f \in fires', f.stamped
        PROVE  row'[f.trigger][f.key].fired >= f.time \/ now' - f.time >= Cooldown[f.trigger]
    <3>1. CASE b /\ f.trigger = t /\ f.key = k
      <4>1. f.time <= now /\ f.time \in Nat
        BY <1>0, <2>3, <2>4 DEF Past
      <4> QED BY <1>0, <2>2, <3>1, <4>1
    <3>2. CASE ~(b /\ f.trigger = t /\ f.key = k)
      <4>1. f \in fires
        BY <2>3, <2>4, <2>6, <3>2
      <4>2. row'[f.trigger][f.key] = row[f.trigger][f.key]
        BY <1>0, <2>2, <3>2, <4>1
      <4> QED BY <1>0, <2>1, <2>6, <4>1, <4>2 DEF Cooling
    <3> QED BY <3>1, <3>2
  <2> QED BY <2>5, <2>6 DEF Cooling
<1>4. CASE TriggerWindowSweep
  <2>1. UNCHANGED <<fires, now>> /\ \A t \in Trigger, k \in Key :
          row'[t][k] = IF Stale(row[t][k]) THEN NoRow ELSE row[t][k]
    BY <1>4 DEF TriggerWindowSweep
  <2>2. ASSUME NEW f \in fires, f.stamped
        PROVE  row'[f.trigger][f.key].fired >= f.time \/ now - f.time >= Cooldown[f.trigger]
    <3>1. CASE ~Stale(row[f.trigger][f.key])
      BY <1>0, <2>1, <2>2, <3>1 DEF Cooling
    <3>2. CASE Stale(row[f.trigger][f.key]) /\ row[f.trigger][f.key].fired >= f.time
      <4>1. now - row[f.trigger][f.key].fired > Keep
        BY <1>0, <3>2 DEF Stale
      <4> QED BY <1>0, <3>2, <4>1, TriggerShapes DEF Retained
    <3> QED BY <2>2, <3>1, <3>2 DEF Cooling
  <2> QED BY <2>1, <2>2 DEF Past, Cooling
<1>5. CASE Tick \/ UNCHANGED <<row, matched, fires, now>>
  <2>1. UNCHANGED <<row, fires>> /\ now' \in Nat /\ now' >= now
    BY <1>0, <1>5 DEF Tick
  <2> QED BY <1>1, <2>1
<1> QED BY <1>2, <1>3, <1>4, <1>5, HistoryShapes

\* The cooldown the engine decided on is over until it fires.
LEMMA DueStep ==
  ASSUME OneEngine, Walking, Dated, Dated', Past, Cooling, Due, [Next]_vars
  PROVE  Due'
<1>0. /\ now \in Nat /\ now' \in Nat /\ now' >= now
      /\ \A f \in fires : /\ f.trigger \in Trigger /\ f.key \in Key /\ f.time \in Nat
                          /\ Cooldown[f.trigger] \in Nat /\ row[f.trigger][f.key].fired \in Int
  <2>1. now' = now \/ now' = now + 1
    BY DecideShape, FireShape, HistoryShapes DEF TriggerWindowSweep, Tick
  <2> QED BY <2>1, CoolTypes
<1> SUFFICES ASSUME NEW c \in Consumer, NEW t \in Trigger, NEW k \in Key, AtFire(c, t, k)',
                    NEW f \in Fired(t, k)', f.stamped
             PROVE  now' - f.time >= Cooldown[t]
  BY DEF Due
<1>1. f \in fires' /\ f.trigger = t /\ f.key = k
  BY DEF Fired
<1>2. CASE \A d \in Consumer : ~Decide(d)
  <2>1. AtFire(c, t, k) /\ f \in Fired(t, k)
    BY <1>1, <1>2, StaysAtFire DEF Fired
  <2>2. now - f.time >= Cooldown[t] /\ f \in fires
    BY <2>1 DEF Due, Fired
  <2> QED BY <1>0, <1>1, <2>2
<1>3. CASE Decide(c)
  <2>1. pc'[c] = "fire" /\ UNCHANGED <<now, fires>>
    BY <1>3, DecideValues DEF AtFire
  <2>2. PICK u \in Trigger, j \in Key, e \in Event, a \in Rows :
          Advanced(u, row[u][j], Matches[u][e], a) /\ AtFire(c, u, j)' /\ ~Damped(u, a)
    BY <1>3, <2>1, DecideValues
  <2>3. u = t /\ j = k
    BY <2>2 DEF AtFire
  <2>4. a.fired = row[t][k].fired
    BY <2>2, <2>3 DEF Advanced
  <2>5. \/ Cooldown[t] = 0 \/ row[t][k].fired < 0 \/ now - row[t][k].fired >= Cooldown[t]
    BY <1>0, <1>1, <2>1, <2>2, <2>3, <2>4 DEF Damped
  <2>6. f.time <= now /\ (row[t][k].fired >= f.time \/ now - f.time >= Cooldown[t])
    BY <1>1, <2>1 DEF Past, Cooling
  <2> QED BY <1>0, <1>1, <2>1, <2>5, <2>6
<1> QED BY <1>2, <1>3 DEF OneEngine

\* A fire that is due is a cooldown after every earlier one.
LEMMA CooldownStep ==
  ASSUME Walking, Dated, Dated', Due, CooldownHolds, [Next]_vars
  PROVE  CooldownHolds'
<1>1. CASE UNCHANGED fires
  BY <1>1 DEF CooldownHolds
<1>2. ASSUME NEW c \in Consumer, TriggerWindowFired(c) PROVE CooldownHolds'
  <2>1. PICK t \in Trigger, k \in Key, b \in BOOLEAN :
          AtFire(c, t, k) /\ fires' = fires \cup {Fire(t, k, b)}
    BY <1>2, FireValues
  <2>2. PICK h : h = Fire(t, k, b) /\ fires' = fires \cup {h}
    BY <2>1
  <2>3. h.trigger = t /\ h.key = k /\ h.time = now /\ h.n = Cardinality(fires)
    BY <2>2 DEF Fire
  <2>4. Cardinality(fires) \in Nat /\ \A f \in fires : f.n \in Nat /\ f.n < Cardinality(fires)
    BY CoolTypes, FS_CardinalityType DEF Dated
  <2>5. ASSUME NEW f \in fires', NEW g \in fires', f.trigger = g.trigger, f.key = g.key,
               f.n < g.n, f.stamped
        PROVE  g.time - f.time >= Cooldown[f.trigger]
    <3>1. f # h
      BY <2>2, <2>3, <2>4, <2>5
    <3>2. f \in fires
      BY <2>2, <3>1
    <3>3. CASE g = h
      BY <2>1, <2>3, <2>5, <3>2, <3>3 DEF Due, Fired
    <3>4. CASE g \in fires
      BY <2>5, <3>2, <3>4 DEF CooldownHolds
    <3> QED BY <2>2, <3>3, <3>4
  <2> QED BY <2>5 DEF CooldownHolds
<1> QED BY <1>1, <1>2, DecideShape, HistoryShapes DEF TriggerWindowSweep, Tick

\* With one engine on the durable consumer and a retention no shorter than the
\* cooldown, a fire that TriggerWindowFired stamped is a cooldown away from
\* every later fire of the Trigger for that key, over redeliveries, crashes,
\* lost leaderships, sweeps and fires whose own stamp was lost.
THEOREM FiresAreACooldownApart == ASSUME OneEngine, Retained PROVE Spec => []CooldownHolds
<1> DEFINE I == Walking /\ Dated /\ Past /\ Cooling /\ Due /\ CooldownHolds
<1>1. Init => I
  <2> SUFFICES ASSUME Init PROVE I
    OBVIOUS
  <2>1. fires = {}
    BY DEF Init
  <2> QED BY <2>1, HistoriesStart DEF Past, Cooling, Due, Fired, CooldownHolds
<1>2. I /\ [Next]_vars => I'
  <2> SUFFICES ASSUME I, [Next]_vars PROVE I'
    OBVIOUS
  <2>1. Walking' /\ Dated'
    BY WalkingStep, DatedStep
  <2> QED BY <2>1, CoolingStep, DueStep, CooldownStep
<1>3. I => CooldownHolds
  OBVIOUS
<1> QED BY <1>1, <1>2, <1>3, PTL DEF Spec

-----------------------------------------------------------------------------
(* An acked event was launched.                                            *)

\* A when: Trigger that every event it matches must launch.
Owes(t, e) ==
  /\ e \in Binds[t] /\ Matches[t][e] # -1 /\ correlationKey(t, e) # NoKey
  /\ Count[t] <= 1 /\ Conditions[t] = {} /\ Cooldown[t] = 0

Served(t, e) == started[t][e] > 0 \/ [trigger |-> t, event |-> e] \in swallowed

\* What c has behind it, unless its message will be nakked, is served.
Behind(c) ==
  \A i \in 1 .. Len(Triggers) :
    /\ pc[c] \notin {"idle", "list"} /\ ~failed[c] /\ i < at[c] /\ Owes(Triggers[i], handling[c])
    => Served(Triggers[i], handling[c])

Serving ==
  /\ msg \in [Event -> {"new", "ready", "out", "done"}] /\ failed \in [Consumer -> BOOLEAN]
  /\ started \in [Trigger -> [Event -> Nat]]
  /\ \A t \in Trigger, e \in Event : [trigger |-> t, event |-> e] \in running => started[t][e] > 0
  /\ \A c \in Consumer : pc[c] = "ack" /\ ~failed[c] => at[c] > Len(Triggers)
  /\ \A c \in Consumer : Behind(c)
  /\ AckedIsLaunched

\* No step takes a launch, or a swallowed decision, back.
LEMMA ServedStays ==
  ASSUME Walking, Serving, [Next]_vars
  PROVE  /\ started' \in [Trigger -> [Event -> Nat]]
         /\ \A t \in Trigger, e \in Event :
              /\ Served(t, e) => Served(t, e)'
              /\ [trigger |-> t, event |-> e] \in running' => started'[t][e] > 0
<1>1. CASE UNCHANGED <<started, running, swallowed>>
  BY <1>1 DEF Serving, Served
<1>2. ASSUME NEW t \in Trigger, NEW e \in Event, Start(t, e), UNCHANGED swallowed
      PROVE  /\ started' \in [Trigger -> [Event -> Nat]] /\ started'[t][e] > 0
             /\ \A u \in Trigger, x \in Event :
                  /\ Served(u, x) => Served(u, x)'
                  /\ [trigger |-> u, event |-> x] \in running' => started'[u][x] > 0
  <2>1. CASE [trigger |-> t, event |-> e] \in running
    <3>1. started' = started /\ running' = running
      BY <1>2, <2>1 DEF Start
    <3> QED BY <1>2, <2>1, <3>1 DEF Serving, Served
  <2>2. CASE [trigger |-> t, event |-> e] \notin running
    <3>1. started' = [started EXCEPT ![t][e] = started[t][e] + 1]
      BY <1>2, <2>2 DEF Start, Serving
    <3>2. started[t][e] \in Nat
      BY DEF Serving
    <3>3. started' \in [Trigger -> [Event -> Nat]]
      BY <3>1, <3>2 DEF Serving
    <3>4. started'[t][e] = started[t][e] + 1
      BY <3>1 DEF Serving
    <3>5. \A u \in Trigger, x \in Event : ~(u = t /\ x = e) => started'[u][x] = started[u][x]
      BY <3>1 DEF Serving
    <3>6. \A u \in Trigger, x \in Event : started'[u][x] >= started[u][x] /\ started[u][x] \in Nat
      BY <3>2, <3>4, <3>5 DEF Serving
    <3>7. ASSUME NEW u \in Trigger, NEW x \in Event, [trigger |-> u, event |-> x] \in running'
          PROVE  started'[u][x] > 0
      <4>1. CASE u = t /\ x = e
        BY <3>2, <3>4, <4>1
      <4>2. CASE ~(u = t /\ x = e)
        <5>1. [trigger |-> u, event |-> x] # [trigger |-> t, event |-> e]
          BY <4>2
        <5>2. [trigger |-> u, event |-> x] \in running
          BY <1>2, <3>7, <5>1 DEF Start
        <5> QED BY <3>5, <4>2, <5>2 DEF Serving
      <4> QED BY <4>1, <4>2
    <3>8. \A u \in Trigger, x \in Event : Served(u, x) => Served(u, x)'
      BY <1>2, <3>3, <3>6 DEF Served
    <3> QED BY <3>2, <3>3, <3>4, <3>7, <3>8
  <2> QED BY <2>1, <2>2
<1>3. ASSUME NEW c \in Consumer, Launch(c) \/ LaunchFails(c)
      PROVE  \/ UNCHANGED <<started, running, swallowed>>
             \/ \E t \in Trigger, e \in Event : Start(t, e) /\ UNCHANGED swallowed
  <2>1. Triggers[at[c]] \in Trigger /\ handling[c] \in Event
    BY <1>3, TriggerAt DEF Launch, LaunchFails, Walking
  <2> QED BY <1>3, <2>1 DEF Launch, LaunchFails
<1>4. ASSUME NEW c \in Consumer, DecideFails(c)
      PROVE  UNCHANGED <<started, running>> /\ swallowed \subseteq swallowed'
  BY <1>4 DEF DecideFails
<1>5. ASSUME NEW l \in running, LaunchCloses(l)
      PROVE  UNCHANGED <<started, swallowed>> /\ running' \subseteq running
  BY <1>5 DEF LaunchCloses
<1>6. ASSUME UNCHANGED started, swallowed \subseteq swallowed', running' \subseteq running
      PROVE  /\ started' \in [Trigger -> [Event -> Nat]]
             /\ \A t \in Trigger, e \in Event :
                  /\ Served(t, e) => Served(t, e)'
                  /\ [trigger |-> t, event |-> e] \in running' => started'[t][e] > 0
  BY <1>6 DEF Serving, Served
<1>7. CASE \E c \in Consumer : Launch(c) \/ LaunchFails(c)
  BY <1>1, <1>2, <1>3, <1>7
<1>8. CASE \E c \in Consumer : DecideFails(c)
  BY <1>4, <1>6, <1>8
<1>9. CASE \E l \in running : LaunchCloses(l)
  BY <1>5, <1>6, <1>9
<1>10. CASE \/ UNCHANGED vars \/ \E e \in Event : PublishEmitterEvent(e) \/ AckWait(e)
            \/ \E c \in Consumer, e \in Event : Deliver(c, e)
            \/ \E c \in Consumer : \/ ListTriggers(c) \/ Decide(c) \/ TriggerWindowFired(c)
                                    \/ AckOrNak(c) \/ FireFails(c) \/ Crash(c)
                                    \/ LoseLeadership(c) \/ Lead(c)
            \/ TriggerWindowSweep \/ Tick
  <2>1. UNCHANGED <<started, running, swallowed>>
    BY <1>10 DEF vars, PublishEmitterEvent, AckWait, Deliver, ListTriggers, Decide,
                 TriggerWindowFired, AckOrNak, FireFails, Crash, LoseLeadership, Lead,
                 TriggerWindowSweep, Tick
  <2> QED BY <1>1, <2>1
<1> QED BY <1>7, <1>8, <1>9, <1>10 DEF Next, Handle

\* A consumer at a Trigger it owes a launch leaves it launched, swallowed or
\* with its message to be nakked.
LEMMA PassedIsServed ==
  ASSUME Walking, Serving, [Next]_vars, NEW c \in Consumer, NextTrigger(c), ~failed'[c],
         \/ Decide(c) \/ DecideFails(c) \/ FireFails(c) \/ Launch(c) \/ LaunchFails(c),
         NEW t, t = Triggers[at[c]], NEW e, e = handling[c], Owes(t, e)
  PROVE  Served(t, e)'
<1>1. at[c] \in 1 .. Len(Triggers) /\ UNCHANGED handling
  BY DEF Walking, Decide, DecideFails, FireFails, Launch, LaunchFails
<1>2. t \in Trigger /\ e \in Event
  BY <1>1, TriggerAt DEF Walking
<1>3. ASSUME Decide(c), Owes(t, e) PROVE FALSE
  <2>1. /\ Matches[t][e] # -1 /\ correlationKey(t, e) # NoKey
    BY <1>3 DEF Owes
  <2>2. \A x : ~Damped(t, x) /\ Complete(t, x)
    BY <1>2, <1>3, TriggerShapes DEF Owes, Damped, Complete
  <2>3. UNCHANGED at
    BY <1>3, <2>1, <2>2 DEF Decide
  <2> QED BY <1>1, <2>3 DEF NextTrigger, Walking
<1>4. ASSUME DecideFails(c) PROVE Served(t, e)'
  BY <1>1, <1>4 DEF DecideFails, Served
<1>5. ASSUME FireFails(c) \/ LaunchFails(c), e \in Binds[t] PROVE FALSE
  BY <1>5 DEF FireFails, LaunchFails, OnLaunchError, Serving
<1>6. ASSUME Launch(c), e \in Binds[t] PROVE Served(t, e)'
  <2>1. Start(t, e)
    BY <1>6 DEF Launch
  <2>2. [trigger |-> t, event |-> e] \in running'
    BY <2>1 DEF Start
  <2> QED BY <1>2, <2>2, ServedStays DEF Served
<1> QED BY <1>1, <1>3, <1>4, <1>5, <1>6 DEF Owes

\* A consumer that stays where it is, or forgets its message, owes no more.
LEMMA BehindStays ==
  ASSUME Walking, Serving, [Next]_vars, NEW c \in Consumer,
         pc'[c] \in {"idle", "list"} \/ (at'[c] = at[c] /\ handling'[c] = handling[c]
           /\ (pc[c] \notin {"idle", "list"} \/ at[c] = 1) /\ (failed[c] => failed'[c]))
  PROVE  Behind(c)'
<1> SUFFICES ASSUME NEW i \in 1 .. Len(Triggers), pc'[c] \notin {"idle", "list"}, ~failed'[c],
                    i < at'[c], Owes(Triggers[i], handling'[c])
             PROVE  Served(Triggers[i], handling[c])'
  BY DEF Behind, Owes, correlationKey
<1>1. Triggers[i] \in Trigger /\ handling[c] \in Event /\ handling'[c] = handling[c]
  BY TriggerAt DEF Walking
<1>2. i < at[c] /\ at[c] # 1
  BY TriggerAt
<1>3. Served(Triggers[i], handling[c])
  BY <1>1, <1>2 DEF Serving, Behind
<1> QED BY <1>1, <1>3, ServedStays DEF Served

\* A consumer that goes on owes nothing for the Trigger it leaves.
LEMMA BehindGoesOn ==
  ASSUME Walking, Serving, [Next]_vars, NEW c \in Consumer, NextTrigger(c), failed[c] => failed'[c],
         \/ Decide(c) \/ DecideFails(c) \/ FireFails(c) \/ Launch(c) \/ LaunchFails(c)
  PROVE  Behind(c)' /\ (pc'[c] = "ack" => at'[c] > Len(Triggers))
<1>1. /\ at[c] \in 1 .. Len(Triggers) /\ UNCHANGED handling /\ pc[c] \in {"decide", "fire", "launch"}
  BY DEF Walking, Decide, DecideFails, FireFails, Launch, LaunchFails
<1>2. at'[c] = at[c] + 1 /\ pc'[c] = After(at[c])
  BY DEF NextTrigger, Walking
<1>3. pc'[c] = "ack" => at'[c] > Len(Triggers)
  BY <1>1, <1>2, TriggerAt DEF After
<1>4. ASSUME NEW i \in 1 .. Len(Triggers), ~failed'[c], i < at'[c], Owes(Triggers[i], handling[c])
      PROVE  Served(Triggers[i], handling[c])'
  <2>1. PICK t \in Trigger, e \in Event : t = Triggers[i] /\ e = handling[c]
    BY TriggerAt DEF Walking
  <2>2. CASE i = at[c]
    <3>1. Served(t, e)'
      BY <1>4, <2>1, <2>2, PassedIsServed
    <3> QED BY <1>1, <2>1, <3>1 DEF Served
  <2>3. CASE i < at[c]
    <3>1. Served(t, e)
      BY <1>1, <1>4, <2>1, <2>3 DEF Serving, Behind
    <3>2. Served(t, e)'
      BY <3>1, ServedStays
    <3> QED BY <1>1, <2>1, <3>2 DEF Served
  <2>4. i = at[c] \/ i < at[c]
    BY <1>1, <1>2, <1>4
  <2> QED BY <2>2, <2>3, <2>4
<1>5. Behind(c)'
  BY <1>1, <1>4 DEF Behind, Owes, correlationKey
<1> QED BY <1>3, <1>5

\* An acked event stays served when no step acks another.
LEMMA AckedStays ==
  ASSUME Walking, Serving, [Next]_vars,
         \A e \in Event : msg'[e] = "done" => msg[e] = "done" \/
            \A t \in Trigger : Owes(t, e) => Served(t, e)
  PROVE  AckedIsLaunched'
<1> SUFFICES ASSUME NEW t \in Trigger, NEW e \in Event, msg'[e] = "done", Owes(t, e)
             PROVE  Served(t, e)'
  BY DEF AckedIsLaunched, Owes, Served, correlationKey
<1>1. Served(t, e)
  BY DEF Serving, AckedIsLaunched, Owes, Served
<1> QED BY <1>1, ServedStays

\* What a step of c leaves alone: the other consumers.
LEMMA OthersStay ==
  ASSUME Walking, Serving, [Next]_vars, NEW c \in Consumer,
         \A d \in Consumer : d # c => /\ pc'[d] = pc[d] /\ at'[d] = at[d]
                                      /\ handling'[d] = handling[d] /\ failed'[d] = failed[d]
  PROVE  \A d \in Consumer : d # c =>
           Behind(d)' /\ (pc'[d] = "ack" /\ ~failed'[d] => at'[d] > Len(Triggers))
<1> SUFFICES ASSUME NEW d \in Consumer, d # c
             PROVE  Behind(d)' /\ (pc'[d] = "ack" /\ ~failed'[d] => at'[d] > Len(Triggers))
  OBVIOUS
<1>1. /\ pc'[d] = pc[d] /\ at'[d] = at[d] /\ handling'[d] = handling[d] /\ failed'[d] = failed[d]
  OBVIOUS
<1>2. Behind(d)'
  BY <1>1, BehindStays
<1> QED BY <1>1, <1>2 DEF Serving

\* Every step keeps acked events launched.
LEMMA ServingStep ==
  ASSUME Walking, Serving, [Next]_vars
  PROVE  Serving'
<1>0. /\ started' \in [Trigger -> [Event -> Nat]]
      /\ \A t \in Trigger, e \in Event : [trigger |-> t, event |-> e] \in running' => started'[t][e] > 0
  BY ServedStays
<1>1. ASSUME UNCHANGED <<pc, at, handling, failed>>, msg' \in [Event -> {"new", "ready", "out", "done"}],
             \A e \in Event : msg'[e] = "done" => msg[e] = "done"
      PROVE  Serving'
  <2>1. ASSUME NEW d \in Consumer
        PROVE  Behind(d)' /\ (pc'[d] = "ack" /\ ~failed'[d] => at'[d] > Len(Triggers))
    <3>1. Behind(d)'
      BY <1>1, BehindStays
    <3> QED BY <1>1, <3>1 DEF Serving
  <2>2. AckedIsLaunched'
    BY <1>1, AckedStays
  <2> QED BY <1>0, <1>1, <2>1, <2>2 DEF Serving
<1>2. ASSUME NEW c \in Consumer,
             \A d \in Consumer : d # c => /\ pc'[d] = pc[d] /\ at'[d] = at[d]
                                          /\ handling'[d] = handling[d] /\ failed'[d] = failed[d],
             failed' \in [Consumer -> BOOLEAN], msg' \in [Event -> {"new", "ready", "out", "done"}],
             AckedIsLaunched', Behind(c)', pc'[c] = "ack" /\ ~failed'[c] => at'[c] > Len(Triggers)
      PROVE  Serving'
  <2>1. \A d \in Consumer : Behind(d)' /\ (pc'[d] = "ack" /\ ~failed'[d] => at'[d] > Len(Triggers))
    BY <1>2, OthersStay
  <2> QED BY <1>0, <1>2, <2>1 DEF Serving
<1>3. ASSUME NEW c \in Consumer, NEW e \in Event, Deliver(c, e) PROVE Serving'
  <2>1. /\ pc'[c] = "list" /\ failed' = [failed EXCEPT ![c] = FALSE]
        /\ msg' = [msg EXCEPT ![e] = "out"]
        /\ \A d \in Consumer : d # c => /\ pc'[d] = pc[d] /\ at'[d] = at[d]
                                        /\ handling'[d] = handling[d] /\ failed'[d] = failed[d]
    BY <1>3 DEF Deliver, Walking, Serving
  <2>2. /\ failed' \in [Consumer -> BOOLEAN] /\ msg' \in [Event -> {"new", "ready", "out", "done"}]
        /\ \A x \in Event : msg'[x] = "done" => msg[x] = "done"
    BY <2>1 DEF Serving
  <2> QED BY <1>2, <2>1, <2>2, BehindStays, AckedStays
<1>4. ASSUME NEW c \in Consumer, ListTriggers(c) PROVE Serving'
  <2>1. /\ UNCHANGED <<at, handling, msg>> /\ at[c] = 1
        /\ failed' \in [Consumer -> BOOLEAN] /\ (failed[c] => failed'[c])
        /\ \A d \in Consumer : d # c => pc'[d] = pc[d] /\ failed'[d] = failed[d]
    BY <1>4 DEF ListTriggers, Walking, Serving
  <2>2. pc'[c] = "ack" /\ ~failed'[c] => at'[c] > Len(Triggers)
    BY <1>4, <2>1, TriggerAt DEF ListTriggers, After, Walking, Serving
  <2>3. msg' \in [Event -> {"new", "ready", "out", "done"}]
    BY <2>1 DEF Serving
  <2>4. Behind(c)' /\ AckedIsLaunched'
    BY <2>1, BehindStays, AckedStays
  <2> QED BY <1>2, <2>1, <2>2, <2>3, <2>4
<1>5. ASSUME NEW c \in Consumer, NextTrigger(c), UNCHANGED <<handling, msg>>,
             failed' = failed \/ failed' = [failed EXCEPT ![c] = TRUE],
             \/ Decide(c) \/ DecideFails(c) \/ FireFails(c) \/ Launch(c) \/ LaunchFails(c)
      PROVE  Serving'
  <2>1. /\ failed' \in [Consumer -> BOOLEAN] /\ (failed[c] => failed'[c])
        /\ \A d \in Consumer : d # c => failed'[d] = failed[d] /\ handling'[d] = handling[d]
        /\ \A d \in Consumer : d # c => pc'[d] = pc[d] /\ at'[d] = at[d]
    BY <1>5 DEF NextTrigger, Walking, Serving
  <2>2. Behind(c)' /\ (pc'[c] = "ack" => at'[c] > Len(Triggers))
    BY <1>5, <2>1, BehindGoesOn
  <2>3. AckedIsLaunched' /\ msg' \in [Event -> {"new", "ready", "out", "done"}]
    BY <1>5, AckedStays DEF Serving
  <2> QED BY <1>2, <2>1, <2>2, <2>3
<1>6. ASSUME NEW c \in Consumer, DecideFails(c) \/ FireFails(c) \/ Launch(c) \/ LaunchFails(c)
      PROVE  Serving'
  <2>1. NextTrigger(c) /\ UNCHANGED <<handling, msg>>
    BY <1>6 DEF DecideFails, FireFails, Launch, LaunchFails
  <2>2. failed' = failed \/ failed' = [failed EXCEPT ![c] = TRUE]
    BY <1>6 DEF DecideFails, FireFails, Launch, LaunchFails, OnLaunchError
  <2> QED BY <1>5, <1>6, <2>1, <2>2
<1>7. ASSUME NEW c \in Consumer, Decide(c) PROVE Serving'
  <2>1. UNCHANGED <<handling, msg, failed>>
    BY <1>7 DEF Decide
  <2>2. CASE NextTrigger(c)
    BY <1>5, <1>7, <2>1, <2>2
  <2>3. CASE pc' = [pc EXCEPT ![c] = "fire"] /\ UNCHANGED at
    <3>1. pc'[c] = "fire" /\ pc[c] = "decide" /\ \A d \in Consumer : d # c => pc'[d] = pc[d]
      BY <1>7, <2>3 DEF Decide, Walking
    <3>2. failed' \in [Consumer -> BOOLEAN] /\ msg' \in [Event -> {"new", "ready", "out", "done"}]
      BY <2>1 DEF Serving
    <3>3. Behind(c)' /\ AckedIsLaunched'
      BY <2>1, <2>3, <3>1, BehindStays, AckedStays
    <3> QED BY <1>2, <2>1, <2>3, <3>1, <3>2, <3>3
  <2> QED BY <1>7, <2>2, <2>3, DecideShape
<1>8. ASSUME NEW c \in Consumer, TriggerWindowFired(c) \/ Crash(c) PROVE Serving'
  <2>1. /\ UNCHANGED <<at, handling, msg, failed>> /\ pc'[c] \in {"launch", "idle"}
        /\ (pc'[c] = "launch" => pc[c] = "fire")
        /\ \A d \in Consumer : d # c => pc'[d] = pc[d]
    BY <1>8 DEF TriggerWindowFired, Crash, Walking
  <2>2. failed' \in [Consumer -> BOOLEAN] /\ msg' \in [Event -> {"new", "ready", "out", "done"}]
    BY <2>1 DEF Serving
  <2>3. Behind(c)' /\ AckedIsLaunched'
    BY <2>1, BehindStays, AckedStays
  <2> QED BY <1>2, <2>1, <2>2, <2>3
<1>9. ASSUME NEW c \in Consumer, AckOrNak(c) PROVE Serving'
  <2>1. /\ UNCHANGED <<at, handling, failed>> /\ pc[c] = "ack" /\ pc'[c] = "idle"
        /\ \A d \in Consumer : d # c => pc'[d] = pc[d]
    BY <1>9 DEF AckOrNak, Walking
  <2>2. PICK e \in Event : e = handling[c]
    BY DEF Walking
  <2>3. /\ msg' \in [Event -> {"new", "ready", "out", "done"}]
        /\ \A x \in Event : msg'[x] = "done" => msg[x] = "done" \/ (x = e /\ ~failed[c])
    BY <1>9, <2>2 DEF AckOrNak, Serving
  <2>4. ASSUME ~failed[c], NEW t \in Trigger, Owes(t, e) PROVE Served(t, e)
    <3>1. PICK i \in 1 .. Len(Triggers) : t = Triggers[i]
      BY DEF Trigger
    <3>2. i < at[c]
      BY <2>1, <2>4, TriggerAt DEF Serving, Walking
    <3> QED BY <2>1, <2>2, <2>4, <3>1, <3>2 DEF Serving, Behind
  <2>5. AckedIsLaunched'
    BY <2>3, <2>4, AckedStays
  <2>6. Behind(c)' /\ failed' \in [Consumer -> BOOLEAN]
    BY <2>1, BehindStays DEF Serving
  <2> QED BY <1>2, <2>1, <2>3, <2>5, <2>6
<1>10. CASE \E e \in Event : PublishEmitterEvent(e) \/ AckWait(e)
  <2>1. PICK e \in Event : PublishEmitterEvent(e) \/ AckWait(e)
    BY <1>10
  <2>2. UNCHANGED <<pc, at, handling, failed>> /\ msg' = [msg EXCEPT ![e] = "ready"]
    BY <2>1 DEF PublishEmitterEvent, AckWait
  <2>3. /\ msg' \in [Event -> {"new", "ready", "out", "done"}]
        /\ \A x \in Event : msg'[x] = "done" => msg[x] = "done"
    BY <2>2 DEF Serving
  <2> QED BY <1>1, <2>2, <2>3
<1>11. CASE \/ UNCHANGED vars \/ \E l \in running : LaunchCloses(l)
            \/ \E c \in Consumer : LoseLeadership(c) \/ Lead(c)
            \/ TriggerWindowSweep \/ Tick
  <2>1. UNCHANGED <<pc, at, handling, failed, msg>>
    BY <1>11 DEF vars, LaunchCloses, LoseLeadership, Lead, TriggerWindowSweep, Tick
  <2> QED BY <1>1, <2>1 DEF Serving
<1> QED BY <1>3, <1>4, <1>6, <1>7, <1>8, <1>9, <1>10, <1>11 DEF Next, Handle

\* However many engines share the durable consumer, and whatever crashes, loses
\* its lease or fails, ConsumeEmitterEvents acks an event only when handle has
\* launched every plain Trigger it satisfies, or swallowed its advance's error.
THEOREM AckedEventsAreLaunched == Spec => []AckedIsLaunched
<1> DEFINE I == Walking /\ Serving
<1>1. Init => I
  <2> SUFFICES ASSUME Init PROVE I
    OBVIOUS
  <2>1. Walking
    BY HistoriesStart
  <2>2. /\ msg \in [Event -> {"new", "ready", "out", "done"}] /\ failed \in [Consumer -> BOOLEAN]
        /\ started \in [Trigger -> [Event -> Nat]] /\ running = {}
        /\ \A c \in Consumer : pc[c] = "idle"
        /\ \A e \in Event : msg[e] # "done"
    BY DEF Init
  <2> QED BY <2>1, <2>2 DEF Serving, Behind, AckedIsLaunched
<1>2. I /\ [Next]_vars => I'
  BY WalkingStep, ServingStep
<1>3. I => AckedIsLaunched
  BY DEF Serving
<1> QED BY <1>1, <1>2, <1>3, PTL DEF Spec

-----------------------------------------------------------------------------
(* The sweep.                                                              *)

\* However many engines run: with a retention no shorter than a Trigger's
\* window and cooldown, TriggerWindowSweep deletes no row that a decision
\* would still read.
THEOREM SweepSparesLiveWindows ==
  ASSUME Retained, \A t \in Trigger : Within[t] <= Keep
  PROVE  Spec => SweepLeavesLiveWindows
<1> DEFINE I == Walking /\ Dated
           A == TriggerWindowSweep => \A t \in Trigger, k \in Key :
                  row'[t][k] # row[t][k] =>
                    /\ ~Damped(t, row[t][k])
                    /\ Within[t] > 0 /\ row[t][k].count > 0 => Expired(t, row[t][k])
<1>1. Init => I
  BY HistoriesStart
<1>2. I /\ [Next]_vars => I'
  BY WalkingStep, DatedStep
<1>3. I => A
  <2> SUFFICES ASSUME I, TriggerWindowSweep, NEW t \in Trigger, NEW k \in Key, row'[t][k] # row[t][k]
               PROVE  ~Damped(t, row[t][k]) /\ (Within[t] > 0 => Expired(t, row[t][k]))
    OBVIOUS
  <2>1. Stale(row[t][k])
    BY DEF TriggerWindowSweep
  <2>2. /\ now \in Nat /\ row[t][k].opened \in Int /\ row[t][k].fired \in Int /\ Keep \in Nat
        /\ Within[t] \in Nat /\ Cooldown[t] \in Nat /\ Within[t] <= Keep /\ Cooldown[t] <= Keep
    BY TriggerShapes DEF Dated, Rows, Retained
  <2> QED BY <2>1, <2>2 DEF Stale, Damped, Expired
<1> HIDE DEF A
<1>4. I /\ [Next]_vars => [A]_vars
  BY <1>3
<1> QED BY <1>1, <1>2, <1>4, PTL DEF Spec, SweepLeavesLiveWindows, A
=============================================================================
