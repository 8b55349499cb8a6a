------------------------- MODULE GraphProjectionProofs -------------------------
(***************************************************************************)
(* For any number of Sources and hosts: the types of the projection, and   *)
(* that an Entity lives exactly as long as some Source observes it, outside *)
(* the overlaps READ COMMITTED admits.                                     *)
(***************************************************************************)
EXTENDS GraphProjection, TLAPS

Kinds == {"none", "insert", "read", "write", "relate", "delete", "bury"}
Txs   == [kind : Kinds, hosts : SUBSET Hosts, dead : SUBSET Hosts, edges : SUBSET Edges]
Moves == [on : BOOLEAN, hosts : SUBSET Hosts, dead : SUBSET Hosts]
Pages == [todo : SUBSET Hosts, rtodo : SUBSET Edges, kept : SUBSET Edges,
          seen : SUBSET Hosts, full : BOOLEAN, gone : Listings]
Cursors == [set : BOOLEAN, log : Listings, late : Listings]

-----------------------------------------------------------------------------
(* Types, by the part of the state an action writes.                       *)

WorldTypes ==
  /\ sor \in [Sources -> Listings] /\ changes \in 0 .. MaxChanges
  /\ cursor \in [Sources -> Cursors] /\ page \in [Sources -> Pages]
  /\ home \in [Sources -> {"homed", "sealed", "moved"}] /\ pc \in [Sources -> Stages]
  /\ run \in [Hosts -> {"none", "current", "outlived"}] /\ faults \in 0 .. MaxFaults

RelTypes == rel \subseteq Edges /\ relpres \in [Sources -> SUBSET rel]

HostTypes ==
  /\ tx \in [Sources -> Txs] /\ move \in [Sources -> Moves]
  /\ live \subseteq known /\ known \subseteq Hosts
  /\ pres \in [Sources -> SUBSET Hosts]
  /\ fact \in [Hosts -> {"none", "true", "dead", "late"}]
  /\ skewed \subseteq Hosts /\ raced \subseteq Hosts

\* The parts make up TypeOK.
LEMMA TypeParts == TypeOK <=> WorldTypes /\ RelTypes /\ HostTypes
BY DEF TypeOK, WorldTypes, RelTypes, HostTypes, Txs, Kinds, Moves, Pages, Cursors

\* The values a Source starts and ends with.
LEMMA Empties ==
  /\ NoPage \in Pages /\ NoTx \in Txs /\ NoCursor \in Cursors /\ Nothing \in Listings
  /\ NoMove \in Moves /\ ~NoMove.on /\ NoMove.hosts = {} /\ NoMove.dead = {}
  /\ NoTx.kind = "none"
BY DEF NoPage, NoTx, NoMove, NoCursor, Nothing, Pages, Txs, Moves, Cursors, Listings, Kinds

\* A change of the world keeps the listings and the cursors well formed.
LEMMA NotedTypes ==
  ASSUME WorldTypes, NEW s \in Sources, NEW hs \in SUBSET Hosts, NEW es \in SUBSET Edges,
         Noted(s, hs, es)
  PROVE  cursor' \in [Sources -> Cursors]
<1>1. cursor[s] \in Cursors
  BY DEF WorldTypes
<1>2. ASSUME NEW c \in Listings
      PROVE  [hosts |-> c.hosts \cup hs, edges |-> c.edges \cup es] \in Listings
  BY DEF Listings
<1>3. cursor[s].log \in Listings /\ cursor[s].late \in Listings
  BY <1>1 DEF Cursors
<1>4. PICK a \in Listings, b \in Listings :
        cursor' = cursor \/ cursor' = [cursor EXCEPT ![s].log = a, ![s].late = b]
  BY <1>2, <1>3 DEF Noted
<1>5. [[cursor[s] EXCEPT !.log = a] EXCEPT !.late = b] \in Cursors
  BY <1>1 DEF Cursors
<1> QED BY <1>4, <1>5 DEF WorldTypes, Cursors

\* What Observe puts on the page is well formed.
LEMMA ObservedPage ==
  ASSUME WorldTypes, NEW s \in Sources, Observe(s)
  PROVE  page' \in [Sources -> Pages] /\ cursor' \in [Sources -> Cursors]
<1>1. cursor[s] \in Cursors /\ sor[s] \in Listings
  BY DEF WorldTypes
<1>2. /\ sor[s].hosts \subseteq Hosts /\ sor[s].edges \subseteq Edges
      /\ cursor[s].log.hosts \subseteq Hosts /\ cursor[s].log.edges \subseteq Edges
  BY <1>1 DEF Cursors, Listings
<1>3. [NoPage EXCEPT !.todo = cursor[s].log.hosts \cap sor[s].hosts,
                     !.rtodo = cursor[s].log.edges \cap sor[s].edges,
                     !.gone = [hosts |-> cursor[s].log.hosts \ sor[s].hosts,
                               edges |-> cursor[s].log.edges \ sor[s].edges]] \in Pages
  BY <1>2, Empties DEF Pages, Listings
<1>4. [NoPage EXCEPT !.todo = sor[s].hosts, !.rtodo = sor[s].edges,
                     !.seen = sor[s].hosts, !.full = TRUE] \in Pages
  BY <1>2, Empties DEF Pages
<1>5. PICK p \in Pages : page' = [page EXCEPT ![s] = p]
  BY <1>3, <1>4 DEF Observe
<1>6. [cursor[s] EXCEPT !.late = Nothing] \in Cursors
  BY <1>1, Empties DEF Cursors
<1>7. cursor' = [cursor EXCEPT ![s].late = Nothing]
  BY DEF Observe
<1> QED BY <1>5, <1>6, <1>7 DEF WorldTypes

\* A pass writes its own page and cursor, and keeps them well formed.
LEMMA PageTypes ==
  ASSUME WorldTypes, HostTypes, NEW s \in Sources,
         SyncStep(s) \/ SyncFails(s) \/ CommitComplete(s)
  PROVE  page' \in [Sources -> Pages] /\ cursor' \in [Sources -> Cursors]
<1>1. page[s] \in Pages /\ cursor[s] \in Cursors /\ tx[s] \in Txs
  BY DEF WorldTypes, HostTypes
<1>2. CASE Observe(s)
  BY <1>2, ObservedPage
<1>3. CASE Refused(s) \/ SyncFails(s) \/ CommitComplete(s)
  BY <1>3, Empties DEF WorldTypes, Refused, SyncFails, CommitComplete, Abandon
<1>4. CASE \/ \E h \in Hosts : ReadEntity(s, h)
           \/ WriteEntity(s) \/ FindDead(s)
           \/ \E hs \in Absent(s) : DeletePresence(s, hs)
           \/ \E from, to, done : Turn(s, from, to, done)
           \/ ReplaceRelations(s)
  BY <1>4 DEF WorldTypes, ReadEntity, WriteEntity, FindDead, DeletePresence, Turn, ReplaceRelations
<1>5. CASE CommitEntity(s)
  <2>1. [page[s] EXCEPT !.todo = page[s].todo \ tx[s].hosts] \in Pages
    BY <1>1 DEF Pages
  <2>2. page' = [page EXCEPT ![s].todo = page[s].todo \ tx[s].hosts] /\ UNCHANGED cursor
    BY <1>5 DEF CommitEntity, WorldTypes
  <2> QED BY <2>1, <2>2 DEF WorldTypes
<1>6. CASE \E e \in Edges : LookUp(s, e)
  <2>1. PICK e \in Edges : LookUp(s, e)
    BY <1>6
  <2>2. [page[s] EXCEPT !.rtodo = page[s].rtodo \ {e}] \in Pages
    BY <1>1 DEF Pages
  <2>3. page' = [page EXCEPT ![s].rtodo = page[s].rtodo \ {e}] /\ UNCHANGED cursor
    BY <2>1 DEF LookUp, WorldTypes
  <2> QED BY <2>2, <2>3 DEF WorldTypes
<1>7. CASE UpsertRelation(s)
  <2>1. [page[s] EXCEPT !.kept = page[s].kept \cup tx[s].edges] \in Pages
    BY <1>1 DEF Pages, Txs
  <2>2. page' = [page EXCEPT ![s].kept = page[s].kept \cup tx[s].edges] /\ UNCHANGED cursor
    BY <1>7 DEF UpsertRelation, WorldTypes
  <2> QED BY <2>1, <2>2 DEF WorldTypes
<1>8. CASE CommitTombstones(s)
  <2>1. [page[s].gone EXCEPT !.hosts = page[s].gone.hosts \ tx[s].hosts] \in Listings
    BY <1>1 DEF Pages, Listings
  <2>2. [page[s] EXCEPT !.gone = [page[s].gone EXCEPT !.hosts = page[s].gone.hosts \ tx[s].hosts]] \in Pages
    BY <1>1, <2>1 DEF Pages
  <2>3. /\ UNCHANGED cursor
        /\ \/ UNCHANGED page
           \/ page' = [page EXCEPT ![s] = [page[s] EXCEPT !.gone =
                [page[s].gone EXCEPT !.hosts = page[s].gone.hosts \ tx[s].hosts]]]
    BY <1>8 DEF CommitTombstones, WorldTypes
  <2> QED BY <2>2, <2>3 DEF WorldTypes
<1>9. CASE SetSyncCursor(s)
  <2>1. [NoCursor EXCEPT !.set = TRUE, !.log = cursor[s].late] \in Cursors
    BY <1>1, Empties DEF Cursors
  <2>2. PICK c \in Cursors : cursor' = cursor \/ cursor' = [cursor EXCEPT ![s] = c]
    BY <1>9, <2>1 DEF SetSyncCursor
  <2> QED BY <1>9, <2>2, Empties DEF SetSyncCursor, WorldTypes
<1> QED BY <1>2, <1>3, <1>4, <1>5, <1>6, <1>7, <1>8, <1>9 DEF SyncStep

\* A change of a listing leaves it well formed.
LEMMA ListingTypes ==
  ASSUME WorldTypes, NEW s \in Sources,
         \/ \E h \in Hosts : HostChanges(s, h)
         \/ \E e \in Edges : EdgeChanges(s, e)
  PROVE  sor' \in [Sources -> Listings] /\ cursor' \in [Sources -> Cursors]
<1>1. sor[s] \in Listings /\ sor[s].hosts \subseteq Hosts /\ sor[s].edges \subseteq Edges
  BY DEF WorldTypes, Listings
<1>2. ASSUME NEW h \in Hosts, HostChanges(s, h)
      PROVE  sor' \in [Sources -> Listings] /\ cursor' \in [Sources -> Cursors]
  <2>1. \E l \in Listings : sor' = [sor EXCEPT ![s] = l]
    BY <1>1, <1>2 DEF HostChanges, Listings
  <2>2. Noted(s, {h}, {e \in sor[s].edges : e[1] = h})
    BY <1>2 DEF HostChanges
  <2>3. {h} \in SUBSET Hosts /\ {e \in sor[s].edges : e[1] = h} \in SUBSET Edges
    BY <1>1
  <2>4. cursor' \in [Sources -> Cursors]
    BY <2>2, <2>3, NotedTypes
  <2>5. sor' \in [Sources -> Listings]
    BY <2>1 DEF WorldTypes
  <2> QED BY <2>4, <2>5
<1>3. ASSUME NEW e \in Edges, EdgeChanges(s, e)
      PROVE  sor' \in [Sources -> Listings] /\ cursor' \in [Sources -> Cursors]
  <2>1. \E es \in SUBSET Edges : sor' = [sor EXCEPT ![s].edges = es]
    BY <1>1, <1>3 DEF EdgeChanges, WorldTypes
  <2>2. \A es \in SUBSET Edges : [sor[s] EXCEPT !.edges = es] \in Listings
    BY <1>1 DEF Listings
  <2>3. Noted(s, {}, {e})
    BY <1>3 DEF EdgeChanges
  <2> QED BY <2>1, <2>2, <2>3, NotedTypes DEF WorldTypes
<1> QED BY <1>2, <1>3

\* Every step keeps the world and the passes well formed.
LEMMA WorldTypesStep ==
  ASSUME WorldTypes, HostTypes, [Next]_vars
  PROVE  WorldTypes'
<1>1. CASE UNCHANGED vars
  BY <1>1 DEF vars, worldVars, WorldTypes
<1>2. ASSUME NEW s \in Sources, \/ \E h \in Hosts : HostChanges(s, h)
                               \/ \E e \in Edges : EdgeChanges(s, e)
      PROVE  WorldTypes'
  <2>1. UNCHANGED <<home, pc, page, run, faults>> /\ changes < MaxChanges /\ changes' = changes + 1
    BY <1>2 DEF HostChanges, EdgeChanges, OnlyWorld
  <2> QED BY <1>2, <2>1, ListingTypes, ConstantsAssumption DEF WorldTypes
<1>3. ASSUME NEW h \in Targets, RunStarts(h) \/ RunWrites(h) PROVE WorldTypes'
  BY <1>3, ConstantsAssumption DEF RunStarts, RunWrites, OnlyWorld, WorldTypes
<1>4. ASSUME NEW s \in Sources, SyncStep(s) PROVE WorldTypes'
  <2>1. UNCHANGED <<sor, changes, home, faults>>
    BY <1>4 DEF SyncStep, Observe, Refused, ReadEntity, WriteEntity, CommitEntity, Turn, LookUp,
                UpsertRelation, DeletePresence, FindDead, CommitTombstones, ReplaceRelations,
                SetSyncCursor, OnlySync, worldVars
  <2>2. UNCHANGED run \/ run' = [h \in Hosts |-> IF h \in tx[s].dead /\ run[h] = "current"
                                                  THEN "outlived" ELSE run[h]]
    BY <1>4 DEF SyncStep, Observe, Refused, ReadEntity, WriteEntity, CommitEntity, Turn, LookUp,
                UpsertRelation, DeletePresence, FindDead, CommitTombstones, ReplaceRelations,
                SetSyncCursor, OnlySync, worldVars, Bury
  <2>3. run' \in [Hosts -> {"none", "current", "outlived"}]
    BY <2>2 DEF WorldTypes
  <2>4. UNCHANGED pc \/ \E to \in Stages : pc' = [pc EXCEPT ![s] = to]
    BY <1>4 DEF SyncStep, Observe, Refused, ReadEntity, WriteEntity, CommitEntity, Turn, LookUp,
                UpsertRelation, DeletePresence, FindDead, CommitTombstones, ReplaceRelations,
                SetSyncCursor, OnlySync, Abandon, Stages
  <2>5. pc' \in [Sources -> Stages]
    BY <2>4 DEF WorldTypes
  <2>6. page' \in [Sources -> Pages] /\ cursor' \in [Sources -> Cursors]
    BY <1>4, PageTypes
  <2> QED BY <2>1, <2>3, <2>5, <2>6 DEF WorldTypes
<1>5. ASSUME NEW s \in Sources, SyncFails(s) PROVE WorldTypes'
  <2>1. faults' \in 0 .. MaxFaults
    BY <1>5, ConstantsAssumption DEF SyncFails, WorldTypes
  <2>2. pc' \in [Sources -> Stages]
    BY <1>5 DEF SyncFails, Abandon, WorldTypes, Stages
  <2>3. page' \in [Sources -> Pages] /\ cursor' \in [Sources -> Cursors]
    BY <1>5, PageTypes
  <2> QED BY <1>5, <2>1, <2>2, <2>3 DEF SyncFails, WorldTypes, worldVars
<1>6. ASSUME NEW s \in Movers, SealSourceForRehome(s) \/ BeginComplete(s) PROVE WorldTypes'
  BY <1>6, ConstantsAssumption DEF SealSourceForRehome, BeginComplete, WorldTypes, worldVars
<1>7. ASSUME NEW s \in Movers, CommitComplete(s) PROVE WorldTypes'
  <2>1. s \in Sources
    BY ConstantsAssumption
  <2>2. run' \in [Hosts -> {"none", "current", "outlived"}]
    BY <1>7 DEF CommitComplete, Bury, WorldTypes
  <2> QED BY <1>7, <2>1, <2>2, PageTypes DEF CommitComplete, WorldTypes
<1>8. ASSUME NEW s \in Movers, CompleteFails(s) PROVE WorldTypes'
  <2>1. faults' \in 0 .. MaxFaults
    BY <1>8, ConstantsAssumption DEF CompleteFails, WorldTypes
  <2> QED BY <1>8, <2>1 DEF CompleteFails, WorldTypes, worldVars
<1> QED BY <1>1, <1>2, <1>3, <1>4, <1>5, <1>6, <1>7, <1>8 DEF Next

\* Every step keeps the Relations well formed: a presence is of a row.
LEMMA RelTypesStep ==
  ASSUME HostTypes, RelTypes, [Next]_vars
  PROVE  RelTypes'
<1>1. CASE UNCHANGED <<rel, relpres>>
  BY <1>1 DEF RelTypes
<1>2. ASSUME NEW s \in Sources, UpsertRelation(s) PROVE RelTypes'
  <2>1. tx[s].edges \subseteq Edges
    BY DEF HostTypes, Txs
  <2> QED BY <1>2, <2>1 DEF UpsertRelation, RelTypes
<1>3. ASSUME NEW s \in Sources, CommitTombstones(s) PROVE RelTypes'
  BY <1>3 DEF CommitTombstones, retractRelationsFor, RelTypes
<1>4. ASSUME NEW s \in Sources, ReplaceRelations(s) PROVE RelTypes'
  <2>1. CASE page[s].full
    <3>1. relpres' = [relpres EXCEPT ![s] = relpres[s] \cap page[s].kept]
      BY <1>4, <2>1 DEF ReplaceRelations, RelTypes
    <3>2. \A r \in Sources : relpres'[r] \subseteq relpres[r]
      BY <3>1 DEF RelTypes
    <3>3. rel' = rel \/ rel' = {e \in rel : \E r \in Sources : e \in relpres'[r]}
      BY <1>4, <2>1 DEF ReplaceRelations
    <3>4. rel' \subseteq Edges /\ \A r \in Sources : relpres'[r] \subseteq rel'
      BY <3>2, <3>3 DEF RelTypes
    <3>5. relpres' = [r \in Sources |-> relpres'[r]]
      BY <3>1 DEF RelTypes
    <3> QED BY <3>4, <3>5 DEF RelTypes
  <2>2. CASE ~page[s].full
    BY <1>4, <2>2 DEF ReplaceRelations, RelTypes
  <2> QED BY <2>1, <2>2
<1> QED
  BY ZenonT(40), <1>1, <1>2, <1>3, <1>4
     DEF Next, SyncStep, HostChanges, EdgeChanges, RunStarts, RunWrites, Observe, Refused,
         ReadEntity, WriteEntity, CommitEntity, Turn, LookUp, DeletePresence, FindDead,
         SetSyncCursor, SyncFails, SealSourceForRehome, BeginComplete, CommitComplete,
         CompleteFails, graphVars, vars

-----------------------------------------------------------------------------
(* What the steps do to the Entities and to the open transactions.         *)

hostVars == <<tx, move, live, known, pres, fact, skewed, raced>>

\* Open transactions apart from Entities: edges, ends of failed passes.
SetsAside(s) ==
  /\ \E t \in Txs : t.kind \in {"none", "relate"} /\ tx' = [tx EXCEPT ![s] = t]
  /\ UNCHANGED <<move, live, known, pres, fact, skewed, raced>>

\* A Run's Facets describe an Entity that lives or lived.
WritesBack(h) ==
  /\ \E f \in {"true", "late"} : fact' = [fact EXCEPT ![h] = f]
  /\ UNCHANGED <<tx, move, live, known, pres, skewed, raced>>

\* A retraction begins, of hs, in the transaction t.
Begins(s, hs, t) ==
  /\ tx[s] = NoTx /\ tx' = [tx EXCEPT ![s] = t]
  /\ t.hosts = hs /\ t.kind = "delete" /\ hs \cap move[s].hosts = {}
  /\ skewed' = skewed \cup {h \in hs : \E r \in Others(s) : Retracting(r, h)}
  /\ raced' = raced \cup {h \in hs : \E r \in Others(s) : Upserting(r, h)}
  /\ UNCHANGED <<move, live, known, pres, fact>>

\* A retraction commits: its hosts are no longer observed.
Buries(s) ==
  /\ tx[s].kind = "bury" /\ tx' = [tx EXCEPT ![s] = NoTx]
  /\ pres' = [pres EXCEPT ![s] = pres[s] \ tx[s].hosts]
  /\ live' = live \ tx[s].dead
  /\ fact' = [h \in Hosts |-> IF h \in tx[s].dead /\ fact[h] = "true" THEN "dead" ELSE fact[h]]
  /\ UNCHANGED <<move, known, skewed, raced>>

EntityStep(s) ==
  \/ SetsAside(s)
  \/ \E h \in Hosts : ReadEntity(s, h)
  \/ WriteEntity(s) \/ CommitEntity(s) \/ FindDead(s)
  \/ \E hs \in SUBSET Hosts, t \in Txs : Begins(s, hs, t)
  \/ Buries(s)
  \/ BeginComplete(s) \/ CommitComplete(s) \/ CompleteFails(s)

\* A pass that is set aside.
LEMMA AsideShape ==
  ASSUME HostTypes, NEW s \in Sources,
         SyncFails(s) \/ Refused(s) \/ UpsertRelation(s) \/ \E e \in Edges : LookUp(s, e)
  PROVE  SetsAside(s)
<1>1. CASE SyncFails(s) \/ Refused(s) \/ UpsertRelation(s)
  BY <1>1, Empties DEF SyncFails, Refused, UpsertRelation, Abandon, OnlySync, graphVars, SetsAside
<1>2. ASSUME NEW e \in Edges, LookUp(s, e) PROVE SetsAside(s)
  <2>1. [NoTx EXCEPT !.kind = "relate", !.edges = {e}] \in Txs
    BY Empties DEF Txs, Kinds
  <2>2. [NoTx EXCEPT !.kind = "relate", !.edges = {e}].kind = "relate"
    BY DEF NoTx
  <2>3. tx' = [tx EXCEPT ![s] = [NoTx EXCEPT !.kind = "relate", !.edges = {e}]]
        \/ tx' = [tx EXCEPT ![s] = NoTx]
    BY <1>2 DEF LookUp, HostTypes
  <2> QED BY <1>2, <2>1, <2>2, <2>3, Empties DEF LookUp, OnlySync, graphVars, SetsAside
<1> QED BY <1>1, <1>2

\* The way to begin a retraction.
LEMMA BeginShape ==
  ASSUME WorldTypes, HostTypes, NEW s \in Sources, NEW hs \in Absent(s), DeletePresence(s, hs)
  PROVE  \E t \in Txs : hs \in SUBSET Hosts /\ Begins(s, hs, t)
<1>1. pres[s] \in SUBSET Hosts /\ page[s] \in Pages
  BY DEF WorldTypes, HostTypes
<1>2. hs \in SUBSET Hosts
  BY <1>1 DEF Absent, Pages, Listings
<1> DEFINE t == [NoTx EXCEPT !.kind = "delete", !.hosts = hs]
<1>3. t \in Txs
  BY <1>2, Empties DEF Txs, Kinds
<1>4. t.hosts = hs /\ t.kind = "delete"
  BY DEF NoTx
<1>5. tx' = [tx EXCEPT ![s] = t]
  BY DEF DeletePresence
<1> HIDE DEF t
<1> QED BY <1>2, <1>3, <1>4, <1>5 DEF DeletePresence, OnlySync, Begins, graphVars

\* The way to commit one.
LEMMA BuryShape ==
  ASSUME HostTypes, NEW s \in Sources, CommitTombstones(s)
  PROVE  Buries(s)
<1>1. pres' = [pres EXCEPT ![s] = pres[s] \ tx[s].hosts]
  BY DEF CommitTombstones, HostTypes
<1> QED BY <1>1 DEF CommitTombstones, Bury, Buries

\* Every step is one of these or leaves the Entities alone.
LEMMA StepShapes ==
  ASSUME WorldTypes, HostTypes, [Next]_vars
  PROVE  \/ UNCHANGED hostVars
         \/ \E h \in Hosts : WritesBack(h)
         \/ \E s \in Sources : EntityStep(s)
<1>1. CASE UNCHANGED vars
  BY <1>1 DEF vars, graphVars, hostVars
<1>2. ASSUME NEW s \in Sources, \/ \E h \in Hosts : HostChanges(s, h)
                               \/ \E e \in Edges : EdgeChanges(s, e)
      PROVE  UNCHANGED hostVars
  BY <1>2 DEF HostChanges, EdgeChanges, OnlyWorld, graphVars, hostVars
<1>3. ASSUME NEW h \in Targets, RunStarts(h)
      PROVE  UNCHANGED hostVars
  BY <1>3 DEF RunStarts, OnlyWorld, graphVars, hostVars
<1>4. ASSUME NEW h \in Targets, RunWrites(h)
      PROVE  WritesBack(h) /\ h \in Hosts
  BY <1>4, ConstantsAssumption DEF RunWrites, OnlyWorld, WritesBack
<1>5. ASSUME NEW s \in Sources, SyncStep(s) \/ SyncFails(s)
      PROVE  UNCHANGED hostVars \/ EntityStep(s)
  <2>1. CASE \/ SyncFails(s) \/ Refused(s) \/ UpsertRelation(s)
             \/ \E e \in Edges : LookUp(s, e)
    BY <2>1, AsideShape DEF EntityStep
  <2>2. CASE Observe(s) \/ ReplaceRelations(s) \/ SetSyncCursor(s)
             \/ \E from, to, done : Turn(s, from, to, done)
    BY <2>2 DEF Observe, ReplaceRelations, SetSyncCursor, Turn, OnlySync, graphVars, hostVars
  <2>3. CASE \E hs \in Absent(s) : DeletePresence(s, hs)
    BY <2>3, BeginShape DEF EntityStep
  <2>4. CASE CommitTombstones(s)
    BY <2>4, BuryShape DEF EntityStep
  <2> QED BY <1>5, <2>1, <2>2, <2>3, <2>4 DEF SyncStep, EntityStep
<1>6. ASSUME NEW s \in Movers, \/ SealSourceForRehome(s) \/ BeginComplete(s)
                              \/ CommitComplete(s) \/ CompleteFails(s)
      PROVE  UNCHANGED hostVars \/ (s \in Sources /\ EntityStep(s))
  <2>1. s \in Sources
    BY ConstantsAssumption
  <2>2. SealSourceForRehome(s) => UNCHANGED hostVars
    BY DEF SealSourceForRehome, graphVars, hostVars
  <2> QED BY <1>6, <2>1, <2>2 DEF EntityStep
<1> QED BY <1>1, <1>2, <1>3, <1>4, <1>5, <1>6 DEF Next

\* The read that opens an upsert, and the lock it takes, are well formed.
LEMMA ReadShape ==
  ASSUME HostTypes, NEW s \in Sources, NEW h \in Hosts, ReadEntity(s, h)
  PROVE  \E t \in Txs :
           /\ tx[s] = NoTx /\ tx' = [tx EXCEPT ![s] = t]
           /\ t.hosts = {h} /\ t.dead = {h} \cap (known \ live)
           /\ t.kind = IF h \in known THEN "read" ELSE "insert"
           /\ raced' = raced \cup {x \in {h} : \E r \in Others(s) : Retracting(r, x)}
           /\ UNCHANGED <<move, live, known, pres, fact, skewed>>
<1> DEFINE k == IF h \in known THEN "read" ELSE "insert"
           t == [NoTx EXCEPT !.kind = k, !.hosts = {h}, !.dead = {h} \cap (known \ live)]
<1>1. t \in Txs
  BY Empties DEF Txs, Kinds
<1>2. t.hosts = {h} /\ t.dead = {h} \cap (known \ live) /\ t.kind = k
  BY DEF NoTx
<1>3. tx' = [tx EXCEPT ![s] = t]
  BY DEF ReadEntity
<1> HIDE DEF t
<1> QED BY <1>1, <1>2, <1>3 DEF ReadEntity, OnlySync, graphVars

\* The write changes the kind of the transaction and nothing else.
LEMMA WriteShape ==
  ASSUME HostTypes, NEW s \in Sources, WriteEntity(s)
  PROVE  \E t \in Txs :
           /\ tx[s].kind \in {"read", "insert"} /\ tx' = [tx EXCEPT ![s] = t]
           /\ t.hosts = tx[s].hosts /\ t.dead = tx[s].dead /\ t.kind = "write"
           /\ tx[s].kind = "insert" => tx[s].hosts \cap known = {}
           /\ UNCHANGED <<move, live, known, pres, fact, skewed, raced>>
<1> DEFINE t == [tx[s] EXCEPT !.kind = "write"]
<1>1. tx[s] \in Txs
  BY DEF HostTypes
<1>2. t \in Txs /\ t.hosts = tx[s].hosts /\ t.dead = tx[s].dead /\ t.kind = "write"
  BY <1>1 DEF Txs, Kinds
<1>3. tx' = [tx EXCEPT ![s] = t]
  BY DEF WriteEntity
<1> HIDE DEF t
<1> QED BY <1>2, <1>3 DEF WriteEntity, OnlySync, graphVars

\* FindDead decides who dies with this retraction.
LEMMA FindShape ==
  ASSUME HostTypes, NEW s \in Sources, FindDead(s)
  PROVE  \E t \in Txs :
           /\ tx[s].kind = "delete" /\ tx' = [tx EXCEPT ![s] = t]
           /\ t.hosts = tx[s].hosts /\ t.dead = LastPresence(s, tx[s].hosts) /\ t.kind = "bury"
           /\ UNCHANGED <<move, live, known, pres, fact, skewed, raced>>
<1> DEFINE d == LastPresence(s, tx[s].hosts)
           t == [tx[s] EXCEPT !.kind = "bury", !.dead = d]
<1>1. tx[s] \in Txs
  BY DEF HostTypes
<1>2. d \in SUBSET Hosts
  BY <1>1 DEF LastPresence, Txs
<1>3. tx' = [tx EXCEPT ![s] = t]
  BY DEF FindDead
<1> HIDE DEF d
<1>4. t \in Txs /\ t.hosts = tx[s].hosts /\ t.dead = d /\ t.kind = "bury"
  BY <1>1, <1>2 DEF Txs, Kinds
<1> HIDE DEF t
<1> QED BY <1>3, <1>4 DEF FindDead, OnlySync, graphVars, d

\* CompleteRehome decides who dies with the Source as it begins.
LEMMA MoveShape ==
  ASSUME HostTypes, NEW s \in Sources, BeginComplete(s)
  PROVE  \E m \in Moves :
           /\ m.on /\ m.hosts = pres[s] /\ m.dead = LastPresence(s, pres[s])
           /\ move' = [move EXCEPT ![s] = m]
<1> DEFINE d == LastPresence(s, pres[s])
           m == [on |-> TRUE, hosts |-> pres[s], dead |-> d]
<1>1. d \in SUBSET Hosts /\ pres[s] \in SUBSET Hosts
  BY DEF LastPresence, HostTypes
<1>2. move' = [move EXCEPT ![s] = m]
  BY DEF BeginComplete
<1> HIDE DEF d
<1>3. m \in Moves /\ m.on /\ m.hosts = pres[s] /\ m.dead = d
  BY <1>1 DEF Moves
<1> HIDE DEF m
<1> QED BY <1>2, <1>3 DEF d

\* Every step keeps Entities, presence and transactions well formed.
LEMMA HostTypesStep ==
  ASSUME WorldTypes, HostTypes, [Next]_vars
  PROVE  HostTypes'
<1>1. CASE UNCHANGED hostVars
  BY <1>1 DEF hostVars, HostTypes
<1>2. ASSUME NEW h \in Hosts, WritesBack(h) PROVE HostTypes'
  BY <1>2 DEF WritesBack, HostTypes
<1>3. ASSUME NEW s \in Sources, EntityStep(s) PROVE HostTypes'
  <2>0. tx[s].hosts \subseteq Hosts /\ tx[s].dead \subseteq Hosts /\ pres[s] \subseteq Hosts
    BY DEF HostTypes, Txs
  <2>1. CASE SetsAside(s)
    BY <2>1 DEF SetsAside, HostTypes
  <2>2. ASSUME NEW h \in Hosts, ReadEntity(s, h) PROVE HostTypes'
    BY <2>2, ReadShape DEF HostTypes
  <2>3. CASE WriteEntity(s)
    BY <2>3, WriteShape DEF HostTypes
  <2>4. CASE CommitEntity(s)
    <3>1. pres' = [pres EXCEPT ![s] = pres[s] \cup tx[s].hosts]
      BY <2>4 DEF CommitEntity, HostTypes
    <3>2. fact' \in [Hosts -> {"none", "true", "dead", "late"}]
      BY <2>4 DEF CommitEntity, HostTypes
    <3>3. pres' \in [Sources -> SUBSET Hosts]
      BY <2>0, <3>1 DEF HostTypes
    <3> QED BY <2>0, <2>4, <3>2, <3>3, Empties DEF CommitEntity, OnlySync, HostTypes
  <2>5. CASE FindDead(s)
    BY <2>5, FindShape DEF HostTypes
  <2>6. ASSUME NEW hs \in SUBSET Hosts, NEW t \in Txs, Begins(s, hs, t) PROVE HostTypes'
    BY <2>6 DEF Begins, HostTypes
  <2>7. CASE Buries(s)
    <3>1. fact' \in [Hosts -> {"none", "true", "dead", "late"}]
      BY <2>7 DEF Buries, HostTypes
    <3>2. pres' \in [Sources -> SUBSET Hosts]
      BY <2>0, <2>7 DEF Buries, HostTypes
    <3> QED BY <2>0, <2>7, <3>1, <3>2, Empties DEF Buries, HostTypes
  <2>8. CASE BeginComplete(s)
    <3>1. move' \in [Sources -> Moves]
      BY <2>8, MoveShape DEF HostTypes
    <3> QED BY <2>0, <2>8, <3>1 DEF BeginComplete, graphVars, HostTypes
  <2>9. CASE CommitComplete(s)
    <3>1. fact' \in [Hosts -> {"none", "true", "dead", "late"}]
      BY <2>9 DEF CommitComplete, Bury, HostTypes
    <3>2. pres' \in [Sources -> SUBSET Hosts] /\ move' \in [Sources -> Moves]
      BY <2>9, Empties DEF CommitComplete, HostTypes
    <3> QED BY <2>0, <2>9, <3>1, <3>2 DEF CommitComplete, Bury, HostTypes
  <2>10. CASE CompleteFails(s)
    BY <2>10, Empties DEF CompleteFails, graphVars, HostTypes
  <2> QED BY <1>3, <2>1, <2>2, <2>3, <2>4, <2>5, <2>6, <2>7, <2>8, <2>9, <2>10 DEF EntityStep
<1> QED BY <1>1, <1>2, <1>3, StepShapes

\* An empty graph is well formed.
LEMMA TypesStart == Init => WorldTypes /\ RelTypes /\ HostTypes
<1>1. Init => WorldTypes
  BY Empties, ConstantsAssumption DEF Init, WorldTypes, Stages
<1>2. Init => RelTypes /\ HostTypes
  BY Empties DEF Init, RelTypes, HostTypes
<1> QED BY <1>1, <1>2

\* Type correctness of the projection: presence is of Entities and Relations
\* that have rows, whatever the Syncers interleave.
THEOREM TypesHold == Spec => []TypeOK
<1> DEFINE I == WorldTypes /\ RelTypes /\ HostTypes
<1>1. I /\ [Next]_vars => I'
  BY WorldTypesStep, RelTypesStep, HostTypesStep
<1>2. Init => I
  BY TypesStart
<1>3. I => TypeOK
  BY TypeParts
<1> QED BY <1>1, <1>2, <1>3, PTL DEF Spec

-----------------------------------------------------------------------------
(* Presence and life.                                                      *)

\* A retraction, of the Sync or of the re-home, has asked who else observes
\* the Entity, and has found that nobody does.
Decided(s, h) == (tx[s].kind = "bury" /\ h \in tx[s].hosts) \/ h \in move[s].hosts
Dies(s, h)    == (tx[s].kind = "bury" /\ h \in tx[s].dead) \/ h \in move[s].dead

\* A retraction takes all it buries, Entities with a row; and a Source's Sync
\* and its re-home never retract the same Entity.
Outgoing ==
  \A s \in Sources :
    /\ tx[s].kind = "bury" => tx[s].dead \subseteq tx[s].hosts \cap known
    /\ move[s].dead \subseteq move[s].hosts \cap known
    /\ ~move[s].on => move[s].hosts = {}
    /\ tx[s].kind \in {"delete", "bury"} => tx[s].hosts \cap move[s].hosts = {}

\* What a retraction decided to spare, or another retracts too, is observed
\* by a Source that is not retracting it.
Spared ==
  \A s \in Sources : \A h \in (live \cap pres[s]) \ skewed :
    /\ Retracting(s, h)
    /\ \/ Decided(s, h) /\ ~Dies(s, h)
       \/ \E r \in Others(s) : Retracting(r, h)
    => \E r \in Others(s) : h \in pres[r] /\ ~Retracting(r, h)

\* What a retraction decided to bury nobody else observes.
Doomed ==
  \A s \in Sources : \A h \in Hosts \ raced :
    Dies(s, h) => \A r \in Others(s) : h \notin pres[r]

\* An Entity written by one Source and retracted by another is raced.
Crossed ==
  \A s \in Sources, r \in Sources, h \in Hosts :
    r # s /\ Upserting(r, h) /\ Retracting(s, h) => h \in raced

\* The Facets of a dead Entity belong to one with a row, and whoever is
\* reviving it has seen that it is dead, or has lost its Source.
Marked ==
  \A h \in Hosts : fact[h] = "dead" =>
    /\ h \in known
    /\ h \notin raced => \A s \in Sources : home[s] # "moved" =>
         (Upserting(s, h) => h \in tx[s].dead \/ tx[s].kind = "insert")

LifeInv ==
  /\ Outgoing /\ Spared /\ Doomed /\ Crossed /\ Marked
  /\ LiveIsPresent /\ PresentIsLive /\ FactsDieWithHost

\* A Source that has moved does not come back.
MovedStays == \A s \in Sources : home[s] = "moved" => home'[s] = "moved"

\* Only a sealed Source is retired, and only a homed one sealed.
LEMMA MovedStaysStep ==
  ASSUME WorldTypes, [Next]_vars
  PROVE  MovedStays
<1>1. CASE UNCHANGED home
  BY <1>1 DEF MovedStays
<1>2. ASSUME NEW s \in Movers, SealSourceForRehome(s) PROVE MovedStays
  BY <1>2, ConstantsAssumption DEF SealSourceForRehome, MovedStays, WorldTypes
<1>3. ASSUME NEW s \in Movers, CommitComplete(s) PROVE MovedStays
  BY <1>3, ConstantsAssumption DEF CommitComplete, MovedStays, WorldTypes
<1> QED
  BY ZenonT(40), <1>1, <1>2, <1>3
     DEF Next, SyncStep, HostChanges, EdgeChanges, RunStarts, RunWrites, Observe, Refused,
         ReadEntity, WriteEntity, CommitEntity, Turn, LookUp, UpsertRelation, DeletePresence,
         FindDead, CommitTombstones, ReplaceRelations, SetSyncCursor, SyncFails, BeginComplete,
         CompleteFails, OnlyWorld, OnlySync, vars

\* A step that leaves transactions and Entities alone.
LEMMA QuietLife ==
  ASSUME LifeInv, MovedStays, UNCHANGED hostVars
  PROVE  LifeInv'
<1> USE DEF LifeInv
<1>1. UNCHANGED <<tx, move, live, known, pres, fact, skewed, raced>>
  BY DEF hostVars
<1>2. (Outgoing /\ Spared /\ Doomed /\ Crossed)'
  BY <1>1 DEF Outgoing, Spared, Doomed, Crossed, Decided, Dies, Retracting, Upserting, Others
<1>3. Marked'
  BY <1>1 DEF Marked, MovedStays, Upserting
<1>4. (LiveIsPresent /\ PresentIsLive /\ FactsDieWithHost)'
  BY <1>1 DEF LiveIsPresent, PresentIsLive, FactsDieWithHost
<1> QED BY <1>2, <1>3, <1>4

\* One Source's transaction changes.
LEMMA TxChange ==
  ASSUME HostTypes, NEW s \in Sources, NEW t, tx' = [tx EXCEPT ![s] = t]
  PROVE  tx'[s] = t /\ \A r \in Others(s) : r \in Sources /\ r # s /\ tx'[r] = tx[r]
BY DEF HostTypes, Others

\* One Source's re-home changes.
LEMMA MoveChange ==
  ASSUME HostTypes, NEW s \in Sources, NEW m, move' = [move EXCEPT ![s] = m]
  PROVE  move'[s] = m /\ \A r \in Others(s) : r \in Sources /\ r # s /\ move'[r] = move[r]
BY DEF HostTypes, Others

\* Runs write back the Facets of the living or of those who lived, never
\* those of the dead.
LEMMA WritesBackLife ==
  ASSUME HostTypes, LifeInv, MovedStays, NEW h \in Hosts, WritesBack(h)
  PROVE  LifeInv'
<1> USE DEF LifeInv
<1>1. UNCHANGED <<tx, move, live, known, pres, skewed, raced>>
  BY DEF WritesBack
<1>2. \A x \in Hosts : fact'[x] = "dead" => fact[x] = "dead"
  BY DEF WritesBack, HostTypes
<1>3. (Outgoing /\ Spared /\ Doomed /\ Crossed)'
  BY <1>1 DEF Outgoing, Spared, Doomed, Crossed, Decided, Dies, Retracting, Upserting, Others
<1>4. (LiveIsPresent /\ PresentIsLive)'
  BY <1>1 DEF LiveIsPresent, PresentIsLive
<1>5. Marked'
  BY <1>1, <1>2 DEF Marked, MovedStays, Upserting
<1>6. FactsDieWithHost'
  BY <1>1, <1>2 DEF FactsDieWithHost, HostTypes
<1> QED BY <1>3, <1>4, <1>5, <1>6

\* A pass that is set aside retracts and writes nothing any more.
LEMMA AsideLife ==
  ASSUME HostTypes, LifeInv, MovedStays, NEW s \in Sources, SetsAside(s)
  PROVE  LifeInv'
<1> USE DEF LifeInv
<1>1. UNCHANGED <<move, live, known, pres, fact, skewed, raced>>
  BY DEF SetsAside
<1>2. /\ tx'[s].kind \in {"none", "relate"}
      /\ \A r \in Sources : r # s => tx'[r] = tx[r]
  BY TxChange DEF SetsAside, Others
<1>3. \A r \in Sources : \A h : /\ Retracting(r, h)' => Retracting(r, h)
                                /\ Upserting(r, h)' => Upserting(r, h) /\ r # s
  BY <1>1, <1>2 DEF Retracting, Upserting
<1>4. \A r \in Sources : \A h : /\ Decided(r, h)' => Decided(r, h)
                                /\ Dies(r, h)' => Dies(r, h)
                                /\ Decided(r, h)' /\ Dies(r, h) => Dies(r, h)'
  <2>1. \A h : h \in move[s].hosts /\ tx[s].kind = "bury" => h \notin tx[s].dead
    BY DEF Outgoing
  <2> QED BY <1>1, <1>2, <2>1 DEF Decided, Dies
<1>5. Outgoing' /\ Doomed'
  BY <1>1, <1>2, <1>4 DEF Outgoing, Doomed, Others
<1>6. Spared'
  BY <1>1, <1>2, <1>3, <1>4 DEF Spared, Others
<1>7. Crossed' /\ Marked'
  BY <1>1, <1>2, <1>3 DEF Crossed, Marked, MovedStays
<1>8. (LiveIsPresent /\ PresentIsLive /\ FactsDieWithHost)'
  BY <1>1 DEF LiveIsPresent, PresentIsLive, FactsDieWithHost
<1> QED BY <1>5, <1>6, <1>7, <1>8

\* So does a re-home that is rolled back.
LEMMA FailedMoveLife ==
  ASSUME HostTypes, LifeInv, MovedStays, NEW s \in Sources, CompleteFails(s)
  PROVE  LifeInv'
<1> USE DEF LifeInv
<1>1. UNCHANGED <<tx, live, known, pres, fact, skewed, raced>>
  BY DEF CompleteFails, graphVars
<1>2. /\ ~move'[s].on /\ move'[s].hosts = {} /\ move'[s].dead = {}
      /\ \A r \in Sources : r # s => move'[r] = move[r]
  BY MoveChange, Empties DEF CompleteFails, Others
<1>3. \A r \in Sources : \A h : /\ Retracting(r, h)' => Retracting(r, h)
                                /\ Upserting(r, h)' <=> Upserting(r, h)
  BY <1>1, <1>2 DEF Retracting, Upserting
<1>4. \A r \in Sources : \A h : /\ Decided(r, h)' => Decided(r, h)
                                /\ Dies(r, h)' => Dies(r, h)
                                /\ Decided(r, h)' /\ Dies(r, h) => Dies(r, h)'
  <2>1. \A h : h \in move[s].dead /\ tx[s].kind = "bury" => h \notin tx[s].hosts
    BY DEF Outgoing
  <2> QED BY <1>1, <1>2, <2>1 DEF Decided, Dies
<1>5. Outgoing' /\ Doomed'
  BY <1>1, <1>2, <1>4 DEF Outgoing, Doomed, Others
<1>6. Spared'
  BY <1>1, <1>2, <1>3, <1>4 DEF Spared, Others
<1>7. Crossed' /\ Marked'
  BY <1>1, <1>2, <1>3 DEF Crossed, Marked, MovedStays
<1>8. (LiveIsPresent /\ PresentIsLive /\ FactsDieWithHost)'
  BY <1>1 DEF LiveIsPresent, PresentIsLive, FactsDieWithHost
<1> QED BY <1>5, <1>6, <1>7, <1>8

\* The read that opens an upsert: it sees whether the Entity is dead, or
\* races with a retraction.
LEMMA ReadLife ==
  ASSUME HostTypes, LifeInv, MovedStays, NEW s \in Sources, NEW h \in Hosts, ReadEntity(s, h)
  PROVE  LifeInv'
<1> USE DEF LifeInv
<1>0. PICK t \in Txs :
        /\ tx[s] = NoTx /\ tx' = [tx EXCEPT ![s] = t]
        /\ t.hosts = {h} /\ t.dead = {h} \cap (known \ live)
        /\ t.kind = IF h \in known THEN "read" ELSE "insert"
        /\ raced' = raced \cup {x \in {h} : \E r \in Others(s) : Retracting(r, x)}
        /\ UNCHANGED <<move, live, known, pres, fact, skewed>>
  BY ReadShape
<1>1. tx'[s] = t /\ \A r \in Sources : r # s => tx'[r] = tx[r]
  BY <1>0, TxChange DEF Others
<1>2. \A r \in Sources : \A x : Retracting(r, x)' <=> Retracting(r, x)
  BY <1>0, <1>1, Empties DEF Retracting
<1>3. \A r \in Sources : \A x : Upserting(r, x)' <=> (Upserting(r, x) /\ r # s) \/ (r = s /\ x = h)
  BY <1>0, <1>1 DEF Upserting
<1>4. \A r \in Sources : \A x : /\ Decided(r, x)' <=> Decided(r, x)
                                /\ Dies(r, x)' <=> Dies(r, x)
  BY <1>0, <1>1, Empties DEF Decided, Dies
<1>5. Outgoing' /\ Doomed'
  BY <1>0, <1>1, <1>4 DEF Outgoing, Doomed, Others
<1>6. Spared'
  BY <1>0, <1>1, <1>2, <1>4 DEF Spared, Others
<1>7. Crossed'
  BY <1>0, <1>2, <1>3 DEF Crossed, Others
<1>8. Marked'
  <2>1. fact[h] = "dead" /\ h \notin raced /\ h \in known => h \in t.dead
    BY <1>0 DEF FactsDieWithHost
  <2> QED BY <1>0, <1>1, <1>3, <2>1 DEF Marked, MovedStays
<1>9. (LiveIsPresent /\ PresentIsLive /\ FactsDieWithHost)'
  BY <1>0 DEF LiveIsPresent, PresentIsLive, FactsDieWithHost
<1> QED BY <1>5, <1>6, <1>7, <1>8, <1>9

\* The write keeps what the read saw.
LEMMA WriteLife ==
  ASSUME HostTypes, LifeInv, MovedStays, NEW s \in Sources, WriteEntity(s)
  PROVE  LifeInv'
<1> USE DEF LifeInv
<1>0. PICK t \in Txs :
        /\ tx[s].kind \in {"read", "insert"} /\ tx' = [tx EXCEPT ![s] = t]
        /\ t.hosts = tx[s].hosts /\ t.dead = tx[s].dead /\ t.kind = "write"
        /\ tx[s].kind = "insert" => tx[s].hosts \cap known = {}
        /\ UNCHANGED <<move, live, known, pres, fact, skewed, raced>>
  BY WriteShape
<1>1. tx'[s] = t /\ \A r \in Sources : r # s => tx'[r] = tx[r]
  BY <1>0, TxChange DEF Others
<1>2. \A r \in Sources : \A x : Retracting(r, x)' <=> Retracting(r, x)
  BY <1>0, <1>1 DEF Retracting
<1>3. \A r \in Sources : \A x : Upserting(r, x)' <=> Upserting(r, x)
  BY <1>0, <1>1 DEF Upserting
<1>4. \A r \in Sources : \A x : /\ Decided(r, x)' <=> Decided(r, x)
                                /\ Dies(r, x)' <=> Dies(r, x)
  BY <1>0, <1>1 DEF Decided, Dies
<1>5. Outgoing' /\ Doomed'
  BY <1>0, <1>1, <1>4 DEF Outgoing, Doomed, Others
<1>6. Spared'
  BY <1>0, <1>1, <1>2, <1>4 DEF Spared, Others
<1>7. Crossed'
  BY <1>0, <1>2, <1>3 DEF Crossed, Others
<1>8. Marked'
  <2>1. ASSUME NEW x \in Hosts, fact[x] = "dead", x \notin raced, Upserting(s, x), home[s] # "moved"
        PROVE  x \in tx[s].dead
    BY <1>0, <2>1 DEF Marked, Upserting
  <2> QED BY <1>0, <1>1, <1>3, <2>1 DEF Marked, MovedStays
<1>9. (LiveIsPresent /\ PresentIsLive /\ FactsDieWithHost)'
  BY <1>0 DEF LiveIsPresent, PresentIsLive, FactsDieWithHost
<1> QED BY <1>5, <1>6, <1>7, <1>8, <1>9

\* The commit of an upsert: the Entity lives, observed by a Source that is
\* not retracting it, and has lost the Facets of the dead.
LEMMA CommitLife ==
  ASSUME HostTypes, LifeInv, MovedStays, NEW s \in Sources, CommitEntity(s)
  PROVE  LifeInv'
<1> USE DEF LifeInv
<1> DEFINE hs == tx[s].hosts
<1>0. /\ tx[s].kind = "write" /\ hs \subseteq Hosts /\ tx' = [tx EXCEPT ![s] = NoTx]
      /\ live' = live \cup hs /\ known' = known \cup hs /\ skewed' = skewed \ hs
      /\ hs \cap move[s].hosts = {} /\ home[s] # "moved"
      /\ UNCHANGED <<move, raced>>
  BY DEF CommitEntity, OnlySync, HostTypes, Txs
<1>1. tx'[s].kind = "none" /\ \A r \in Sources : r # s => tx'[r] = tx[r]
  BY <1>0, TxChange, Empties DEF Others
<1>2. \A r \in Sources : \A x : Retracting(r, x)' <=> Retracting(r, x)
  BY <1>0, <1>1 DEF Retracting
<1>3. \A r \in Sources : \A x : Upserting(r, x)' => Upserting(r, x) /\ r # s
  BY <1>1 DEF Upserting
<1>4. \A r \in Sources : \A x : /\ Decided(r, x)' <=> Decided(r, x)
                                /\ Dies(r, x)' <=> Dies(r, x)
  BY <1>0, <1>1 DEF Decided, Dies
<1>5. pres'[s] = pres[s] \cup hs /\ \A r \in Sources : r # s => pres'[r] = pres[r]
  BY DEF CommitEntity, HostTypes
<1>6. \A x \in hs : ~Retracting(s, x)
  BY <1>0 DEF Retracting
<1>7. \A x \in Hosts : Upserting(s, x) <=> x \in hs
  BY <1>0 DEF Upserting
<1>8. \A x \in Hosts : fact'[x] = "dead" => fact[x] = "dead" /\ x \notin tx[s].dead
  BY DEF CommitEntity
<1> HIDE DEF hs
<1>9. Outgoing'
  BY <1>0, <1>1 DEF Outgoing
<1>10. Doomed'
  <2>1. ASSUME NEW r \in Sources, r # s, NEW x \in Hosts, Dies(r, x), x \notin raced
        PROVE  x \notin hs
    <3>1. Retracting(r, x)
      BY <2>1 DEF Outgoing, Dies, Retracting
    <3> QED BY <1>7, <2>1, <3>1 DEF Crossed
  <2> QED BY <1>0, <1>1, <1>4, <1>5, <2>1 DEF Doomed, Others
<1>11. Spared'
  BY <1>0, <1>1, <1>2, <1>4, <1>5, <1>6 DEF Spared, Others
<1>12. Crossed'
  BY <1>0, <1>2, <1>3 DEF Crossed
<1>13. Marked'
  BY <1>0, <1>1, <1>3, <1>8 DEF Marked, MovedStays
<1>14. LiveIsPresent' /\ PresentIsLive'
  BY <1>0, <1>5 DEF LiveIsPresent, PresentIsLive
<1>15. FactsDieWithHost'
  <2>1. ASSUME NEW x \in live', x \notin raced PROVE fact'[x] # "dead"
    <3>1. x \in Hosts
      BY <1>0 DEF HostTypes
    <3>2. CASE x \in hs
      BY <1>0, <1>7, <1>8, <2>1, <3>1, <3>2 DEF Marked
    <3>3. CASE x \in live
      BY <1>8, <2>1, <3>1, <3>3 DEF FactsDieWithHost
    <3> QED BY <1>0, <3>2, <3>3
  <2> QED BY <1>0, <2>1 DEF FactsDieWithHost
<1> QED BY <1>9, <1>10, <1>11, <1>12, <1>13, <1>14, <1>15

\* A Sync begins a retraction: what overlaps it is skewed or raced from here.
LEMMA BeginLife ==
  ASSUME HostTypes, LifeInv, MovedStays, NEW s \in Sources, NEW hs \in SUBSET Hosts, NEW t \in Txs,
         Begins(s, hs, t)
  PROVE  LifeInv'
<1> USE DEF LifeInv
<1>0. /\ tx[s].kind = "none" /\ t.hosts = hs /\ t.kind = "delete" /\ hs \cap move[s].hosts = {}
      /\ skewed' = skewed \cup {h \in hs : \E r \in Others(s) : Retracting(r, h)}
      /\ raced' = raced \cup {h \in hs : \E r \in Others(s) : Upserting(r, h)}
      /\ UNCHANGED <<move, live, known, pres, fact>>
  BY Empties DEF Begins
<1>1. tx'[s] = t /\ \A r \in Sources : r # s => tx'[r] = tx[r]
  BY TxChange DEF Begins, Others
<1>2. \A r \in Sources : \A x :
        Retracting(r, x)' <=> Retracting(r, x) \/ (r = s /\ x \in hs)
  BY <1>0, <1>1 DEF Retracting
<1>3. \A r \in Sources : \A x : Upserting(r, x)' <=> Upserting(r, x) /\ r # s
  BY <1>0, <1>1 DEF Upserting
<1>4. \A r \in Sources : \A x : /\ Decided(r, x)' <=> Decided(r, x)
                                /\ Dies(r, x)' <=> Dies(r, x)
  BY <1>0, <1>1 DEF Decided, Dies
<1>5. \A x \in hs : ~Decided(s, x)
  BY <1>0 DEF Decided
<1>6. Outgoing'
  BY <1>0, <1>1 DEF Outgoing
<1>7. Doomed'
  BY <1>0, <1>4 DEF Doomed, Others
<1>8. Spared'
  <2>1. ASSUME NEW r \in Sources, NEW h \in (live \cap pres[r]) \ skewed', Retracting(r, h)',
               \/ Decided(r, h) /\ ~Dies(r, h)
               \/ \E q \in Others(r) : Retracting(q, h)'
        PROVE  \E q \in Others(r) : h \in pres[q] /\ ~Retracting(q, h)'
    <3>1. h \notin hs
      BY <1>0, <1>2, <1>5, <2>1 DEF Others
    <3>2. Retracting(r, h) /\ (\/ Decided(r, h) /\ ~Dies(r, h)
                               \/ \E q \in Others(r) : Retracting(q, h))
      BY <1>2, <2>1, <3>1 DEF Others
    <3>3. PICK q \in Others(r) : h \in pres[q] /\ ~Retracting(q, h)
      BY <1>0, <2>1, <3>2 DEF Spared
    <3> QED BY <1>2, <3>1, <3>3 DEF Others
  <2> QED BY <1>0, <1>4, <2>1 DEF Spared, Others
<1>9. Crossed'
  BY <1>0, <1>2, <1>3 DEF Crossed, Others
<1>10. Marked'
  BY <1>0, <1>1, <1>3 DEF Marked, MovedStays
<1>11. (LiveIsPresent /\ PresentIsLive /\ FactsDieWithHost)'
  BY <1>0 DEF LiveIsPresent, PresentIsLive, FactsDieWithHost
<1> QED BY <1>6, <1>7, <1>8, <1>9, <1>10, <1>11

\* CompleteRehome begins and decides at once who dies with the Source.
LEMMA BeginMoveLife ==
  ASSUME HostTypes, LifeInv, MovedStays, NEW s \in Sources, BeginComplete(s)
  PROVE  LifeInv'
<1> USE DEF LifeInv
<1> DEFINE hs == pres[s]
<1>0. /\ move[s].hosts = {} /\ hs \subseteq Hosts
      /\ tx[s].kind \in {"delete", "bury"} => tx[s].hosts \cap hs = {}
      /\ skewed' = skewed \cup {h \in hs : \E r \in Others(s) : Retracting(r, h)}
      /\ raced' = raced \cup {h \in hs : \E r \in Others(s) : Upserting(r, h)}
      /\ UNCHANGED <<tx, live, known, pres, fact>>
  BY DEF BeginComplete, graphVars, Outgoing, HostTypes
<1>1. PICK m \in Moves : m.on /\ m.hosts = hs /\ m.dead = LastPresence(s, hs)
                         /\ move' = [move EXCEPT ![s] = m]
  BY MoveShape
<1>2. move'[s] = m /\ \A r \in Sources : r # s => move'[r] = move[r]
  BY <1>1, MoveChange DEF Others
<1>3. move[s].dead = {}
  BY <1>0 DEF Outgoing
<1>4. \A r \in Sources : \A x :
        /\ Retracting(r, x)' <=> Retracting(r, x) \/ (r = s /\ x \in hs)
        /\ Decided(r, x)' <=> Decided(r, x) \/ (r = s /\ x \in hs)
        /\ Dies(r, x)' <=> Dies(r, x) \/ (r = s /\ x \in LastPresence(s, hs))
  BY <1>0, <1>1, <1>2, <1>3 DEF Retracting, Decided, Dies
<1>5. \A r \in Sources : \A x : Upserting(r, x)' <=> Upserting(r, x)
  BY <1>0 DEF Upserting
<1>6. Outgoing'
  BY <1>0, <1>1, <1>2 DEF Outgoing, LastPresence, HostTypes
<1>7. Doomed'
  BY <1>0, <1>4 DEF Doomed, LastPresence, Others
<1>8. Spared'
  <2>1. ASSUME NEW r \in Sources, NEW h \in (live \cap pres[r]) \ skewed', Retracting(r, h)',
               \/ Decided(r, h)' /\ ~Dies(r, h)'
               \/ \E q \in Others(r) : Retracting(q, h)'
        PROVE  \E q \in Others(r) : h \in pres[q] /\ ~Retracting(q, h)'
    <3>1. CASE h \in hs
      <4>1. r = s /\ \A q \in Others(s) : ~Retracting(q, h)
        BY <1>0, <1>4, <2>1, <3>1 DEF Others
      <4>2. \A q \in Others(s) : ~Retracting(q, h)'
        BY <1>4, <4>1 DEF Others
      <4>3. h \notin LastPresence(s, hs)
        BY <1>4, <2>1, <4>1, <4>2
      <4>4. \E q \in Others(s) : h \in pres[q]
        BY <2>1, <3>1, <4>1, <4>3 DEF LastPresence
      <4> QED BY <4>1, <4>2, <4>4
    <3>2. CASE h \notin hs
      <4>1. h \notin LastPresence(s, hs)
        BY <3>2 DEF LastPresence
      <4>2. PICK q \in Others(r) : h \in pres[q] /\ ~Retracting(q, h)
        BY <1>0, <1>4, <2>1, <3>2, <4>1 DEF Spared, Others
      <4> QED BY <1>4, <3>2, <4>2 DEF Others
    <3> QED BY <3>1, <3>2
  <2> QED BY <1>0, <2>1 DEF Spared, Others
<1>9. Crossed'
  BY <1>0, <1>4, <1>5 DEF Crossed, Others
<1>10. Marked'
  BY <1>0, <1>5 DEF Marked, MovedStays
<1>11. (LiveIsPresent /\ PresentIsLive /\ FactsDieWithHost)'
  BY <1>0 DEF LiveIsPresent, PresentIsLive, FactsDieWithHost
<1> QED BY <1>6, <1>7, <1>8, <1>9, <1>10, <1>11

\* FindDead spares what somebody else is committed to observe.
LEMMA FindLife ==
  ASSUME HostTypes, LifeInv, MovedStays, NEW s \in Sources, FindDead(s)
  PROVE  LifeInv'
<1> USE DEF LifeInv
<1> DEFINE hs == tx[s].hosts
<1>0. PICK t \in Txs :
        /\ tx[s].kind = "delete" /\ tx' = [tx EXCEPT ![s] = t]
        /\ t.hosts = hs /\ t.dead = LastPresence(s, hs) /\ t.kind = "bury"
        /\ UNCHANGED <<move, live, known, pres, fact, skewed, raced>>
  BY FindShape
<1>1. tx'[s] = t /\ \A r \in Sources : r # s => tx'[r] = tx[r]
  BY <1>0, TxChange DEF Others
<1>2. \A r \in Sources : \A x : Retracting(r, x)' <=> Retracting(r, x)
  BY <1>0, <1>1 DEF Retracting
<1>3. \A r \in Sources : \A x : Upserting(r, x)' <=> Upserting(r, x) /\ r # s
  BY <1>0, <1>1 DEF Upserting
<1>4. \A r \in Sources : \A x :
        /\ Decided(r, x)' <=> Decided(r, x) \/ (r = s /\ x \in hs)
        /\ Dies(r, x)' <=> Dies(r, x) \/ (r = s /\ x \in LastPresence(s, hs))
  BY <1>0, <1>1 DEF Decided, Dies
<1>5. Outgoing'
  BY <1>0, <1>1 DEF Outgoing, LastPresence, HostTypes
<1>6. Doomed'
  BY <1>0, <1>4 DEF Doomed, LastPresence, Others
<1>7. Spared'
  <2>1. ASSUME NEW h \in (live \cap pres[s]) \ skewed, h \in hs, ~Dies(s, h)'
        PROVE  \E r \in Others(s) : h \in pres[r] /\ ~Retracting(r, h)
    <3>1. Retracting(s, h)
      BY <1>0, <2>1 DEF Retracting
    <3>2. PICK r \in Others(s) : h \in pres[r]
      BY <1>4, <2>1 DEF LastPresence
    <3>3. CASE ~Retracting(r, h)
      BY <3>2, <3>3
    <3>4. CASE Retracting(r, h)
      BY <2>1, <3>1, <3>2, <3>4 DEF Spared
    <3> QED BY <3>3, <3>4
  <2>2. \A h : h \notin hs => h \notin LastPresence(s, hs)
    BY DEF LastPresence
  <2> QED BY <1>0, <1>2, <1>4, <2>1, <2>2 DEF Spared, Others
<1>8. Crossed'
  BY <1>0, <1>2, <1>3 DEF Crossed
<1>9. Marked'
  BY <1>0, <1>1, <1>3 DEF Marked, MovedStays
<1>10. (LiveIsPresent /\ PresentIsLive /\ FactsDieWithHost)'
  BY <1>0 DEF LiveIsPresent, PresentIsLive, FactsDieWithHost
<1> QED BY <1>5, <1>6, <1>7, <1>8, <1>9, <1>10

\* A retraction of hs, of which dead die, has committed: the facts of which
\* the Sync's commit and the re-home's are the two cases.
Retracted(s, hs, dead) ==
  /\ live' = live \ dead /\ UNCHANGED <<known, raced>>
  /\ hs \subseteq Hosts /\ dead \subseteq hs \cap known
  /\ pres'[s] \subseteq pres[s] \ dead
  /\ \A x \in pres[s] \ skewed' : x \in pres'[s] \/ x \in hs
  /\ skewed \subseteq skewed'
  /\ \A x \in hs : Decided(s, x) /\ Retracting(s, x)
  /\ \A x \in hs : Dies(s, x) <=> x \in dead
  /\ \A r \in Sources : r # s => pres'[r] = pres[r]
  /\ \A x \in Hosts : fact'[x] = "dead" => fact[x] = "dead" \/ (x \in dead /\ fact[x] = "true")
  /\ \A r \in Sources : r # s => tx'[r] = tx[r]
  /\ \A r \in Sources : \A x :
       /\ Retracting(r, x)' <=> Retracting(r, x) /\ ~(r = s /\ x \in hs)
       /\ Decided(r, x)' <=> Decided(r, x) /\ ~(r = s /\ x \in hs)
       /\ Dies(r, x)' <=> Dies(r, x) /\ ~(r = s /\ x \in hs)
       /\ Upserting(r, x)' <=> Upserting(r, x)
  /\ home'[s] # "moved" => \A x \in dead : ~Upserting(s, x)
  /\ \A x : Upserting(s, x) => tx'[s] = tx[s]

\* A retraction commits: whom it leaves alive another still observes, and
\* whom it buries nobody does.
LEMMA RetractedLife ==
  ASSUME HostTypes, LifeInv, MovedStays, Outgoing',
         NEW s \in Sources, NEW hs, NEW dead, Retracted(s, hs, dead)
  PROVE  LifeInv'
<1> USE DEF LifeInv
<1>0. /\ live' = live \ dead /\ UNCHANGED <<known, raced>>
      /\ hs \subseteq Hosts /\ dead \subseteq hs \cap known
      /\ skewed \subseteq skewed'
  BY DEF Retracted
<1>1. \A r \in Sources : \A x :
        /\ Retracting(r, x)' <=> Retracting(r, x) /\ ~(r = s /\ x \in hs)
        /\ Decided(r, x)' <=> Decided(r, x) /\ ~(r = s /\ x \in hs)
        /\ Dies(r, x)' <=> Dies(r, x) /\ ~(r = s /\ x \in hs)
        /\ Upserting(r, x)' <=> Upserting(r, x)
  BY DEF Retracted
<1>2. /\ pres'[s] \subseteq pres[s] \ dead
      /\ \A x \in pres[s] \ skewed' : x \in pres'[s] \/ x \in hs
      /\ \A r \in Sources : r # s => pres'[r] = pres[r]
  BY DEF Retracted
<1>3. /\ \A x \in hs : Decided(s, x) /\ Retracting(s, x)
      /\ \A x \in hs : Dies(s, x) <=> x \in dead
  BY DEF Retracted
<1>4. /\ \A x \in Hosts : fact'[x] = "dead" => fact[x] = "dead" \/ (x \in dead /\ fact[x] = "true")
      /\ home'[s] # "moved" => \A x \in dead : ~Upserting(s, x)
      /\ \A r \in Sources : \A x : Upserting(r, x) => tx'[r] = tx[r]
  BY DEF Retracted
<1>5. \A r \in Sources : pres'[r] \subseteq pres[r]
  BY <1>2
<1>6. Doomed'
  BY <1>0, <1>1, <1>5 DEF Doomed, Others
<1>7. Spared'
  <2>1. ASSUME NEW r \in Sources, NEW h \in (live' \cap pres'[r]) \ skewed', Retracting(r, h)',
               \/ Decided(r, h)' /\ ~Dies(r, h)'
               \/ \E q \in Others(r) : Retracting(q, h)'
        PROVE  \E q \in Others(r) : h \in pres'[q] /\ ~Retracting(q, h)'
    <3>1. h \in (live \cap pres[r]) \ skewed /\ Retracting(r, h)
      BY <1>0, <1>1, <1>5, <2>1
    <3>2. \/ Decided(r, h) /\ ~Dies(r, h)
          \/ \E q \in Others(r) : Retracting(q, h)
      BY <1>1, <2>1 DEF Others
    <3>3. PICK q \in Others(r) : h \in pres[q] /\ ~Retracting(q, h)
      BY <3>1, <3>2 DEF Spared
    <3>4. h \in pres'[q]
      BY <1>2, <1>3, <2>1, <3>3 DEF Others
    <3> QED BY <1>1, <3>3, <3>4 DEF Others
  <2> QED BY <2>1 DEF Spared, Others
<1>8. Crossed'
  BY <1>0, <1>1 DEF Crossed
<1>9. Marked'
  <2>1. ASSUME NEW h \in Hosts, fact'[h] = "dead" PROVE h \in known
    BY <1>0, <1>4, <2>1 DEF Marked
  <2>2. ASSUME NEW h \in Hosts, fact'[h] = "dead", h \notin raced, NEW r \in Sources, Upserting(r, h),
               home'[r] # "moved"
        PROVE  fact[h] = "dead"
    <3>1. h \notin dead
      BY <1>0, <1>3, <1>4, <2>2 DEF Crossed
    <3> QED BY <1>4, <2>2, <3>1
  <2> QED BY <1>0, <1>1, <1>4, <2>1, <2>2 DEF Marked, MovedStays
<1>10. LiveIsPresent'
  <2>1. ASSUME NEW h \in live' \ skewed' PROVE \E r \in Sources : h \in pres'[r]
    <3>1. PICK r \in Sources : h \in pres[r]
      BY <1>0, <2>1 DEF LiveIsPresent
    <3>2. CASE r = s /\ h \in hs
      <4>1. \E q \in Others(s) : h \in pres[q]
        BY <1>0, <1>3, <2>1, <3>1, <3>2 DEF Spared
      <4> QED BY <1>2, <4>1 DEF Others
    <3> QED BY <1>2, <2>1, <3>1, <3>2
  <2> QED BY <2>1 DEF LiveIsPresent
<1>11. PresentIsLive'
  <2>1. ASSUME NEW r \in Sources, NEW h \in pres'[r] \ raced PROVE h \in live'
    <3>1. h \in live /\ h \in pres[r]
      BY <1>5, <2>1 DEF PresentIsLive
    <3>2. r # s => h \notin dead
      BY <1>0, <1>3, <2>1, <3>1 DEF Doomed, Others
    <3> QED BY <1>0, <1>2, <2>1, <3>1, <3>2
  <2> QED BY <1>0, <2>1 DEF PresentIsLive
<1>12. FactsDieWithHost'
  BY <1>0, <1>4 DEF FactsDieWithHost, HostTypes
<1> QED BY <1>6, <1>7, <1>8, <1>9, <1>10, <1>11, <1>12

\* The tombstones of a pass commit.
LEMMA BuryLife ==
  ASSUME HostTypes, LifeInv, MovedStays, NEW s \in Sources, Buries(s)
  PROVE  LifeInv'
<1> USE DEF LifeInv
<1> DEFINE hs == tx[s].hosts
           dead == tx[s].dead
<1>0. /\ tx[s].kind = "bury" /\ live' = live \ dead /\ UNCHANGED <<move, known, skewed, raced>>
      /\ dead \subseteq hs \cap known /\ hs \subseteq Hosts /\ hs \cap move[s].hosts = {}
      /\ move[s].dead \subseteq move[s].hosts
  BY DEF Buries, Outgoing, HostTypes, Txs
<1>1. tx'[s].kind = "none" /\ \A r \in Sources : r # s => tx'[r] = tx[r]
  BY TxChange, Empties DEF Buries, Others
<1>2. pres'[s] = pres[s] \ hs /\ \A r \in Sources : r # s => pres'[r] = pres[r]
  BY DEF Buries, HostTypes
<1>3. \A r \in Sources : \A x :
        /\ Retracting(r, x)' <=> Retracting(r, x) /\ ~(r = s /\ x \in hs)
        /\ Decided(r, x)' <=> Decided(r, x) /\ ~(r = s /\ x \in hs)
        /\ Dies(r, x)' <=> Dies(r, x) /\ ~(r = s /\ x \in hs)
        /\ Upserting(r, x)' <=> Upserting(r, x)
  BY <1>0, <1>1 DEF Retracting, Decided, Dies, Upserting
<1>4. \A x \in Hosts : fact'[x] = "dead" => fact[x] = "dead" \/ (x \in dead /\ fact[x] = "true")
  BY DEF Buries
<1>5. \A x \in hs : Decided(s, x) /\ Retracting(s, x) /\ (Dies(s, x) <=> x \in dead)
  BY <1>0 DEF Decided, Retracting, Dies
<1>6. \A x : ~Upserting(s, x)
  BY <1>0 DEF Upserting
<1> HIDE DEF hs, dead
<1>7. Retracted(s, hs, dead)
  BY <1>0, <1>1, <1>2, <1>3, <1>4, <1>5, <1>6 DEF Retracted
<1>8. Outgoing'
  BY <1>0, <1>1 DEF Outgoing
<1> QED BY <1>7, <1>8, RetractedLife

\* The re-home commits: the presence the Source's Sync recorded meanwhile goes
\* with the row, and nobody is asked who else observes those Entities.
LEMMA CommitMoveLife ==
  ASSUME WorldTypes, HostTypes, LifeInv, MovedStays, NEW s \in Sources, CommitComplete(s)
  PROVE  LifeInv'
<1> USE DEF LifeInv
<1> DEFINE hs == move[s].hosts
           dead == move[s].dead
<1>0. /\ live' = live \ dead /\ UNCHANGED <<tx, known, raced>>
      /\ dead \subseteq hs \cap known /\ hs \subseteq Hosts
      /\ tx[s].kind \in {"delete", "bury"} => tx[s].hosts \cap hs = {}
      /\ tx[s].kind = "bury" => tx[s].dead \subseteq tx[s].hosts
      /\ skewed' = skewed \cup (pres[s] \ hs)
  BY DEF CommitComplete, Bury, Outgoing, HostTypes, Moves
<1>1. /\ ~move'[s].on /\ move'[s].hosts = {} /\ move'[s].dead = {}
      /\ \A r \in Sources : r # s => move'[r] = move[r]
  BY MoveChange, Empties DEF CommitComplete, Others
<1>2. pres'[s] = {} /\ \A r \in Sources : r # s => pres'[r] = pres[r]
  BY DEF CommitComplete, HostTypes
<1>3. \A r \in Sources : \A x :
        /\ Retracting(r, x)' <=> Retracting(r, x) /\ ~(r = s /\ x \in hs)
        /\ Decided(r, x)' <=> Decided(r, x) /\ ~(r = s /\ x \in hs)
        /\ Dies(r, x)' <=> Dies(r, x) /\ ~(r = s /\ x \in hs)
        /\ Upserting(r, x)' <=> Upserting(r, x)
  BY <1>0, <1>1 DEF Retracting, Decided, Dies, Upserting
<1>4. \A x \in Hosts : fact'[x] = "dead" => fact[x] = "dead" \/ (x \in dead /\ fact[x] = "true")
  BY DEF CommitComplete, Bury
<1>5. \A x \in hs : Decided(s, x) /\ Retracting(s, x) /\ (Dies(s, x) <=> x \in dead)
  BY <1>0 DEF Decided, Retracting, Dies
<1>6. home'[s] = "moved"
  BY DEF CommitComplete, WorldTypes
<1>7. Outgoing'
  BY <1>0, <1>1 DEF Outgoing
<1> HIDE DEF hs, dead
<1>8. Retracted(s, hs, dead)
  BY <1>0, <1>1, <1>2, <1>3, <1>4, <1>5, <1>6 DEF Retracted
<1> QED BY <1>7, <1>8, RetractedLife

\* Every step keeps presence and life together.
LEMMA LifeSteps ==
  ASSUME WorldTypes, HostTypes, LifeInv, [Next]_vars
  PROVE  LifeInv'
<1>0. MovedStays
  BY MovedStaysStep
<1>1. ASSUME NEW s \in Sources, EntityStep(s) PROVE LifeInv'
  BY <1>0, <1>1, AsideLife, ReadLife, WriteLife, CommitLife, FindLife, BeginLife, BuryLife,
     BeginMoveLife, CommitMoveLife, FailedMoveLife
     DEF EntityStep
<1> QED BY <1>0, <1>1, StepShapes, QuietLife, WritesBackLife

\* Nothing lives and nobody observes at first.
LEMMA LifeStarts == Init => LifeInv
<1>1. Init => /\ live = {} /\ \A s \in Sources : pres[s] = {} /\ tx[s] = NoTx /\ move[s] = NoMove
              /\ \A h \in Hosts : fact[h] = "none"
  BY DEF Init
<1>2. Init => \A s \in Sources : /\ tx[s].kind = "none" /\ move[s].hosts = {} /\ move[s].dead = {}
  BY <1>1, Empties
<1> QED BY <1>1, <1>2 DEF LifeInv, Outgoing, Spared, Doomed, Crossed, Marked, LiveIsPresent,
           PresentIsLive, FactsDieWithHost, Decided, Dies, Retracting, Upserting

\* The parts that hold of every behaviour together.
LEMMA LifeHolds == Spec => [](WorldTypes /\ HostTypes /\ LifeInv)
<1> DEFINE I == WorldTypes /\ HostTypes /\ LifeInv
<1>1. I /\ [Next]_vars => I'
  BY WorldTypesStep, HostTypesStep, LifeSteps
<1>2. Init => I
  BY TypesStart, LifeStarts
<1> QED BY <1>1, <1>2, PTL DEF Spec

\* However many Sources upsert, retract and re-home at once, an Entity that
\* TombstoneAbsent, TombstoneByIdentity and CompleteRehome leave alive is one
\* some Source observes, unless retractions of it overlapped or the Source's
\* own Sync recorded it while the Source was being retired.
THEOREM LifeNeedsPresence == Spec => []LiveIsPresent
<1>1. LifeInv => LiveIsPresent
  BY DEF LifeInv
<1> QED BY <1>1, LifeHolds, PTL

\* They never mark an Entity deleted that a Source observes, unless it was
\* being written and retracted at once.
THEOREM PresenceKeepsAlive == Spec => []PresentIsLive
<1>1. LifeInv => PresentIsLive
  BY DEF LifeInv
<1> QED BY <1>1, LifeHolds, PTL

\* An Entity that upsertEntityTx revives has lost the Facets Runs wrote on it
\* before it died, unless it was being written and retracted at once.
THEOREM RevivedStartsClean == Spec => []FactsDieWithHost
<1>1. LifeInv => FactsDieWithHost
  BY DEF LifeInv
<1> QED BY <1>1, LifeHolds, PTL
=============================================================================
