--------------------------- MODULE GraphProjection ---------------------------
(***************************************************************************)
(* One Cell's projection of the external systems of record: the Syncers    *)
(* (pluginhost.Host.Sync, one goroutine per Source) and the transactions   *)
(* of graph.Projector they write through.                                  *)
(*                                                                         *)
(* An Entity lives as long as some Source observes it: each observation is *)
(* a row of entity_presence, and the transaction that retracts the last    *)
(* one marks the Entity deleted.  Transactions run at READ COMMITTED: one  *)
(* sees what the others committed before its statement began, and waits    *)
(* for a row another has updated.  A Relation has presence of its own.     *)
(* A Run writes Facets back to the Entities it was launched against.       *)
(***************************************************************************)
EXTENDS Naturals, FiniteSets

CONSTANTS
  Sources,     \* the Sources with a Syncer on this Cell
  Delta,       \* the ones whose plugin serves a delta feed
  Movers,      \* the ones that may be re-homed to another Cell
  Hosts,       \* what the systems of record may list, by identity
  Targets,     \* the hosts Runs are launched against
  Edges,       \* the Relations they may report, pairs of Hosts
  First,       \* what each system of record lists at first
  MaxChanges,  \* bound: changes in the outside world
  MaxFaults    \* bound: syncs that fail half-way

Listings == [hosts : SUBSET Hosts, edges : SUBSET Edges]

ASSUME ConstantsAssumption ==
  /\ Delta \subseteq Sources /\ Movers \subseteq Sources
  /\ Targets \subseteq Hosts
  /\ Edges \subseteq Hosts \X Hosts
  /\ First \in [Sources -> Listings]
  /\ MaxChanges \in Nat /\ MaxFaults \in Nat

VARIABLES
  sor,      \* what each system of record lists: hosts and edges
  changes,  \* changes of it so far
  home,     \* each Source's row: "homed", "sealed" for a move, or "moved"
  pc,       \* where each Source's Sync is
  page,     \* the observation it is projecting
  cursor,   \* each Source's delta cursor, as what changed since it was issued
  tx,       \* the open transaction of each Source's Sync
  move,     \* the open transaction that retires a Source, beside its Sync's
  live,     \* Entities with a row that is not marked deleted
  known,    \* Entities with a row
  pres,     \* entity_presence, by Source
  rel,      \* graph.relation
  relpres,  \* relation_presence, by Source
  run,      \* a Run under way against the Entity
  fact,     \* the Facet Runs wrote on the Entity, by what it describes
  faults,   \* failed syncs so far
  skewed,   \* history: Entities whose retractions overlapped, or that a Sync
            \* observed while its Source was being retired
  raced     \* history: Entities buried while being observed

worldVars == <<sor, changes, run>>
graphVars == <<live, known, pres, rel, relpres, fact>>
vars == <<worldVars, home, pc, page, cursor, tx, move, graphVars, faults, skewed,
          raced>>

Stages   == {"idle", "apply", "relate", "retract", "replace", "cursor"}
Nothing  == [hosts |-> {}, edges |-> {}]
NoPage   == [todo |-> {}, seen |-> {}, full |-> FALSE, gone |-> Nothing,
             kept |-> {}, rtodo |-> {}]
NoTx     == [kind |-> "none", hosts |-> {}, dead |-> {}, edges |-> {}]
NoMove   == [on |-> FALSE, hosts |-> {}, dead |-> {}]
NoCursor == [set |-> FALSE, log |-> Nothing, late |-> Nothing]

Touches(e, hs) == e[1] \in hs \/ e[2] \in hs

Init ==
  /\ sor = First
  /\ changes = 0
  /\ home = [s \in Sources |-> "homed"]
  /\ pc = [s \in Sources |-> "idle"]
  /\ page = [s \in Sources |-> NoPage]
  /\ cursor = [s \in Sources |-> NoCursor]
  /\ tx = [s \in Sources |-> NoTx] /\ move = [s \in Sources |-> NoMove]
  /\ live = {} /\ known = {} /\ rel = {}
  /\ pres = [s \in Sources |-> {}] /\ relpres = [s \in Sources |-> {}]
  /\ run = [h \in Hosts |-> "none"] /\ fact = [h \in Hosts |-> "none"]
  /\ faults = 0 /\ skewed = {} /\ raced = {}

-----------------------------------------------------------------------------
(* The world: systems of record change, Runs come and go.                  *)

OnlyWorld == UNCHANGED <<home, pc, page, tx, move, faults, skewed, raced>>

\* A delta feed reports all that changed since a cursor it issued, what came
\* and went in between too.  log is since the stored cursor, late since the
\* pass under way began.
Noted(s, hs, es) ==
  LET more(c) == [hosts |-> c.hosts \cup hs, edges |-> c.edges \cup es]
  IN cursor' = IF s \in Delta
               THEN [cursor EXCEPT ![s].log = more(cursor[s].log),
                                   ![s].late = more(cursor[s].late)]
               ELSE cursor

\* A host appears or disappears; its edges go with it.
HostChanges(s, h) ==
  /\ changes < MaxChanges
  /\ changes' = changes + 1
  /\ LET now == sor[s]
         own == {e \in now.edges : e[1] = h}
     IN /\ sor' = [sor EXCEPT ![s] =
                     IF h \in now.hosts
                     THEN [hosts |-> now.hosts \ {h}, edges |-> now.edges \ own]
                     ELSE [hosts |-> now.hosts \cup {h}, edges |-> now.edges]]
        /\ Noted(s, {h}, own)
  /\ OnlyWorld /\ UNCHANGED <<run, graphVars>>

EdgeChanges(s, e) ==
  /\ changes < MaxChanges /\ e[1] \in sor[s].hosts
  /\ changes' = changes + 1
  /\ sor' = [sor EXCEPT ![s].edges = IF e \in @ THEN @ \ {e} ELSE @ \cup {e}]
  /\ Noted(s, {}, {e})
  /\ OnlyWorld /\ UNCHANGED <<run, graphVars>>

\* A Run resolves its targets, and at its end writes their Facets back: the
\* Entity may have been tombstoned, or revived, in between.
RunStarts(h) ==
  /\ h \in live /\ run[h] = "none"
  /\ run' = [run EXCEPT ![h] = "current"]
  /\ OnlyWorld /\ UNCHANGED <<sor, changes, cursor, graphVars>>

RunWrites(h) ==
  /\ run[h] # "none"
  /\ run' = [run EXCEPT ![h] = "none"]
  /\ fact' = [fact EXCEPT ![h] = IF run[h] = "current" THEN "true" ELSE "late"]
  /\ OnlyWorld
  /\ UNCHANGED <<sor, changes, cursor, live, known, pres, rel, relpres>>

-----------------------------------------------------------------------------
(* Host.Sync of one Source.                                                *)

OnlySync == UNCHANGED <<worldVars, home, move, faults>>
Upserting(r, h) ==
  tx[r].kind \in {"insert", "read", "write"} /\ h \in tx[r].hosts
Retracting(r, h) ==
  \/ tx[r].kind \in {"delete", "bury"} /\ h \in tx[r].hosts
  \/ h \in move[r].hosts
Others(s) == Sources \ {s}

\* Observe: all there is, or what changed since the cursor.
Observe(s) ==
  /\ pc[s] = "idle" /\ home[s] # "moved" /\ tx[s] = NoTx
  /\ page' = [page EXCEPT ![s] =
       IF cursor[s].set
       THEN [NoPage EXCEPT !.todo = cursor[s].log.hosts \cap sor[s].hosts,
                           !.rtodo = cursor[s].log.edges \cap sor[s].edges,
                           !.gone = [hosts |-> cursor[s].log.hosts \ sor[s].hosts,
                                     edges |-> cursor[s].log.edges \ sor[s].edges]]
       ELSE [NoPage EXCEPT !.todo = sor[s].hosts, !.rtodo = sor[s].edges,
                           !.seen = sor[s].hosts, !.full = TRUE]]
  /\ cursor' = [cursor EXCEPT ![s].late = Nothing]
  /\ pc' = [pc EXCEPT ![s] = "apply"]
  /\ OnlySync /\ UNCHANGED <<tx, graphVars, skewed, raced>>

\* Any error ends the pass; an open transaction rolls back.
Abandon(s) ==
  /\ pc' = [pc EXCEPT ![s] = "idle"]
  /\ page' = [page EXCEPT ![s] = NoPage]
  /\ tx' = [tx EXCEPT ![s] = NoTx]

SyncFails(s) ==
  /\ pc[s] # "idle" /\ faults < MaxFaults
  /\ faults' = faults + 1
  /\ Abandon(s)
  /\ UNCHANGED <<worldVars, home, cursor, move, graphVars, skewed, raced>>

\* enforce_write_path refuses a Source that is sealed, presence's foreign key
\* one that has moved, and the unique identity an Entity another inserted.
Refused(s) ==
  /\ \/ /\ home[s] # "homed"
        /\ \/ tx[s].kind \in {"insert", "read", "write", "relate"}
           \/ tx[s].kind = "bury" /\ tx[s].dead # {}
     \/ tx[s].kind = "insert" /\ tx[s].hosts \subseteq known
  /\ Abandon(s)
  /\ OnlySync /\ UNCHANGED <<cursor, graphVars, skewed, raced>>

\* upsertEntityTx looks the Entity up and reads its tombstone ...
ReadEntity(s, h) ==
  /\ pc[s] = "apply" /\ tx[s] = NoTx /\ h \in page[s].todo
  /\ tx' = [tx EXCEPT ![s] = [NoTx EXCEPT
              !.kind = IF h \in known THEN "read" ELSE "insert",
              !.hosts = {h}, !.dead = {h} \cap (known \ live)]]
  /\ raced' = raced \cup {x \in {h} : \E r \in Others(s) : Retracting(r, x)}
  /\ OnlySync /\ UNCHANGED <<pc, page, cursor, graphVars, skewed>>

\* ... updates the row, and locks it ...
WriteEntity(s) ==
  /\ home[s] = "homed"
  /\ \/ tx[s].kind = "read"
     \/ tx[s].kind = "insert" /\ tx[s].hosts \cap known = {}
  /\ ~ \E r \in Others(s), h \in tx[s].hosts :
         tx[r].kind = "write" /\ h \in tx[r].hosts
  /\ tx' = [tx EXCEPT ![s].kind = "write"]
  /\ OnlySync /\ UNCHANGED <<pc, page, cursor, graphVars, skewed, raced>>

\* Mutant: the revived Entity keeps the Facets of the dead one.
CommitEntity_KeepsFacets(s) ==
  /\ tx[s].kind = "write" /\ home[s] # "moved"
  /\ tx[s].hosts \cap move[s].hosts = {}
  /\ live' = live \cup tx[s].hosts
  /\ known' = known \cup tx[s].hosts
  /\ pres' = [pres EXCEPT ![s] = @ \cup tx[s].hosts]
  /\ page' = [page EXCEPT ![s].todo = @ \ tx[s].hosts]
  /\ tx' = [tx EXCEPT ![s] = NoTx]
  /\ skewed' = skewed \ tx[s].hosts
  /\ OnlySync /\ UNCHANGED <<pc, cursor, rel, relpres, fact, raced>>

\* ... clears the Facets of an Entity it revived, records the presence and
\* commits.  A presence recorded before the Source was sealed may commit
\* after; one that is being retired has to wait.
CommitEntity(s) ==
  /\ tx[s].kind = "write" /\ home[s] # "moved"
  /\ tx[s].hosts \cap move[s].hosts = {}
  /\ live' = live \cup tx[s].hosts
  /\ known' = known \cup tx[s].hosts
  /\ pres' = [pres EXCEPT ![s] = @ \cup tx[s].hosts]
  /\ fact' = [h \in Hosts |-> IF h \in tx[s].dead THEN "none" ELSE fact[h]]
  /\ page' = [page EXCEPT ![s].todo = @ \ tx[s].hosts]
  /\ tx' = [tx EXCEPT ![s] = NoTx]
  /\ skewed' = skewed \ tx[s].hosts
  /\ OnlySync /\ UNCHANGED <<pc, cursor, rel, relpres, raced>>

Turn(s, from, to, done) ==
  /\ pc[s] = from /\ tx[s] = NoTx /\ done
  /\ pc' = [pc EXCEPT ![s] = to]
  /\ OnlySync /\ UNCHANGED <<page, cursor, tx, graphVars, skewed, raced>>

\* A Relation's target is looked up among the live Entities, and an edge to
\* one that is not there is dropped; then the edge is upserted.
LookUp(s, e) ==
  /\ pc[s] = "relate" /\ tx[s] = NoTx /\ e \in page[s].rtodo
  /\ page' = [page EXCEPT ![s].rtodo = @ \ {e}]
  /\ tx' = IF e[2] \in live
           THEN [tx EXCEPT ![s] = [NoTx EXCEPT !.kind = "relate", !.edges = {e}]]
           ELSE tx
  /\ OnlySync /\ UNCHANGED <<pc, cursor, graphVars, skewed, raced>>

UpsertRelation(s) ==
  /\ tx[s].kind = "relate" /\ home[s] = "homed"
  /\ rel' = rel \cup tx[s].edges
  /\ relpres' = [relpres EXCEPT ![s] = @ \cup tx[s].edges]
  /\ page' = [page EXCEPT ![s].kept = @ \cup tx[s].edges]
  /\ tx' = [tx EXCEPT ![s] = NoTx]
  /\ OnlySync /\ UNCHANGED <<pc, cursor, live, known, pres, fact, skewed, raced>>

\* TombstoneAbsent (a full pass: all that was not seen) and
\* TombstoneByIdentity (a delta pass: one gone identity at a time), in three
\* statements: delete the presence ...
Absent(s) == IF page[s].full THEN {pres[s] \ page[s].seen}
             ELSE {{h} : h \in page[s].gone.hosts}

DeletePresence(s, hs) ==
  /\ pc[s] = "retract" /\ tx[s] = NoTx /\ hs \in Absent(s)
  /\ hs \cap move[s].hosts = {}
  /\ tx' = [tx EXCEPT ![s] = [NoTx EXCEPT !.kind = "delete", !.hosts = hs]]
  /\ skewed' = skewed \cup {h \in hs : \E r \in Others(s) : Retracting(r, h)}
  /\ raced' = raced \cup {h \in hs : \E r \in Others(s) : Upserting(r, h)}
  /\ OnlySync /\ UNCHANGED <<pc, page, cursor, graphVars>>

\* Mutant: asks only whether this Source still observes the Entity.
LastPresence_OwnOnly(s, hs) == hs \cap pres[s] \cap live

\* ... find the Entities nobody else is committed to observe ...
LastPresence(s, hs) ==
  {h \in hs \cap pres[s] \cap live : \A r \in Others(s) : h \notin pres[r]}

FindDead(s) ==
  /\ tx[s].kind = "delete"
  /\ tx' = [tx EXCEPT ![s].kind = "bury", ![s].dead = LastPresence(s, tx[s].hosts)]
  /\ OnlySync /\ UNCHANGED <<pc, page, cursor, graphVars, skewed, raced>>

\* ... and, once their rows are free, mark them deleted and take their edges
\* with them.
Bury(dead) ==
  /\ live' = live \ dead
  /\ fact' = [h \in Hosts |-> IF h \in dead /\ fact[h] = "true" THEN "dead"
                              ELSE fact[h]]
  /\ run' = [h \in Hosts |-> IF h \in dead /\ run[h] = "current"
                             THEN "outlived" ELSE run[h]]

Unlocked(hs) ==
  ~ \E r \in Sources, h \in hs : tx[r].kind = "write" /\ h \in tx[r].hosts

retractRelationsFor(dead) ==
  /\ rel' = {e \in rel : ~Touches(e, dead)}
  /\ relpres' = [r \in Sources |-> {e \in relpres[r] : ~Touches(e, dead)}]

CommitTombstones(s) ==
  /\ tx[s].kind = "bury" /\ Unlocked(tx[s].dead)
  /\ home[s] = "homed" \/ tx[s].dead = {}
  /\ pres' = [pres EXCEPT ![s] = @ \ tx[s].hosts]
  /\ Bury(tx[s].dead) /\ retractRelationsFor(tx[s].dead)
  /\ tx' = [tx EXCEPT ![s] = NoTx]
  /\ IF page[s].full
     THEN pc' = [pc EXCEPT ![s] = "replace"] /\ UNCHANGED page
     ELSE page' = [page EXCEPT ![s].gone.hosts = @ \ tx[s].hosts] /\ UNCHANGED pc
  /\ UNCHANGED <<sor, changes, home, cursor, move, known, faults, skewed, raced>>

\* RetractSourceRelationPresenceExcept after a full pass; RetractRelation for
\* the edges a delta feed reports gone.
ReplaceRelations(s) ==
  /\ pc[s] = "replace"
  /\ IF page[s].full
     THEN /\ relpres' = [relpres EXCEPT ![s] = @ \cap page[s].kept]
          /\ rel' = IF relpres[s] \cup page[s].kept = {} THEN rel
                    ELSE {e \in rel : \E r \in Sources : e \in relpres'[r]}
     ELSE LET out == {e \in page[s].gone.edges : e[1] \in live /\ e[2] \in live}
          IN rel' = rel \ out /\ relpres' = [r \in Sources |-> relpres[r] \ out]
  /\ pc' = [pc EXCEPT ![s] = "cursor"]
  /\ OnlySync /\ UNCHANGED <<page, cursor, tx, live, known, pres, fact, skewed,
                             raced>>

\* Mutant: the cursor is taken when the pass ends, not when it began.
SetSyncCursor_AtEnd(s) ==
  /\ pc[s] = "cursor"
  /\ cursor' = IF s \in Delta /\ home[s] # "moved"
               THEN [cursor EXCEPT ![s] = [NoCursor EXCEPT !.set = TRUE]]
               ELSE cursor
  /\ pc' = [pc EXCEPT ![s] = "idle"] /\ page' = [page EXCEPT ![s] = NoPage]
  /\ OnlySync /\ UNCHANGED <<tx, graphVars, skewed, raced>>

\* The cursor is a row that goes with the Source's.
SetSyncCursor(s) ==
  /\ pc[s] = "cursor"
  /\ cursor' = IF s \in Delta /\ home[s] # "moved"
               THEN [cursor EXCEPT ![s] = [NoCursor EXCEPT !.set = TRUE, !.log = cursor[s].late]]
               ELSE cursor
  /\ pc' = [pc EXCEPT ![s] = "idle"] /\ page' = [page EXCEPT ![s] = NoPage]
  /\ OnlySync /\ UNCHANGED <<tx, graphVars, skewed, raced>>

-----------------------------------------------------------------------------
(* The Source moves to another Cell: sealed, then retired.                 *)

SealSourceForRehome(s) ==
  /\ home[s] = "homed"
  /\ home' = [home EXCEPT ![s] = "sealed"]
  /\ UNCHANGED <<worldVars, pc, page, cursor, tx, move, graphVars, faults, skewed, raced>>

\* CompleteRehome has the three statements of a retraction, over all the
\* Source observes, and deletes the row; it leaves the Relations alone.  It
\* runs beside a pass of the Source's own Sync, and waits only for presence
\* rows that the pass has deleted and not committed.
BeginComplete(s) ==
  /\ home[s] = "sealed" /\ ~move[s].on
  /\ tx[s].kind \in {"delete", "bury"} => tx[s].hosts \cap pres[s] = {}
  /\ move' = [move EXCEPT ![s] = [on |-> TRUE, hosts |-> pres[s],
                                  dead |-> LastPresence(s, pres[s])]]
  /\ skewed' = skewed \cup {h \in pres[s] : \E r \in Others(s) : Retracting(r, h)}
  /\ raced' = raced \cup {h \in pres[s] : \E r \in Others(s) : Upserting(r, h)}
  /\ UNCHANGED <<worldVars, home, pc, page, cursor, tx, graphVars, faults>>

\* Mutant: the Source row goes without the tombstones of what only it observed.
CommitComplete_NoTombstone(s) ==
  /\ move[s].on /\ Unlocked(move[s].dead) /\ relpres[s] = {}
  /\ pres' = [pres EXCEPT ![s] = {}]
  /\ skewed' = skewed \cup (pres[s] \ move[s].hosts)
  /\ home' = [home EXCEPT ![s] = "moved"]
  /\ cursor' = [cursor EXCEPT ![s] = NoCursor]
  /\ move' = [move EXCEPT ![s] = NoMove]
  /\ UNCHANGED <<worldVars, pc, page, tx, live, known, rel, relpres, fact, faults, raced>>

\* The row takes the presence with it that the pass committed meanwhile.
CommitComplete(s) ==
  /\ move[s].on /\ Unlocked(move[s].dead) /\ relpres[s] = {}
  /\ pres' = [pres EXCEPT ![s] = {}]
  /\ Bury(move[s].dead)
  /\ skewed' = skewed \cup (pres[s] \ move[s].hosts)
  /\ home' = [home EXCEPT ![s] = "moved"]
  /\ cursor' = [cursor EXCEPT ![s] = NoCursor]
  /\ move' = [move EXCEPT ![s] = NoMove]
  /\ UNCHANGED <<sor, changes, pc, page, tx, known, rel, relpres, faults, raced>>

\* The row would take the presence of Relations too, which the trigger on
\* relation_presence refuses the re-home; that, or any error, rolls it back.
CompleteFails(s) ==
  /\ move[s].on
  /\ \/ relpres[s] # {} /\ UNCHANGED faults
     \/ faults < MaxFaults /\ faults' = faults + 1
  /\ move' = [move EXCEPT ![s] = NoMove]
  /\ UNCHANGED <<worldVars, home, pc, page, cursor, tx, graphVars, skewed, raced>>

-----------------------------------------------------------------------------
SyncStep(s) ==
  \/ Observe(s) \/ Refused(s)
  \/ \E h \in Hosts : ReadEntity(s, h)
  \/ WriteEntity(s) \/ CommitEntity(s)
  \/ Turn(s, "apply", "relate", page[s].todo = {})
  \/ \E e \in Edges : LookUp(s, e)
  \/ UpsertRelation(s)
  \/ Turn(s, "relate", "retract", page[s].rtodo = {})
  \/ \E hs \in Absent(s) : DeletePresence(s, hs)
  \/ FindDead(s) \/ CommitTombstones(s)
  \/ Turn(s, "retract", "replace", ~page[s].full /\ page[s].gone.hosts = {})
  \/ ReplaceRelations(s) \/ SetSyncCursor(s)

Next ==
  \/ \E s \in Sources, h \in Hosts : HostChanges(s, h)
  \/ \E s \in Sources, e \in Edges : EdgeChanges(s, e)
  \/ \E h \in Targets : RunStarts(h) \/ RunWrites(h)
  \/ \E s \in Sources : SyncStep(s) \/ SyncFails(s)
  \/ \E s \in Movers :
       \/ SealSourceForRehome(s) \/ BeginComplete(s)
       \/ CommitComplete(s) \/ CompleteFails(s)

Spec == Init /\ [][Next]_vars

\* SyncLoop turns, whatever becomes of one pass, and a transaction that waits
\* for a row is queued: it has it when those before it are done.
FairSpec == Spec /\ \A s \in Sources : SF_vars(SyncStep(s))

-----------------------------------------------------------------------------
TypeOK ==
  /\ sor \in [Sources -> Listings]
  /\ changes \in 0 .. MaxChanges
  /\ home \in [Sources -> {"homed", "sealed", "moved"}]
  /\ pc \in [Sources -> Stages]
  /\ page \in [Sources ->
       [todo : SUBSET Hosts, rtodo : SUBSET Edges, kept : SUBSET Edges,
        seen : SUBSET Hosts, full : BOOLEAN, gone : Listings]]
  /\ cursor \in [Sources -> [set : BOOLEAN, log : Listings, late : Listings]]
  /\ tx \in [Sources ->
       [kind : {"none", "insert", "read", "write", "relate", "delete", "bury"},
        hosts : SUBSET Hosts, dead : SUBSET Hosts, edges : SUBSET Edges]]
  /\ move \in [Sources -> [on : BOOLEAN, hosts : SUBSET Hosts, dead : SUBSET Hosts]]
  /\ live \subseteq known /\ known \subseteq Hosts /\ rel \subseteq Edges
  /\ pres \in [Sources -> SUBSET Hosts] /\ relpres \in [Sources -> SUBSET rel]
  /\ run \in [Hosts -> {"none", "current", "outlived"}]
  /\ fact \in [Hosts -> {"none", "true", "dead", "late"}]
  /\ faults \in 0 .. MaxFaults
  /\ skewed \subseteq Hosts /\ raced \subseteq Hosts

\* An Entity lives only while some Source observes it, unless two Sources
\* stopped observing it in overlapping transactions, or the Source's own Sync
\* first observed it while CompleteRehome was retiring that Source.
LiveIsPresent ==
  \A h \in live \ skewed : \E s \in Sources : h \in pres[s]

\* An Entity some Source observes is never marked deleted, unless it was
\* retracted by one Source while another was writing it.
PresentIsLive ==
  \A s \in Sources : pres[s] \ raced \subseteq live

\* The Facets a Run wrote on an Entity that was tombstoned since are gone by
\* the time its identity lives again.
FactsDieWithHost == \A h \in live \ raced : fact[h] # "dead"

\* Once the world is quiet the graph agrees with it: what lives is what the
\* systems of record list, and an edge of a full feed between live Entities
\* is there.
Observed(s) == IF home[s] = "homed" THEN sor[s].hosts ELSE pres[s]
Converges ==
  <>[](/\ \A h \in Hosts \ (skewed \cup raced) :
            h \in live <=> \E s \in Sources : h \in Observed(s)
       /\ \A s \in Sources \ Delta : home[s] = "homed" =>
            \A e \in sor[s].edges : e[2] \in live \ (skewed \cup raced) => e \in rel)

\* Liveness is a union over the Sources, whatever overlaps.
LivenessIsUnion == \A h \in live : \E s \in Sources : h \in pres[s]
=============================================================================
