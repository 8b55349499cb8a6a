---------------------------- MODULE SourceRehome ----------------------------
(***************************************************************************)
(* The home of one Source in a fleet of Cells.  Every Cell has a Postgres  *)
(* of its own: its graph.source row, when it has one, says that the Cell   *)
(* homes the Source, and whether the Source is sealed for a move.          *)
(*                                                                         *)
(* On every Cell a supervisor (homegate.Supervise) looks the home up, asks *)
(* the peers when its own graph has no row, claims the Source when nobody  *)
(* has it, and runs the Syncer.  RehomeSourceWorkflow moves the Source:    *)
(* seal the row, have the destination adopt it over HTTP, retire the row;  *)
(* a failed adopt is compensated by an abort.  A sweep on every Cell       *)
(* reports a Source that two Cells home.                                   *)
(***************************************************************************)
EXTENDS Naturals, FiniteSets

CONSTANTS
  Cells,        \* the Cells; the Connector is deployed on each
  Movers,       \* the Cells whose API is asked to move the Source away
  MaxAttempts,  \* attempts of an activity (3 in the code)
  MaxMoves,     \* bound: re-homes requested
  MaxFaults,    \* bound: restarts, silent peers and failed database calls
  Faults        \* which of the faults below occur

\* "probe"  a peer does not answer a home probe
\* "reply"  the adopt request fails in transport
\* "late"   an adopt whose request failed may still arrive
\* "store"  a database call fails, before or after it committed
\* "crash"  a daemon restarts, or another replica becomes leader
FaultNames == {"probe", "reply", "late", "store", "crash"}

Nobody == "nobody"
NoRow  == [homed |-> FALSE, to |-> Nobody, epoch |-> 0]
Row(to, epoch) == [homed |-> TRUE, to |-> to, epoch |-> epoch]

ASSUME ConstantsAssumption ==
  /\ Nobody \notin Cells
  /\ Movers \subseteq Cells
  /\ MaxAttempts \in Nat \ {0}
  /\ MaxMoves \in Nat /\ MaxFaults \in Nat
  /\ Faults \subseteq FaultNames

VARIABLES
  row,       \* each Cell's graph.source row: sealed for whom, at what epoch
  held,      \* the row whose id the Cell's Syncer writes under
  sup,       \* the pc of each supervisor
  ask,       \* the peers it has yet to probe, and whether one was silent
  served,    \* the Cells whose graph shows the Source's Entities as live
  note,      \* the open Findings of each Cell about the Source
  move,      \* the re-home workflow of each Cell
  posts,     \* adopt requests under way
  moves,     \* re-homes requested so far
  faults,    \* bounded faults so far
  doubt      \* history: a claim or an abort that could not know better

supVars  == <<held, sup, ask>>
moveVars == <<move, posts, moves>>
vars     == <<row, supVars, served, note, moveVars, faults, doubt>>

Peers(c)  == Cells \ {c}
Homed(c)  == row[c].homed
Sealed(c) == Homed(c) /\ row[c].to # Nobody
\* The Cells that home the Source and may write its projection.
Writers   == {c \in Cells : Homed(c) /\ ~Sealed(c)}

Stages    == {"idle", "grant", "seal", "adopt", "posted", "complete", "abort"}
NotAsking == [left |-> {}, silent |-> FALSE]
Idle      == [pc |-> "idle", dest |-> Nobody, epoch |-> 0, tries |-> 0]

Init ==
  /\ row = [c \in Cells |-> NoRow]
  /\ held = [c \in Cells |-> "none"]
  /\ sup = [c \in Cells |-> "resolve"]
  /\ ask = [c \in Cells |-> NotAsking]
  /\ served = {}
  /\ note = [c \in Cells |-> {}]
  /\ move = [c \in Cells |-> Idle]
  /\ posts = {}
  /\ moves = 0 /\ faults = 0 /\ doubt = FALSE

-----------------------------------------------------------------------------
(* The supervisor.                                                         *)

OpenNote(c, f) == note' = [note EXCEPT ![c] = @ \cup {f}]
CloseNote(c, f) == note' = [note EXCEPT ![c] = @ \ {f}]
Goes(c, pc) == /\ sup' = [sup EXCEPT ![c] = pc]
               /\ ask' = [ask EXCEPT ![c] = NotAsking]
Asks(c) == /\ sup' = [sup EXCEPT ![c] = "probe"]
           /\ ask' = [ask EXCEPT ![c] = [left |-> Peers(c), silent |-> FALSE]]
OnlySupervisor == UNCHANGED moveVars
Fault(f) == /\ f \in Faults /\ faults < MaxFaults
            /\ faults' = faults + 1
NoFault  == UNCHANGED faults

\* Mutant: any row of its own makes the supervisor stand by.
Resolve_KeepsStandingBy(c) ==
  /\ sup[c] = "resolve"
  /\ \/ Homed(c) /\ CloseNote(c, "standby") /\ Goes(c, "resolve")
     \/ ~Homed(c) /\ Asks(c) /\ UNCHANGED note
  /\ NoFault /\ OnlySupervisor /\ UNCHANGED <<row, held, served, doubt>>

\* Resolver.Resolve, the local half: a sealed row makes the supervisor stand
\* by (it sleeps and looks again), an unsealed one makes it claim.
Resolve(c) ==
  /\ sup[c] = "resolve"
  /\ \/ Sealed(c) /\ CloseNote(c, "standby") /\ Goes(c, "resolve")
     \/ Homed(c) /\ ~Sealed(c) /\ Goes(c, "claim") /\ UNCHANGED note
     \/ ~Homed(c) /\ Asks(c) /\ UNCHANGED note
  /\ NoFault /\ OnlySupervisor /\ UNCHANGED <<row, held, served, doubt>>

\* A read that fails counts as no row.
ResolveFails(c) ==
  /\ sup[c] = "resolve" /\ Fault("store")
  /\ Asks(c)
  /\ OnlySupervisor /\ UNCHANGED <<row, held, served, note, doubt>>

\* A peer that homes the Source, sealed or not, makes the supervisor stand by.
Probe(c, p) ==
  /\ sup[c] = "probe" /\ p \in ask[c].left
  /\ \/ /\ Homed(p) /\ NoFault
        /\ CloseNote(c, "standby") /\ Goes(c, "resolve")
     \/ /\ ~Homed(p) /\ NoFault
        /\ ask' = [ask EXCEPT ![c].left = @ \ {p}]
        /\ UNCHANGED <<note, sup>>
     \/ /\ Fault("probe")
        /\ ask' = [ask EXCEPT ![c] = [left |-> @.left \ {p}, silent |-> TRUE]]
        /\ UNCHANGED <<note, sup>>
  /\ OnlySupervisor /\ UNCHANGED <<row, held, served, doubt>>

\* No peer homes it: claim it, unless one of them did not answer.
Probed(c) ==
  /\ sup[c] = "probe" /\ ask[c].left = {}
  /\ IF ask[c].silent THEN OpenNote(c, "standby") /\ Goes(c, "resolve")
                      ELSE Goes(c, "claim") /\ UNCHANGED note
  /\ NoFault /\ OnlySupervisor /\ UNCHANGED <<row, held, served, doubt>>

\* Mutant: the upsert resets the row it finds, its seal included.
RegisterSource_ResetsSeal(c) ==
  /\ row' = [row EXCEPT ![c] = Row(Nobody, IF Homed(c) THEN @.epoch ELSE 0)]
  /\ doubt' = (doubt \/ (~Homed(c) /\ \E p \in Peers(c) : Homed(p)))

\* Graph.RegisterSource: an insert, or an upsert that leaves the seal and the
\* epoch alone.
RegisterSource(c) ==
  /\ row' = [row EXCEPT ![c] = IF Homed(c) THEN @ ELSE Row(Nobody, 0)]
  /\ doubt' = (doubt \/ (~Homed(c) /\ \E p \in Peers(c) : Homed(p)))

\* Host.Register: the Source row and the owner registrations, then run.
Register(c) ==
  /\ sup[c] = "claim"
  /\ RegisterSource(c)
  /\ held' = [held EXCEPT ![c] = "row"]
  /\ CloseNote(c, "standby") /\ Goes(c, "run")
  /\ NoFault /\ OnlySupervisor /\ UNCHANGED served

\* The claim fails, perhaps after the row was written.
RegisterFails(c) ==
  /\ sup[c] = "claim" /\ Fault("store")
  /\ RegisterSource(c) \/ UNCHANGED <<row, doubt>>
  /\ OpenNote(c, "standby") /\ Goes(c, "resolve")
  /\ OnlySupervisor /\ UNCHANGED <<held, served>>

\* Host.Sync under SyncLoop.  The write is refused while the row is sealed
\* (enforce_write_path) and once the row is gone (entity_presence's foreign
\* key); a refusal is logged and the loop goes on.
Sync(c) ==
  /\ sup[c] = "run" /\ held[c] = "row" /\ ~Sealed(c)
  /\ served' = served \cup {c}
  /\ NoFault /\ OnlySupervisor /\ UNCHANGED <<row, supVars, note, doubt>>

\* The daemon restarts, or another replica becomes leader.
Restart(c) ==
  /\ Fault("crash")
  /\ Goes(c, "resolve")
  /\ held' = [held EXCEPT ![c] = "none"]
  /\ UNCHANGED <<row, served, note, moveVars, doubt>>

\* Mutant: only a sealed peer counts as a collision.
Sweep_AsksForSealed(c, answering) ==
  /\ c \in Writers
  /\ IF answering = Peers(c) THEN NoFault ELSE Fault("probe")
  /\ IF \E p \in answering : Sealed(p)
     THEN OpenNote(c, "collision") ELSE CloseNote(c, "collision")
  /\ UNCHANGED <<row, supVars, served, moveVars, doubt>>

\* Reconciler.sweep: over the peers that answer.
Sweep(c, answering) ==
  /\ c \in Writers
  /\ IF answering = Peers(c) THEN NoFault ELSE Fault("probe")
  /\ IF \E p \in answering : p \in Writers
     THEN OpenNote(c, "collision") ELSE CloseNote(c, "collision")
  /\ UNCHANGED <<row, supVars, served, moveVars, doubt>>

-----------------------------------------------------------------------------
(* RehomeSourceWorkflow, on the Cell that homes the Source.                *)

OnlyMove == UNCHANGED <<supVars, faults>>
Step(c, pc) == move' = [move EXCEPT ![c].pc = pc, ![c].tries = 0]
EndMove(c)  == move' = [move EXCEPT ![c] = Idle]

\* An attempt failed: Temporal retries it, or the workflow goes on to `then'.
Attempt(c, then) ==
  LET n == move[c]
  IN move' = [move EXCEPT ![c] =
                IF n.tries + 1 < MaxAttempts THEN [n EXCEPT !.tries = n.tries + 1]
                ELSE IF then = "idle" THEN Idle
                ELSE [n EXCEPT !.pc = then, !.tries = 0]]

\* POST /sources/{name}/rehome on the home Cell; one open workflow per id.
RehomeSource(c, d) ==
  /\ c \in Movers /\ d \in Peers(c)
  /\ moves < MaxMoves /\ Homed(c) /\ move[c].pc = "idle"
  /\ moves' = moves + 1
  /\ move' = [move EXCEPT ![c] = [Idle EXCEPT !.pc = "grant", !.dest = d]]
  /\ OnlyMove /\ UNCHANGED <<row, served, note, posts, doubt>>

CheckRehomeGrant(c) ==
  /\ move[c].pc = "grant"
  /\ Step(c, "seal") \/ EndMove(c)
  /\ OnlyMove /\ UNCHANGED <<row, served, note, posts, moves, doubt>>

\* SealSourceForRehome, then the Finding that shows the seal.  An error of
\* the first is final, an error of the second is retried, seal included.
SealSource(c) ==
  /\ move[c].pc = "seal"
  /\ \/ /\ ~Homed(c) \/ (Sealed(c) /\ row[c].to # move[c].dest)
        /\ EndMove(c) /\ NoFault /\ UNCHANGED <<row, note>>
     \/ /\ Homed(c) /\ row[c].to \in {Nobody, move[c].dest}
        /\ row' = [row EXCEPT ![c] = Row(move[c].dest, @.epoch + 1)]
        /\ \/ /\ OpenNote(c, "stuck") /\ NoFault
              /\ move' = [move EXCEPT ![c] = [pc |-> "adopt", dest |-> @.dest,
                                      epoch |-> row[c].epoch + 1, tries |-> 0]]
           \/ /\ Fault("store") /\ UNCHANGED note
              /\ Attempt(c, "idle") \/ EndMove(c)
  /\ UNCHANGED <<supVars, served, posts, moves, doubt>>

\* ForwardAdopt: the request goes out ...
ForwardAdopt(c) ==
  /\ move[c].pc = "adopt"
  /\ posts' = posts \cup {[from |-> c, dest |-> move[c].dest,
                           epoch |-> move[c].epoch, try |-> move[c].tries,
                           awaited |-> TRUE]}
  /\ move' = [move EXCEPT ![c].pc = "posted"]
  /\ OnlyMove /\ UNCHANGED <<row, served, note, moves, doubt>>

\* ... and is answered, or fails in transport and may yet arrive: what it comes
\* to then reaches nobody.
Retry(c) ==
  LET n == move[c]
  IN move' = [move EXCEPT ![c] =
                IF n.tries + 1 < MaxAttempts
                THEN [n EXCEPT !.pc = "adopt", !.tries = n.tries + 1]
                ELSE [n EXCEPT !.pc = "abort", !.tries = 0]]

PostFails(m) ==
  /\ "reply" \in Faults /\ m \in posts /\ m.awaited
  /\ Retry(m.from)
  /\ posts' = IF "late" \in Faults THEN (posts \ {m}) \cup {[m EXCEPT !.awaited = FALSE]}
              ELSE posts \ {m}
  /\ OnlyMove /\ UNCHANGED <<row, served, note, moves, doubt>>

\* Mutant: a refusal is taken for an answer.
AdoptRefused_Completes(m) ==
  /\ m \in posts /\ posts' = posts \ {m}
  /\ IF m.awaited THEN Step(m.from, "complete") ELSE UNCHANGED move
  /\ OnlyMove /\ UNCHANGED <<row, served, note, moves, doubt>>

\* AdoptRehomedSource refuses: the grant, or the destination's database.
AdoptRefused(m) ==
  /\ m \in posts /\ posts' = posts \ {m}
  /\ IF m.awaited THEN Step(m.from, "abort") ELSE UNCHANGED move
  /\ OnlyMove /\ UNCHANGED <<row, served, note, moves, doubt>>

\* AdoptSource: an insert, or an upsert fenced by the row's own epoch.
Adopted(r, epoch) ==
  IF r.homed /\ r.epoch >= epoch THEN r ELSE Row(Nobody, epoch)

AdoptSource(m) ==
  /\ m \in posts /\ posts' = posts \ {m}
  /\ row' = [row EXCEPT ![m.dest] = Adopted(@, m.epoch)]
  /\ IF m.awaited
     THEN Step(m.from, "complete") \/ ("reply" \in Faults /\ Retry(m.from))
     ELSE UNCHANGED move
  /\ OnlyMove /\ UNCHANGED <<served, note, moves, doubt>>

\* AbortSourceRehome: un-seal and bump the epoch, then resolve the Finding.
Unsealed(r) == IF r.to # Nobody THEN Row(Nobody, r.epoch + 1) ELSE r

AbortSourceRehome(c) ==
  /\ move[c].pc = "abort"
  /\ \/ row' = [row EXCEPT ![c] = Unsealed(@)] /\ CloseNote(c, "stuck")
        /\ EndMove(c) /\ NoFault
     \/ /\ Fault("store")
        /\ row' \in {row, [row EXCEPT ![c] = Unsealed(@)]}
        /\ Attempt(c, "idle") /\ UNCHANGED note
  /\ doubt' = (doubt \/ Homed(move[c].dest) \/ \E m \in posts : m.from = c)
  /\ UNCHANGED <<supVars, served, posts, moves>>

\* Mutant: the row goes and its Entities stay.
CompleteRehome_KeepsEntities(c) ==
  /\ row' = [row EXCEPT ![c] = NoRow]
  /\ held' = [held EXCEPT ![c] = IF @ = "row" THEN "gone" ELSE @]
  /\ UNCHANGED served

\* CompleteRehome retires the Entities and the row in one transaction; the
\* Finding is resolved after it, and a retry finds no row.
CompleteRehome(c) ==
  /\ row' = [row EXCEPT ![c] = NoRow]
  /\ served' = served \ {c}
  /\ held' = [held EXCEPT ![c] = IF @ = "row" THEN "gone" ELSE @]

CompleteSourceRehome(c) ==
  /\ move[c].pc = "complete"
  /\ \/ /\ Sealed(c) /\ CompleteRehome(c)
        /\ \/ CloseNote(c, "stuck") /\ EndMove(c) /\ NoFault
           \/ Fault("store") /\ Attempt(c, "idle") /\ UNCHANGED note
     \/ /\ (~Sealed(c) /\ NoFault) \/ Fault("store")
        /\ Attempt(c, "idle") /\ UNCHANGED <<row, served, held, note>>
  /\ UNCHANGED <<sup, ask, posts, moves, doubt>>

-----------------------------------------------------------------------------
Probing(c) == (\E p \in Cells : Probe(c, p)) \/ Probed(c)
Supervise(c) == Resolve(c) \/ Probing(c) \/ Register(c) \/ Sync(c)

MoveStep(c) == \/ CheckRehomeGrant(c) \/ SealSource(c) \/ ForwardAdopt(c)
               \/ AbortSourceRehome(c) \/ CompleteSourceRehome(c)

Answer == \E m \in posts : PostFails(m) \/ AdoptRefused(m) \/ AdoptSource(m)

Next == \/ \E c \in Cells : Supervise(c) \/ ResolveFails(c) \/ RegisterFails(c)
        \/ \E c \in Cells : Restart(c) \/ MoveStep(c)
        \/ \E c \in Cells : \E answering \in SUBSET Peers(c) : Sweep(c, answering)
        \/ \E c, d \in Cells : RehomeSource(c, d)
        \/ Answer

Spec == Init /\ [][Next]_vars

\* A leader's loops turn, and a sweep keeps reaching every peer.
FairSpec ==
  /\ Spec
  /\ \A c \in Cells : WF_vars(Supervise(c)) /\ WF_vars(Sweep(c, Peers(c)))

-----------------------------------------------------------------------------
TypeOK ==
  /\ row \in [Cells -> [homed : BOOLEAN, to : Cells \cup {Nobody}, epoch : Nat]]
  /\ held \in [Cells -> {"none", "row", "gone"}]
  /\ sup \in [Cells -> {"resolve", "probe", "claim", "run"}]
  /\ ask \in [Cells -> [left : SUBSET Cells, silent : BOOLEAN]]
  /\ served \subseteq Cells
  /\ note \in [Cells -> SUBSET {"stuck", "collision", "standby"}]
  /\ move \in [Cells -> [pc : Stages, dest : Cells \cup {Nobody},
                         epoch : Nat, tries : 0 .. MaxAttempts - 1]]
  /\ posts \subseteq [from : Cells, dest : Cells, epoch : Nat,
                      try : 0 .. MaxAttempts - 1, awaited : BOOLEAN]
  /\ moves \in 0 .. MaxMoves /\ faults \in 0 .. MaxFaults
  /\ doubt \in BOOLEAN

\* Two Cells never write the Source's projection, except after a claim made
\* on a look at the fleet that was already stale, or an abort of a move whose
\* adopt had reached, or could still reach, the destination.
OneWriter == Cardinality(Writers) > 1 => doubt

\* A Cell that handed the Source over stops serving its Entities, even though
\* the Syncer that projected them is never told and keeps syncing.
ServedIsHomed == \A c \in served : Homed(c)

\* A move never loses the Source: once a Cell homes it, some Cell does.
SourceSurvives ==
  [][(\E c \in Cells : Homed(c)) => \E c \in Cells : Homed(c)']_vars

\* Two Cells that keep on writing one Source are reported by each of them.
CollisionIsReported ==
  \A c \in Cells : <>[](c \in Writers /\ Cardinality(Writers) > 1)
                     => []<>("collision" \in note[c])

\* The Cell that homes the Source for good comes to project it: the standby
\* Connector at the destination takes over by itself.
HomedIsProjected ==
  \A c \in Cells : <>[](c \in Writers) => <>(c \in served)

\* While a Source is sealed with no move under way, a Finding says so.
SealIsShown ==
  \A c \in Cells : Sealed(c) /\ move[c].pc = "idle" => "stuck" \in note[c]

\* An adopt that arrives after its move was aborted changes nothing.
AbortFencesAdopt ==
  [][\A m \in posts : AdoptSource(m) /\ row' # row => Sealed(m.from)]_vars

\* A supervisor whose Source was moved away comes to stand by.
MovedAwayStandsBy ==
  \A c \in Cells : <>[](~Homed(c)) => <>[](sup[c] # "run")
=============================================================================
