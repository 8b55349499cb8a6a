------------------------- MODULE SourceRehomeProofs -------------------------
(***************************************************************************)
(* Proofs about SourceRehome for every number of Cells, attempts, moves    *)
(* and faults.                                                             *)
(***************************************************************************)
EXTENDS SourceRehome, FiniteSetTheorems, TLAPS

Rows  == [homed : BOOLEAN, to : Cells \cup {Nobody}, epoch : Nat]
Moves == [pc : Stages, dest : Cells \cup {Nobody}, epoch : Nat,
          tries : 0 .. MaxAttempts - 1]
Posts == [from : Cells, dest : Cells, epoch : Nat, try : 0 .. MaxAttempts - 1,
          awaited : BOOLEAN]

\* What the proofs need of the types.
Shapes ==
  /\ row \in [Cells -> Rows] /\ move \in [Cells -> Moves]
  /\ posts \subseteq Posts /\ doubt \in BOOLEAN
  /\ held \in [Cells -> {"none", "row", "gone"}]
  /\ served \subseteq Cells
  /\ \A c \in Cells : row[c].homed = FALSE => row[c].to = Nobody
  /\ \A c \in Cells : move[c].pc # "idle" => move[c].dest \in Peers(c)

\* A Syncer that writes under a row has one.
HeldIsHomed == \A c \in Cells : held[c] = "row" => Homed(c)

\* A move that has posted its request waits for that one.
Awaits ==
  \A p \in posts : p.awaited =>
    /\ move[p.from].pc = "posted" /\ p.dest = move[p.from].dest
    /\ \A q \in posts : q.awaited /\ q.from = p.from => q = p

ServedInv == Shapes /\ HeldIsHomed /\ ServedIsHomed

-----------------------------------------------------------------------------
\* A move with another stage and count of attempts.
LEMMA Restaged ==
  ASSUME NEW n \in Moves, NEW pc \in Stages, NEW tries \in 0 .. MaxAttempts - 1
  PROVE  \E q \in Moves : /\ q = [n EXCEPT !.pc = pc, !.tries = tries]
                          /\ q.pc = pc /\ q.dest = n.dest /\ q.epoch = n.epoch
<1> DEFINE q == [n EXCEPT !.pc = pc, !.tries = tries]
<1>1. q \in Moves /\ q.pc = pc /\ q.dest = n.dest /\ q.epoch = n.epoch
  BY DEF Moves
<1> QED BY <1>1

\* A retried attempt is a move of the same destination, or none.
LEMMA AttemptShape ==
  ASSUME Shapes, NEW c \in Cells, Attempt(c, "idle")
  PROVE  \E n \in Moves : /\ move' = [move EXCEPT ![c] = n]
                          /\ n.pc \in {move[c].pc, "idle"}
                          /\ n.pc # "idle" => n.dest = move[c].dest /\ n.epoch = move[c].epoch
<1> DEFINE k == move[c].tries
           n == [move[c] EXCEPT !.tries = k + 1]
<1>1. move[c] \in Moves /\ Idle \in Moves /\ Idle.pc = "idle"
  BY ConstantsAssumption DEF Shapes, Moves, Idle, Stages
<1>2. CASE k + 1 < MaxAttempts
  <2>1. move' = [move EXCEPT ![c] = n]
    BY <1>2 DEF Attempt
  <2>2. n \in Moves /\ n.pc = move[c].pc /\ n.dest = move[c].dest /\ n.epoch = move[c].epoch
    BY <1>1, <1>2, ConstantsAssumption DEF Moves
  <2> QED BY <2>1, <2>2
<1>3. CASE ~(k + 1 < MaxAttempts)
  BY <1>1, <1>3 DEF Attempt
<1> QED BY <1>2, <1>3

\* The same for the retries of the adopt.
LEMMA RetryShape ==
  ASSUME Shapes, NEW c \in Cells, Retry(c)
  PROVE  \E n \in Moves : /\ move' = [move EXCEPT ![c] = n]
                          /\ n.pc \in {"adopt", "abort"}
                          /\ n.dest = move[c].dest /\ n.epoch = move[c].epoch
<1> DEFINE k == move[c].tries
<1>1. move[c] \in Moves /\ "adopt" \in Stages /\ "abort" \in Stages
  BY DEF Shapes, Stages
<1>2. 0 \in 0 .. MaxAttempts - 1 /\ (k + 1 < MaxAttempts => k + 1 \in 0 .. MaxAttempts - 1)
  BY <1>1, ConstantsAssumption DEF Moves
<1>3. CASE k + 1 < MaxAttempts
  <2>1. PICK q \in Moves : /\ q = [move[c] EXCEPT !.pc = "adopt", !.tries = k + 1]
                           /\ q.pc = "adopt" /\ q.dest = move[c].dest /\ q.epoch = move[c].epoch
    BY <1>1, <1>2, <1>3, Restaged
  <2> QED BY <1>3, <2>1 DEF Retry
<1>4. CASE ~(k + 1 < MaxAttempts)
  <2>1. PICK q \in Moves : /\ q = [move[c] EXCEPT !.pc = "abort", !.tries = 0]
                           /\ q.pc = "abort" /\ q.dest = move[c].dest /\ q.epoch = move[c].epoch
    BY <1>1, <1>2, Restaged
  <2> QED BY <1>4, <2>1 DEF Retry
<1> QED BY <1>3, <1>4

\* The same for a step to the next stage.
LEMMA StepShape ==
  ASSUME Shapes, NEW c \in Cells, NEW pc \in Stages, Step(c, pc)
  PROVE  \E n \in Moves : /\ move' = [move EXCEPT ![c] = n]
                          /\ n.pc = pc
                          /\ n.dest = move[c].dest /\ n.epoch = move[c].epoch
<1>1. move[c] \in Moves /\ 0 \in 0 .. MaxAttempts - 1
  BY ConstantsAssumption DEF Shapes
<1>2. move' = [move EXCEPT ![c] = [move[c] EXCEPT !.pc = pc, !.tries = 0]]
  BY DEF Step, Shapes
<1>3. PICK q \in Moves : /\ q = [move[c] EXCEPT !.pc = pc, !.tries = 0]
                         /\ q.pc = pc /\ q.dest = move[c].dest /\ q.epoch = move[c].epoch
  BY <1>1, Restaged
<1> QED BY <1>2, <1>3

\* Writing one move keeps the shapes.
LEMMA MoveShapes ==
  ASSUME Shapes, NEW c \in Cells, NEW n \in Moves, move' = [move EXCEPT ![c] = n],
         n.pc # "idle" => n.dest \in Peers(c)
  PROVE  /\ move' \in [Cells -> Moves]
         /\ \A d \in Cells : move'[d].pc # "idle" => move'[d].dest \in Peers(d)
BY DEF Shapes

\* Writing one row keeps the shapes.
LEMMA RowShapes ==
  ASSUME Shapes, NEW c \in Cells, NEW r \in Rows, row' = [row EXCEPT ![c] = r],
         r.homed = FALSE => r.to = Nobody
  PROVE  /\ row' \in [Cells -> Rows]
         /\ \A d \in Cells : row'[d].homed = FALSE => row'[d].to = Nobody
BY DEF Shapes

\* The supervisor: a claim inserts a row or leaves it alone.
LEMMA RegisterShapes ==
  ASSUME Shapes, NEW c \in Cells, RegisterSource(c)
  PROVE  /\ row' \in [Cells -> Rows] /\ doubt' \in BOOLEAN
         /\ \A d \in Cells : row'[d].homed = FALSE => row'[d].to = Nobody
         /\ \A d \in Cells : Homed(d) => row'[d] = row[d]
         /\ row'[c].homed
         /\ \A d \in Cells \ {c} : row'[d] = row[d]
         /\ ~Homed(c) => row'[c] = Row(Nobody, 0)
<1>1. Row(Nobody, 0) \in Rows /\ Row(Nobody, 0).homed
  BY DEF Row, Rows
<1>2. CASE Homed(c)
  <2>1. row' = row
    BY <1>2 DEF RegisterSource, Shapes
  <2> QED BY <1>2, <2>1 DEF RegisterSource, Shapes, Homed
<1>3. CASE ~Homed(c)
  <2>1. row' = [row EXCEPT ![c] = Row(Nobody, 0)]
    BY <1>3 DEF RegisterSource
  <2>2. row' \in [Cells -> Rows] /\ \A d \in Cells : row'[d].homed = FALSE => row'[d].to = Nobody
    BY <1>1, <2>1, RowShapes
  <2> QED BY <1>1, <1>3, <2>1, <2>2 DEF RegisterSource, Shapes, Homed
<1> QED BY <1>2, <1>3

\* Supervisors and sweeps keep what ServedIsHomed rests on.
LEMMA SuperviseServed ==
  ASSUME ServedInv, NEW c \in Cells,
         \/ Supervise(c) \/ ResolveFails(c) \/ RegisterFails(c) \/ Restart(c)
         \/ \E answering \in SUBSET Peers(c) : Sweep(c, answering)
  PROVE  ServedInv'
<1> USE DEF ServedInv
<1>1. CASE UNCHANGED <<row, held, served, move, posts, doubt>>
  BY <1>1 DEF Shapes, HeldIsHomed, ServedIsHomed, Homed
<1>2. CASE Resolve(c) \/ Probing(c) \/ ResolveFails(c)
           \/ \E answering \in SUBSET Peers(c) : Sweep(c, answering)
  BY <1>1, <1>2 DEF Resolve, Probing, Probe, Probed, ResolveFails, Sweep, OnlySupervisor,
                    moveVars, supVars
<1>3. CASE Register(c)
  <2>1. /\ RegisterSource(c) /\ held' = [held EXCEPT ![c] = "row"]
        /\ UNCHANGED <<served, move, posts>>
    BY <1>3 DEF Register, OnlySupervisor, moveVars
  <2> QED BY <2>1, RegisterShapes DEF Shapes, HeldIsHomed, ServedIsHomed, Homed
<1>4. CASE RegisterFails(c)
  <2>1. UNCHANGED <<served, held, move, posts>>
    BY <1>4 DEF RegisterFails, OnlySupervisor, moveVars
  <2>2. CASE RegisterSource(c)
    BY <2>1, <2>2, RegisterShapes DEF Shapes, HeldIsHomed, ServedIsHomed, Homed
  <2>3. CASE UNCHANGED <<row, doubt>>
    BY <1>1, <2>1, <2>3
  <2> QED BY <1>4, <2>2, <2>3 DEF RegisterFails
<1>5. CASE Sync(c)
  BY <1>5 DEF Sync, OnlySupervisor, moveVars, supVars, Shapes, HeldIsHomed, ServedIsHomed, Homed
<1>6. CASE Restart(c)
  BY <1>6 DEF Restart, moveVars, Shapes, HeldIsHomed, ServedIsHomed, Homed
<1> QED BY <1>2, <1>3, <1>4, <1>5, <1>6 DEF Supervise

\* A move that ended.
LEMMA IdleShape == Idle \in Moves /\ Idle.pc = "idle"
BY ConstantsAssumption DEF Moves, Idle, Stages

\* The seal: refused, or a row sealed for the destination at a new epoch.
LEMMA SealShape ==
  ASSUME Shapes, NEW c \in Cells, SealSource(c)
  PROVE  /\ UNCHANGED <<held, served, posts, doubt>> /\ move[c].dest \in Peers(c)
         /\ move[c].pc = "seal"
         /\ \E n \in Moves :
              /\ move' = [move EXCEPT ![c] = n]
              /\ n.pc \in {"idle", "seal", "adopt"}
              /\ n.pc # "idle" => n.dest = move[c].dest
              /\ \/ UNCHANGED row /\ n.pc = "idle"
                 \/ /\ Homed(c) /\ row[c].to \in {Nobody, move[c].dest}
                    /\ \E e \in Nat : row' = [row EXCEPT ![c] = Row(move[c].dest, e)]
<1>1. move[c].pc = "seal" /\ move[c].dest \in Peers(c) /\ move[c] \in Moves /\ row[c] \in Rows
  BY DEF SealSource, Shapes
<1>2. UNCHANGED <<held, served, posts, doubt>>
  BY DEF SealSource, supVars
<1>3. CASE EndMove(c) /\ UNCHANGED row
  BY <1>1, <1>2, <1>3, IdleShape DEF EndMove
<1>4. ASSUME Homed(c), row[c].to \in {Nobody, move[c].dest},
             row' = [row EXCEPT ![c] = Row(move[c].dest, @.epoch + 1)]
      PROVE  \E e \in Nat : row' = [row EXCEPT ![c] = Row(move[c].dest, e)]
  <2>1. row[c].epoch + 1 \in Nat
    BY <1>1 DEF Rows
  <2>2. row' = [row EXCEPT ![c] = Row(move[c].dest, row[c].epoch + 1)]
    BY <1>4
  <2> QED BY <2>1, <2>2
<1>5. CASE /\ Homed(c) /\ row[c].to \in {Nobody, move[c].dest}
           /\ row' = [row EXCEPT ![c] = Row(move[c].dest, @.epoch + 1)]
           /\ move' = [move EXCEPT ![c] = [pc |-> "adopt", dest |-> @.dest,
                                   epoch |-> row[c].epoch + 1, tries |-> 0]]
  <2> DEFINE n == [pc |-> "adopt", dest |-> move[c].dest, epoch |-> row[c].epoch + 1, tries |-> 0]
  <2>1. n \in Moves
    BY <1>1, ConstantsAssumption DEF Moves, Rows, Stages
  <2>2. move' = [move EXCEPT ![c] = n]
    BY <1>5
  <2> QED BY <1>1, <1>2, <1>4, <1>5, <2>1, <2>2
<1>6. CASE /\ Homed(c) /\ row[c].to \in {Nobody, move[c].dest}
           /\ row' = [row EXCEPT ![c] = Row(move[c].dest, @.epoch + 1)]
           /\ Attempt(c, "idle")
  BY ZenonT(40), <1>1, <1>2, <1>4, <1>6, AttemptShape
<1>7. CASE /\ Homed(c) /\ row[c].to \in {Nobody, move[c].dest}
           /\ row' = [row EXCEPT ![c] = Row(move[c].dest, @.epoch + 1)]
           /\ EndMove(c)
  BY <1>1, <1>2, <1>4, <1>7, IdleShape DEF EndMove
<1> QED BY <1>3, <1>5, <1>6, <1>7 DEF SealSource

\* The abort: the row is unsealed or left alone, and the move ends or retries.
LEMMA AbortShape ==
  ASSUME Shapes, NEW c \in Cells, AbortSourceRehome(c)
  PROVE  /\ UNCHANGED <<held, served, posts>>
         /\ doubt' = (doubt \/ Homed(move[c].dest) \/ \E m \in posts : m.from = c)
         /\ move[c].pc = "abort" /\ move[c].dest \in Peers(c)
         /\ \E n \in Moves :
              /\ move' = [move EXCEPT ![c] = n]
              /\ n.pc \in {"idle", "abort"}
              /\ n.pc # "idle" => n.dest = move[c].dest
         /\ \E r \in Rows : /\ row' = [row EXCEPT ![c] = r]
                            /\ r.homed = row[c].homed
                            /\ r = row[c] \/ r.to = Nobody
<1>1. move[c].pc = "abort" /\ move[c].dest \in Peers(c) /\ move[c] \in Moves /\ row[c] \in Rows
  BY DEF AbortSourceRehome, Shapes
<1>2. /\ UNCHANGED <<held, served, posts>>
      /\ doubt' = (doubt \/ Homed(move[c].dest) \/ \E m \in posts : m.from = c)
  BY DEF AbortSourceRehome, supVars
<1>3. \E n \in Moves :
        /\ move' = [move EXCEPT ![c] = n]
        /\ n.pc \in {"idle", "abort"}
        /\ n.pc # "idle" => n.dest = move[c].dest
  BY <1>1, IdleShape, AttemptShape DEF AbortSourceRehome, EndMove
<1>4. /\ Unsealed(row[c]) \in Rows /\ Unsealed(row[c]).homed = row[c].homed
      /\ Unsealed(row[c]) = row[c] \/ Unsealed(row[c]).to = Nobody
  <2>1. row[c].homed \in BOOLEAN /\ row[c].epoch + 1 \in Nat
    BY <1>1 DEF Rows
  <2>2. row[c].to # Nobody => row[c].homed = TRUE
    BY <2>1 DEF Shapes
  <2>3. /\ Row(Nobody, row[c].epoch + 1) \in Rows /\ Row(Nobody, row[c].epoch + 1).homed = TRUE
        /\ Row(Nobody, row[c].epoch + 1).to = Nobody
    BY <2>1 DEF Rows, Row
  <2> QED BY <1>1, <2>2, <2>3 DEF Unsealed
<1>5. row' = [row EXCEPT ![c] = Unsealed(row[c])] \/ row' = [row EXCEPT ![c] = row[c]]
  BY DEF AbortSourceRehome, Shapes
<1> QED BY <1>1, <1>2, <1>3, <1>4, <1>5

\* The completion: the row and its Entities go together, or nothing does.
LEMMA CompleteShape ==
  ASSUME Shapes, NEW c \in Cells, CompleteSourceRehome(c)
  PROVE  /\ UNCHANGED <<posts, doubt>> /\ move[c].pc = "complete" /\ move[c].dest \in Peers(c)
         /\ \E n \in Moves :
              /\ move' = [move EXCEPT ![c] = n]
              /\ n.pc \in {"idle", "complete"}
              /\ n.pc # "idle" => n.dest = move[c].dest
         /\ \/ Sealed(c) /\ CompleteRehome(c)
            \/ UNCHANGED <<row, served, held>>
<1>1. move[c].pc = "complete" /\ move[c].dest \in Peers(c)
  BY DEF CompleteSourceRehome, Shapes
<1>2. \E n \in Moves :
        /\ move' = [move EXCEPT ![c] = n]
        /\ n.pc \in {"idle", "complete"}
        /\ n.pc # "idle" => n.dest = move[c].dest
  BY <1>1, IdleShape, AttemptShape DEF CompleteSourceRehome, EndMove
<1> QED BY <1>1, <1>2 DEF CompleteSourceRehome

\* The first steps of a move touch nothing but the move.
LEMMA BeginShape ==
  ASSUME Shapes, NEW c \in Cells, CheckRehomeGrant(c) \/ \E d \in Cells : RehomeSource(c, d)
  PROVE  /\ UNCHANGED <<row, held, served, posts, doubt>>
         /\ move[c].pc \in {"idle", "grant"}
         /\ move[c].pc = "idle" => c \in Movers
         /\ \E n \in Moves : /\ move' = [move EXCEPT ![c] = n]
                             /\ n.pc \in {"idle", "grant", "seal"}
                             /\ n.pc # "idle" => n.dest \in Peers(c)
<1>1. CASE CheckRehomeGrant(c)
  <2>1. move[c].pc = "grant" /\ move[c].dest \in Peers(c) /\ "seal" \in Stages
    BY <1>1 DEF CheckRehomeGrant, Shapes, Stages
  <2>2. CASE Step(c, "seal")
    BY <1>1, <2>1, <2>2, StepShape DEF CheckRehomeGrant, OnlyMove, supVars
  <2>3. CASE EndMove(c)
    BY <1>1, <2>1, <2>3, IdleShape DEF CheckRehomeGrant, EndMove, OnlyMove, supVars
  <2> QED BY <1>1, <2>2, <2>3 DEF CheckRehomeGrant
<1>2. ASSUME NEW d \in Cells, RehomeSource(c, d)
      PROVE  /\ UNCHANGED <<row, held, served, posts, doubt>>
             /\ move[c].pc = "idle" /\ c \in Movers
             /\ \E n \in Moves : /\ move' = [move EXCEPT ![c] = n]
                                 /\ n.pc = "grant" /\ n.dest \in Peers(c)
  <2> DEFINE n == [Idle EXCEPT !.pc = "grant", !.dest = d]
  <2>1. n \in Moves /\ n.pc = "grant" /\ n.dest = d
    BY IdleShape DEF Moves, Stages
  <2> QED BY <1>2, <2>1 DEF RehomeSource, OnlyMove, supVars
<1> QED BY <1>1, <1>2

\* The adopt request goes out.
LEMMA ForwardShape ==
  ASSUME Shapes, NEW c \in Cells, ForwardAdopt(c)
  PROVE  /\ UNCHANGED <<row, held, served, doubt>> /\ move[c].pc = "adopt"
         /\ move[c].dest \in Peers(c)
         /\ \E n \in Moves : /\ move' = [move EXCEPT ![c] = n]
                             /\ n.pc = "posted" /\ n.dest = move[c].dest
         /\ \E p \in Posts : /\ posts' = posts \cup {p}
                             /\ p.from = c /\ p.dest = move[c].dest /\ p.awaited
<1>1. move[c].pc = "adopt" /\ move[c].dest \in Peers(c) /\ move[c] \in Moves
  BY DEF ForwardAdopt, Shapes
<1> DEFINE n == [move[c] EXCEPT !.pc = "posted"]
           p == [from |-> c, dest |-> move[c].dest, epoch |-> move[c].epoch,
                 try |-> move[c].tries, awaited |-> TRUE]
<1>2. n \in Moves /\ n.pc = "posted" /\ n.dest = move[c].dest
  BY <1>1 DEF Moves, Stages
<1>3. p \in Posts /\ p.from = c /\ p.dest = move[c].dest /\ p.awaited
  BY <1>1 DEF Posts, Moves, Peers
<1>4. move' = [move EXCEPT ![c] = n] /\ posts' = posts \cup {p}
  BY DEF ForwardAdopt, Shapes
<1> QED BY <1>1, <1>2, <1>3, <1>4 DEF ForwardAdopt, OnlyMove, supVars

\* A request is answered or lost: it may turn late, and the destination's row
\* may be adopted.
LEMMA AnswerShape ==
  ASSUME Shapes, NEW m \in posts, PostFails(m) \/ AdoptRefused(m) \/ AdoptSource(m)
  PROVE  /\ UNCHANGED <<held, served, doubt>> /\ m \in Posts
         /\ \/ posts' = posts \ {m}
            \/ \E p \in Posts : /\ posts' = (posts \ {m}) \cup {p}
                                /\ p.from = m.from /\ p.dest = m.dest /\ ~p.awaited
         /\ \/ UNCHANGED move /\ ~m.awaited
            \/ \E n \in Moves : /\ move' = [move EXCEPT ![m.from] = n]
                                /\ n.pc \in {"adopt", "abort", "complete"}
                                /\ n.pc = "complete" => AdoptSource(m)
                                /\ n.dest = move[m.from].dest
                                /\ m.awaited
         /\ \/ UNCHANGED row
            \/ \E e \in Nat : row' = [row EXCEPT ![m.dest] = Row(Nobody, e)]
         /\ AdoptSource(m) => row'[m.dest].homed
<1>1. m \in Posts /\ m.from \in Cells /\ m.dest \in Cells /\ row[m.dest] \in Rows
      /\ "abort" \in Stages /\ "complete" \in Stages
  BY DEF Shapes, Posts, Stages
<1>2. CASE PostFails(m)
  <2> DEFINE p == [m EXCEPT !.awaited = FALSE]
  <2>1. p \in Posts /\ p.from = m.from /\ p.dest = m.dest /\ ~p.awaited
    BY <1>1 DEF Posts
  <2>2. posts' = posts \ {m} \/ posts' = (posts \ {m}) \cup {p}
    BY <1>2 DEF PostFails
  <2>3. \E n \in Moves : /\ move' = [move EXCEPT ![m.from] = n]
                         /\ n.pc \in {"adopt", "abort"} /\ n.dest = move[m.from].dest
    BY <1>1, <1>2, RetryShape DEF PostFails
  <2>4. UNCHANGED <<row, held, served, doubt>> /\ m.awaited
    BY <1>2 DEF PostFails, OnlyMove, supVars
  <2>5. AdoptSource(m) => row'[m.dest].homed
    BY <1>1 DEF AdoptSource, Adopted, Row, Shapes
  <2> HIDE DEF p
  <2> QED BY <1>1, <2>1, <2>2, <2>3, <2>4, <2>5
<1>3. CASE AdoptRefused(m)
  <2>1. UNCHANGED <<row, held, served, doubt>> /\ posts' = posts \ {m}
    BY <1>3 DEF AdoptRefused, OnlyMove, supVars
  <2>2. \/ UNCHANGED move /\ ~m.awaited
        \/ \E n \in Moves : /\ move' = [move EXCEPT ![m.from] = n]
                            /\ n.pc = "abort" /\ n.dest = move[m.from].dest /\ m.awaited
    BY <1>1, <1>3, StepShape DEF AdoptRefused
  <2>3. AdoptSource(m) => row'[m.dest].homed
    BY <1>1 DEF AdoptSource, Adopted, Row, Shapes
  <2> QED BY <1>1, <2>1, <2>2, <2>3
<1>4. CASE AdoptSource(m)
  <2>1. UNCHANGED <<held, served, doubt>> /\ posts' = posts \ {m}
        /\ row' = [row EXCEPT ![m.dest] = Adopted(row[m.dest], m.epoch)]
    BY <1>4 DEF AdoptSource, OnlyMove, supVars
  <2>2. \/ UNCHANGED move /\ ~m.awaited
        \/ \E n \in Moves : /\ move' = [move EXCEPT ![m.from] = n]
                            /\ n.pc \in {"adopt", "abort", "complete"}
                            /\ n.dest = move[m.from].dest /\ m.awaited
    BY <1>1, <1>4, StepShape, RetryShape DEF AdoptSource
  <2>3. m.epoch \in Nat /\ row[m.dest].homed \in BOOLEAN
    BY <1>1 DEF Posts, Rows
  <2>4. CASE row[m.dest].homed /\ row[m.dest].epoch >= m.epoch
    <3>1. row' = row /\ row'[m.dest].homed
      BY <1>1, <2>1, <2>4 DEF Adopted, Shapes
    <3> QED BY <1>1, <1>4, <2>1, <2>2, <3>1
  <2>5. CASE ~(row[m.dest].homed /\ row[m.dest].epoch >= m.epoch)
    <3>1. row' = [row EXCEPT ![m.dest] = Row(Nobody, m.epoch)]
      BY <2>1, <2>5 DEF Adopted
    <3>2. row'[m.dest].homed
      BY <1>1, <3>1 DEF Row, Shapes
    <3> QED BY <1>1, <1>4, <2>1, <2>2, <2>3, <3>1, <3>2
  <2> QED BY <2>4, <2>5
<1> QED BY <1>2, <1>3, <1>4

\* Every step keeps what ServedIsHomed rests on.
LEMMA ServedStep == ServedInv /\ Awaits /\ [Next]_vars => ServedInv'
<1> SUFFICES ASSUME ServedInv, Awaits, [Next]_vars PROVE ServedInv'
  OBVIOUS
<1> USE DEF ServedInv
<1>1. CASE UNCHANGED vars
  BY <1>1 DEF vars, supVars, moveVars, Shapes, HeldIsHomed, ServedIsHomed, Homed
<1>2. ASSUME NEW c \in Cells,
             \/ Supervise(c) \/ ResolveFails(c) \/ RegisterFails(c) \/ Restart(c)
             \/ \E answering \in SUBSET Peers(c) : Sweep(c, answering)
      PROVE  ServedInv'
  BY <1>2, SuperviseServed
<1>3. ASSUME NEW c \in Cells, CheckRehomeGrant(c) \/ \E d \in Cells : RehomeSource(c, d)
      PROVE  ServedInv'
  <2>1. UNCHANGED <<row, held, served, posts, doubt>>
    BY <1>3, BeginShape
  <2>2. PICK n \in Moves : move' = [move EXCEPT ![c] = n] /\ (n.pc # "idle" => n.dest \in Peers(c))
    BY <1>3, BeginShape
  <2> QED BY <2>1, <2>2, MoveShapes DEF Shapes, HeldIsHomed, ServedIsHomed, Homed
<1>4. ASSUME NEW c \in Cells, SealSource(c) PROVE ServedInv'
  <2>1. UNCHANGED <<held, served, posts, doubt>> /\ move[c].dest \in Peers(c)
    BY <1>4, SealShape
  <2>2. PICK n \in Moves : move' = [move EXCEPT ![c] = n] /\ (n.pc # "idle" => n.dest \in Peers(c))
    BY <1>4, <2>1, SealShape
  <2>3. UNCHANGED row \/ \E e \in Nat : row' = [row EXCEPT ![c] = Row(move[c].dest, e)]
    BY <1>4, SealShape
  <2>4. ASSUME NEW e \in Nat
        PROVE  Row(move[c].dest, e) \in Rows /\ Row(move[c].dest, e).homed
    BY <2>1 DEF Rows, Row, Peers
  <2>5. /\ row' \in [Cells -> Rows]
        /\ \A d \in Cells : row'[d].homed = FALSE => row'[d].to = Nobody
        /\ \A d \in Cells : Homed(d) => Homed(d)'
    BY <2>3, <2>4, RowShapes DEF Shapes, Homed
  <2> QED BY <2>1, <2>2, <2>5, MoveShapes DEF Shapes, HeldIsHomed, ServedIsHomed
<1>5. ASSUME NEW c \in Cells, ForwardAdopt(c) PROVE ServedInv'
  <2>1. UNCHANGED <<row, held, served, doubt>> /\ posts' \subseteq Posts
    <3>1. \E p \in Posts : posts' = posts \cup {p}
      BY <1>5, ForwardShape
    <3>2. posts' \subseteq Posts
      BY <3>1 DEF Shapes
    <3> QED BY <1>5, <3>2, ForwardShape
  <2>2. PICK n \in Moves : move' = [move EXCEPT ![c] = n] /\ n.dest \in Peers(c)
    BY <1>5, ForwardShape
  <2> QED BY <2>1, <2>2, MoveShapes DEF Shapes, HeldIsHomed, ServedIsHomed, Homed
<1>6. ASSUME NEW c \in Cells, AbortSourceRehome(c) PROVE ServedInv'
  <2>1. UNCHANGED <<held, served, posts>> /\ doubt' \in BOOLEAN /\ move[c].dest \in Peers(c)
    <3>1. doubt' = (doubt \/ Homed(move[c].dest) \/ \E m \in posts : m.from = c)
      BY <1>6, AbortShape
    <3>2. doubt' \in BOOLEAN
      BY <3>1
    <3> QED BY <1>6, <3>2, AbortShape
  <2>2. PICK n \in Moves : move' = [move EXCEPT ![c] = n] /\ (n.pc # "idle" => n.dest \in Peers(c))
    BY <1>6, <2>1, AbortShape
  <2>3. PICK r \in Rows : /\ row' = [row EXCEPT ![c] = r]
                          /\ r.homed = row[c].homed /\ (r = row[c] \/ r.to = Nobody)
    BY <1>6, AbortShape
  <2>4. /\ row' \in [Cells -> Rows]
        /\ \A d \in Cells : row'[d].homed = FALSE => row'[d].to = Nobody
        /\ \A d \in Cells : Homed(d) => Homed(d)'
    BY <2>3, RowShapes DEF Shapes, Homed
  <2> QED BY <2>1, <2>2, <2>4, MoveShapes DEF Shapes, HeldIsHomed, ServedIsHomed
<1>7. ASSUME NEW c \in Cells, CompleteSourceRehome(c) PROVE ServedInv'
  <2>1. UNCHANGED <<posts, doubt>> /\ move[c].dest \in Peers(c)
    BY <1>7, CompleteShape
  <2>2. PICK n \in Moves : move' = [move EXCEPT ![c] = n] /\ (n.pc # "idle" => n.dest \in Peers(c))
    BY <1>7, <2>1, CompleteShape
  <2>3. CASE UNCHANGED <<row, served, held>>
    BY <2>1, <2>2, <2>3, MoveShapes DEF Shapes, HeldIsHomed, ServedIsHomed, Homed
  <2>4. CASE CompleteRehome(c)
    <3>1. NoRow \in Rows /\ NoRow.to = Nobody /\ NoRow.homed = FALSE
      BY DEF NoRow, Rows
    <3>2. /\ row' \in [Cells -> Rows]
          /\ \A d \in Cells : row'[d].homed = FALSE => row'[d].to = Nobody
          /\ \A d \in Cells \ {c} : row'[d] = row[d]
      BY <2>4, <3>1, RowShapes DEF CompleteRehome, Shapes
    <3>3. /\ held' \in [Cells -> {"none", "row", "gone"}] /\ held'[c] # "row"
          /\ \A d \in Cells \ {c} : held'[d] = held[d]
          /\ served' = served \ {c}
      BY <2>4 DEF CompleteRehome, Shapes
    <3> QED BY <2>1, <2>2, <3>2, <3>3, MoveShapes DEF Shapes, HeldIsHomed, ServedIsHomed, Homed
  <2> QED BY <1>7, <2>3, <2>4, CompleteShape
<1>8. ASSUME NEW m \in posts, PostFails(m) \/ AdoptRefused(m) \/ AdoptSource(m) PROVE ServedInv'
  <2>1. UNCHANGED <<held, served, doubt>> /\ m \in Posts /\ posts' \subseteq Posts
    <3>1. posts' = posts \ {m} \/ \E p \in Posts : posts' = (posts \ {m}) \cup {p}
      BY <1>8, AnswerShape
    <3>2. posts' \subseteq Posts
      BY <3>1 DEF Shapes
    <3> QED BY <1>8, <3>2, AnswerShape
  <2>2. m.from \in Cells /\ m.dest \in Cells
    BY <2>1 DEF Posts
  <2>3. /\ move' \in [Cells -> Moves]
        /\ \A d \in Cells : move'[d].pc # "idle" => move'[d].dest \in Peers(d)
    <3>1. UNCHANGED move
          \/ (m.awaited /\ \E n \in Moves : /\ move' = [move EXCEPT ![m.from] = n]
                             /\ n.dest = move[m.from].dest)
      BY <1>8, AnswerShape
    <3>2. CASE UNCHANGED move
      BY <3>2 DEF Shapes
    <3>3. CASE m.awaited
      <4>1. move[m.from].dest \in Peers(m.from)
        BY <2>2, <3>3 DEF Shapes, Awaits
      <4> QED BY <2>2, <3>1, <3>2, <4>1, MoveShapes
    <3> QED BY <3>1, <3>2, <3>3
  <2>4. /\ row' \in [Cells -> Rows]
        /\ \A d \in Cells : row'[d].homed = FALSE => row'[d].to = Nobody
        /\ \A d \in Cells : Homed(d) => Homed(d)'
    <3>1. UNCHANGED row \/ \E e \in Nat : row' = [row EXCEPT ![m.dest] = Row(Nobody, e)]
      BY <1>8, AnswerShape
    <3>2. \A e \in Nat : Row(Nobody, e) \in Rows /\ Row(Nobody, e).homed
      BY DEF Rows, Row
    <3> QED BY <2>2, <3>1, <3>2, RowShapes DEF Shapes, Homed
  <2> QED BY <2>1, <2>3, <2>4 DEF Shapes, HeldIsHomed, ServedIsHomed
<1> QED BY <1>1, <1>2, <1>3, <1>4, <1>5, <1>6, <1>7, <1>8 DEF Next, MoveStep, Answer

\* A step of a move that waits for no answer leaves the waiting ones alone.
LEMMA AwaitsElsewhere ==
  ASSUME Shapes, Awaits, NEW c \in Cells, move[c].pc # "posted", UNCHANGED posts,
         \E n \in Moves : move' = [move EXCEPT ![c] = n]
  PROVE  Awaits'
<1>1. \A p \in posts : p.from \in Cells
  BY DEF Shapes, Posts
<1>2. \A p \in posts : p.awaited => p.from # c
  BY DEF Awaits
<1> QED BY <1>1, <1>2 DEF Awaits, Shapes

\* Every step keeps the tie between a request and the move that waits for it.
LEMMA AwaitsStep == ServedInv /\ Awaits /\ [Next]_vars => Awaits'
<1> SUFFICES ASSUME Shapes, Awaits, [Next]_vars PROVE Awaits'
  BY DEF ServedInv
<1>1. CASE UNCHANGED <<move, posts>>
  BY <1>1 DEF Awaits
<1>2. ASSUME NEW c \in Cells,
             \/ Supervise(c) \/ ResolveFails(c) \/ RegisterFails(c) \/ Restart(c)
             \/ \E answering \in SUBSET Peers(c) : Sweep(c, answering)
      PROVE  Awaits'
  BY <1>1, <1>2 DEF Supervise, Resolve, Probing, Probe, Probed, Register, Sync, ResolveFails,
                    RegisterFails, Restart, Sweep, OnlySupervisor, moveVars
<1>3. ASSUME NEW c \in Cells, CheckRehomeGrant(c) \/ \E d \in Cells : RehomeSource(c, d)
      PROVE  Awaits'
  BY <1>3, BeginShape, AwaitsElsewhere
<1>4. ASSUME NEW c \in Cells, SealSource(c) PROVE Awaits'
  <2>1. UNCHANGED posts /\ move[c].pc = "seal" /\ \E n \in Moves : move' = [move EXCEPT ![c] = n]
    BY <1>4, SealShape
  <2> QED BY <2>1, AwaitsElsewhere
<1>5. ASSUME NEW c \in Cells, ForwardAdopt(c) PROVE Awaits'
  <2>1. move[c].pc = "adopt"
    BY <1>5, ForwardShape
  <2>2. PICK n \in Moves : /\ move' = [move EXCEPT ![c] = n]
                           /\ n.pc = "posted" /\ n.dest = move[c].dest
    BY <1>5, ForwardShape
  <2>3. PICK p \in Posts : /\ posts' = posts \cup {p}
                           /\ p.from = c /\ p.dest = move[c].dest /\ p.awaited
    BY <1>5, ForwardShape
  <2>4. \A q \in posts : q.from \in Cells /\ (q.awaited => q.from # c)
    BY <2>1 DEF Awaits, Shapes, Posts
  <2>5. move'[c] = n /\ \A d \in Cells \ {c} : move'[d] = move[d]
    BY <2>2 DEF Shapes
  <2> QED BY <2>2, <2>3, <2>4, <2>5 DEF Awaits
<1>6. ASSUME NEW c \in Cells, AbortSourceRehome(c) PROVE Awaits'
  <2>1. UNCHANGED posts /\ move[c].pc = "abort" /\ \E n \in Moves : move' = [move EXCEPT ![c] = n]
    BY <1>6, AbortShape
  <2> QED BY <2>1, AwaitsElsewhere
<1>7. ASSUME NEW c \in Cells, CompleteSourceRehome(c) PROVE Awaits'
  <2>1. UNCHANGED posts /\ move[c].pc = "complete" /\ \E n \in Moves : move' = [move EXCEPT ![c] = n]
    BY <1>7, CompleteShape
  <2> QED BY <2>1, AwaitsElsewhere
<1>8. ASSUME NEW m \in posts, PostFails(m) \/ AdoptRefused(m) \/ AdoptSource(m) PROVE Awaits'
  <2>1. \A q \in posts' : q.awaited => q \in posts \ {m}
    BY <1>8, AnswerShape
  <2>2. \A q \in posts : q.from \in Cells
    BY DEF Shapes, Posts
  <2>3. CASE UNCHANGED move
    BY <2>1, <2>3 DEF Awaits
  <2>4. CASE m.awaited /\ \E n \in Moves : move' = [move EXCEPT ![m.from] = n]
    <3>1. \A q \in posts \ {m} : q.awaited => q.from # m.from
      BY <2>4 DEF Awaits
    <3>2. \A q \in posts \ {m} : q.awaited => move'[q.from] = move[q.from]
      BY <2>2, <2>4, <3>1 DEF Shapes
    <3> QED BY <2>1, <3>2 DEF Awaits
  <2> QED BY <1>8, <2>3, <2>4, AnswerShape
<1>9. CASE UNCHANGED vars
  BY <1>1, <1>9 DEF vars, moveVars
<1> QED BY <1>2, <1>3, <1>4, <1>5, <1>6, <1>7, <1>8, <1>9 DEF Next, MoveStep, Answer

\* At first nobody homes the Source and nothing is under way.
LEMMA ServedStarts == Init => ServedInv /\ Awaits
<1> SUFFICES ASSUME Init PROVE ServedInv /\ Awaits
  OBVIOUS
<1>1. NoRow \in Rows /\ NoRow.to = Nobody
  BY DEF NoRow, Rows
<1>2. Shapes
  BY <1>1, IdleShape DEF Init, Shapes
<1> QED BY <1>2 DEF Init, ServedInv, HeldIsHomed, ServedIsHomed, Awaits

\* Only a Cell that homes the Source serves its Entities as live, although a
\* Syncer is never told that CompleteRehome retired the row it writes under.
THEOREM OnlyHomesServe == Spec => []ServedIsHomed
<1>1. ServedInv => ServedIsHomed
  BY DEF ServedInv
<1> QED BY <1>1, ServedStarts, ServedStep, AwaitsStep, PTL DEF Spec

-----------------------------------------------------------------------------
\* All moves start at one Cell.
OneMover == \A c, d \in Movers : c = d

\* Nobody seals, moves or posts but the movers.
Unmoved ==
  /\ \A c \in Cells \ Movers : row[c].to = Nobody /\ move[c].pc = "idle"
  /\ \A p \in posts : p.from \in Movers /\ p.dest \in Peers(p.from)

\* The row is retired only after the destination has one.
Landed == \A c \in Movers : move[c].pc = "complete" => Homed(move[c].dest)

\* The seal names the destination of the move.
Intent == ~doubt => \A c \in Movers :
  /\ move[c].pc \in {"adopt", "posted"} => row[c].to = move[c].dest
  /\ move[c].pc \in {"complete", "abort"} => row[c].to \in {Nobody, move[c].dest}

\* A request that may still arrive is for a Cell its sender is sealed for, or
\* for one that has adopted the Source already.
Heading == ~doubt => \A p \in posts : row[p.from].to = p.dest \/ Homed(p.dest)

\* Two Cells home the Source only while one is sealed for the other.
OneHome == ~doubt => \A c, d \in Cells :
  c # d /\ Homed(c) /\ Homed(d) => row[c].to = d \/ row[d].to = c

MoverInv == Unmoved /\ Landed /\ Intent /\ Heading /\ OneHome

\* The Source is homed somewhere after a step if it was before.
Survives == (\E c \in Cells : Homed(c)) => \E c \in Cells : Homed(c)'

\* A step that leaves rows, moves, requests and doubt alone.
LEMMA QuietMover ==
  ASSUME MoverInv, UNCHANGED <<row, move, posts, doubt>>
  PROVE  MoverInv' /\ Survives
BY DEF MoverInv, Unmoved, Landed, Intent, Heading, OneHome, Survives, Homed

\* A claim that inserts a row is the first, or makes the doubt.
LEMMA ClaimMover ==
  ASSUME ServedInv, MoverInv, NEW c \in Cells, RegisterSource(c), UNCHANGED <<move, posts>>
  PROVE  MoverInv' /\ Survives
<1> USE DEF ServedInv, MoverInv
<1>1. /\ \A d \in Cells : Homed(d) => row'[d] = row[d]
      /\ \A d \in Cells \ {c} : row'[d] = row[d]
      /\ ~Homed(c) => row'[c] = Row(Nobody, 0)
  BY RegisterShapes
<1>2. \A d \in Cells : Homed(d) => Homed(d)'
  BY <1>1 DEF Homed
<1>3. CASE Homed(c)
  <2>1. row' = row
    BY <1>3 DEF RegisterSource, Shapes
  <2>2. doubt' = doubt
    BY <1>3 DEF RegisterSource, Shapes
  <2> QED BY <2>1, <2>2, QuietMover
<1>4. CASE ~Homed(c)
  <2>1. row'[c].to = Nobody /\ row[c].to = Nobody
    BY <1>1, <1>4 DEF Row, Shapes, Homed, Rows
  <2>2. ~doubt' => ~doubt /\ \A d \in Cells : ~Homed(d) /\ row[d].to = Nobody
    <3>1. doubt' = (doubt \/ \E p \in Peers(c) : Homed(p))
      BY <1>4 DEF RegisterSource
    <3>2. ~doubt' => \A d \in Cells : ~Homed(d)
      BY <1>4, <3>1 DEF Peers
    <3>3. \A d \in Cells : ~Homed(d) => row[d].to = Nobody
      BY DEF Shapes, Homed, Rows
    <3> QED BY <3>1, <3>2, <3>3
  <2>3. Unmoved'
    BY <1>1, <2>1 DEF Unmoved
  <2>4. Landed'
    <3>1. \A d \in Movers : move[d].pc = "complete" => move[d].dest \in Cells
      BY ConstantsAssumption DEF Shapes, Peers
    <3> QED BY <1>2, <3>1 DEF Landed
  <2>5. ~doubt' => posts = {}
    <3>1. \A p \in posts : p.from \in Cells /\ p.dest \in Cells /\ p.dest # Nobody
      BY ConstantsAssumption DEF Shapes, Posts
    <3> QED BY <2>2, <3>1 DEF Heading
  <2>6. Intent'
    <3>1. ASSUME ~doubt', NEW d \in Movers, move[d].pc \in {"adopt", "posted"} PROVE FALSE
      <4>1. d \in Cells /\ move[d].dest \in Cells /\ move[d].dest # Nobody
        BY <3>1, ConstantsAssumption DEF Shapes, Peers
      <4> QED BY <2>2, <3>1, <4>1 DEF Intent
    <3>2. ~doubt' => \A d \in Movers : row'[d].to = Nobody
      BY <1>1, <2>1, <2>2, ConstantsAssumption
    <3> QED BY <3>1, <3>2 DEF Intent
  <2>7. Heading' /\ OneHome'
    BY <1>1, <2>2, <2>5 DEF Heading, OneHome, Homed
  <2> QED BY <1>2, <2>3, <2>4, <2>6, <2>7 DEF Survives
<1> QED BY <1>3, <1>4

\* Whoever has a move under way is the mover, and no other Cell is sealed or
\* has posted.
LEMMA TheMover ==
  ASSUME OneMover, ServedInv, MoverInv, NEW c \in Cells, move[c].pc # "idle"
  PROVE  /\ c \in Movers /\ \A d \in Movers : d = c
         /\ \A d \in Cells \ {c} : row[d].to = Nobody
         /\ \A p \in posts : p.from = c /\ p.dest \in Cells \ {c}
         /\ move[c].dest \in Cells \ {c} /\ Nobody \notin Cells
BY ConstantsAssumption DEF OneMover, MoverInv, Unmoved, ServedInv, Shapes, Peers

\* The first steps of a move.
LEMMA BeginMover ==
  ASSUME OneMover, ServedInv, MoverInv, NEW c \in Cells,
         CheckRehomeGrant(c) \/ \E d \in Cells : RehomeSource(c, d)
  PROVE  MoverInv' /\ Survives
<1> USE DEF MoverInv, ServedInv
<1>1. UNCHANGED <<row, posts, doubt>> /\ c \in Movers
  <2>1. move[c].pc \in {"idle", "grant"} /\ (move[c].pc = "idle" => c \in Movers)
        /\ UNCHANGED <<row, posts, doubt>>
    BY BeginShape
  <2> QED BY <2>1 DEF Unmoved
<1>2. PICK n \in Moves : move' = [move EXCEPT ![c] = n] /\ n.pc \in {"idle", "grant", "seal"}
  BY BeginShape
<1>3. move'[c] = n /\ \A d \in Cells \ {c} : move'[d] = move[d]
  BY <1>2 DEF Shapes
<1>4. Unmoved' /\ Landed' /\ Intent'
  BY <1>1, <1>2, <1>3, ConstantsAssumption DEF OneMover, Unmoved, Landed, Intent, Homed
<1>5. Heading' /\ OneHome' /\ Survives
  BY <1>1 DEF Heading, OneHome, Survives, Homed
<1> QED BY <1>4, <1>5

\* The seal.
LEMMA SealMover ==
  ASSUME OneMover, ServedInv, MoverInv, NEW c \in Cells, SealSource(c)
  PROVE  MoverInv' /\ Survives
<1> USE DEF MoverInv, ServedInv
<1> DEFINE dest == move[c].dest
<1>1. UNCHANGED <<posts, doubt>> /\ move[c].pc = "seal"
  BY SealShape
<1>2. /\ c \in Movers /\ \A d \in Movers : d = c
      /\ \A d \in Cells \ {c} : row[d].to = Nobody
      /\ \A p \in posts : p.from = c /\ p.dest \in Cells \ {c}
      /\ dest \in Cells \ {c} /\ Nobody \notin Cells
  BY <1>1, TheMover
<1>3. PICK n \in Moves : /\ move' = [move EXCEPT ![c] = n]
                         /\ n.pc \in {"idle", "seal", "adopt"}
                         /\ n.pc # "idle" => n.dest = dest
                         /\ \/ UNCHANGED row /\ n.pc = "idle"
                            \/ /\ Homed(c) /\ row[c].to \in {Nobody, dest}
                               /\ \E e \in Nat : row' = [row EXCEPT ![c] = Row(dest, e)]
  BY SealShape
<1>4. move'[c] = n /\ \A d \in Cells \ {c} : move'[d] = move[d]
  BY <1>3 DEF Shapes
<1>5. CASE UNCHANGED row /\ n.pc = "idle"
  <2>1. Unmoved' /\ Landed' /\ Intent'
    BY <1>1, <1>2, <1>3, <1>4, <1>5 DEF Unmoved, Landed, Intent, Homed
  <2>2. Heading' /\ OneHome' /\ Survives
    BY <1>1, <1>5 DEF Heading, OneHome, Survives, Homed
  <2> QED BY <2>1, <2>2
<1>6. CASE /\ Homed(c) /\ row[c].to \in {Nobody, dest}
           /\ \E e \in Nat : row' = [row EXCEPT ![c] = Row(dest, e)]
  <2>1. row'[c].to = dest /\ row'[c].homed /\ \A d \in Cells \ {c} : row'[d] = row[d]
    BY <1>6 DEF Row, Shapes
  <2>2. \A d \in Cells : Homed(d) <=> Homed(d)'
    BY <1>6, <2>1 DEF Homed
  <2>3. Unmoved' /\ Landed' /\ Intent'
    BY <1>1, <1>2, <1>3, <1>4, <2>1 DEF Unmoved, Landed, Intent
  <2>4. Heading'
    BY <1>1, <1>2, <1>6, <2>1, <2>2 DEF Heading
  <2>5. OneHome'
    BY <1>1, <1>2, <1>6, <2>1, <2>2 DEF OneHome
  <2> QED BY <1>6, <2>2, <2>3, <2>4, <2>5 DEF Survives
<1> QED BY <1>3, <1>5, <1>6

\* The request goes out.
LEMMA ForwardMover ==
  ASSUME OneMover, ServedInv, MoverInv, NEW c \in Cells, ForwardAdopt(c)
  PROVE  MoverInv' /\ Survives
<1> USE DEF MoverInv, ServedInv
<1>1. UNCHANGED <<row, doubt>> /\ move[c].pc = "adopt"
  BY ForwardShape
<1>2. c \in Movers /\ (\A d \in Movers : d = c) /\ move[c].dest \in Peers(c)
  BY <1>1, TheMover DEF Peers
<1>3. PICK n \in Moves : /\ move' = [move EXCEPT ![c] = n]
                         /\ n.pc = "posted" /\ n.dest = move[c].dest
  BY ForwardShape
<1>4. PICK p \in Posts : /\ posts' = posts \cup {p}
                         /\ p.from = c /\ p.dest = move[c].dest
  BY ForwardShape
<1>5. move'[c] = n /\ \A d \in Cells \ {c} : move'[d] = move[d]
  BY <1>3 DEF Shapes
<1>6. Unmoved' /\ Landed' /\ Intent'
  BY <1>1, <1>2, <1>3, <1>4, <1>5 DEF Unmoved, Landed, Intent, Homed
<1>7. Heading' /\ OneHome' /\ Survives
  BY <1>1, <1>2, <1>4 DEF Heading, Intent, OneHome, Survives, Homed
<1> QED BY <1>6, <1>7

\* The abort, outside the doubt it makes when the adopt landed or still may.
LEMMA AbortMover ==
  ASSUME OneMover, ServedInv, MoverInv, NEW c \in Cells, AbortSourceRehome(c)
  PROVE  MoverInv' /\ Survives
<1> USE DEF MoverInv, ServedInv
<1> DEFINE dest == move[c].dest
<1>1. UNCHANGED posts /\ move[c].pc = "abort"
  BY AbortShape
<1>2. /\ c \in Movers /\ \A d \in Movers : d = c
      /\ \A d \in Cells \ {c} : row[d].to = Nobody
      /\ \A p \in posts : p.from = c /\ p.dest \in Cells \ {c}
      /\ dest \in Cells \ {c} /\ Nobody \notin Cells
  BY <1>1, TheMover
<1>3. PICK n \in Moves : /\ move' = [move EXCEPT ![c] = n]
                         /\ n.pc \in {"idle", "abort"} /\ (n.pc # "idle" => n.dest = dest)
  BY AbortShape
<1>4. PICK r \in Rows : /\ row' = [row EXCEPT ![c] = r]
                        /\ r.homed = row[c].homed /\ (r = row[c] \/ r.to = Nobody)
  BY AbortShape
<1>5. /\ move'[c] = n /\ \A d \in Cells \ {c} : move'[d] = move[d]
      /\ row'[c] = r /\ \A d \in Cells \ {c} : row'[d] = row[d]
  BY <1>3, <1>4 DEF Shapes
<1>6. \A d \in Cells : Homed(d) <=> Homed(d)'
  BY <1>4, <1>5 DEF Homed
<1>7. ~doubt' => ~doubt /\ ~Homed(dest) /\ posts = {}
  <2>1. doubt' = (doubt \/ Homed(dest) \/ \E m \in posts : m.from = c)
    BY AbortShape
  <2> QED BY <1>2, <2>1
<1>8. Unmoved' /\ Landed'
  BY <1>1, <1>2, <1>3, <1>5 DEF Unmoved, Landed
<1>9. Intent' /\ Heading'
  BY <1>1, <1>2, <1>3, <1>4, <1>5, <1>7 DEF Intent, Heading
<1>10. OneHome'
  BY <1>1, <1>2, <1>5, <1>6, <1>7 DEF Intent, OneHome
<1> QED BY <1>6, <1>8, <1>9, <1>10 DEF Survives

\* The completion: the destination homes the Source before the row goes.
LEMMA CompleteMover ==
  ASSUME OneMover, ServedInv, MoverInv, NEW c \in Cells, CompleteSourceRehome(c)
  PROVE  MoverInv' /\ Survives
<1> USE DEF MoverInv, ServedInv
<1> DEFINE dest == move[c].dest
<1>1. UNCHANGED <<posts, doubt>> /\ move[c].pc = "complete"
  BY CompleteShape
<1>2. /\ c \in Movers /\ \A d \in Movers : d = c
      /\ \A d \in Cells \ {c} : row[d].to = Nobody
      /\ \A p \in posts : p.from = c /\ p.dest \in Cells \ {c}
      /\ dest \in Cells \ {c} /\ Nobody \notin Cells
  BY <1>1, TheMover
<1>3. PICK n \in Moves : /\ move' = [move EXCEPT ![c] = n]
                         /\ n.pc \in {"idle", "complete"} /\ (n.pc # "idle" => n.dest = dest)
  BY CompleteShape
<1>4. move'[c] = n /\ \A d \in Cells \ {c} : move'[d] = move[d]
  BY <1>3 DEF Shapes
<1>5. Homed(dest)
  BY <1>1, <1>2 DEF Landed
<1>6. CASE UNCHANGED row
  <2>1. \A d \in Cells : Homed(d) <=> Homed(d)'
    BY <1>6 DEF Homed
  <2>2. Unmoved' /\ Landed' /\ Intent'
    BY <1>1, <1>2, <1>3, <1>4, <1>5, <1>6, <2>1 DEF Unmoved, Landed, Intent
  <2>3. Heading' /\ OneHome' /\ Survives
    BY <1>1, <1>6 DEF Heading, OneHome, Survives, Homed
  <2> QED BY <2>2, <2>3
<1>7. CASE CompleteRehome(c)
  <2>1. row'[c].to = Nobody /\ ~row'[c].homed /\ \A d \in Cells \ {c} : row'[d] = row[d]
    BY <1>7 DEF CompleteRehome, NoRow, Shapes
  <2>2. ~Homed(c)' /\ \A d \in Cells \ {c} : Homed(d) <=> Homed(d)'
    BY <2>1 DEF Homed
  <2>3. Unmoved' /\ Landed' /\ Intent'
    BY <1>1, <1>2, <1>3, <1>4, <1>5, <2>1, <2>2 DEF Unmoved, Landed, Intent
  <2>4. Heading'
    BY <1>1, <1>2, <1>5, <2>1, <2>2 DEF Heading, Intent
  <2>5. OneHome'
    BY <1>1, <2>1, <2>2 DEF OneHome
  <2> QED BY <1>2, <1>5, <2>2, <2>3, <2>4, <2>5 DEF Survives
<1> QED BY <1>6, <1>7, CompleteShape

\* The answers: a Cell adopts the Source only when the mover is sealed for it,
\* or when it has adopted it before.
LEMMA AnswerMover ==
  ASSUME OneMover, ServedInv, Awaits, MoverInv, NEW m \in posts,
         PostFails(m) \/ AdoptRefused(m) \/ AdoptSource(m)
  PROVE  MoverInv' /\ Survives
<1> USE DEF MoverInv, ServedInv
<1> DEFINE c == m.from
           dest == m.dest
<1>1. /\ c \in Movers /\ c \in Cells /\ \A d \in Movers : d = c
      /\ \A p \in posts : p.from = c /\ p.dest \in Cells \ {c}
      /\ dest \in Cells \ {c} /\ Nobody \notin Cells
      /\ \A d \in Cells \ {c} : row[d].to = Nobody
  BY ConstantsAssumption DEF OneMover, Unmoved, Shapes, Posts, Peers
<1>2. UNCHANGED doubt
  BY AnswerShape
<1>3. \A q \in posts' : q.from = c /\ q.dest \in Cells \ {c} /\ \E p \in posts : p.dest = q.dest
  <2>1. posts' = posts \ {m} \/ \E p \in Posts : /\ posts' = (posts \ {m}) \cup {p}
                                                 /\ p.from = c /\ p.dest = dest
    BY AnswerShape
  <2> QED BY <1>1, <2>1
<1>4. UNCHANGED row \/ \E e \in Nat : row' = [row EXCEPT ![dest] = Row(Nobody, e)]
  BY AnswerShape
<1>5. /\ \A d \in Cells \ {dest} : row'[d] = row[d]
      /\ row'[dest].to = Nobody
      /\ UNCHANGED row \/ row'[dest].homed
  <2>1. CASE UNCHANGED row
    BY <1>1, <2>1
  <2>2. CASE \E e \in Nat : row' = [row EXCEPT ![dest] = Row(Nobody, e)]
    <3>1. PICK e \in Nat : row' = [row EXCEPT ![dest] = Row(Nobody, e)]
      BY <2>2
    <3>2. Row(Nobody, e).to = Nobody /\ Row(Nobody, e).homed
      BY DEF Row
    <3>3. row'[dest] = Row(Nobody, e) /\ \A d \in Cells \ {dest} : row'[d] = row[d]
      BY <1>1, <3>1 DEF Shapes
    <3> QED BY <3>2, <3>3
  <2> QED BY <1>4, <2>1, <2>2
<1>6. \A d \in Cells : Homed(d) => Homed(d)'
  BY <1>5 DEF Homed
<1>7. Unmoved' /\ Landed' /\ Intent'
  <2>1. CASE UNCHANGED move
    BY <1>1, <1>2, <1>3, <1>5, <1>6, <2>1, ConstantsAssumption
       DEF Unmoved, Landed, Intent, Peers, Shapes
  <2>2. CASE m.awaited /\ \E n \in Moves : /\ move' = [move EXCEPT ![c] = n]
                                           /\ n.pc \in {"adopt", "abort", "complete"}
                                           /\ n.pc = "complete" => AdoptSource(m)
                                           /\ n.dest = move[c].dest
    <3>1. PICK n \in Moves : /\ move' = [move EXCEPT ![c] = n]
                             /\ n.pc \in {"adopt", "abort", "complete"}
                             /\ n.pc = "complete" => AdoptSource(m)
                             /\ n.dest = move[c].dest
      BY <2>2
    <3>2. move'[c] = n /\ \A d \in Cells \ {c} : move'[d] = move[d]
      BY <1>1, <3>1 DEF Shapes
    <3>3. move[c].pc = "posted" /\ move[c].dest = dest
      BY <2>2 DEF Awaits
    <3>4. AdoptSource(m) => Homed(dest)'
      BY AnswerShape DEF Homed
    <3>5. Unmoved'
      BY <1>1, <1>3, <1>5, <3>2 DEF Unmoved, Peers
    <3>6. Landed'
      BY <1>1, <3>1, <3>2, <3>3, <3>4 DEF Landed
    <3>7. Intent'
      BY <1>1, <1>2, <1>5, <3>1, <3>2, <3>3 DEF Intent
    <3> QED BY <3>5, <3>6, <3>7
  <2> QED BY <2>1, <2>2, AnswerShape
<1>8. Heading'
  BY <1>1, <1>2, <1>3, <1>5, <1>6 DEF Heading
<1>9. OneHome'
  <2>1. CASE UNCHANGED row
    BY <1>2, <2>1 DEF OneHome, Homed
  <2>2. ASSUME ~doubt, NEW d \in Cells \ {dest}, Homed(d) PROVE row[d].to = dest
    <3>1. CASE Homed(dest)
      BY <1>1, <2>2, <3>1 DEF OneHome
    <3>2. CASE ~Homed(dest)
      <4>1. row[c].to = dest /\ Homed(c)
        BY <1>1, <2>2, <3>2 DEF Heading, Shapes, Homed, Rows
      <4> QED BY <1>1, <2>2, <4>1 DEF OneHome
    <3> QED BY <3>1, <3>2
  <2>3. CASE row'[dest].homed
    <3>1. \A d \in Cells \ {dest} : Homed(d)' <=> Homed(d)
      BY <1>5 DEF Homed
    <3> QED BY <1>2, <1>5, <2>2, <3>1 DEF OneHome
  <2> QED BY <1>5, <2>1, <2>3
<1> QED BY <1>6, <1>7, <1>8, <1>9 DEF Survives

\* Every step keeps the invariant of the mover, and the Source.
LEMMA MoverSteps ==
  ASSUME OneMover, ServedInv, Awaits, MoverInv, [Next]_vars
  PROVE  MoverInv' /\ Survives
<1>1. CASE UNCHANGED vars
  BY <1>1, QuietMover DEF vars, moveVars
<1>2. ASSUME NEW c \in Cells,
             \/ Resolve(c) \/ Probing(c) \/ Sync(c) \/ ResolveFails(c) \/ Restart(c)
             \/ \E answering \in SUBSET Peers(c) : Sweep(c, answering)
      PROVE  MoverInv' /\ Survives
  BY <1>2, QuietMover DEF Resolve, Probing, Probe, Probed, Sync, ResolveFails, Restart, Sweep,
                          OnlySupervisor, moveVars
<1>3. ASSUME NEW c \in Cells, Register(c) \/ RegisterFails(c) PROVE MoverInv' /\ Survives
  <2>1. UNCHANGED <<move, posts>> /\ (RegisterSource(c) \/ UNCHANGED <<row, doubt>>)
    BY <1>3 DEF Register, RegisterFails, OnlySupervisor, moveVars
  <2> QED BY <2>1, ClaimMover, QuietMover
<1>4. ASSUME NEW c \in Cells, CheckRehomeGrant(c) \/ \E d \in Cells : RehomeSource(c, d)
      PROVE  MoverInv' /\ Survives
  BY <1>4, BeginMover
<1>5. ASSUME NEW c \in Cells, SealSource(c) PROVE MoverInv' /\ Survives
  BY <1>5, SealMover
<1>6. ASSUME NEW c \in Cells, ForwardAdopt(c) PROVE MoverInv' /\ Survives
  BY <1>6, ForwardMover
<1>7. ASSUME NEW c \in Cells, AbortSourceRehome(c) PROVE MoverInv' /\ Survives
  BY <1>7, AbortMover
<1>8. ASSUME NEW c \in Cells, CompleteSourceRehome(c) PROVE MoverInv' /\ Survives
  BY <1>8, CompleteMover
<1>9. ASSUME NEW m \in posts, PostFails(m) \/ AdoptRefused(m) \/ AdoptSource(m)
      PROVE  MoverInv' /\ Survives
  BY <1>9, AnswerMover
<1> QED BY <1>1, <1>2, <1>3, <1>4, <1>5, <1>6, <1>7, <1>8, <1>9
        DEF Next, Supervise, MoveStep, Answer

\* Outside the doubt there is at most one writer.
LEMMA WritersAreOne == Shapes /\ OneHome => OneWriter
<1> SUFFICES ASSUME Shapes, OneHome, ~doubt PROVE ~(Cardinality(Writers) > 1)
  BY DEF OneWriter
<1>1. ASSUME NEW c \in Writers, NEW d \in Writers PROVE c = d
  BY ConstantsAssumption DEF Writers, Sealed, OneHome
<1>2. CASE Writers = {}
  <2>1. Cardinality(Writers) = 0
    BY <1>2, FS_EmptySet
  <2> QED BY <2>1
<1>3. CASE Writers # {}
  <2>1. PICK c : Writers = {c}
    BY <1>1, <1>3
  <2>2. Cardinality(Writers) = 1
    BY <2>1, FS_Singleton
  <2> QED BY <2>2
<1> QED BY <1>2, <1>3

\* At first there is no move.
LEMMA MoverStarts == Init => MoverInv
BY IdleShape, ConstantsAssumption
   DEF Init, MoverInv, Unmoved, Landed, Intent, Heading, OneHome, Homed, NoRow

\* While moves start at one Cell, two Cells never write the Source, but for a
\* claim made on a stale look or an abort that could not know better.
THEOREM OneMoverOneWriter ==
  ASSUME OneMover
  PROVE  Spec => []OneWriter
<1>1. ServedInv /\ Awaits /\ MoverInv /\ [Next]_vars => MoverInv'
  BY MoverSteps
<1>2. ServedInv /\ MoverInv => OneWriter
  BY WritersAreOne DEF ServedInv, MoverInv
<1> QED BY <1>1, <1>2, ServedStarts, ServedStep, AwaitsStep, MoverStarts, PTL DEF Spec

\* While moves start at one Cell, RehomeSourceWorkflow never loses the Source,
\* whatever requests, replies and database calls fail.
THEOREM MovesKeepTheSource ==
  ASSUME OneMover
  PROVE  Spec => SourceSurvives
<1>1. ServedInv /\ Awaits /\ MoverInv /\ [Next]_vars => MoverInv'
  BY MoverSteps
<1>2. ServedInv /\ Awaits /\ MoverInv /\ [Next]_vars =>
        [(\E c \in Cells : Homed(c)) => \E c \in Cells : Homed(c)']_vars
  BY MoverSteps DEF Survives
<1> QED BY <1>1, <1>2, ServedStarts, ServedStep, AwaitsStep, MoverStarts, PTL
        DEF Spec, SourceSurvives
=============================================================================
