---------------------------- MODULE AuditStream ----------------------------
(***************************************************************************)
(* The audit stream (ADR-0034): concurrent inserts into audit.event, the   *)
(* Sealer that hash-chains the unsealed tail, the verifier that walks the  *)
(* chain, and the forwarders that ship the ledger to one SIEM Sink         *)
(* (core/internal/graph/auditstore.go, core/internal/audit,                *)
(* core/internal/forwarder and the forward handlers of                     *)
(* core/internal/api/server.go).                                           *)
(*                                                                         *)
(* A SQL statement outside a transaction is one action; an INSERT is two,  *)
(* because bigserial hands out the seq when the statement starts and the   *)
(* row is visible when it commits.  A hash is the sequence of seqs it was  *)
(* chained from, which is what collision resistance gives sha256.          *)
(***************************************************************************)
EXTENDS Integers, Sequences, FiniteSets, SequencesExt

CONSTANTS
    MaxEvents,   \* bound: audit events recorded
    Sealer,      \* running Sealers (replicas, or leaders around a failover)
    Forwarder,   \* forwarder pods of the one Sink, restarts included
    BatchLimit,  \* ForwardBatch's LIMIT
    FailAlarm,   \* consecutive failures before a failed delivery is recorded
    MaxFailures  \* bound: failed calls and crashes

ASSUME Bounds ==
    /\ MaxEvents \in Nat /\ BatchLimit \in Nat \ {0} /\ FailAlarm \in Nat \ {0}
    /\ MaxFailures \in Nat

Seqs == 1 .. MaxEvents

Genesis == << >>
NoHash == << 0 >>

VARIABLES
    event,     \* [Seqs -> "free" | "open" | "row" | "lost"]
    prevHash,  \* [Seqs -> hash], audit.event.prev_hash
    hash,      \* [Seqs -> hash], audit.event.hash
    head,      \* audit.seal_head [seq, hash]
    lock,      \* the Sealer holding the FOR UPDATE lock, or {}
    sealPC,    \* [Sealer -> "idle" | "locked" | "read"]
    headRead,  \* [Sealer -> head as read under the lock]
    batch,     \* [Sealer -> Seq(Seqs)], the unsealed tail as read
    offset,    \* audit.forward_offset.through_seq
    fwdPC,     \* [Forwarder -> "idle" | "batch" | "ship" | "report" | "record"]
    since,     \* [Forwarder -> offset read by GetForwardBatch]
    shipping,  \* [Forwarder -> Seq(Seqs)], the batch in hand
    fails,     \* [Forwarder -> consecutive failed batches]
    siem,      \* set of seqs the SIEM has accepted
    passed,    \* history: rows that committed when the offset, or a batch a
               \* forwarder held, was past them already
    delivery,  \* audit.forward_delivery, rows << through_seq, status >>
    verifyPC,  \* "idle" | "rows"
    verifyHead,\* head as VerifyAudit read it
    verdict,   \* "none" | "ok" | "bad", the last reply of VerifyAudit
    failures   \* failures so far

sealVars == << prevHash, hash, head, lock, sealPC, headRead, batch >>
fwdVars == << offset, fwdPC, since, shipping, fails, siem, delivery >>
verifyVars == << verifyPC, verifyHead, verdict >>
vars == << event, passed, sealVars, fwdVars, verifyVars, failures >>

Hashes == Seq(Seqs) \cup {NoHash}

TypeOK ==
    /\ event \in [Seqs -> {"free", "open", "row", "lost"}]
    /\ \A n \in Seqs : prevHash[n] \in Hashes /\ hash[n] \in Hashes
    /\ head.seq \in 0 .. MaxEvents /\ head.hash \in Hashes
    /\ lock \in SUBSET Sealer
    /\ sealPC \in [Sealer -> {"idle", "locked", "read"}]
    /\ \A s \in Sealer : batch[s] \in Seq(Seqs)
    /\ offset \in 0 .. MaxEvents
    /\ fwdPC \in [Forwarder -> {"idle", "batch", "ship", "report", "record"}]
    /\ since \in [Forwarder -> 0 .. MaxEvents]
    /\ \A f \in Forwarder : shipping[f] \in Seq(Seqs)
    /\ fails \in [Forwarder -> 0 .. MaxFailures]
    /\ siem \subseteq Seqs /\ passed \subseteq Seqs
    /\ delivery \subseteq Seqs \X {"delivered", "failed"}
    /\ verifyPC \in {"idle", "rows"}
    /\ verdict \in {"none", "ok", "bad"}
    /\ failures \in 0 .. MaxFailures

NoHead == [seq |-> 0, hash |-> Genesis]

Init ==
    /\ event = [n \in Seqs |-> "free"]
    /\ prevHash = [n \in Seqs |-> NoHash]
    /\ hash = [n \in Seqs |-> NoHash]
    /\ head = NoHead
    /\ lock = {}
    /\ sealPC = [s \in Sealer |-> "idle"]
    /\ headRead = [s \in Sealer |-> NoHead]
    /\ batch = [s \in Sealer |-> << >>]
    /\ offset = 0
    /\ fwdPC = [f \in Forwarder |-> "idle"]
    /\ since = [f \in Forwarder |-> 0]
    /\ shipping = [f \in Forwarder |-> << >>]
    /\ fails = [f \in Forwarder |-> 0]
    /\ siem = {} /\ passed = {}
    /\ delivery = {}
    /\ verifyPC = "idle"
    /\ verifyHead = NoHead
    /\ verdict = "none"
    /\ failures = 0

Fails == failures < MaxFailures /\ failures' = failures + 1

Rows == {n \in Seqs : event[n] = "row"}
Sealed == {n \in Seqs : hash[n] # NoHash}

\* ORDER BY seq: the set whose one element is S in ascending order.
Ascending(S) == {q \in [1 .. Cardinality(S) -> S] :
                    \A i, j \in DOMAIN q : i < j => q[i] < q[j]}

-----------------------------------------------------------------------------
(* RecordAudit. *)

\* The INSERT takes the next seq, whatever other handlers have under way.
InsertStarts ==
    /\ \E n \in Seqs : /\ event[n] = "free"
                       /\ \A m \in 1 .. n - 1 : event[m] # "free"
                       /\ event' = [event EXCEPT ![n] = "open"]
    /\ UNCHANGED << passed, sealVars, fwdVars, verifyVars, failures >>

\* A forwarder that has read its batch.
Holding(f) == fwdPC[f] \in {"ship", "report", "record"}

\* The egress is past seq n: no later batch will have it.
EgressIsPast(n) ==
    \/ n <= offset
    \/ \E f \in Forwarder : Holding(f) /\ n < Last(shipping[f])

\* Commits come in any order.
InsertCommits(n) ==
    /\ event[n] = "open"
    /\ event' = [event EXCEPT ![n] = "row"]
    /\ passed' = IF EgressIsPast(n) THEN passed \cup {n} ELSE passed
    /\ UNCHANGED << sealVars, fwdVars, verifyVars, failures >>

\* The statement fails: its seq is a gap for good.
InsertFails(n) ==
    /\ event[n] = "open"
    /\ Fails
    /\ event' = [event EXCEPT ![n] = "lost"]
    /\ UNCHANGED << passed, sealVars, fwdVars, verifyVars >>

-----------------------------------------------------------------------------
(* SealPending, one transaction. *)

LockHead(s) ==
    /\ sealPC[s] = "idle"
    /\ lock = {}
    /\ lock' = {s}
    /\ headRead' = [headRead EXCEPT ![s] = head]
    /\ sealPC' = [sealPC EXCEPT ![s] = "locked"]
    /\ UNCHANGED << event, passed, prevHash, hash, head, batch, fwdVars, verifyVars,
                    failures >>

\* The transaction of s ends, and the lock and its locals with it.
EndSeal(s) ==
    /\ sealPC' = [sealPC EXCEPT ![s] = "idle"]
    /\ lock' = {}
    /\ headRead' = [headRead EXCEPT ![s] = NoHead]
    /\ batch' = [batch EXCEPT ![s] = << >>]

\* Mutant: a scan from the head that leaves out the row after it.
Unsealed_Skips == {n \in Rows \ Sealed : n > head.seq + 1}

\* WHERE hash IS NULL.
Unsealed == Rows \ Sealed

\* With nothing to seal the transaction rolls back.
ReadUnsealed(s) ==
    /\ sealPC[s] = "locked"
    /\ \/ /\ Unsealed = {}
          /\ EndSeal(s)
       \/ /\ Unsealed # {}
          /\ \E b \in Ascending(Unsealed) : batch' = [batch EXCEPT ![s] = b]
          /\ sealPC' = [sealPC EXCEPT ![s] = "read"]
          /\ UNCHANGED << lock, headRead >>
    /\ UNCHANGED << event, passed, prevHash, hash, head, fwdVars, verifyVars, failures >>

\* Mutant: every row of the batch is chained from the head.
Chained_FromHead(from, b, i) == from

\* The hash the i-th row of batch b is chained from.
Chained(from, b, i) == from \o SubSeq(b, 1, i - 1)

\* The updates, the compare-and-swap of the head and the commit.
SealCommits(s) ==
    LET b == batch[s]
        from == headRead[s].hash
        ChainHash(i) == Append(Chained(from, b, i), b[i])
        At(n) == CHOOSE i \in DOMAIN b : b[i] = n
    IN /\ sealPC[s] = "read"
       /\ \A i \in DOMAIN b : b[i] \notin Sealed
       /\ head = headRead[s]
       /\ prevHash' = [n \in Seqs |-> IF n \in ToSet(b)
                                      THEN Chained(from, b, At(n))
                                      ELSE prevHash[n]]
       /\ hash' = [n \in Seqs |-> IF n \in ToSet(b) THEN ChainHash(At(n))
                                  ELSE hash[n]]
       /\ head' = [seq |-> Last(b), hash |-> ChainHash(Len(b))]
       /\ EndSeal(s)
       /\ UNCHANGED << event, passed, fwdVars, verifyVars, failures >>

\* An error or the death of the replica rolls the transaction back.
SealFails(s) ==
    /\ sealPC[s] # "idle"
    /\ Fails
    /\ EndSeal(s)
    /\ UNCHANGED << event, passed, prevHash, hash, head, fwdVars, verifyVars >>

Seal(s) == LockHead(s) \/ ReadUnsealed(s) \/ SealCommits(s)

-----------------------------------------------------------------------------
(* VerifyAudit: the head, then the sealed rows. *)

VerifyReadsHead ==
    /\ verifyPC = "idle"
    /\ verifyHead' = head
    /\ verifyPC' = "rows"
    /\ verdict' = "none"
    /\ UNCHANGED << event, passed, sealVars, fwdVars, failures >>

\* The walk in seq order: each row is chained from the one before it, and the
\* last one is the head.
Verifies(h) ==
    \E walk \in Ascending(Sealed) :
       LET before(i) == IF i = 1 THEN Genesis ELSE hash[walk[i - 1]]
       IN /\ \A i \in DOMAIN walk :
                /\ prevHash[walk[i]] = before(i)
                /\ hash[walk[i]] = Append(prevHash[walk[i]], walk[i])
          /\ h = IF walk = << >> THEN NoHead
                 ELSE [seq |-> Last(walk), hash |-> hash[Last(walk)]]

VerifyReadsRows ==
    /\ verifyPC = "rows"
    /\ verdict' = IF Verifies(verifyHead) THEN "ok" ELSE "bad"
    /\ verifyPC' = "idle"
    /\ verifyHead' = NoHead
    /\ UNCHANGED << event, passed, sealVars, fwdVars, failures >>

-----------------------------------------------------------------------------
(* The forwarder loop and the handlers it calls. *)

GetForwardOffset(f) ==
    /\ fwdPC[f] = "idle"
    /\ since' = [since EXCEPT ![f] = offset]
    /\ fwdPC' = [fwdPC EXCEPT ![f] = "batch"]
    /\ UNCHANGED << event, passed, sealVars, offset, shipping, fails, siem, delivery,
                    verifyVars, failures >>

\* The round of f ends, and its batch with it.
EndRound(f) ==
    /\ fwdPC' = [fwdPC EXCEPT ![f] = "idle"]
    /\ since' = [since EXCEPT ![f] = 0]
    /\ shipping' = [shipping EXCEPT ![f] = << >>]

\* Mutant: only full batches are served.
After_Full(n) ==
    LET rest == {m \in Rows : m > n}
    IN IF Cardinality(rest) < BatchLimit THEN {} ELSE rest

\* WHERE seq > offset.
After(n) == {m \in Rows : m > n}

\* The next rows after the offset in seq order; nothing new ends the round.
ForwardBatch(f) ==
    /\ fwdPC[f] = "batch"
    /\ \/ After(since[f]) = {} /\ EndRound(f)
       \/ /\ After(since[f]) # {}
          /\ \E evs \in Ascending(After(since[f])) :
                shipping' = [shipping EXCEPT ![f] =
                    IF Len(evs) > BatchLimit THEN SubSeq(evs, 1, BatchLimit) ELSE evs]
          /\ fwdPC' = [fwdPC EXCEPT ![f] = "ship"]
          /\ UNCHANGED since
    /\ UNCHANGED << event, passed, sealVars, offset, fails, siem, delivery, verifyVars,
                    failures >>

Ship(f) ==
    /\ fwdPC[f] = "ship"
    /\ siem' = siem \cup ToSet(shipping[f])
    /\ fails' = [fails EXCEPT ![f] = 0]
    /\ fwdPC' = [fwdPC EXCEPT ![f] = "report"]
    /\ UNCHANGED << event, passed, sealVars, offset, since, shipping, delivery, verifyVars,
                    failures >>

Greatest(a, b) == IF a > b THEN a ELSE b

\* Mutant: a failed batch commits the offset like a delivered one.
Reported_Always(b, status) == Greatest(offset, Last(b))

\* Mutant: a late report of a lower batch rewinds the offset.
Reported_Rewinds(b, status) == IF status = "delivered" THEN Last(b) ELSE offset

\* The offset after a report about batch b: "failed" never moves it, and
\* "delivered" only forward.
Reported(b, status) ==
    IF status = "delivered" THEN Greatest(offset, Last(b)) ELSE offset

\* The driver returns an error; the SIEM may have taken part of the batch.  From
\* FailAlarm consecutive failures on, the failure is reported (and a report that
\* does not arrive is ignored).
ShipFails(f) ==
    LET b == shipping[f]
    IN /\ fwdPC[f] = "ship"
       /\ Fails
       /\ \E i \in 0 .. Len(b) : siem' = siem \cup ToSet(SubSeq(b, 1, i))
       /\ fails' = [fails EXCEPT ![f] = @ + 1]
       /\ \/ UNCHANGED << offset, delivery >>
          \/ /\ fails'[f] >= FailAlarm
             /\ offset' = Reported(b, "failed")
             /\ delivery' = delivery \cup {<< Last(b), "failed" >>}
       /\ EndRound(f)
       /\ UNCHANGED << event, passed, sealVars, verifyVars >>

\* ReportForward(delivered): the offset, then the delivery row.
CommitForwardOffset(f) ==
    /\ fwdPC[f] = "report"
    /\ offset' = Reported(shipping[f], "delivered")
    /\ fwdPC' = [fwdPC EXCEPT ![f] = "record"]
    /\ UNCHANGED << event, passed, sealVars, since, shipping, fails, siem, delivery,
                    verifyVars, failures >>

RecordForwardDelivery(f) ==
    /\ fwdPC[f] = "record"
    /\ delivery' = delivery \cup {<< Last(shipping[f]), "delivered" >>}
    /\ EndRound(f)
    /\ UNCHANGED << event, passed, sealVars, offset, fails, siem, verifyVars, failures >>

\* The report fails before or between its two statements.
ReportFails(f) ==
    /\ fwdPC[f] \in {"report", "record"}
    /\ Fails
    /\ EndRound(f)
    /\ UNCHANGED << event, passed, sealVars, offset, fails, siem, delivery, verifyVars >>

\* The pod dies and is restarted.
ForwarderDies(f) ==
    /\ fwdPC[f] # "idle"
    /\ Fails
    /\ fails' = [fails EXCEPT ![f] = 0]
    /\ EndRound(f)
    /\ UNCHANGED << event, passed, sealVars, offset, siem, delivery, verifyVars >>

Forward(f) ==
    GetForwardOffset(f) \/ ForwardBatch(f) \/ Ship(f) \/ CommitForwardOffset(f)
        \/ RecordForwardDelivery(f)

-----------------------------------------------------------------------------

Next ==
    \/ InsertStarts
    \/ \E n \in Seqs : InsertCommits(n) \/ InsertFails(n)
    \/ \E s \in Sealer : Seal(s) \/ SealFails(s)
    \/ VerifyReadsHead \/ VerifyReadsRows
    \/ \E f \in Forwarder :
          Forward(f) \/ ShipFails(f) \/ ReportFails(f) \/ ForwarderDies(f)

Spec == Init /\ [][Next]_vars

\* The Sealer's ticker and the forwarder's loop never stop for good, and outages
\* end (MaxFailures).  Nobody has to record or to verify anything.
FairSpec ==
    /\ Spec
    /\ \A s \in Sealer : WF_vars(Seal(s))
    /\ \A f \in Forwarder : WF_vars(Forward(f))

-----------------------------------------------------------------------------
(* Properties. *)

\* SealPending keeps one chain: whatever the Sealers, their failures, the gaps of
\* failed inserts and the order in which inserts commit, the sealed rows form a
\* single walk from Genesis to the head on which every row occurs once and is
\* chained from the row sealed before it.  VerifyAudit walks in seq order, which
\* is this walk when rows are sealed in that order.
OneChain ==
    LET walk == head.hash
        before(i) == IF i = 1 THEN Genesis ELSE hash[walk[i - 1]]
    IN /\ ToSet(walk) = Sealed
       /\ \A i, j \in DOMAIN walk : walk[i] = walk[j] => i = j
       /\ \A i \in DOMAIN walk : /\ prevHash[walk[i]] = before(i)
                                 /\ hash[walk[i]] = Append(prevHash[walk[i]], walk[i])
       /\ head = IF walk = << >> THEN NoHead
                 ELSE [seq |-> Last(walk), hash |-> hash[Last(walk)]]

\* Nothing at or below the committed offset is missing from the SIEM, but for
\* rows that committed when the egress was past their seq: a failed shipment, a
\* lost report, a crash or a racing forwarder drops no record.
EgressDropsNothing == \A n \in Rows \ passed : n <= offset => n \in siem

\* GET /audit/verify never reports an untampered ledger as broken.
VerifyAccusesNobody == verdict # "bad"

\* The stream implements the abstract ledger: the chain only grows at its end
\* and holds no record twice, the committed offset only moves forward, and it
\* covers nothing the SIEM lacks but records that came too late for it.
L == INSTANCE Ledger WITH rows <- Rows, chain <- head.hash, sent <- siem,
                          through <- offset, missed <- passed
ImplementsLedger == L!Spec

\* Every recorded event is sealed in the end: the Sealers catch up again and
\* again.
EveryEventIsSealed == []<>(Rows \subseteq Sealed)

\* Every recorded event reaches the SIEM in the end, but for rows that committed
\* when the egress was past their seq.
EveryEventIsForwarded == []<>(Rows \ passed \subseteq siem)

=============================================================================
