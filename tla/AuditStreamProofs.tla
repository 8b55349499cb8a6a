------------------------- MODULE AuditStreamProofs -------------------------
(***************************************************************************)
(* AuditStream implements Ledger, its egress drops nothing it could still  *)
(* have read and its sealed rows form one chain, for every number of       *)
(* events, Sealers and forwarders, every batch limit, any failures and any *)
(* order in which overlapping inserts commit.                              *)
(***************************************************************************)
EXTENDS AuditStream, FiniteSetTheorems, SequenceTheorems, TLAPS

\* A seq is taken, becomes a row or a gap, and only rows are sealed.
Recording ==
    /\ event \in [Seqs -> {"free", "open", "row", "lost"}]
    /\ Sealed \subseteq Rows

\* b holds unsealed rows in ascending order.
TailOf(b) ==
    /\ b \in Seq(Seqs) /\ b # << >>
    /\ \A i, j \in DOMAIN b : i < j => b[i] < b[j]
    /\ ToSet(b) \subseteq Rows
    /\ ToSet(b) \cap Sealed = {}

Heads == [seq : Nat, hash : Seq(Seqs)]

\* Whoever is inside SealPending holds the lock, so that what it read is still
\* unsealed when it commits.
Sealing ==
    /\ hash \in [Seqs -> Hashes]
    /\ head \in Heads /\ headRead \in [Sealer -> Heads]
    /\ batch \in [Sealer -> Seq(Seqs)]
    /\ sealPC \in [Sealer -> {"idle", "locked", "read"}]
    /\ \A s \in Sealer : sealPC[s] # "idle" => lock = {s}
    /\ \A s \in Sealer : sealPC[s] = "read" => TailOf(batch[s])

\* b holds the rows above n up to its last one, but for those that committed
\* after it was read.
BatchOf(b, n) ==
    /\ b \in Seq(Seqs) /\ b # << >>
    /\ ToSet(b) \subseteq Rows
    /\ \A m \in Rows \ passed : m > n /\ m <= Last(b) => m \in ToSet(b)

\* A forwarder's batch starts no higher than the offset, and what it reports
\* the SIEM has.
Forwarding ==
    /\ offset \in Nat /\ (offset = 0 \/ offset \in Rows)
    /\ siem \subseteq Rows
    /\ \A n \in Rows \ passed : n <= offset => n \in siem
    /\ since \in [Forwarder -> Nat]
    /\ shipping \in [Forwarder -> Seq(Seqs)]
    /\ fwdPC \in [Forwarder -> {"idle", "batch", "ship", "report", "record"}]
    /\ \A f \in Forwarder : since[f] <= offset
    /\ \A f \in Forwarder :
          fwdPC[f] \in {"ship", "report", "record"} => BatchOf(shipping[f], since[f])
    /\ \A f \in Forwarder :
          fwdPC[f] \in {"report", "record"} => ToSet(shipping[f]) \subseteq siem

LedgerInv == Recording /\ Sealing /\ OneChain /\ Forwarding

-----------------------------------------------------------------------------
\* The last element of a nonempty batch is one of its elements.
LEMMA LastIsIn ==
    ASSUME NEW b \in Seq(Seqs), b # << >>
    PROVE  Last(b) \in ToSet(b) /\ Last(b) \in Seqs /\ Len(b) \in DOMAIN b
BY DEF Last, ToSet

\* An ascending enumeration lists every element of its set.
LEMMA AscendingLists ==
    ASSUME NEW S, S \subseteq Seqs, NEW q \in Ascending(S)
    PROVE  /\ q \in Seq(Seqs)
           /\ Len(q) = Cardinality(S) /\ DOMAIN q = 1 .. Len(q)
           /\ ToSet(q) = S
           /\ S # {} => q # << >>
<1>0. \A x \in S : x \in Int
  <2>1. \A x \in Seqs : x \in Int
    BY Bounds DEF Seqs
  <2> QED BY <2>1
<1>1. IsFiniteSet(S) /\ Cardinality(S) \in Nat
  <2>1. IsFiniteSet(Seqs)
    BY FS_Interval, Bounds DEF Seqs
  <2> QED BY <2>1, FS_Subset, FS_CardinalityType
<1>2. q \in [1 .. Cardinality(S) -> S]
      /\ \A i, j \in DOMAIN q : i < j => q[i] < q[j]
  BY DEF Ascending
<1>3. q \in Injection(1 .. Cardinality(S), S)
  <2>1. ASSUME NEW i \in 1 .. Cardinality(S), NEW j \in 1 .. Cardinality(S), i # j
        PROVE  q[i] # q[j]
    <3>1. i < j \/ j < i
      BY <1>1, <2>1
    <3>2. DOMAIN q = 1 .. Cardinality(S) /\ q[i] \in S /\ q[j] \in S
      BY <1>2
    <3>3. q[i] \in Int /\ q[j] \in Int
      BY <1>0, <3>2
    <3> QED BY <1>2, <3>1, <3>2, <3>3
  <2> QED BY <1>2, <2>1 DEF Injection, IsInjective
<1>4. q \in Surjection(1 .. Cardinality(S), S)
  BY <1>1, <1>3, FS_Injection, FS_Interval
<1>5. ToSet(q) = S
  BY <1>2, <1>4 DEF Surjection, ToSet
<1>6. q \in Seq(S) /\ Len(q) = Cardinality(S)
  BY <1>1, <1>2
<1>7. q \in Seq(Seqs)
  BY <1>6, SeqMonotonic
<1>8. S # {} => q # << >>
  BY <1>1, <1>6, FS_EmptySet
<1> QED BY <1>2, <1>5, <1>6, <1>7, <1>8

\* A new row disturbs neither the Sealers nor the forwarders: the egress still
\* comes to it, or it is one that passed.
LEMMA GrowthKeeps ==
    ASSUME LedgerInv, UNCHANGED << sealVars, fwdVars >>,
           Rows \subseteq Rows', Rows' \subseteq Seqs, passed \subseteq passed',
           \A n \in Rows' \ Rows : EgressIsPast(n) => n \in passed'
    PROVE  Sealed' = Sealed /\ Sealing' /\ OneChain' /\ Forwarding'
<1>1. Sealed' = Sealed
  BY DEF Sealed, sealVars
<1>2. ASSUME NEW b, TailOf(b) PROVE TailOf(b)'
  BY <1>1, <1>2 DEF TailOf, ToSet
<1>3. Sealing'
  BY <1>2 DEF LedgerInv, Sealing, sealVars
<1>4. ASSUME NEW f \in Forwarder, Holding(f) PROVE BatchOf(shipping[f], since[f])'
  <2>1. BatchOf(shipping[f], since[f])
    BY <1>4 DEF LedgerInv, Forwarding, Holding
  <2>2. Last(shipping[f]) \in Rows
    BY <2>1, LastIsIn DEF BatchOf
  <2>3. ASSUME NEW m \in Rows' \ passed', m > since[f], m <= Last(shipping[f])
        PROVE  m \in ToSet(shipping[f])
    <3>1. CASE m \in Rows
      BY <2>1, <2>3, <3>1 DEF BatchOf
    <3>2. CASE m \notin Rows
      <4>1. m # Last(shipping[f]) /\ m \in Int /\ Last(shipping[f]) \in Int
        BY <2>2, <2>3, <3>2, Bounds DEF Seqs, Rows
      <4>2. m < Last(shipping[f])
        BY <2>3, <4>1
      <4> QED BY <1>4, <2>3, <3>2, <4>2 DEF EgressIsPast
    <3> QED BY <3>1, <3>2
  <2>4. UNCHANGED << shipping, since >>
    BY DEF fwdVars
  <2> QED BY <2>1, <2>3, <2>4 DEF BatchOf, Last, ToSet
<1>5. \A n \in Rows' \ passed' : n <= offset => n \in siem
  BY DEF LedgerInv, Forwarding, EgressIsPast
<1>6. Forwarding'
  BY <1>4, <1>5 DEF LedgerInv, Forwarding, fwdVars, Holding
<1>7. OneChain'
  BY <1>1 DEF LedgerInv, OneChain, sealVars
<1> QED BY <1>1, <1>3, <1>6, <1>7

\* What the egress is past lies below a row that is visible.
LEMMA PastIsBelow ==
    ASSUME LedgerInv, NEW n \in Seqs, n \notin Rows, EgressIsPast(n)
    PROVE  \E m \in Rows : n < m
<1>1. CASE n <= offset
  <2>1. offset \in Rows /\ offset \in Nat /\ n \in Nat /\ n # offset
    BY <1>1, Bounds DEF LedgerInv, Forwarding, Seqs
  <2> QED BY <1>1, <2>1
<1>2. ASSUME NEW f \in Forwarder, Holding(f), n < Last(shipping[f])
      PROVE  \E m \in Rows : n < m
  <2>1. BatchOf(shipping[f], since[f])
    BY <1>2 DEF LedgerInv, Forwarding, Holding
  <2> QED BY <1>2, <2>1, LastIsIn DEF BatchOf
<1> QED BY <1>1, <1>2 DEF EgressIsPast

\* Recording an event keeps the invariant, and is a Record of the ledger or
\* not visible in it.
LEMMA RecordStep ==
    ASSUME LedgerInv,
           InsertStarts \/ \E n \in Seqs : InsertCommits(n) \/ InsertFails(n)
    PROVE  LedgerInv' /\ [L!Next]_L!vars
<1>1. UNCHANGED << sealVars, fwdVars >>
  BY DEF InsertStarts, InsertCommits, InsertFails
<1>2. UNCHANGED << head, siem, offset >>
  BY <1>1 DEF sealVars, fwdVars
<1>3. CASE InsertStarts \/ \E n \in Seqs : InsertFails(n)
  <2>1. Rows' = Rows /\ passed' = passed
        /\ event' \in [Seqs -> {"free", "open", "row", "lost"}]
    BY <1>3 DEF InsertStarts, InsertFails, LedgerInv, Recording, Rows
  <2>2. Sealed' = Sealed /\ Sealing' /\ OneChain' /\ Forwarding'
    BY <1>1, <2>1, GrowthKeeps DEF Rows
  <2>3. LedgerInv'
    BY <2>1, <2>2 DEF LedgerInv, Recording
  <2> QED BY <1>2, <2>1, <2>3 DEF L!vars
<1>4. ASSUME NEW n \in Seqs, InsertCommits(n)
      PROVE  LedgerInv' /\ [L!Next]_L!vars
  <2>1. /\ Rows' = Rows \cup {n} /\ n \notin Rows
        /\ event' \in [Seqs -> {"free", "open", "row", "lost"}]
    BY <1>4 DEF InsertCommits, LedgerInv, Recording, Rows
  <2>2. passed' = IF EgressIsPast(n) THEN passed \cup {n} ELSE passed
    BY <1>4 DEF InsertCommits
  <2>3. Sealed' = Sealed /\ Sealing' /\ OneChain' /\ Forwarding'
    BY <1>1, <2>1, <2>2, GrowthKeeps DEF Rows
  <2>4. LedgerInv'
    BY <2>1, <2>3 DEF LedgerInv, Recording
  <2>5. passed' = passed \/ (passed' = passed \cup {n} /\ \E m \in Rows : n < m)
    BY <2>1, <2>2, PastIsBelow
  <2>6. L!Record
    BY <1>2, <2>1, <2>5 DEF L!Record
  <2> QED BY <2>4, <2>6 DEF L!Next
<1> QED BY <1>3, <1>4

-----------------------------------------------------------------------------
\* A hash that was chained from a head is not the mark of an unsealed row.
LEMMA ChainedTypes ==
    ASSUME NEW from \in Seq(Seqs), NEW b \in Seq(Seqs), NEW i \in DOMAIN b
    PROVE  /\ Append(Chained(from, b, i), b[i]) \in Seq(Seqs)
           /\ Append(Chained(from, b, i), b[i]) # NoHash
<1>1. i \in 1 .. Len(b) /\ Len(b) \in Nat /\ \A j \in 1 .. Len(b) : b[j] \in Seqs
  BY LenProperties, ElementOfSeq
<1>2. SubSeq(b, 1, i - 1) \in Seq(Seqs)
  BY <1>1, SubSeqProperties
<1>3. Chained(from, b, i) \in Seq(Seqs)
  BY <1>2, ConcatProperties DEF Chained
<1>4. b[i] \in Seqs /\ b[i] # 0
  BY <1>1, Bounds DEF Seqs
<1>5. ASSUME NEW c \in Seq(Seqs)
      PROVE  Append(c, b[i]) \in Seq(Seqs) /\ Append(c, b[i]) # << 0 >>
  <2>1. /\ Append(c, b[i]) \in Seq(Seqs)
        /\ Append(c, b[i])[Len(Append(c, b[i]))] = b[i]
    BY <1>4, AppendProperties
  <2>2. << 0 >>[Len(<< 0 >>)] = 0
    OBVIOUS
  <2> QED BY <1>4, <2>1, <2>2
<1> QED BY <1>3, <1>5 DEF NoHash

\* Nobody else is inside SealPending while s holds the lock, or while nobody
\* does.
LEMMA Alone ==
    ASSUME Sealing, NEW s \in Sealer, lock = {} \/ sealPC[s] # "idle"
    PROVE  \A t \in Sealer \ {s} : sealPC[t] = "idle"
BY DEF Sealing

\* The end of SealPending leaves no trace of it but what was committed.
LEMMA EndSealKeeps ==
    ASSUME Sealing, NEW s \in Sealer, sealPC[s] # "idle", EndSeal(s),
           hash' \in [Seqs -> Hashes], head' \in Heads
    PROVE  Sealing'
<1>1. NoHead \in Heads /\ << >> \in Seq(Seqs)
  BY DEF NoHead, Heads, Genesis
<1>2. \A t \in Sealer : sealPC'[t] = "idle"
  BY Alone DEF EndSeal, Sealing
<1>3. /\ headRead' \in [Sealer -> Heads] /\ batch' \in [Sealer -> Seq(Seqs)]
      /\ sealPC' \in [Sealer -> {"idle", "locked", "read"}]
  BY <1>1 DEF EndSeal, Sealing
<1> QED BY <1>2, <1>3 DEF Sealing

\* What is chained from a row is chained from all that came before.
LEMMA ChainedStep ==
    ASSUME NEW from \in Seq(Seqs), NEW b \in Seq(Seqs)
    PROVE  /\ Chained(from, b, 1) = from
           /\ \A i \in 2 .. Len(b) : Chained(from, b, i) = Append(Chained(from, b, i - 1), b[i - 1])
<1>1. Len(b) \in Nat /\ \A i \in 1 .. Len(b) : b[i] \in Seqs
  BY LenProperties, ElementOfSeq
<1>2. Chained(from, b, 1) = from
  <2>1. SubSeq(b, 1, 1 - 1) = << >>
    BY SubSeqEmpty
  <2> QED BY <2>1, ConcatEmptySeq DEF Chained
<1>3. ASSUME NEW i \in 2 .. Len(b)
      PROVE  Chained(from, b, i) = Append(Chained(from, b, i - 1), b[i - 1])
  <2>1. i - 1 \in 1 .. Len(b) /\ (i - 1) - 1 \in Int /\ i - 1 \in Int /\ 1 \in 1 .. Len(b)
    BY <1>1
  <2>2. SubSeq(b, 1, i - 1) = SubSeq(b, 1, (i - 1) - 1) \o << b[i - 1] >>
    <3>1. i - 1 \in 1 .. Len(b)
      BY <2>1
    <3> QED BY <2>1, <3>1, SubSeqRecursiveSecond
  <2>3. SubSeq(b, 1, (i - 1) - 1) \in Seq(Seqs)
    <3>1. \A j \in 1 .. (i - 1) - 1 : b[j] \in Seqs
      BY <1>1
    <3> QED BY <2>1, <3>1, SubSeqProperties
  <2>4. << b[i - 1] >> \in Seq(Seqs)
    BY <1>1, <2>1
  <2>5. from \o SubSeq(b, 1, (i - 1) - 1) \in Seq(Seqs)
    BY <2>3, ConcatProperties
  <2>6. from \o SubSeq(b, 1, i - 1) = (from \o SubSeq(b, 1, (i - 1) - 1)) \o << b[i - 1] >>
    BY SMTT(30), <2>2, <2>3, <2>4, ConcatAssociative
  <2>7. b[i - 1] \in Seqs
    BY <1>1, <2>1
  <2> QED BY <2>5, <2>6, <2>7, AppendIsConcat DEF Chained
<1> QED BY <1>2, <1>3

\* The hash of a batch's last row is chained from the whole batch.
LEMMA ChainedAll ==
    ASSUME NEW from \in Seq(Seqs), NEW b \in Seq(Seqs), Len(b) >= 1
    PROVE  Append(Chained(from, b, Len(b)), b[Len(b)]) = from \o b
<1>1. Len(b) \in Nat /\ DOMAIN b = 1 .. Len(b) /\ \A i \in 1 .. Len(b) : b[i] \in Seqs
  BY LenProperties, ElementOfSeq
<1>2. b = SubSeq(b, 1, Len(b) - 1) \o << b[Len(b)] >>
  <2>1. SubSeq(b, 1, Len(b)) = SubSeq(b, 1, Len(b) - 1) \o << b[Len(b)] >>
    <3>1. Len(b) \in 1 .. Len(b) /\ 1 \in 1 .. Len(b) /\ Len(b) - 1 \in Int /\ Len(b) \in Int
      BY <1>1
    <3> QED BY <3>1, SubSeqRecursiveSecond
  <2>2. SubSeq(b, 1, Len(b)) = b
    BY SubSeqFull
  <2> QED BY <2>1, <2>2
<1>3. SubSeq(b, 1, Len(b) - 1) \in Seq(Seqs) /\ << b[Len(b)] >> \in Seq(Seqs) /\ b[Len(b)] \in Seqs
  <2>1. \A j \in 1 .. Len(b) - 1 : b[j] \in Seqs
    BY <1>1
  <2>2. b[Len(b)] \in Seqs
    BY <1>1
  <2> QED BY <1>1, <2>1, <2>2, SubSeqProperties
<1>4. from \o SubSeq(b, 1, Len(b) - 1) \in Seq(Seqs)
  BY <1>3, ConcatProperties
<1>5. from \o b = (from \o SubSeq(b, 1, Len(b) - 1)) \o << b[Len(b)] >>
  <2>1. PICK p \in Seq(Seqs) : p = SubSeq(b, 1, Len(b) - 1)
    BY <1>3
  <2>2. PICK x \in Seq(Seqs) : x = << b[Len(b)] >>
    BY <1>3
  <2>3. b = p \o x
    BY ZenonT(30), <1>2, <2>1, <2>2
  <2>4. (from \o p) \o x = from \o (p \o x)
    <3>1. ASSUME NEW S, NEW u \in Seq(S), NEW v \in Seq(S), NEW w \in Seq(S)
          PROVE  (u \o v) \o w = u \o (v \o w)
      BY ONLY <3>1, ConcatAssociative
    <3> QED BY SMTT(30), <3>1
  <2> QED BY ZenonT(30), <2>1, <2>2, <2>3, <2>4
<1> QED BY <1>3, <1>4, <1>5, AppendIsConcat DEF Chained

\* A commit chains the tail it read to the head, in order.
LEMMA CommitShape ==
    ASSUME Sealing, NEW s \in Sealer, SealCommits(s)
    PROVE  \E b \in Seq(Seqs) :
             /\ TailOf(b) /\ head.hash \in Seq(Seqs) /\ Sealed' = Sealed \cup ToSet(b)
             /\ \A i \in 1 .. Len(b) :
                   /\ prevHash'[b[i]] = Chained(head.hash, b, i)
                   /\ hash'[b[i]] = Append(Chained(head.hash, b, i), b[i])
             /\ \A n \in Seqs \ ToSet(b) : prevHash'[n] = prevHash[n] /\ hash'[n] = hash[n]
             /\ head' = [seq |-> Last(b), hash |-> hash'[Last(b)]]
             /\ head'.hash = head.hash \o b
             /\ hash' \in [Seqs -> Hashes]
<1>1. PICK b \in Seq(Seqs) : b = batch[s]
  BY DEF Sealing
<1>2. PICK from \in Seq(Seqs) : from = headRead[s].hash /\ from = head.hash
  BY DEF Sealing, Heads, SealCommits
<1>3. TailOf(b)
  BY <1>1 DEF Sealing, SealCommits
<1>4. Len(b) \in Nat /\ DOMAIN b = 1 .. Len(b) /\ \A i \in 1 .. Len(b) : b[i] \in Seqs
  BY LenProperties, ElementOfSeq
<1> DEFINE At(n) == CHOOSE i \in DOMAIN b : b[i] = n
<1>5. ASSUME NEW i \in 1 .. Len(b) PROVE At(b[i]) = i
  <2>1. At(b[i]) \in 1 .. Len(b) /\ b[At(b[i])] = b[i]
    BY <1>4
  <2>2. \A j \in 1 .. Len(b) : b[j] \in Int
    BY <1>4, Bounds DEF Seqs
  <2>3. \A j, k \in 1 .. Len(b) : j < k => b[j] < b[k]
    BY <1>3, <1>4 DEF TailOf
  <2> HIDE DEF At
  <2> QED BY <1>4, <2>1, <2>2, <2>3
<1>6. \A n \in Seqs :
        /\ prevHash'[n] = IF n \in ToSet(b) THEN Chained(from, b, At(n)) ELSE prevHash[n]
        /\ hash'[n] = IF n \in ToSet(b) THEN Append(Chained(from, b, At(n)), b[At(n)]) ELSE hash[n]
  BY <1>1, <1>2 DEF SealCommits
<1>7. \A i \in 1 .. Len(b) : b[i] \in ToSet(b)
  BY <1>4 DEF ToSet
<1> HIDE DEF At
<1>8. \A i \in 1 .. Len(b) : /\ prevHash'[b[i]] = Chained(from, b, i)
                             /\ hash'[b[i]] = Append(Chained(from, b, i), b[i])
  BY <1>4, <1>5, <1>6, <1>7
<1>9. head' = [seq |-> Last(b), hash |-> hash'[Last(b)]]
  <2>1. Len(b) \in 1 .. Len(b) /\ Last(b) = b[Len(b)]
    BY <1>3, <1>4, LastIsIn DEF TailOf, Last
  <2>2. head' = [seq |-> Last(b), hash |-> Append(Chained(from, b, Len(b)), b[Len(b)])]
    BY <1>1, <1>2 DEF SealCommits
  <2> QED BY <1>8, <2>1, <2>2
<1>10. Sealed' = Sealed \cup ToSet(b)
  <2>1. \A n \in ToSet(b) : n \in Seqs /\ hash'[n] # NoHash
    <3>1. \A i \in 1 .. Len(b) : b[i] \in Seqs /\ hash'[b[i]] # NoHash
      <4>1. \A i \in 1 .. Len(b) : Append(Chained(from, b, i), b[i]) # NoHash
        BY <1>4, ChainedTypes
      <4> QED BY <1>4, <1>8, <4>1
    <3> QED BY <1>4, <3>1 DEF ToSet
  <2> QED BY <1>6, <2>1 DEF Sealed
<1>11. head'.hash = from \o b
  <2>1. Len(b) >= 1
    BY <1>3, <1>4, EmptySeq DEF TailOf
  <2>2. head'.hash = Append(Chained(from, b, Len(b)), b[Len(b)])
    BY <1>1, <1>2 DEF SealCommits
  <2> QED BY <2>1, <2>2, ChainedAll
<1>12. hash' \in [Seqs -> Hashes]
  <2>1. \A i \in 1 .. Len(b) : hash'[b[i]] \in Hashes
    <3>1. \A i \in 1 .. Len(b) : Append(Chained(from, b, i), b[i]) \in Seq(Seqs)
      BY <1>4, ChainedTypes
    <3> QED BY <1>8, <3>1 DEF Hashes
  <2>2. \A n \in Seqs : hash'[n] \in Hashes
    <3>1. \A n \in Seqs : n \in ToSet(b) => \E i \in 1 .. Len(b) : n = b[i]
      BY <1>4 DEF ToSet
    <3> QED BY <1>6, <2>1, <3>1 DEF Sealing
  <2>3. hash' = [n \in Seqs |-> hash'[n]]
    BY DEF SealCommits
  <2> QED BY <2>2, <2>3
<1> QED BY <1>2, <1>3, <1>6, <1>8, <1>9, <1>10, <1>11, <1>12

\* A commit extends the walk by the tail it read, and the walk is the chain of
\* the ledger.
LEMMA CommitLinks ==
    ASSUME Recording, Sealing, OneChain, NEW s \in Sealer, SealCommits(s)
    PROVE  /\ OneChain' /\ head' \in Heads /\ hash' \in [Seqs -> Hashes]
           /\ Sealed \subseteq Sealed' /\ Sealed' \subseteq Rows
           /\ Len(head.hash) < Len(head'.hash)
           /\ \A i \in 1 .. Len(head.hash) : head'.hash[i] = head.hash[i]
           /\ \A i \in 1 .. Len(head'.hash) : head'.hash[i] \in Rows
           /\ \A i, j \in 1 .. Len(head'.hash) : head'.hash[i] = head'.hash[j] => i = j
<1>1. PICK b \in Seq(Seqs) :
        /\ TailOf(b) /\ head.hash \in Seq(Seqs) /\ Sealed' = Sealed \cup ToSet(b)
        /\ \A i \in 1 .. Len(b) :
              /\ prevHash'[b[i]] = Chained(head.hash, b, i)
              /\ hash'[b[i]] = Append(Chained(head.hash, b, i), b[i])
        /\ \A n \in Seqs \ ToSet(b) : prevHash'[n] = prevHash[n] /\ hash'[n] = hash[n]
        /\ head' = [seq |-> Last(b), hash |-> hash'[Last(b)]]
        /\ head'.hash = head.hash \o b
        /\ hash' \in [Seqs -> Hashes]
  BY CommitShape
<1>w. PICK w \in Seq(Seqs) : w = head.hash
  BY <1>1
<1>l. /\ ToSet(w) = Sealed
      /\ \A i, j \in 1 .. Len(w) : w[i] = w[j] => i = j
      /\ \A i \in 1 .. Len(w) :
            /\ prevHash[w[i]] = IF i = 1 THEN Genesis ELSE hash[w[i - 1]]
            /\ hash[w[i]] = Append(prevHash[w[i]], w[i])
  <2>1. DOMAIN w = 1 .. Len(w)
    BY LenProperties
  <2> QED BY <1>w, <2>1 DEF OneChain
<1>2. PICK v : v = w \o b
  OBVIOUS
<1>3. /\ Len(w) \in Nat /\ DOMAIN w = 1 .. Len(w) /\ \A i \in 1 .. Len(w) : w[i] \in Seqs
      /\ Len(b) \in Nat /\ DOMAIN b = 1 .. Len(b) /\ \A i \in 1 .. Len(b) : b[i] \in Seqs
      /\ Len(b) >= 1
  <2>1. b # << >>
    BY <1>1 DEF TailOf
  <2> QED BY <2>1, LenProperties, ElementOfSeq, EmptySeq
<1>4. /\ v \in Seq(Seqs) /\ Len(v) = Len(w) + Len(b)
      /\ \A i \in 1 .. Len(w) : v[i] = w[i]
      /\ \A i \in 1 .. Len(b) : v[Len(w) + i] = b[i]
  <2>2. /\ v \in Seq(Seqs) /\ Len(v) = Len(w) + Len(b)
        /\ \A i \in 1 .. Len(w) + Len(b) : v[i] = IF i <= Len(w) THEN w[i] ELSE b[i - Len(w)]
    BY <1>2, ConcatProperties
  <2>3. ASSUME NEW i \in 1 .. Len(b) PROVE v[Len(w) + i] = b[i]
    <3>1. Len(w) + i \in 1 .. Len(w) + Len(b) /\ ~(Len(w) + i <= Len(w)) /\ (Len(w) + i) - Len(w) = i
      BY <1>3
    <3> QED BY <2>2, <3>1
  <2>4. ASSUME NEW i \in 1 .. Len(w) PROVE v[i] = w[i]
    <3>1. i \in 1 .. Len(w) + Len(b) /\ i <= Len(w)
      BY <1>3
    <3> QED BY <2>2, <3>1
  <2> QED BY <2>2, <2>3, <2>4
<1>5. \A i \in 1 .. Len(v) : i \in 1 .. Len(w) \/ \E j \in 1 .. Len(b) : i = Len(w) + j
  <2>1. ASSUME NEW i \in 1 .. Len(v), ~(i \in 1 .. Len(w)) PROVE \E j \in 1 .. Len(b) : i = Len(w) + j
    <3>1. i - Len(w) \in 1 .. Len(b) /\ i = Len(w) + (i - Len(w))
      BY <1>3, <1>4, <2>1
    <3> QED BY <3>1
  <2> QED BY <2>1
<1>6. ToSet(v) = Sealed'
  <2>1. ToSet(w) = {w[i] : i \in 1 .. Len(w)} /\ ToSet(b) = {b[i] : i \in 1 .. Len(b)}
    BY <1>3 DEF ToSet
  <2>2. DOMAIN v = 1 .. Len(v)
    BY <1>4, LenProperties
  <2>3. ToSet(v) \subseteq ToSet(w) \cup ToSet(b)
    <3>1. ASSUME NEW i \in 1 .. Len(v) PROVE v[i] \in ToSet(w) \cup ToSet(b)
      <4>1. CASE i \in 1 .. Len(w)
        BY <1>4, <2>1, <4>1
      <4>2. ASSUME NEW j \in 1 .. Len(b), i = Len(w) + j PROVE v[i] \in ToSet(b)
        BY <1>4, <2>1, <4>2
      <4> QED BY <1>5, <4>1, <4>2
    <3> QED BY <2>2, <3>1 DEF ToSet
  <2>4. \A i \in 1 .. Len(b) : Len(w) + i \in 1 .. Len(v)
    BY <1>3, <1>4
  <2>5. \A i \in 1 .. Len(w) : i \in 1 .. Len(v)
    BY <1>3, <1>4
  <2>6. ToSet(w) \cup ToSet(b) \subseteq ToSet(v)
    <3>1. ToSet(v) = {v[i] : i \in 1 .. Len(v)}
      BY <2>2 DEF ToSet
    <3>2. \A i \in 1 .. Len(w) : w[i] \in ToSet(v)
      BY <1>4, <2>5, <3>1
    <3>3. \A i \in 1 .. Len(b) : b[i] \in ToSet(v)
      BY <1>4, <2>4, <3>1
    <3> QED BY <2>1, <3>2, <3>3
  <2> QED BY <1>1, <1>l, <2>3, <2>6
<1>7. \A i \in 1 .. Len(w), j \in 1 .. Len(b) : w[i] # b[j] /\ w[i] \in Seqs \ ToSet(b)
  <2>1. ASSUME NEW i \in 1 .. Len(w), NEW j \in 1 .. Len(b)
        PROVE  w[i] # b[j] /\ w[i] \in Seqs \ ToSet(b)
    <3>1. w[i] \in Sealed /\ b[j] \in ToSet(b)
      BY <1>3, <1>l DEF ToSet
    <3>2. w[i] \notin ToSet(b)
      BY <1>1, <3>1 DEF TailOf
    <3> QED BY <1>3, <3>1, <3>2
  <2> QED BY <2>1
<1>8. \A i, j \in 1 .. Len(v) : v[i] = v[j] => i = j
  <2>1. \A k, l \in 1 .. Len(b) : b[k] = b[l] => k = l
    <3>1. \A k \in 1 .. Len(b) : b[k] \in Int
      BY <1>3, Bounds DEF Seqs
    <3>2. \A k, l \in 1 .. Len(b) : k < l => b[k] < b[l]
      BY <1>1, <1>3 DEF TailOf
    <3> QED BY <1>3, <3>1, <3>2
  <2>2. ASSUME NEW i \in 1 .. Len(v), NEW j \in 1 .. Len(v), v[i] = v[j] PROVE i = j
    <3>1. CASE i \in 1 .. Len(w) /\ j \in 1 .. Len(w)
      BY <1>4, <1>l, <2>2, <3>1
    <3>2. ASSUME NEW k \in 1 .. Len(b), j = Len(w) + k, i \in 1 .. Len(w) PROVE FALSE
      BY <1>4, <1>7, <2>2, <3>2
    <3>3. ASSUME NEW k \in 1 .. Len(b), i = Len(w) + k, j \in 1 .. Len(w) PROVE FALSE
      BY <1>4, <1>7, <2>2, <3>3
    <3>4. ASSUME NEW k \in 1 .. Len(b), j = Len(w) + k, NEW l \in 1 .. Len(b), i = Len(w) + l
          PROVE  i = j
      BY <1>4, <2>1, <2>2, <3>4
    <3> QED BY <1>5, <3>1, <3>2, <3>3, <3>4
  <2> QED BY <2>2
<1>9. \A i \in 1 .. Len(v) :
        /\ prevHash'[v[i]] = IF i = 1 THEN Genesis ELSE hash'[v[i - 1]]
        /\ hash'[v[i]] = Append(prevHash'[v[i]], v[i])
  <2>1. ASSUME NEW i \in 1 .. Len(w)
        PROVE  /\ prevHash'[v[i]] = IF i = 1 THEN Genesis ELSE hash'[v[i - 1]]
               /\ hash'[v[i]] = Append(prevHash'[v[i]], v[i])
    <3>1. \A j \in 1 .. Len(w) : v[j] = w[j] /\ prevHash'[w[j]] = prevHash[w[j]] /\ hash'[w[j]] = hash[w[j]]
      <4>1. 1 \in 1 .. Len(b)
        BY <1>3
      <4> QED BY <1>1, <1>4, <1>7, <4>1
    <3>2. i = 1 \/ i - 1 \in 1 .. Len(w)
      BY <1>3
    <3>3. /\ prevHash[w[i]] = IF i = 1 THEN Genesis ELSE hash[w[i - 1]]
          /\ hash[w[i]] = Append(prevHash[w[i]], w[i])
      BY <1>l
    <3>4. CASE i = 1
      BY <3>1, <3>3, <3>4
    <3>5. CASE i # 1
      <4>1. v[i - 1] = w[i - 1] /\ hash'[w[i - 1]] = hash[w[i - 1]]
        BY <3>1, <3>2, <3>5
      <4> QED BY <3>1, <3>3, <3>5, <4>1
    <3> QED BY <3>4, <3>5
  <2>2. ASSUME NEW k \in 1 .. Len(b), NEW i, i = Len(w) + k
        PROVE  /\ prevHash'[v[i]] = IF i = 1 THEN Genesis ELSE hash'[v[i - 1]]
               /\ hash'[v[i]] = Append(prevHash'[v[i]], v[i])
    <3>1. v[i] = b[k] /\ prevHash'[b[k]] = Chained(head.hash, b, k) /\ hash'[b[k]] = Append(Chained(head.hash, b, k), b[k])
      BY <1>1, <1>4, <2>2
    <3>2. CASE k = 1
      <4>1. prevHash'[b[k]] = head.hash
        BY <1>1, <3>1, <3>2, ChainedStep
      <4>2. CASE Len(w) = 0
        <5>1. w = << >> /\ i = 1
          BY <2>2, <3>2, <4>2, EmptySeq
        <5> QED BY <1>w, <3>1, <4>1, <5>1 DEF Genesis
      <4>3. CASE Len(w) # 0
        <5>1. Len(w) \in 1 .. Len(w) /\ i # 1 /\ i - 1 = Len(w) /\ w # << >>
          BY <1>3, <2>2, <3>2, <4>3
        <5>2. head.hash = hash[w[Len(w)]]
          BY <1>w, <5>1 DEF OneChain, Last
        <5>3. hash'[v[i - 1]] = hash[w[Len(w)]]
          BY <1>1, <1>4, <1>7, <3>2, <5>1
        <5> QED BY <3>1, <4>1, <5>1, <5>2, <5>3
      <4> QED BY <4>2, <4>3
    <3>3. CASE k # 1
      <4>1. k \in 2 .. Len(b) /\ k - 1 \in 1 .. Len(b) /\ i # 1 /\ i - 1 = Len(w) + (k - 1)
        BY <1>3, <2>2, <3>3
      <4>2. hash'[v[i - 1]] = Append(Chained(head.hash, b, k - 1), b[k - 1])
        <5>1. v[i - 1] = b[k - 1]
          BY <1>4, <4>1
        <5> QED BY <1>1, <4>1, <5>1
      <4>3. Chained(head.hash, b, k) = Append(Chained(head.hash, b, k - 1), b[k - 1])
        BY <1>1, <4>1, ChainedStep
      <4> QED BY <3>1, <4>1, <4>2, <4>3
    <3> QED BY <3>2, <3>3
  <2> QED BY ZenonT(40), <1>5, <2>1, <2>2
<1>10. v # << >> /\ Last(v) = Last(b)
  <2>1. Len(v) >= 1 /\ Len(b) \in 1 .. Len(b)
    BY <1>3, <1>4
  <2> QED BY <1>4, <2>1, EmptySeq DEF Last
<1>11. /\ v = head'.hash /\ DOMAIN v = 1 .. Len(v)
       /\ head' = [seq |-> Last(v), hash |-> hash'[Last(v)]]
  BY <1>1, <1>2, <1>4, <1>10, <1>w, LenProperties
<1>12. OneChain'
  BY <1>6, <1>8, <1>9, <1>10, <1>11 DEF OneChain
<1>13. head' \in Heads
  <2>1. Last(b) \in Nat
    BY <1>1, LastIsIn, Bounds DEF TailOf, Seqs
  <2>2. hash'[Last(b)] \in Seq(Seqs)
    BY <1>1, <1>4, <1>11
  <2> QED BY <1>1, <2>1, <2>2 DEF Heads
<1>14. Sealed \subseteq Sealed' /\ Sealed' \subseteq Rows
  BY <1>1 DEF Recording, TailOf
<1>15. \A i \in 1 .. Len(v) : v[i] \in Rows
  <2>1. \A i \in 1 .. Len(v) : v[i] \in ToSet(v)
    BY <1>11 DEF ToSet
  <2> QED BY <1>6, <1>14, <2>1
<1>16. Len(w) < Len(v)
  BY <1>3, <1>4
<1>17. head'.hash = v /\ head.hash = w /\ hash' \in [Seqs -> Hashes]
  BY <1>1, <1>11, <1>w
<1> QED
  BY Zenon, <1>4, <1>8, <1>12, <1>13, <1>14, <1>15, <1>16, <1>17

\* SealPending keeps the invariant; its commit is a Seal of the ledger.
LEMMA SealStep ==
    ASSUME LedgerInv, NEW s \in Sealer, Seal(s) \/ SealFails(s)
    PROVE  LedgerInv' /\ [L!Next]_L!vars
<1> USE DEF LedgerInv
<1>1. UNCHANGED << event, passed, fwdVars >>
  BY DEF Seal, LockHead, ReadUnsealed, SealCommits, SealFails
<1>2. Rows' = Rows /\ UNCHANGED << event, passed, siem, offset >>
  BY <1>1 DEF Rows, fwdVars
<1>3. Forwarding'
  BY <1>1, <1>2 DEF Forwarding, BatchOf, fwdVars, ToSet, Last
<1>4. ASSUME UNCHANGED << prevHash, hash, head >>, Sealing'
      PROVE  LedgerInv' /\ [L!Next]_L!vars
  <2>1. Sealed' = Sealed
    BY <1>4 DEF Sealed
  <2>2. OneChain'
    BY <1>4, <2>1 DEF OneChain
  <2> QED BY <1>2, <1>3, <1>4, <2>1, <2>2 DEF Recording, L!vars
<1>5. CASE LockHead(s)
  <2>1. \A t \in Sealer \ {s} : sealPC[t] = "idle"
    BY <1>5, Alone DEF LockHead
  <2>2. Sealing'
    BY <1>5, <2>1 DEF LockHead, Sealing
  <2> QED BY <1>4, <1>5, <2>2 DEF LockHead
<1>6. CASE SealFails(s)
  BY <1>4, <1>6, EndSealKeeps DEF SealFails, Sealing
<1>7. CASE ReadUnsealed(s) /\ EndSeal(s)
  BY <1>4, <1>7, EndSealKeeps DEF ReadUnsealed, Sealing
<1>8. CASE ReadUnsealed(s) /\ sealPC' = [sealPC EXCEPT ![s] = "read"] /\ Unsealed # {}
           /\ (\E b \in Ascending(Unsealed) : batch' = [batch EXCEPT ![s] = b])
           /\ UNCHANGED << lock, headRead >>
  <2>1. PICK b \in Ascending(Unsealed) : batch' = [batch EXCEPT ![s] = b]
    BY <1>8
  <2>2. Unsealed \subseteq Seqs
    BY DEF Unsealed, Rows
  <2>3. /\ b \in Seq(Seqs) /\ b # << >> /\ ToSet(b) = Unsealed
        /\ \A i, j \in DOMAIN b : i < j => b[i] < b[j]
    BY <1>8, <2>1, <2>2, AscendingLists DEF Ascending
  <2>4. TailOf(b)
    BY <2>3 DEF TailOf, Unsealed
  <2>5. UNCHANGED << prevHash, hash, head >> /\ sealPC[s] = "locked"
    BY <1>8 DEF ReadUnsealed
  <2>6. Sealed' = Sealed
    BY <2>5 DEF Sealed
  <2>7. TailOf(b)'
    BY <1>2, <2>4, <2>6 DEF TailOf, ToSet, Last
  <2>8. \A t \in Sealer \ {s} : sealPC[t] = "idle"
    BY <2>5, Alone
  <2>9. batch' \in [Sealer -> Seq(Seqs)] /\ batch'[s] = b
    BY <2>1, <2>3 DEF Sealing
  <2>10. Sealing'
    BY <1>8, <2>5, <2>7, <2>8, <2>9 DEF Sealing
  <2> QED BY <1>4, <2>5, <2>10
<1>9. CASE SealCommits(s)
  <2>1. /\ OneChain' /\ head' \in Heads /\ hash' \in [Seqs -> Hashes]
        /\ Sealed' \subseteq Rows
        /\ Len(head.hash) < Len(head'.hash)
        /\ \A i \in 1 .. Len(head.hash) : head'.hash[i] = head.hash[i]
        /\ \A i \in 1 .. Len(head'.hash) : head'.hash[i] \in Rows
        /\ \A i, j \in 1 .. Len(head'.hash) : head'.hash[i] = head'.hash[j] => i = j
    BY <1>9, CommitLinks
  <2>2. Sealing'
    BY <1>9, <2>1, EndSealKeeps DEF SealCommits
  <2>3. Recording'
    BY <1>2, <2>1 DEF Recording
  <2>4. L!Seal
    BY <1>2, <2>1 DEF L!Seal
  <2> QED BY <1>3, <2>1, <2>2, <2>3, <2>4 DEF L!Next
<1> QED BY <1>5, <1>6, <1>7, <1>8, <1>9 DEF Seal, ReadUnsealed

-----------------------------------------------------------------------------
\* What a forwarder batch holds: rows, all of them up to its last one.
LEMMA BatchSent ==
    ASSUME Forwarding, NEW f \in Forwarder, fwdPC[f] \in {"ship", "report", "record"}
    PROVE  /\ shipping[f] \in Seq(Seqs) /\ ToSet(shipping[f]) \subseteq Rows
           /\ Last(shipping[f]) \in Rows
           /\ ToSet(shipping[f]) \subseteq siem =>
                \A m \in Rows \ passed : m <= Last(shipping[f]) => m \in siem
<1>1. BatchOf(shipping[f], since[f]) /\ since[f] \in Nat /\ since[f] <= offset /\ offset \in Nat
  BY DEF Forwarding
<1>2. Last(shipping[f]) \in ToSet(shipping[f])
  BY <1>1, LastIsIn DEF BatchOf
<1>3. \A m \in Rows : m \in Int
  BY Bounds DEF Rows, Seqs
<1>4. ASSUME ToSet(shipping[f]) \subseteq siem, NEW m \in Rows \ passed, m <= Last(shipping[f])
      PROVE  m \in siem
  <2>1. CASE m > since[f]
    BY <1>1, <1>4, <2>1 DEF BatchOf
  <2>2. CASE m <= since[f]
    BY <1>1, <1>3, <2>2 DEF Forwarding
  <2> QED BY <1>1, <1>3, <2>1, <2>2
<1> QED BY <1>1, <1>2, <1>4 DEF BatchOf

\* The batch ForwardBatch serves.
LEMMA Served ==
    ASSUME NEW n \in Nat, NEW evs \in Ascending(After(n)), After(n) # {}
    PROVE  BatchOf(IF Len(evs) > BatchLimit THEN SubSeq(evs, 1, BatchLimit) ELSE evs, n)
<1>1. After(n) \subseteq Seqs
  BY DEF After, Rows
<1>2. /\ evs \in Seq(Seqs) /\ evs # << >> /\ ToSet(evs) = After(n)
      /\ DOMAIN evs = 1 .. Len(evs) /\ Len(evs) \in Nat
      /\ \A i, j \in DOMAIN evs : i < j => evs[i] < evs[j]
  BY <1>1, AscendingLists, LenProperties DEF Ascending
<1>3. CASE ~(Len(evs) > BatchLimit)
  BY <1>2, <1>3 DEF BatchOf, After
<1>4. CASE Len(evs) > BatchLimit
  <2> DEFINE b == SubSeq(evs, 1, BatchLimit)
  <2>1. BatchLimit \in Nat /\ BatchLimit >= 1
    BY Bounds
  <2>2. \A i \in 1 .. BatchLimit : evs[i] \in Seqs
    BY <1>2, <1>4, <2>1
  <2>3. /\ b \in Seq(Seqs) /\ Len(b) = BatchLimit
        /\ \A i \in 1 .. BatchLimit : b[i] = evs[i]
    BY <2>1, <2>2, SubSeqProperties
  <2> HIDE DEF b
  <2>4. DOMAIN b = 1 .. BatchLimit /\ b # << >> /\ Last(b) = evs[BatchLimit]
    <3>1. DOMAIN b = 1 .. Len(b)
      BY <2>3, LenProperties
    <3>2. b # << >>
      BY <2>1, <2>3, EmptySeq
    <3>3. Last(b) = b[BatchLimit] /\ BatchLimit \in 1 .. BatchLimit
      BY <2>1, <2>3 DEF Last
    <3> QED BY <2>3, <3>1, <3>2, <3>3
  <2>5. ToSet(b) = {evs[i] : i \in 1 .. BatchLimit}
    BY <2>3, <2>4 DEF ToSet
  <2>6. ToSet(b) \subseteq Rows
    <3>1. \A i \in 1 .. BatchLimit : i \in DOMAIN evs
      BY <1>2, <1>4, <2>1
    <3>2. \A i \in 1 .. BatchLimit : evs[i] \in After(n)
      BY <1>2, <3>1 DEF ToSet
    <3> QED BY <2>5, <3>2 DEF After
  <2>7. ASSUME NEW m \in Rows, m > n, m <= Last(b) PROVE m \in ToSet(b)
    <3>1. PICK i \in 1 .. Len(evs) : evs[i] = m
      BY <1>2, <2>7 DEF ToSet, After
    <3>2. CASE i <= BatchLimit
      BY <2>1, <2>5, <3>1, <3>2
    <3>3. CASE BatchLimit < i
      <4>1. evs[BatchLimit] < evs[i]
        BY <1>2, <1>4, <2>1, <3>3
      <4>2. evs[BatchLimit] \in Int /\ m \in Int
        BY <2>1, <2>2, Bounds DEF Rows, Seqs
      <4> QED BY <2>4, <2>7, <3>1, <4>1, <4>2
    <3> QED BY <2>1, <3>1, <3>2, <3>3
  <2> QED BY <1>4, <2>3, <2>4, <2>6, <2>7 DEF BatchOf, b
<1> QED BY <1>3, <1>4

\* What a step of forwarder f must give for the invariant to hold after it.
LEMMA RoundKeeps ==
    ASSUME Forwarding, NEW f \in Forwarder, UNCHANGED << event, passed >>,
           offset' \in Nat, offset' = offset \/ (offset' \in Rows /\ offset < offset'),
           siem \subseteq siem', siem' \subseteq Rows,
           \A n \in Rows \ passed : n <= offset' => n \in siem',
           since' \in [Forwarder -> Nat], shipping' \in [Forwarder -> Seq(Seqs)],
           fwdPC' \in [Forwarder -> {"idle", "batch", "ship", "report", "record"}],
           \A g \in Forwarder \ {f} :
              since'[g] = since[g] /\ shipping'[g] = shipping[g] /\ fwdPC'[g] = fwdPC[g],
           since'[f] <= offset',
           fwdPC'[f] \in {"ship", "report", "record"} => BatchOf(shipping'[f], since'[f]),
           fwdPC'[f] \in {"report", "record"} => ToSet(shipping'[f]) \subseteq siem'
    PROVE  Forwarding'
<1>1. Rows' = Rows
  BY DEF Rows
<1>2. offset \in Nat /\ offset <= offset' /\ (offset' = 0 \/ offset' \in Rows)
  BY DEF Forwarding
<1>3. ASSUME NEW g \in Forwarder PROVE since'[g] <= offset'
  <2>1. CASE g = f
    BY <2>1
  <2>2. CASE g # f
    <3>1. since'[g] = since[g] /\ since[g] \in Nat /\ since[g] <= offset
      BY <2>2 DEF Forwarding
    <3> QED BY <1>2, <3>1
  <2> QED BY <2>1, <2>2
<1>4. ASSUME NEW g \in Forwarder, fwdPC'[g] \in {"ship", "report", "record"}
      PROVE  BatchOf(shipping[g], since[g])'
  <2>1. BatchOf(shipping'[g], since'[g])
    <3>1. CASE g = f
      BY <1>4, <3>1
    <3>2. CASE g # f
      BY <1>4, <3>2 DEF Forwarding
    <3> QED BY <3>1, <3>2
  <2> QED BY <1>1, <2>1 DEF BatchOf, ToSet, Last
<1>5. ASSUME NEW g \in Forwarder, fwdPC'[g] \in {"report", "record"}
      PROVE  ToSet(shipping'[g]) \subseteq siem'
  <2>1. CASE g = f
    BY <1>5, <2>1
  <2>2. CASE g # f
    BY <1>5, <2>2 DEF Forwarding
  <2> QED BY <2>1, <2>2
<1> HIDE DEF BatchOf
<1> QED BY <1>1, <1>2, <1>3, <1>4, <1>5 DEF Forwarding, ToSet

\* The end of a round keeps the invariant, whatever part of the batch the SIEM
\* took before.
LEMMA EndRoundKeeps ==
    ASSUME Forwarding, NEW f \in Forwarder, EndRound(f), UNCHANGED << event, passed, offset >>,
           siem \subseteq siem', siem' \subseteq Rows
    PROVE  Forwarding'
<1>1. offset' \in Nat /\ offset' = offset /\ \A n \in Rows \ passed : n <= offset' => n \in siem'
  BY DEF Forwarding
<1>2. << >> \in Seq(Seqs)
  OBVIOUS
<1>3. /\ since' \in [Forwarder -> Nat] /\ shipping' \in [Forwarder -> Seq(Seqs)]
      /\ fwdPC' \in [Forwarder -> {"idle", "batch", "ship", "report", "record"}]
      /\ since'[f] = 0 /\ fwdPC'[f] = "idle"
      /\ \A g \in Forwarder \ {f} :
            since'[g] = since[g] /\ shipping'[g] = shipping[g] /\ fwdPC'[g] = fwdPC[g]
  BY <1>2 DEF EndRound, Forwarding
<1>4. since'[f] <= offset'
  BY <1>1, <1>3
<1> QED BY <1>1, <1>3, <1>4, RoundKeeps

\* A forwarder keeps the invariant; a shipment is a Send of the ledger and a
\* report that moves the offset a Commit.
LEMMA ForwardStep ==
    ASSUME LedgerInv, NEW f \in Forwarder,
           Forward(f) \/ ShipFails(f) \/ ReportFails(f) \/ ForwarderDies(f)
    PROVE  LedgerInv' /\ [L!Next]_L!vars
<1> USE DEF LedgerInv
<1>1. UNCHANGED << event, passed, sealVars >>
  BY DEF Forward, GetForwardOffset, ForwardBatch, Ship, CommitForwardOffset,
         RecordForwardDelivery, ShipFails, ReportFails, ForwarderDies
<1>2. Rows' = Rows /\ Sealed' = Sealed
  BY <1>1 DEF Rows, Sealed, sealVars
<1>3. Recording' /\ Sealing' /\ OneChain' /\ UNCHANGED << head, passed >>
  <2>1. Recording' /\ OneChain' /\ UNCHANGED << head, passed >>
    BY <1>1, <1>2 DEF Recording, OneChain, sealVars
  <2>2. \A b : TailOf(b) => TailOf(b)'
    BY <1>2 DEF TailOf, ToSet, Last
  <2>3. Sealing'
    BY <1>1, <2>2 DEF Sealing, sealVars
  <2> QED BY <2>1, <2>3
<1>4. ASSUME UNCHANGED << siem, offset >>, Forwarding' PROVE LedgerInv' /\ [L!Next]_L!vars
  BY <1>2, <1>3, <1>4 DEF L!vars
<1>5. ASSUME NEW more \in SUBSET Rows, siem' = siem \cup more, UNCHANGED offset, Forwarding'
      PROVE  LedgerInv' /\ [L!Next]_L!vars
  BY <1>2, <1>3, <1>5 DEF L!Next, L!Send
<1>6. CASE GetForwardOffset(f)
  <2>1. Forwarding'
    <3>1. /\ since' = [since EXCEPT ![f] = offset] /\ fwdPC' = [fwdPC EXCEPT ![f] = "batch"]
          /\ UNCHANGED << event, passed, offset, shipping, siem >>
      BY <1>6 DEF GetForwardOffset
    <3>2. /\ since' \in [Forwarder -> Nat] /\ shipping' \in [Forwarder -> Seq(Seqs)]
          /\ fwdPC' \in [Forwarder -> {"idle", "batch", "ship", "report", "record"}]
          /\ since'[f] = offset /\ fwdPC'[f] = "batch" /\ offset \in Nat
          /\ siem \subseteq Rows
          /\ \A n \in Rows \ passed : n <= offset => n \in siem
          /\ \A g \in Forwarder \ {f} :
                since'[g] = since[g] /\ shipping'[g] = shipping[g] /\ fwdPC'[g] = fwdPC[g]
      BY <3>1 DEF Forwarding
    <3>3. since'[f] <= offset'
      BY <3>1, <3>2
    <3> QED BY <3>1, <3>2, <3>3, RoundKeeps
  <2> QED BY <1>4, <1>6, <2>1 DEF GetForwardOffset
<1>7. CASE ForwardBatch(f) /\ EndRound(f)
  <2>1. Forwarding'
    BY <1>7, EndRoundKeeps DEF ForwardBatch, Forwarding
  <2> QED BY <1>4, <1>7, <2>1 DEF ForwardBatch
<1>8. CASE ForwardBatch(f) /\ ~EndRound(f)
  <2>1. /\ After(since[f]) # {} /\ fwdPC' = [fwdPC EXCEPT ![f] = "ship"]
        /\ UNCHANGED << event, passed, since, offset, siem >>
    BY <1>8 DEF ForwardBatch
  <2>2. PICK evs \in Ascending(After(since[f])) : shipping' = [shipping EXCEPT ![f] =
            IF Len(evs) > BatchLimit THEN SubSeq(evs, 1, BatchLimit) ELSE evs]
    BY <1>8 DEF ForwardBatch
  <2> DEFINE b == IF Len(evs) > BatchLimit THEN SubSeq(evs, 1, BatchLimit) ELSE evs
  <2>3. since[f] \in Nat /\ since[f] <= offset
    BY DEF Forwarding
  <2>4. BatchOf(b, since[f])
    BY <2>1, <2>2, <2>3, Served
  <2>5. b \in Seq(Seqs) /\ shipping' = [shipping EXCEPT ![f] = b]
    BY <2>2, <2>4 DEF BatchOf
  <2> HIDE DEF b
  <2>6. /\ since' \in [Forwarder -> Nat] /\ shipping' \in [Forwarder -> Seq(Seqs)]
        /\ fwdPC' \in [Forwarder -> {"idle", "batch", "ship", "report", "record"}]
        /\ shipping'[f] = b /\ fwdPC'[f] = "ship" /\ offset \in Nat
        /\ siem \subseteq Rows
        /\ \A n \in Rows \ passed : n <= offset => n \in siem
        /\ \A g \in Forwarder \ {f} :
              since'[g] = since[g] /\ shipping'[g] = shipping[g] /\ fwdPC'[g] = fwdPC[g]
    BY <2>1, <2>5 DEF Forwarding
  <2>7. since'[f] <= offset' /\ BatchOf(shipping'[f], since'[f])
    BY <2>1, <2>3, <2>4, <2>6
  <2>8. Forwarding'
    BY <2>1, <2>6, <2>7, RoundKeeps
  <2> QED BY <1>4, <2>1, <2>8
<1>9. CASE Ship(f)
  <2>1. /\ fwdPC[f] = "ship" /\ siem' = siem \cup ToSet(shipping[f])
        /\ fwdPC' = [fwdPC EXCEPT ![f] = "report"]
        /\ UNCHANGED << event, passed, offset, since, shipping >>
    BY <1>9 DEF Ship
  <2>2. ToSet(shipping[f]) \subseteq Rows
    BY <2>1, BatchSent
  <2>3. /\ since' \in [Forwarder -> Nat] /\ shipping' \in [Forwarder -> Seq(Seqs)]
        /\ fwdPC' \in [Forwarder -> {"idle", "batch", "ship", "report", "record"}]
        /\ fwdPC'[f] = "report" /\ offset \in Nat
        /\ siem \subseteq Rows
        /\ \A n \in Rows \ passed : n <= offset => n \in siem
        /\ \A g \in Forwarder \ {f} :
              since'[g] = since[g] /\ shipping'[g] = shipping[g] /\ fwdPC'[g] = fwdPC[g]
        /\ since[f] <= offset /\ BatchOf(shipping[f], since[f])
    BY <2>1 DEF Forwarding
  <2>4. /\ offset' = offset /\ siem \subseteq siem' /\ siem' \subseteq Rows
        /\ \A n \in Rows \ passed : n <= offset' => n \in siem'
        /\ since'[f] <= offset' /\ BatchOf(shipping'[f], since'[f])
        /\ ToSet(shipping'[f]) \subseteq siem'
    BY <2>1, <2>2, <2>3
  <2>5. Forwarding'
    BY <2>1, <2>3, <2>4, RoundKeeps
  <2> QED BY <1>5, <2>1, <2>2, <2>5
<1>10. CASE ShipFails(f)
  <2>1. /\ fwdPC[f] = "ship" /\ EndRound(f) /\ UNCHANGED << event, passed, offset >>
        /\ \E i \in 0 .. Len(shipping[f]) :
              siem' = siem \cup ToSet(SubSeq(shipping[f], 1, i))
    BY <1>10 DEF ShipFails, Reported
  <2>2. PICK i \in 0 .. Len(shipping[f]) : siem' = siem \cup ToSet(SubSeq(shipping[f], 1, i))
    BY <2>1
  <2>3. shipping[f] \in Seq(Seqs) /\ ToSet(shipping[f]) \subseteq Rows
    BY <2>1, BatchSent
  <2>4. ToSet(SubSeq(shipping[f], 1, i)) \subseteq Rows
    <3> DEFINE b == shipping[f]
               p == SubSeq(b, 1, i)
    <3>1. i \in Nat /\ Len(b) \in Nat /\ i <= Len(b) /\ DOMAIN b = 1 .. Len(b)
      BY <2>3, LenProperties
    <3>2. \A j \in 1 .. i : j \in DOMAIN b /\ b[j] \in Seqs
      BY <2>3, <3>1, ElementOfSeq
    <3>3. p \in Seq(Seqs) /\ Len(p) = i /\ \A j \in 1 .. i : p[j] = b[j]
      BY <3>1, <3>2, SubSeqProperties
    <3> HIDE DEF p
    <3>4. DOMAIN p = 1 .. i
      BY <3>3, LenProperties
    <3>5. ToSet(p) \subseteq ToSet(b)
      BY <3>2, <3>3, <3>4 DEF ToSet
    <3> QED BY <2>3, <3>5 DEF p
  <2>5. Forwarding'
    BY <2>1, <2>2, <2>4, EndRoundKeeps DEF Forwarding
  <2> QED BY <1>5, <2>1, <2>2, <2>4, <2>5
<1>11. CASE CommitForwardOffset(f)
  <2> DEFINE b == shipping[f]
  <2>1. /\ fwdPC[f] = "report" /\ offset' = Greatest(offset, Last(b))
        /\ fwdPC' = [fwdPC EXCEPT ![f] = "record"]
        /\ UNCHANGED << event, passed, siem, since, shipping >>
    BY <1>11 DEF CommitForwardOffset, Reported
  <2>2. /\ ToSet(b) \subseteq siem /\ Last(b) \in Rows
        /\ \A m \in Rows \ passed : m <= Last(b) => m \in siem
    BY <2>1, BatchSent DEF Forwarding
  <2>3. Last(b) \in Nat
    BY <2>2, Bounds DEF Rows, Seqs
  <2>4. /\ since' \in [Forwarder -> Nat] /\ shipping' \in [Forwarder -> Seq(Seqs)]
        /\ fwdPC' \in [Forwarder -> {"idle", "batch", "ship", "report", "record"}]
        /\ fwdPC'[f] = "record" /\ offset \in Nat /\ since[f] \in Nat
        /\ siem \subseteq Rows
        /\ \A n \in Rows \ passed : n <= offset => n \in siem
        /\ \A g \in Forwarder \ {f} :
              since'[g] = since[g] /\ shipping'[g] = shipping[g] /\ fwdPC'[g] = fwdPC[g]
        /\ since[f] <= offset /\ BatchOf(b, since[f])
    BY <2>1 DEF Forwarding
  <2> HIDE DEF b
  <2>5. /\ offset' \in Nat /\ since[f] <= offset'
        /\ offset' = offset \/ (offset' = Last(b) /\ offset < Last(b))
    BY <2>1, <2>3, <2>4 DEF Greatest
  <2>6. /\ \A n \in Rows \ passed : n <= offset' => n \in siem'
        /\ offset' = offset \/ (offset' \in Rows /\ offset < offset')
    BY <2>1, <2>2, <2>4, <2>5
  <2>7. /\ siem \subseteq siem' /\ siem' \subseteq Rows
        /\ since'[f] <= offset' /\ BatchOf(shipping'[f], since'[f])
        /\ ToSet(shipping'[f]) \subseteq siem'
    BY <2>1, <2>2, <2>4, <2>5 DEF b
  <2>8. Forwarding'
    BY <2>1, <2>4, <2>5, <2>6, <2>7, RoundKeeps
  <2>9. CASE offset' = offset
    BY <1>4, <2>1, <2>8, <2>9
  <2>10. CASE offset' = Last(b) /\ offset < Last(b)
    <3>1. L!Commit
      <4>1. \A m \in Rows : m <= Last(b) => m \in siem \cup passed
        BY <2>2
      <4> QED BY <1>2, <1>3, <2>1, <2>2, <2>10, <4>1 DEF L!Commit
    <3> QED BY <1>3, <2>8, <3>1 DEF L!Next
  <2> QED BY <2>5, <2>9, <2>10
<1>12. CASE RecordForwardDelivery(f) \/ ReportFails(f) \/ ForwarderDies(f)
  <2>1. EndRound(f) /\ UNCHANGED << event, passed, offset, siem >>
    BY <1>12 DEF RecordForwardDelivery, ReportFails, ForwarderDies
  <2>2. Forwarding'
    BY <2>1, EndRoundKeeps DEF Forwarding
  <2> QED BY <1>4, <2>1, <2>2
<1> QED BY <1>6, <1>7, <1>8, <1>9, <1>10, <1>11, <1>12 DEF Forward

-----------------------------------------------------------------------------
\* The empty stream satisfies the invariant, and is the empty ledger.
LEMMA LedgerStarts == Init => LedgerInv /\ L!Init
<1> SUFFICES ASSUME Init PROVE LedgerInv /\ L!Init
  OBVIOUS
<1>1. Rows = {} /\ Sealed = {}
  BY DEF Init, Rows, Sealed
<1>2. Recording /\ OneChain
  BY <1>1 DEF Init, Recording, OneChain, NoHead, Genesis, ToSet
<1>3. NoHead \in Heads /\ NoHash \in Hashes /\ << >> \in Seq(Seqs)
  BY DEF NoHead, Heads, Genesis, Hashes
<1>4. Sealing
  BY <1>3 DEF Init, Sealing
<1>5. Forwarding
  BY <1>1, <1>3 DEF Init, Forwarding
<1>6. L!Init
  BY <1>1 DEF Init, L!Init, NoHead, Genesis
<1> QED BY <1>2, <1>4, <1>5, <1>6 DEF LedgerInv

\* Every step keeps the invariant, and is a step of the ledger or invisible in
\* it.
LEMMA LedgerStep ==
    ASSUME LedgerInv, [Next]_vars
    PROVE  LedgerInv' /\ [L!Next]_L!vars
<1>1. ASSUME UNCHANGED << event, passed, sealVars, fwdVars >>
      PROVE  LedgerInv' /\ [L!Next]_L!vars
  <2>1. Rows' = Rows /\ Sealed' = Sealed /\ UNCHANGED << head, siem, offset, passed >>
    BY <1>1 DEF Rows, Sealed, sealVars, fwdVars
  <2>2. Recording' /\ OneChain'
    BY <1>1, <2>1 DEF LedgerInv, Recording, OneChain, sealVars
  <2>3. Sealing' /\ Forwarding'
    BY <1>1, <2>1, GrowthKeeps DEF Rows
  <2> QED BY <2>1, <2>2, <2>3 DEF LedgerInv, L!vars
<1>2. CASE UNCHANGED vars \/ VerifyReadsHead \/ VerifyReadsRows
  BY <1>1, <1>2 DEF vars, VerifyReadsHead, VerifyReadsRows
<1>3. CASE InsertStarts \/ \E n \in Seqs : InsertCommits(n) \/ InsertFails(n)
  BY <1>3, RecordStep
<1>4. CASE \E s \in Sealer : Seal(s) \/ SealFails(s)
  BY <1>4, SealStep
<1>5. CASE \E f \in Forwarder :
              Forward(f) \/ ShipFails(f) \/ ReportFails(f) \/ ForwarderDies(f)
  BY <1>5, ForwardStep
<1> QED BY <1>2, <1>3, <1>4, <1>5 DEF Next

\* The stream is the append-only ledger of Ledger, in whatever order overlapping
\* inserts commit: RecordAudit appends, SealPending makes one chain longer at its
\* end and takes no record twice, and ReportForward commits, only forward, what
\* the SIEM has.
THEOREM StreamIsLedger == Spec => ImplementsLedger
<1>1. Init => LedgerInv /\ L!Init
  BY LedgerStarts
<1>2. LedgerInv /\ [Next]_vars => LedgerInv' /\ [L!Next]_L!vars
  BY LedgerStep
<1> QED BY <1>1, <1>2, PTL DEF Spec, ImplementsLedger, L!Spec

\* CommitForwardOffset moves past no record that a batch could still have had,
\* unless the SIEM has it, however many forwarders race, fail or die and in
\* whatever order inserts commit.
THEOREM OffsetCoversTheSIEM == Spec => []EgressDropsNothing
<1>1. Init => LedgerInv
  BY LedgerStarts
<1>2. LedgerInv /\ [Next]_vars => LedgerInv'
  BY LedgerStep
<1>3. LedgerInv => EgressDropsNothing
  BY DEF LedgerInv, Forwarding, EgressDropsNothing
<1> QED BY <1>1, <1>2, <1>3, PTL DEF Spec

\* The sealed rows form one chain from Genesis to the head, however many Sealers
\* SealPending runs in, whatever fails and in whatever order inserts commit: the
\* lock keeps the head a Sealer read the head it commits on.
THEOREM SealersKeepOneChain == Spec => []OneChain
<1>1. Init => LedgerInv
  BY LedgerStarts
<1>2. LedgerInv /\ [Next]_vars => LedgerInv'
  BY LedgerStep
<1>3. LedgerInv => OneChain
  BY DEF LedgerInv
<1> QED BY <1>1, <1>2, <1>3, PTL DEF Spec
=============================================================================
