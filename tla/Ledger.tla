------------------------------- MODULE Ledger -------------------------------
(***************************************************************************)
(* What the audit stream promises, whatever it is made of: an append-only  *)
(* ledger of numbered records, one chain that grows at its end over them,  *)
(* and a mark up to which they are committed as shipped to the SIEM.       *)
(* Numbers may become visible out of order; a record that comes below      *)
(* others may be missed by the mark.                                       *)
(***************************************************************************)
EXTENDS Naturals, Sequences

VARIABLES
    rows,     \* the numbers of the recorded events
    chain,    \* the hash chain: numbers in the order they were sealed
    sent,     \* the ones the SIEM has
    through,  \* every record up to here is shipped or missed
    missed    \* records that came when a higher one may have been shipped

vars == << rows, chain, sent, through, missed >>

Init == rows = {} /\ chain = << >> /\ sent = {} /\ through = 0 /\ missed = {}

\* A record is never taken back, and one that comes after all others is never
\* missed.
Record ==
    /\ \E n \in rows' \ rows :
          /\ rows' = rows \cup {n}
          /\ missed' = missed \/ (missed' = missed \cup {n} /\ \E m \in rows : n < m)
    /\ UNCHANGED << chain, sent, through >>

\* The chain keeps all it has and gets longer, by records it does not have yet.
Seal ==
    /\ Len(chain) < Len(chain')
    /\ \A i \in 1 .. Len(chain) : chain'[i] = chain[i]
    /\ \A i \in 1 .. Len(chain') : chain'[i] \in rows
    /\ \A i, j \in 1 .. Len(chain') : chain'[i] = chain'[j] => i = j
    /\ UNCHANGED << rows, sent, through, missed >>

\* Records reach the SIEM in any order, some of them again.
Send ==
    /\ \E more \in SUBSET rows : sent' = sent \cup more
    /\ UNCHANGED << rows, chain, through, missed >>

\* What is committed as shipped is there or was missed, and never taken back.
Commit ==
    /\ \E n \in rows : /\ n > through
                       /\ \A m \in rows : m <= n => m \in sent \cup missed
                       /\ through' = n
    /\ UNCHANGED << rows, chain, sent, missed >>

Next == Record \/ Seal \/ Send \/ Commit

Spec == Init /\ [][Next]_vars
=============================================================================
