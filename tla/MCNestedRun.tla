---------------------------- MODULE MCNestedRun ----------------------------
(* A nested call followed by an Action; the child has one Gate. *)
EXTENDS NestedRun

PStep == {"call", "after"}
PNeeds == [call |-> {}, after |-> {"call"}]
PWhen == [call |-> "success", after |-> "success"]
PKind == [call |-> "nested", after |-> "action"]
PPlanFrom == [s \in PStep |-> {}]
PApprovers == [s \in PStep |-> {}]
PThreshold == [s \in PStep |-> 0]
PHasTimeout == [s \in PStep |-> FALSE]

CStep == {"ok"}
CNeeds == [ok |-> {}]
CWhen == [ok |-> "success"]
CKind == [ok |-> "gate"]
CPlanFrom == [ok |-> {}]
CApprovers == [ok |-> Principal]
CThreshold == [ok |-> 1]
CHasTimeout == [ok |-> FALSE]
=============================================================================
