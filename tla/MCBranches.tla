---------------------------- MODULE MCBranches ----------------------------
(* A policy checkpoint and a Gate with no timeout on independent branches, *)
(* an Action behind both and a nested Workflow on its failure edge.        *)
EXTENDS WorkflowRun

BStep == {"policy", "hold", "ship", "undo"}
BNeeds == [policy |-> {}, hold |-> {}, ship |-> {"policy", "hold"},
           undo |-> {"ship", "hold"}]
BWhen == [policy |-> "success", hold |-> "success", ship |-> "success",
          undo |-> "failure"]
BKind == [policy |-> "policy", hold |-> "gate", ship |-> "action",
          undo |-> "nested"]
BPlanFrom == [s \in BStep |-> {}]
BApprovers == [s \in BStep |-> Principal]
BThreshold == [s \in BStep |-> 1]
BHasTimeout == [s \in BStep |-> s = "policy"]
=============================================================================
