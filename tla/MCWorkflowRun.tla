--------------------------- MODULE MCWorkflowRun ---------------------------
(* A plan -> gate -> apply chain and an unconditional last Step.    *)
EXTENDS WorkflowRun

MCStep == {"plan", "gate", "apply", "report"}
MCNeeds == [plan |-> {}, gate |-> {"plan"}, apply |-> {"gate"},
            report |-> {"apply"}]
MCWhen == [plan |-> "success", gate |-> "success", apply |-> "success",
           report |-> "always"]
MCWhenAlways == [MCWhen EXCEPT !.apply = "always"]
MCKind == [plan |-> "plan", gate |-> "gate", apply |-> "actuation",
           report |-> "action"]
MCPlanFrom == [plan |-> {}, gate |-> {"plan"}, apply |-> {"plan"},
               report |-> {}]
MCApprovers == [s \in MCStep |-> IF s = "gate" THEN Principal ELSE {}]
MCThreshold == [s \in MCStep |-> IF s = "gate" THEN 2 ELSE 0]
MCHasTimeout == [s \in MCStep |-> s = "gate"]
MCNoTimeout == [s \in MCStep |-> FALSE]
=============================================================================
