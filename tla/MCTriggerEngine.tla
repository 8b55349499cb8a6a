-------------------------- MODULE MCTriggerEngine --------------------------
(* A counting Trigger with a cooldown, an allOf Trigger that correlates and *)
(* a plain one, over events with and without the correlated field.          *)
EXTENDS TriggerEngine

MCTriggers == << "storm", "pair", "plain" >>
MCStorm == << "storm" >>
MCTrigger == {"storm", "pair", "plain"}

MCConditions == [t \in MCTrigger |-> IF t = "pair" THEN {0, 1} ELSE {}]
MCCount == [storm |-> 2, pair |-> 0, plain |-> 0]
MCWithin == [storm |-> 1, pair |-> 1, plain |-> 0]
MCCooldown == [storm |-> 1, pair |-> 0, plain |-> 0]
MCNoCooldown == [t \in MCTrigger |-> 0]

\* deploy and check share a key, drift carries none.
MCMatches == [storm |-> [deploy |-> 0, check |-> 0, drift |-> 0],
              pair |-> [deploy |-> 0, check |-> 1, drift |-> 1],
              plain |-> [deploy |-> -1, check |-> -1, drift |-> 0]]
MCPayload == [storm |-> [e \in {"deploy", "check", "drift"} |-> "web"],
              pair |-> [deploy |-> "web", check |-> "web", drift |-> NoKey],
              plain |-> [e \in {"deploy", "check", "drift"} |-> "web"]]
MCBinds == [storm |-> {"deploy"}, pair |-> {"check"}, plain |-> {"drift"}]
=============================================================================
