SPECIFICATION Spec
CONSTANTS
    Consumer = {"c1", "c2"}
    Event = {"deploy", "check", "drift"}
    Triggers <- MCStorm
    Key = {"web"}
    NoKey = "absent"
    Conditions <- MCConditions
    Count <- MCCount
    Within <- MCWithin
    Cooldown <- MCNoCooldown
    Matches <- MCMatches
    Payload <- MCPayload
    Binds <- MCBinds
    Keep = 1
    Faults = {}
    MaxTime = 0
    MaxFailures = 0
INVARIANTS
    OneWinner
CHECK_DEADLOCK FALSE
