SPECIFICATION Spec
CONSTANTS
    Consumer = {"c1"}
    Event = {"deploy", "check", "drift"}
    Triggers <- MCTriggers
    Key = {"web"}
    NoKey = "absent"
    Conditions <- MCConditions
    Count <- MCCount
    Within <- MCWithin
    Cooldown <- MCCooldown
    Matches <- MCMatches
    Payload <- MCPayload
    Binds <- MCBinds
    Keep = 1
    Faults = {"advance", "reset", "launch", "crash", "ackwait", "lead"}
    MaxTime = 2
    MaxFailures = 1
INVARIANTS
    WindowIsEvidence
    CooldownHolds
    AckedIsLaunched
PROPERTIES
    SweepLeavesLiveWindows
CHECK_DEADLOCK FALSE
