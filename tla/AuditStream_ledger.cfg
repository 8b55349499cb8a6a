SPECIFICATION FairSpec
CONSTANTS
    MaxEvents = 2
    Sealer = {"s1", "s2"}
    Forwarder = {"f1", "f2"}
    BatchLimit = 2
    FailAlarm = 1
    MaxFailures = 1
INVARIANTS
    OneChain
    EgressDropsNothing
PROPERTIES
    ImplementsLedger
    EveryEventIsSealed
    EveryEventIsForwarded
