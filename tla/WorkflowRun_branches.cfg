SPECIFICATION FairSpec
CONSTANTS
    Step <- BStep
    Needs <- BNeeds
    When <- BWhen
    Kind <- BKind
    PlanFrom <- BPlanFrom
    Principal = {"ana"}
    Approvers <- BApprovers
    Threshold <- BThreshold
    HasTimeout <- BHasTimeout
    Door = "self"
    Faults = {"store", "late"}
    MaxDecisions = 1
INVARIANTS
    WalkedInOrder
PROPERTIES
    CancelEnds
CHECK_DEADLOCK FALSE
