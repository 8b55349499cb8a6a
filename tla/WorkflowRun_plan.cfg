SPECIFICATION Spec
CONSTANTS
    Step <- MCStep
    Needs <- MCNeeds
    When <- MCWhen
    Kind <- MCKind
    PlanFrom <- MCPlanFrom
    Principal = {"ana", "bo"}
    Approvers <- MCApprovers
    Threshold <- MCThreshold
    HasTimeout <- MCHasTimeout
    Door = "api"
    Faults = {"store", "late", "door"}
    MaxDecisions = 2
INVARIANTS
    TypeOK
    GateHolds
    BindsItsNeeds
    GreenIsHonest
    AppliesOnlyApprovedPlans
PROPERTIES
    NothingStartsAfterCancel
CHECK_DEADLOCK FALSE
