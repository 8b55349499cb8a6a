SPECIFICATION NestedFairSpec
CONSTANTS
    Call = "call"
    Step <- PStep
    ChildStep <- CStep
    Needs <- PNeeds
    ChildNeeds <- CNeeds
    When <- PWhen
    ChildWhen <- CWhen
    Kind <- PKind
    ChildKind <- CKind
    PlanFrom <- PPlanFrom
    ChildPlanFrom <- CPlanFrom
    Approvers <- PApprovers
    ChildApprovers <- CApprovers
    Threshold <- PThreshold
    ChildThreshold <- CThreshold
    HasTimeout <- PHasTimeout
    ChildHasTimeout <- CHasTimeout
    Principal = {"ana"}
    Door = "api"
    Faults = {"late"}
    MaxDecisions = 1
INVARIANTS
    SettledOverClosedChild
    NoPendingGateInChild
PROPERTIES
    NoOrphanChild
CHECK_DEADLOCK FALSE
