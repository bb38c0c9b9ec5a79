SPECIFICATION Spec
CONSTANTS
    Policies <- MCPolicies
    Limits = {0, 1, 2, 3}
    MaxDepths = {1, 3}
INVARIANTS
    ConcurrencyChangesNothing
    NothingNeedlessAsked
    TooDeepIsThePolicys
    DutiesAreTheGranted
PROPERTY
    WalkEnds
CHECK_DEADLOCK FALSE
