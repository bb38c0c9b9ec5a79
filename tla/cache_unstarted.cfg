SPECIFICATION FairSpec
CONSTANTS
    Callers = {c1, c2}
    Questions = {q1}
    Claims = {k1, k2}
    Capacity = Unbounded
    Unbounded = Unbounded
    NoClaim = NoClaim
    PortsMayShield = FALSE
    MaxGeneration = 0
PROPERTY EveryAskReturns
