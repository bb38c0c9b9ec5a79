SPECIFICATION Spec
CONSTANTS
    Callers = {c1, c2}
    Questions = {q1, q2}
    Claims = {k1, k2, k3}
    Capacity = 1
    Unbounded = Unbounded
    NoClaim = NoClaim
    PortsMayShield = TRUE
    MaxGeneration = 2
SYMMETRY Symmetry
INVARIANTS
    NoStaleAnswer
    OneComputePerQuestion
    TablesAgree
PROPERTY OnlyTheCancelledAreInterrupted
