SPECIFICATION Spec
CONSTANTS
    q1 = q1
    a1 = a1
    a2 = a2
    Questions = {q1, q2}
    Capacity = 1
    Subjects = {s1, s2}
    Registries = {r1, r2}
    Gates = {g1, g2}
    MaxHandles = 3
    MaxChanges = 2
    Hooks = {h1, h2}
    Bases = {b1, b2}
    Atoms <- TwoAtoms
    Questionnaires <- Written
    States = {"Pending", "Allowed"}
    MaxCollisions = 1
    Users = {"u1", "u2"}
    Asked = {"one", "other"}
    TagOf <- Tag
    Grants = {"grant1", "grant2"}
    MaxEntries = 2
SYMMETRY Symmetry
INVARIANT SeedIsItsSubjects
CHECK_DEADLOCK FALSE
