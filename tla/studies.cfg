SPECIFICATION Spec
CONSTANTS
    DEFAULT_MAX_DEPTH = 3
    UnsafeIdentifiers = {}
    MaxDefinitions = 3
    MaxComposites = 2
    MaxWraps = 1
    MaxSets = 3
    MaxSpecs = 3
    p1 = p1
    p2 = p2
    Calls = {c1, c2}
    Sightable = {p1, p2}
    Layers = {l1, l2}
    Rows <- LoggedRows
    Nothing = Nothing
    MaxCommands = 2
    Guardable = {"read", "write"}
    NoPermission = "no permission"
    MaxGroups = 2
    MaxEndpoints = 2
    MaxEdits = 6
INVARIANTS
    MergeNeverWidens
    QuerySelectsTheAllowed
    TranslationAsksAsEvaluation
    SimplifyKeepsTheDecision
    AdmittedIsDecodable
    RolesResolve
    StandInsDecideAsThePorts
    AdviceIsTrue
    OnlyTheLastRunLands
    GuardsHold
CHECK_DEADLOCK FALSE
