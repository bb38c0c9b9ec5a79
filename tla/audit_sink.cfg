SPECIFICATION FairSpec
CONSTANTS
    Calls = {c1, c2}
    Watchers = {w}
    FailureThreshold = 2
    Reset = 2
    MaxLag = 1
    MaxGeneration = 4
INVARIANTS
    WindowsOwnTheirProbe
    EndsAreAccounted
PROPERTIES
    WindowsNeverRestart
    HalfOpenEnds
