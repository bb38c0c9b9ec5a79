SPECIFICATION StagedSpec
CONSTANTS
    Calls = {c1, c2}
    Watchers = {}
    FailureThreshold = 1
    Reset = 1
    MaxLag = 1
    MaxGeneration = 1
PROPERTY NoWriteWhileOpen
