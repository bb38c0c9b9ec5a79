SPECIFICATION RecordsSpec
CONSTANTS
    Panel1 = Panel1
    Records <- ThreeRecords
    Local = "Server"
    Capacity = 2
    Readers <- OnePanel
    MaxRestarts = 1
    TimelineCapacity = 4
    Refused <- AllFramed
    MaxDrops = 1
    MaxRows = 2
    MaxClock = 1
    MaxNumber = 3
    Ages <- PurgeAges
    DEFAULT_MAX_DEPTH = 3
    UnsafeIdentifiers = {}
    MaxCaptures = 2
    Unset = Unset
    JsonNull = JsonNull
    WireDepth = 256
INVARIANTS
    ReadIsExact
    TimelineIsTheSet
    ResumeInOrderMissesNothing
    NothingIsLost
    SignedIsFoundThereOnly
    RecordsReadBack
CHECK_DEADLOCK FALSE
