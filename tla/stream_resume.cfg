SPECIFICATION Spec
CONSTANTS
    Panel1 = Panel1
    Records <- FourRecords
    Local = "Server"
    Capacity = 2
    Readers <- OnePanel
    MaxRestarts = 0
    TimelineCapacity = 4
    Refused <- OneRefused
    MaxDrops = 1
INVARIANT ResumeMissesNothing
CHECK_DEADLOCK FALSE
