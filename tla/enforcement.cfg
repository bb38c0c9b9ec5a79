SPECIFICATION CallsSpec
CONSTANTS
    Calls = {c1}
    MaxItems = 2
    Sinks = 2
    Flaky = {1}
    Wrapped = {w1, w2}
    Permits = {0, 1}
    MaxRecurrences = 1
    TimelineCapacity = 4
    DockRecords <- FourRecords
    MaxClears = 1
    SpanPorts = {"AttributeResolver"}
    CallCapacities = {0, 1}
    MaxSpans = 2
    MaxCounted = 1
INVARIANTS
    SinksTellTheOutcome
    WhatIsReturnedIsWhole
    DockIsCurrent
PROPERTIES
    ImplementsMonitor
    EveryCallEnds
    WrappedCallsSettle
