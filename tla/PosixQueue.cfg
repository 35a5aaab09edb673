SPECIFICATION FairSpec
CONSTANTS
    Producers = {p1, p2}
    Consumers = {c1}
    Values = {v1, v2}
    p1 = p1
    p2 = p2
    v1 = v1
    v2 = v2
    Puts <- MCPuts
    NoValue = NoValue
    Size = 2
    Second = 3
    Timeouts <- MCTimeouts
    StartTime = 1
    MaxTime = 4
INVARIANTS
    NoLostWakeup
    TimeoutWaitedOut
PROPERTIES
    ImplementsChannel
    CallsReturn
CHECK_DEADLOCK TRUE
