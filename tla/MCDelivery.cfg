SPECIFICATION MCSpec
CONSTANTS
    BufferSize = 1
    QueueDepth = 2
    MaxAlerts = 4
    MaxStreams = 2
    Publishers = {p1, p2}
    Subscribers = {s1, s2}
CHECK_DEADLOCK FALSE
INVARIANTS
    
    SubscribersAreSafe
    LakesAgree
    
    EachDocumentOnce
PROPERTIES
    ShutdownEnds
    StallIsReported
    StopDrains
