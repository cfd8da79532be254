SPECIFICATION MCSpec
CONSTANTS
    None = None
    Agent = 1
    Others = {2, 3}
    Comms = {"sshd", "cat"}
    CredReaders = {"sshd"}
    MaxId = 3
    Names = {"bash"}
    maxDepth = 3
    MaxEvents = 6
    MaxDrops = 1
CHECK_DEADLOCK FALSE
INVARIANTS
    
    KernelBelowCeiling
    EventsAreOwn
    LineageIsTrue
    SweepIsInvisible
    SignalIsTight
PROPERTIES
    ReportsApart
