SPECIFICATION MCSpec
CONSTANTS
    Hosts = {"web", "db"}
    Sessions = {s1, s2}
    MaxEnrolled = 2
    MaxRotations = 2
    Partial = Partial
    None = None
    MaxPairs = 3
    MaxTime = 4
    MaxCommands = 3
    MaxHandlers = 2
    MaxCrashes = 2
SYMMETRY SessionSymmetry
INVARIANTS
    NoImpersonation
    RetiredStaysRetired
    AdoptsDelivered
    
    HistoriesAgree
