SPECIFICATION MCSpec
CONSTANTS
    Writers = {w1, w2}
    Actions = {"rules_reload", "rotate_cert"}
    Key = Key
    NoKey = NoKey
    MaxEntries = 3
    MaxRestarts = 1
    Goroutines = {g1, g2}
    Configured = {"webhook", "slack", "syslog", "smtp"}
    Broken = Broken
    Absent = Absent
CHECK_DEADLOCK FALSE
INVARIANT
    EnrolledIsCurrent
