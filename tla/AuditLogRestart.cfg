SPECIFICATION Spec
CONSTANTS
    Writers = {w1, w2}
    Actions = {"rules_reload", "rotate_cert"}
    Key = NoKey
    NoKey = NoKey
    MaxEntries = 3
    MaxRestarts = 1
CHECK_DEADLOCK FALSE
INVARIANT
    LogVerifies
