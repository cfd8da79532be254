SPECIFICATION Spec
CONSTANTS
    Texts = {"ip1", "garbage"}
    ValidIPs = {"ip1"}
    MaxRestarts = 1
    MaxLate = 1
    Pids = {1}
    Comms = {"sshd", "payload"}
    Exes = {"/usr/sbin/sshd", "/tmp/payload"}
    Allowlist = {"/usr/sbin/sshd"}
    Shapes <- MCShapes
    None = None
    MaxSpawns = 2
INVARIANTS
    TypeOK
    NoEffectAboveCeiling
    AtMostOneOverdue
    GuardedSignals
    BlockReportsTrue
    NoPileUp
