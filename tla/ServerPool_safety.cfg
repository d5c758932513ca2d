SPECIFICATION Spec
CONSTANTS
    Workers = {w1, w2}
    FDs = {f1, f2, f3, f4, f5}
    IPs = {a1, a2}
    QueueCap = 2
    KeepaliveMax = 2
    ConnLimit = 2
    DrainPolls = 1
    None = None
SYMMETRY PoolSymmetry
INVARIANTS
    UniqueOwner
    NoDescriptorLeak
    CountsExact
    ShutdownReachesAll
    CleanExit
