SPECIFICATION FairSpec
CONSTANTS
    Workers = {w1, w2}
    FDs = {f1, f2}
    IPs = {a1}
    QueueCap = 1
    KeepaliveMax = 2
    ConnLimit = 2
    DrainPolls = 1
    None = None
PROPERTIES
    StopCompletes
    ConnectionsEnd
