SPECIFICATION FairSpec
CONSTANTS
    Messages <- AllMessages
    MaxStream = 2
    MaxConns = 2
    HeadMax = 3
    BodyMax = 8
    ReqMax = 8
    Chunk = 2
    ReadSteps = 6
INVARIANTS
    Framed
    ZeroFits
    RefusedForCause
PROPERTIES
    ReadEnds
