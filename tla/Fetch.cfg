\* One call of the outbound client.  The call ends, so there is no deadlock
\* to look for: that it does end is FetchEnds.
SPECIFICATION FetchSpec
CHECK_DEADLOCK FALSE
CONSTANTS
    Replies  <- MCReplies
    Requests <- MCRequests
    Hosts    <- MCHosts
    Allows   <- MCAllows
    Budget = 2
    MaxAddrs = 2
    TlsRounds = 2
    SendSteps = 2
    ReadSteps = 3
    MaxWire = 12
    MaxBody = 3
    MaxLines = 3
    MaxChunks = 3
    None = None
INVARIANTS Intact RefusedForCause ChannelClosed
PROPERTY FetchEnds
