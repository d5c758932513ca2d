\* One part at a time.  A table of routes that is refused and a walk that has
\* met its last page go no further, nor does a text that was parsed, so deadlock is not checked.
SPECIFICATION LibrarySpec
CHECK_DEADLOCK FALSE
SYMMETRY Alike
CONSTANTS
    Parts = {"limits", "routing", "arena", "store", "paging", "json"}
    Addresses = {a1, a2, a3}
    Workers = {w1}
    Acceptor = Acceptor
    NSlots = 2
    Window = 2
    ConnLimit = 1
    RequestLimit = 1
    MaxClock = 4
    NoAddress = NoAddress
    RouteMethods = {"GET", "POST"}
    AskMethods = {"GET", "HEAD", "POST", "OPTIONS", "TRACE"}
    Patterns <- MCPatterns
    Reserved <- MCReserved
    Paths <- MCPaths
    LongValues = {"long"}
    MaxRoutes = 3
    MaxSegments = 2
    MaxParams = 2
    ArenaLimit = 18
    ArenaMin = 4
    ArenaKeep = 8
    ArenaAlign = 2
    AllocMax = 11
    Users = {u1, u2}
    Cells = {c1, c2}
    Fields = {1, 2}
    StoreRows = 3
    PageMax = 2
    NoUser = NoUser
    NoCell = NoCell
    SortValues = {1, 2}
    TableMax = 5
    IntMax = 5
    PageSizeMax = 2
    DefaultSize = 2
    Strings = {"a", "u0061", "b", "long"}
    Long = {"long"}
    Decode <- MCDecode
    Number <- MCNumber
    Limits <- MCLimits
    MaxDepth = 2
    MaxText = 10
    MaxPath = 2
INVARIANTS
    CountsLive
    RateBound
    MostSpecific
    StatusExplains
    ArenaSound
    ReadsAreSnapshots
    PagesPartition
    ParsesExactly
    LookupExact
