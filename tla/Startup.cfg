SPECIFICATION StartupSpec
CONSTANTS
    Processes = {p1, p2}
    Self = p1
    Versions = {1, 2}
    Contents = {"a", "b"}
    Candidates <- Drafts
    MaxFiles = 2
    None = None
    Repeats = {r1, r2}
    OnStart = 1
INVARIANTS
    InOrderOnce
    TasksRunInTheirWorld
PROPERTIES
    StartedIsCurrent
    WholeDirectory
    StopReturns
