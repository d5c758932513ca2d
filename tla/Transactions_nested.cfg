SPECIFICATION Spec
CONSTANTS
    Threads = {t1}
    Writes = {r1, r2}
    MaxDepth = 2
    FaultSets <- EngineAborts
    None = None
INVARIANTS
    ScopeAtomic
