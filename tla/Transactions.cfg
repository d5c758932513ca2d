SPECIFICATION Spec
CONSTANTS
    Threads = {t1, t2}
    Writes = {r1, r2, r3}
    MaxDepth = 2
    FaultSets <- AnyFault
    None = None
SYMMETRY TxSymmetry
INVARIANTS
    OneTransaction
    SuccessIsComplete
    ScopesKeepTheirPromise
PROPERTIES
    ImplementsAtomicCommit
