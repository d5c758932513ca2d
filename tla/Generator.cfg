\* A refused project and an accepted one go no further, so deadlock is not
\* checked.
SPECIFICATION GeneratorSpec
CHECK_DEADLOCK FALSE
CONSTANTS
    Sources <- MCSources
    MaxTransactions = 2
    MaxFields = 2
    MaxDeclared = 2
    TypesMax = 4
    FileCount = 2
    NestingMax = 2
    Declarations <- MCDeclarations
INVARIANTS
    AnnotationsBind
    NoReturnEscapes
    DeclaredBeforeUse
