CONSTANTS
    Root = root
    Task = {t1, t2}
    MaxStatements = 3
    JoinsInLoad = FALSE
    Free = Free
    NoParent = NoParent
SPECIFICATION ThreadsSpec
INVARIANTS
    ThreadsEndFirst
    ClosesUnlocked
PROPERTIES
    ProgramEnds
CHECK_DEADLOCK FALSE
