CONSTANTS
    Session = {s1, s2}
    Key = {k1, k2, k3}
    Value = {v1, v2}
    Absent = Absent
    Unstaged = Unstaged
    Free = Free
SPECIFICATION Spec
INVARIANTS
    TypeOK
    LockDiscipline
    ScanExact
PROPERTIES
    OpenTransactionIsAlone
    ImplementsAtomicStore
