CONSTANTS
    Field = {id, kind}
    KeyField = id
    Indexed = {kind}
    Datum = {a, b, m}
    Structured = {m}
    Tag = {t}
    Property = {p}
    MaxNode = 2
    MaxLink = 1
    NoRow = NoRow
    NoKey = NoKey
    Session = {s1}
    Free = Free
    Idle = Idle
    CaughtInLoad = TRUE
SPECIFICATION Spec
SYMMETRY Symmetry
INVARIANTS
    TypeOK
    Identities
    Metadata
    Designations
    Attached
