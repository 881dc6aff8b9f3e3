CONSTANTS
    Field = {id, kind}
    KeyField = id
    Indexed = {kind}
    Datum = {a, b}
    Structured = {}
    Tag = {t}
    Property = {p}
    MaxNode = 2
    MaxLink = 1
    NoRow = NoRow
    NoKey = NoKey
    Session = {s1, s2}
    Free = Free
    Idle = Idle
    CaughtInLoad = FALSE
SPECIFICATION Spec
SYMMETRY Symmetry
INVARIANTS
    Indexes
    Adjacency
PROPERTIES
    IdsAreNotReused
    DesignationsStay
