CONSTANTS
    Base = {base}
    Derived = {derived}
    Field = {x, y}
    None = None
    NoField = NoField
    NoLoad = NoLoad
    LateParents = FALSE
    RejectedSync = FALSE
    CaughtInLoad = TRUE
    MaxFacts = 1
SPECIFICATION Spec
SYMMETRY Symmetry
INVARIANTS
    KeyedAsContracted
    StoredFieldsPresent
    Reopenable
PROPERTIES
    KeysAreFinal
