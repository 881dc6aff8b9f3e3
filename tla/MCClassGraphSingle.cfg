CONSTANTS
    Session = {s1}
    Standalone = {s1}
    Class = {c, d}
    Label = {forward, both}
    MaxEdge = 3
    Free = Free
    NotCached = NotCached
    NoEdge = NoEdge
SPECIFICATION Spec
INVARIANTS
    EdgesDistinct
    CopiesAgree
PROPERTIES
    EdgesPersist
