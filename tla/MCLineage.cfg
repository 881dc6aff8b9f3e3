CONSTANTS
    a = a
    b = b
    x = x
    y = y
    Session = {s1, s2}
    Declaring = {s1}
    Asking = {s1}
    Type = {a, b, x, y}
    FactType = FactType
    Declarable <- TwoParents
    Asked <- Siblings
    MaxEdges = 4
    CaughtInLoad = FALSE
    NotLoading = NotLoading
    NotAsked = NotAsked
SPECIFICATION Spec
INVARIANTS
    CachesCurrent
    LeastAncestor
    OpensAgain
