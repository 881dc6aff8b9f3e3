CONSTANTS
    a = a
    b = b
    x = x
    y = y
    Session = {s1, s2}
    Declaring = {s1, s2}
    Asking = {}
    Type = {a, b}
    FactType = FactType
    Declarable <- Opposite
    Asked = {}
    MaxEdges = 2
    CaughtInLoad = FALSE
    NotLoading = NotLoading
    NotAsked = NotAsked
SPECIFICATION Spec
INVARIANTS
    OpensAgain
