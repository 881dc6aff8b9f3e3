CONSTANTS
    Clause <- PathClauses
    Programs <- PathPrograms
    FactSets <- PathFacts
    NewFact <- ExtraFacts
    Subtype <- Roads
    Contrary <- Contraries
    Query <- Queries
    Value = {1, 2, 3}
    Arity <- Arities
    MaxChanges = 2
    MaxProofs = 2
    AskAfterWrite = FALSE
    CaughtInLoad = FALSE
    NotLoading = NotLoading
    Idle = Idle
    NoAnswer = NoAnswer
SPECIFICATION Spec
INVARIANTS
    NeverUnstratified
    RoundsPay
PROPERTIES
    TablesExact
    Explained
    AnswersTrue
