SPECIFICATION Spec
CONSTANTS
  Programs <- MCPrograms
  Stored <- Data
  MaxFrameDepth = 7
  MaxMethodDepth = 2
  MaxIterations = 3
  Resolve <- ResolveExpr
  Value <- DataValue
  Reduce <- EvalExprValue
  UnifyTerm <- UnifyExpr
  UnifyEach <- UnifyPairs
  UnifyCallAlternatives <- CallAlternatives
  Rollback <- RollbackTo
  BodyHasExpressionGoal <- HasExpressionGoal
  StandardizeApart <- RenamedApart
INVARIANTS
  Restored
PROPERTIES
  AsMeant
  SingleAssignment
  Halts
