CONSTANTS
  Letters = {"a", "b"}
  Paths <- MCPaths
  Bounds = {0, 2, 4}
  MaxPieces = 3
SPECIFICATION Spec
INVARIANTS
  TypeOK
  MostSpecificWins
  HintLosesNothing
  FirstErrorReported
