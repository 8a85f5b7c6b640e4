SPECIFICATION Spec
CHECK_DEADLOCK FALSE
CONSTANTS
  CostMin <- MCCostMin
  CostMax = 63
  Problems <- MCProblems
  StartNodes <- MCStartNodes
  kHeldKarpCutoff = 4
  NoNode <- MCNoNode
INVARIANTS
  TypeOK
  CellsAreShortestPaths
  AnswerIsRoute
  OptimalIfSmall
