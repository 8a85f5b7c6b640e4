SPECIFICATION Spec
CHECK_DEADLOCK FALSE
CONSTANTS
  CostMin <- MCCostMin
  CostMax = 127
  Problems <- MCProblems
  StartNodes <- MCStartNodes
INVARIANTS
  TypeOK
  ResultLocallyOptimal
PROPERTIES
  ImplementsSearch
