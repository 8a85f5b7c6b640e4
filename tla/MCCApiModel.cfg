SPECIFICATION Spec
CONSTANTS
  CostMin <- MCCostMin
  CostMax = 1
  Unset = Unset
  NodeIdMax = 2
  MaxRowLength = 4
INVARIANTS
  TypeOK
  RowsCoverNodes
  NothingBeyondNodes
  CompleteIffValid
PROPERTIES
  IdNamesNewRow
  RaggedForever
  ImplementsGraph
