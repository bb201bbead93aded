SPECIFICATION Spec
CONSTANTS
  MaxId = 4
  PageSize = 2
  MaxYields = 5
INVARIANTS
  EveryDocument
  EachOnceInOrder
PROPERTIES
  IterationEnds
CHECK_DEADLOCK FALSE
