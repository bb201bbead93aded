SPECIFICATION DecisionSpec
CONSTANTS
  e1 = e1
  e2 = e2
  e3 = e3
  e4 = e4
  Evaluations <- MCEvaluations
  CorrelationOf <- MCCorrelationOf
  TicksPerSecond = 1
  MaxLinks = 3
  EdgeLimit = 2
SYMMETRY Interchangeable
INVARIANTS
  DecisionTypeOK
  EvaluatedOnce
  ChainOutward
CHECK_DEADLOCK FALSE
