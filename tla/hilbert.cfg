CONSTANTS
  NVars = 4
  Weights <- MCWeights
  Inputs <- MCInputs
  RowDegrees <- MCRows
  MaxWeight = 10
SPECIFICATION Spec
INVARIANTS NumeratorKept RecursionSound
CHECK_DEADLOCK FALSE
