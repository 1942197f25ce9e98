CONSTANTS
  NVars = 3
  WordBits = 2
  Weights <- MCWeights
  Inputs <- MCInputs
  MaxReducers = 1
  MaxGap = 1
  MaxDegree = 4
SPECIFICATION Spec
INVARIANTS ChainCriterion HeapSound TablesTruthful
CHECK_DEADLOCK FALSE
