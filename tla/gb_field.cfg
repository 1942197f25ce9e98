SPECIFICATION Spec
CONSTANTS
  NGens = 2
  MaxDegree = 3
  MaxPairs = 4
  MaxNewPairs = 1
  MaxWork = 1
  MaxGaps = 1
  MaxCalls = 2
  MaxInterrupts = 1
  StopConditions <- FieldStops
  HintedCalls = {}
  OverZZ = FALSE
  CollectSyz = FALSE
  HasSubring = FALSE
  Local = FALSE
  NoLimit = NoLimit
INVARIANTS PairsAccounted StatusTruthful MinGensKnown
CHECK_DEADLOCK FALSE
