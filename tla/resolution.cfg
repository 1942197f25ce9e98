CONSTANTS
  LengthLimit = 3
  MaxDegree = 2
  MaxGens = 2
  MaxPairs = 5
  MaxNewPairs = 1
  MaxCalls = 2
  MaxInterrupts = 1
  StopConditions <- MCStops
  NoLimit = NoLimit
SPECIFICATION Spec
INVARIANTS FrameSound ReductionReady StatusTruthful
PROPERTIES Settled
CHECK_DEADLOCK FALSE
