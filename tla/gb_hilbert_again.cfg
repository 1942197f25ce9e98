SPECIFICATION Spec
CONSTANTS
  NGens = 2
  MaxDegree = 3
  MaxPairs = 4
  MaxNewPairs = 1
  MaxWork = 0
  MaxGaps = 0
  MaxCalls = 2
  MaxInterrupts = 1
  StopConditions <- NoStops
  HintedCalls = {1, 2}
  OverZZ = FALSE
  CollectSyz = FALSE
  HasSubring = FALSE
  Local = FALSE
  NoLimit = NoLimit
INVARIANTS DoneMeansComplete
CHECK_DEADLOCK FALSE
