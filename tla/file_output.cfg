CONSTANTS
  MaxSignals = 2
  MaxLevels = 2
  BufferSize = 2
  MaxGiven = 4
SPECIFICATION FairSpec
INVARIANTS FlagsTruthful OutputKept
PROPERTIES Answered ShieldKeeps CallsReturn
