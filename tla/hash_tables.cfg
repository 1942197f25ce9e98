CONSTANTS
  k1 = k1
  k2 = k2
  k3 = k3
  k4 = k4
  Keys = {k1, k2, k3, k4}
  HashOf <- MCHash
  Values <- MCValues
  Writers = {w1, w2}
  Readers = {r}
  Sought = {k1, k2}
  NoThread = NoThread
  NotFound = NotFound
SPECIFICATION FairSpec
INVARIANTS TableSound TablesComparable LookupTruthful
PROPERTIES LookupsReturn
CHECK_DEADLOCK FALSE
