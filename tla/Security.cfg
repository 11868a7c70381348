SPECIFICATION Spec
CONSTANTS
  Addresses = {a1}
  Versions = {v1}
  None = None
  NumKeys = 2
  Weights = {0, 1, 2}
  ThresholdArgs <- MCThresholdArgs
  U64Max = 3
  HistoryCutoff = 1
  MaxLedger = 3
INVARIANTS
  TypeOK
  RegistryConsistent
  WindowFaithful
  NeverInvents
  HistoryBounded
  TotalIsSum
PROPERTIES
  PastWeightsFixed
