SPECIFICATION AccountSpec
CONSTANTS
  Account = Account
  Addresses = {Account, other}
  Versions = {v1, v2}
  None = None
  NumKeys = 1
  Weights = {1}
  ThresholdArgs <- MCThresholdArgs
  U64Max = 1
  HistoryCutoff = 0
  MaxLedger = 0
  Owners = {1, 2, 3}
  ConstructorArgs <- MCConstructorArgs
  Slots = {s1, s2}
  NoCall = NoCall
  MaxSignatures = 3
SYMMETRY Symmetry
INVARIANTS
  ProposalIsCurrent
  QuorumIsHeard
PROPERTY
  ChangedByQuorum
