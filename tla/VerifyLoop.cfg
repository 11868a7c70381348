SPECIFICATION Spec
CONSTANTS
  U64Max = 3
  NumKeys = 2
  Message = "m"
  MaxLen = 3
  MaxWeight = 2
  Signatures <- MCSignatures
INVARIANTS
  LoopIsOutcome
  AcceptedIsQuorum
  QuorumAccepted
  CheckOneAgrees
  TrapIsBadSignature
