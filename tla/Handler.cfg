SPECIFICATION HandlerSpec
CONSTANTS
  Addresses = {a1}
  Versions = {v1}
  None = None
  NumKeys = 2
  Weights = {1}
  ThresholdArgs <- MCThresholdArgs
  U64Max = 2
  HistoryCutoff = 1
  MaxLedger = 3
  Scheme = "ed25519"
  e1 = e1
  p1 = p1
  p2 = p2
  Events = {e1}
  Payloads = {p1, p2}
  NoPayload = NoPayload
  Submissions <- MCSubmissions
  MaxReferenceBlockAge = 1
CONSTRAINT Small
INVARIANTS
  WindowDecisionExact
  VerifySoundAnywhere
  AcceptedHadQuorum
  AtMostOnce
  SeenIffStored
PROPERTIES
  DecisionStable
  ImplementsAttestedEvents
