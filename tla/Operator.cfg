SPECIFICATION FairSpec
CONSTANTS
  Identities = {i1, i2}
  NoSecret = NoSecret
  MaxRetries = 2
  MaxPolls = 2
  MaxLosses = 3
  MaxAborts = 1
  Byok = Byok
  Root = Root
  Items = {"key", "repo"}
  Values = {x, Removed}
  Refused = Refused
  Removed = Removed
INVARIANTS
  FundedIsKept
  SuccessSticks
PROPERTY
  EventuallyFunded
