SPECIFICATION Spec
CONSTANTS
  Deployer = Deployer
  Owner = Owner
  None = None
  MaxRetries = 2
  MaxLosses = 2
  MaxAborts = 1
INVARIANT HandoverIsLast
