SPECIFICATION Spec
CONSTANTS
  Keys = {k1}
  Events = {e1}
  InstanceRenewal = 1
  InstanceTarget = 2
  PersistentRenewal = 2
  PersistentTarget = 3
  InitialTTL = 1
INVARIANT WorkKeepsAlive
