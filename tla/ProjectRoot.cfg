SPECIFICATION Spec
CONSTANTS
  owner = owner
  deployer = deployer
  sec = sec
  ver = ver
  h1 = h1
  Accounts = {owner, deployer}
  Root = Root
  SecurityContract = sec
  VerificationContract = ver
  OtherContracts = {h1}
  Reporting = {h1}
  Proposable = {owner, deployer, Root}
  None = None
INVARIANTS
  TypeOK
  NeverLockedOut
  HandlerSetOK
PROPERTIES
  OnlyInControl
  TakenOverIsTracked
