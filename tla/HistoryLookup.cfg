SPECIFICATION FairLookupSpec
CONSTANTS
  MaxLedger = 7
  Histories <- MCHistories
  Targets <- MCTargets
INVARIANTS
  TypeOK
  ResultCorrect
PROPERTY
  Terminates
