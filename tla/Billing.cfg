SPECIFICATION Spec
CONSTANTS
  r1 = r1
  r2 = r2
  r3 = r3
  ann = ann
  NoRun = NoRun
  Runs <- MCRuns
  Users <- MCUsers
  Owner <- MCOwner
  Tokens <- MCTokens
  tokens_per_credit = 2
  MaxPot = 1
  MaxOutside = 2
  MaxFaults = 1
  MaxCrashes = 1
INVARIANTS TypeOK Conserved NeverNegative
PROPERTIES OwedBelowCredit SpendOrder
CHECK_DEADLOCK FALSE
