SPECIFICATION Spec
CONSTANTS
  a1 = a1
  a2 = a2
  a3 = a3
  b1 = b1
  b2 = b2
  ann = ann
  bob = bob
  Runs <- MCRuns
  Users <- MCUsers
  Owner <- MCOwner
  MaxRuns = 2
INVARIANTS ReservationsExact TableExact LiveCap
PROPERTIES RefusedOnlyWhenFull SlotsSpec
CHECK_DEADLOCK FALSE
