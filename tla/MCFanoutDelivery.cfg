SPECIFICATION Spec
CONSTANTS
  Target = {r1, r2}
  Group = {g1}
  MaxMsg = 1
  MaxRef = 1
  MaxCrashes = 2
  MaxFailures = 1
  NoRow = NoRow
INVARIANTS
  RollbackIsUnexposed
  ConfirmedIsHeldByRelay
  WelcomesFollowConfirmation
PROPERTIES
  DriverWritesAreMonotonic
CHECK_DEADLOCK FALSE
