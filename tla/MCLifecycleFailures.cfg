SPECIFICATION Spec
CONSTANTS
  Group = {g1}
  Target = {r1}
  NoRow = NoRow
  MaxMsg = 2
  MaxRef = 2
  MaxCrashes = 2
  MaxFailures = 1
  MaxEpoch = 1
  Deferred = FALSE
INVARIANTS
  StableRecordIsExact
  StableMatchesMls
  WelcomeTracksCommit
PROPERTIES
  RefinesFanoutDelivery
CONSTRAINT
  FaultBudget
CHECK_DEADLOCK FALSE
