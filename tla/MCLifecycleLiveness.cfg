CONSTANTS
  Group = {g1}
  Target = {r1}
  NoRow = NoRow
  MaxMsg = 2
  MaxRef = 2
  MaxCrashes = 1
  MaxFailures = 0
  MaxEpoch = 0
  Deferred = FALSE
SPECIFICATION FairSpec
PROPERTY
  AcknowledgedCommitSettles
CHECK_DEADLOCK FALSE
