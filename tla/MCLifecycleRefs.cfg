CONSTANTS
  Group = {g1, g2}
  Target = {r1}
  NoRow = NoRow
  MaxMsg = 2
  MaxRef = 2
  MaxCrashes = 1
  MaxFailures = 0
  MaxEpoch = 0
  Deferred = TRUE
SPECIFICATION Spec
INVARIANT
  MergedIsHeldByRelay
CHECK_DEADLOCK FALSE
