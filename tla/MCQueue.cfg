SPECIFICATION FairSpec
CONSTANTS
  Intent = {1, 2}
  LevelDriven = FALSE
  MaxDeferrals = 1
  MaxHolds = 1
  MaxRestarts = 1
  MaxFailures = 1
INVARIANTS
  MessageIsNotLost
  OneLiveArtifact
PROPERTIES
  QueuedIsReleased
CHECK_DEADLOCK FALSE
