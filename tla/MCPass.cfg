SPECIFICATION FairSpec
CONSTANTS
  Input = {"c1", "a1", "c4", "o1"}
  App = {"a1"}
  Own = {"o1"}
  Src <- MCSrc
  MaxRewind = 1
  Quiescence = 2
  MaxPass = 3
  MaxLag = 1
  MaxRestarts = 1
  WallSteps <- MCWallSteps
  MaxSteps = 1
  MaxFailures = 1
INVARIANTS
  ActivePassOwnsTip
  ResidenceIsBounded
  CutoffIsEarned
  AttemptBeforeNextPass
PROPERTIES
  RefinesBatchAdjudication
  CommitIsJudged
CHECK_DEADLOCK FALSE
