SPECIFICATION Spec
CONSTANTS
  MaxRewind = 2
  QuorumSenders = 1
  QuorumEpochs = 1
  OverrideDepth = 1
  Member = {1, 2}
  AppLimit = 2
  MaxCommits = 3
  MaxApps = 2
INVARIANTS
  AgreementAtRest
  SelectionIsRealised
  AnchorForEveryFork
PROPERTIES
  PassResolvesInput
CHECK_DEADLOCK FALSE
