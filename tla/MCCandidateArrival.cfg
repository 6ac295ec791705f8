SPECIFICATION Spec
CONSTANTS
  MaxRewind = 2
  QuorumSenders = 1
  QuorumEpochs = 1
  OverrideDepth = 1
  Epoch = {0, 1, 2, 4}
  Priority = {0, 1}
  Committer = {1}
  Sender = {"s1"}
  CurrentTip = 3
  MaxCandidates = 3
INVARIANTS
  SelectionIgnoresOrder
  WitnessesCannotOutweighCommits
CHECK_DEADLOCK FALSE
