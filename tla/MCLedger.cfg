SPECIFICATION FairSpec
CONSTANTS
  w1 = w1
  w2 = w2
  w3 = w3
  w4 = w4
  c1 = c1
  c2 = c2
  Wrapper = {w1, w2, w3}
  Content = {c1, c2}
  Of <- Carried
  Opens <- OpensAt
  Removing = {c1}
  Bad = {}
  Cap = 2
  Ring = 1
  Batch = 1
  Budget = 1
  MaxEpoch = 2
  MaxCrashes = 1
  MaxFailures = 1
INVARIANTS
  UnopenedIsRecoverable
  SlotsAreDeferredRows
  RetainedInputIsReplayed
PROPERTIES
  GenerationIsAdjudicatedWhole
  BufferedIsSettled
  RemovedBacklogIsReturned
CHECK_DEADLOCK FALSE
