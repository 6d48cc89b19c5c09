CONSTANTS
  MaxChanges = 1
  MaxCalls = 1
  MaxFaults = 1
  MaxOverlap = 2
  Threshold = 1
SPECIFICATION FairSpec
CHECK_DEADLOCK FALSE
INVARIANTS TypeOK CheckpointNotLost ReadFindsLatest
PROPERTIES ImplementsRegister ChangesSaved
