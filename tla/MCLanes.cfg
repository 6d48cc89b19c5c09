CONSTANTS
  Lanes = {a, b, old}
  StaleLanes = {old}
  Agents = {g1}
  Capacity = 1
SPECIFICATION FairSpec
INVARIANTS TypeOK IdleLanesAtRest WorktreeRecorded WorktreeExists
PROPERTIES FollowsLifecycle PtysOfLiveLanesKept CleanupCloses LockReleased
