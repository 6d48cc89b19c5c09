CONSTANTS
  Calls = {c1, c2, c3, c4}
  Lanes = {l1, l2}
  Resolved = Resolved
  NoEntry = NoEntry
SPECIFICATION FairSpec
INVARIANTS TypeOK MutualExclusion
PROPERTIES ImplementsFifoMutex EveryCallRuns
