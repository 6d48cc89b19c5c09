CONSTANTS
  Ghostty = ghostty
  Rio = rio
  Calls = {c1, c2}
  MaxCrashes = 1
SPECIFICATION FairSpec
CHECK_DEADLOCK FALSE
INVARIANTS TypeOK OneSwitchAtATime ActiveAloneRuns
PROPERTIES ReturnsWithOneShown SwitchEnds
