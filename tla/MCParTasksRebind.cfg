CONSTANTS
  Lanes = {m}
  Procs = {p1, p2}
  Calls = {t1, t2}
  None = None
  BindsOnce = {}
  BindsWhenUnbound = {m}
SPECIFICATION Spec
INVARIANTS EveryLiveTaskTracked
CHECK_DEADLOCK FALSE
