CONSTANTS
  Lanes = {m, n}
  Procs = {p1, p2}
  Calls = {t1, t2}
  None = None
  BindsOnce = {m}
  BindsWhenUnbound = {}
SPECIFICATION FairSpec
INVARIANTS TypeOK RecordsAgree LiveTasksTracked
PROPERTIES TerminationKills
CHECK_DEADLOCK FALSE
