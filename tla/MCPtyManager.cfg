CONSTANTS
  Ptys = {p1, p2, p3}
  Calls = {c1, c2}
  Capacity = 1
  MaxRestarts = 1
SPECIFICATION FairSpec
CHECK_DEADLOCK FALSE
INVARIANTS TypeOK
PROPERTIES KilledWithItsRecord ShellsEnd
