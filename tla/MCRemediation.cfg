CONSTANTS
  Resources = {r, q}
  Calls = {c1, c2}
  Constructor = Constructor
  None = None
  Cooldown = 1
  MaxTime = 1
  MaxIds = 2
  MaxRestarts = 1
SPECIFICATION Spec
INVARIANTS TypeOK DeclinePersisted
PROPERTIES DeclineHonoured
SYMMETRY Symmetry
CHECK_DEADLOCK FALSE
