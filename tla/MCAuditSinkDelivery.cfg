CONSTANTS
  Flushes = {f1}
  None = None
  Capacity = 2
  MaxBuffer = 2
  MaxRetries = 2
  MaxEvents = 4
  MaxTasks = 2
  MaxFailures = 4
SPECIFICATION FairSpec
CHECK_DEADLOCK FALSE
PROPERTIES GuaranteesDelivery
