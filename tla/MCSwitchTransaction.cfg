CONSTANTS
  Ghostty = ghostty
  Rio = rio
  Creations = {q1, q2}
  MaxCrashes = 2
SPECIFICATION FairTransactionSpec
CHECK_DEADLOCK FALSE
INVARIANTS TransactionTypeOK OutputKept
PROPERTIES EndsWithOneShown CreationsSettle
