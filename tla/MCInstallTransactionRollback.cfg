\* One installation, killed while it rolls back, and recovered.
SPECIFICATION Spec
CONSTANTS
  MaxTransactions = 1
  MaxFaults = 2
  MaxRecoveries = 1
  Foreign <- MCForeign
INVARIANTS
  RollbackIsIdempotent
CHECK_DEADLOCK FALSE
