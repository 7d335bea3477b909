\* Two installations, three kills or failures, one refused recovery, with and without foreign objects.
SPECIFICATION Spec
CONSTANTS
  MaxTransactions = 2
  MaxFaults = 3
  MaxRecoveries = 1
  Foreign <- MCForeign
INVARIANTS
  JournalReadable
  OutcomeIsTrue
PROPERTIES
  OnlyOwnedIsRemoved
  SecretsAreRetained
CHECK_DEADLOCK FALSE
