\* A client of a turn with two phases and a journal of two events.
SPECIFICATION FairSpec
CONSTANTS
  c1 = c1
  Clients = {c1}
  MaxEvents = 2
  MaxPhases = 2
  MaxSequence = 5
  MaxLosses = 2
CHECK_DEADLOCK FALSE
PROPERTIES
  ImplementsEventStream
  TheEndIsLearned
