\* Two calls and a close on one runtime of either kind, with two faults; fair threads.
SPECIFICATION FairSpec
CONSTANTS
  c1 = c1  c2 = c2  c3 = c3  k1 = k1
  None = None
  Callers = {c1, c2}
  Closers = {k1}
  MaxRequests = 1
  WorkerLimit = 2
  MaxFaults = 2
INVARIANTS
  NoStrayWorker
  OnlyFaultsBreak
PROPERTIES
  EveryCallEnds
