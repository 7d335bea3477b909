\* One session, two interleaved threads, reaper and closer, two listeners and two failures; fair threads.
SPECIFICATION FairSpec
CONSTANTS
  s1 = s1
  s2 = s2
  s3 = s3
  s4 = s4
  Sessions = {s1}
  NoSession = NoSession
  Workers = {w1, w2}
  Reaper = Reaper
  Closer = Closer
  ClientOf <- MCClientOf
  TenantOf <- MCTenantOf
  Revisions = {1, 2}
  GlobalLimit = 1
  ClientLimit = 1
  TenantLimit = 1
  TTL = 1
  NListeners = 2
  MaxFaults = 2
INVARIANTS
  LeaseKeepsSession
  CleanupHasOneOwner
  ErasedBeforeRemoved
PROPERTIES
  RevocationIsFinal
  ImplementsLifecycle
  RevokedIsCleaned
  ShutdownDrains
