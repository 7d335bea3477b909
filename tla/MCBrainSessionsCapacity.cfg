\* Four requests with overlapping clients and tenants compete for two slots.
SPECIFICATION Spec
CONSTANTS
  s1 = s1
  s2 = s2
  s3 = s3
  s4 = s4
  Sessions = {s1, s2, s3, s4}
  NoSession = NoSession
  Workers = {w1}
  Reaper = Reaper
  Closer = Closer
  ClientOf <- MCClientOf
  TenantOf <- MCTenantOf
  Revisions = {1}
  GlobalLimit = 2
  ClientLimit = 1
  TenantLimit = 1
  TTL = 1
  NListeners = 1
  MaxFaults = 0
INVARIANTS
  CapacityRespected
