\* Two clients compete for one anchor, or one of them retries alone, while the service crashes and messages are lost.
SPECIFICATION DSpec
CONSTANTS
  c1 = c1  c2 = c2  n1 = n1  n2 = n2  q1 = q1
  None = None
  Clients = {c1, c2}
  Nonces = {n1, n2}
  Requests = {q1}
  MaxFaults = 3
INVARIANTS
  EachFollowsItsSource
PROPERTIES
  RestartIsCurrent
  RetriedIsAccepted
