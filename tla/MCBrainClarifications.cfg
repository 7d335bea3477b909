\* Two sessions share the store: question groups, partial answers, claims, replaced decisions,
\* sweeps, revocation guards and an assumption limit.
SPECIFICATION Spec
CONSTANTS
  s1 = s1  s2 = s2  t1 = t1  t2 = t2  r1 = r1  r2 = r2
  k1 = k1  k2 = k2  b1 = b1  b2 = b2  a1 = a1  a2 = a2
  None = None
  Sessions = {s1, s2}
  Turns = {t1}
  Requests = {r1}
  Keys = {k1, k2}
  Bases = {b1, b2}
  Assumptions = {a1, a2}
  Ttl = 1
  MaxRounds = 1
  MaxRoundsV2 = 2
  MaxQuestions = 2
  MaxDecisions = 3
  MaxAssumptions = 1
  MaxConversations = 1
  MaxRetired = 2
  MaxId = 3
INVARIANTS
  StoreConsistent
  QuestionResolvable
PROPERTIES
  DecisionsAreKept
  ReplayGuardLasts
  ClaimIsHonoured
  ImplementsLedger
SYMMETRY Symmetry
