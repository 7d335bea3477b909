\* Two threads submit to one session: admission races, cancellation, erasure, shutdown; fair workers.
SPECIFICATION FairSpec
CONSTANTS
  s1 = s1  s2 = s2  q1 = q1  q2 = q2  q3 = q3  c1 = c1  c2 = c2  x1 = x1  x2 = x2
  Sessions = {s1}
  Requests = {q1, q2}
  Targets = {x1}
  Callers = {c1, c2}
  MaxWorkers = 1
  MaxQueue = 2
  MaxSessionTurns = 2
  MaxTurn = 2
  MaxQuestion = 0
INVARIANTS
  OneActiveTurn
  RequestsAdmittedOnce
PROPERTIES
  AdmittedTurnEnds
CHECK_DEADLOCK FALSE
