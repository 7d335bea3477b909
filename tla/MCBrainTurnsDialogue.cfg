\* One session, one thread: questions, answers and proposals that build on each other.
SPECIFICATION Spec
CONSTANTS
  s1 = s1  s2 = s2  q1 = q1  q2 = q2  q3 = q3  c1 = c1  c2 = c2  x1 = x1  x2 = x2
  Sessions = {s1}
  Requests = {q1, q2, q3}
  Targets = {x1}
  Callers = {c1}
  MaxWorkers = 1
  MaxQueue = 1
  MaxSessionTurns = 3
  MaxTurn = 3
  MaxQuestion = 2
INVARIANTS
  NothingSurvivesErasure
  ClaimHasOwner
  OpenQuestionIsVisible
  
PROPERTIES
  ResultsAreFinal
CHECK_DEADLOCK FALSE
SYMMETRY Symmetry
