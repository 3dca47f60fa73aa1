SPECIFICATION Spec
CONSTANTS
  s1 = s1
  s2 = s2
  t1 = t1
  t2 = t2
  t3 = t3
  Provider = {p1, p2}
  Worker = {w1, w2, w3}
  Session = {s1, s2}
  Parent <- Rotation
  Turn = {t1, t2, t3}
  SessionOf <- ThreeTurns
  Query = {q1, q2}
  Planned = {q1}
  NoSession = NoSession
  NoTurn = NoTurn
  NoWorker = NoWorker
  MaxAge = 2
  PlannerTimeout = 1
  MaxTime = 2
INVARIANTS
  PlanIsCurrent
  RedirectIsCurrent
  ClosedIsNotPlanned
PROPERTY
  ImplementsHandoff
SYMMETRY Symmetry
CHECK_DEADLOCK FALSE
