SPECIFICATION Spec
CONSTANTS
  s1 = s1
  s2 = s2
  t1 = t1
  t2 = t2
  t3 = t3
  Provider = {p1}
  Worker = {w1, w2}
  Session = {s1}
  Parent <- Alone
  Turn = {t1}
  SessionOf <- OneTurn
  Query = {q1}
  Planned = {q1}
  NoSession = NoSession
  NoTurn = NoTurn
  NoWorker = NoWorker
  MaxAge = 2
  PlannerTimeout = 1
  MaxTime = 2
INVARIANT
  ConsumedStaysClosed
CHECK_DEADLOCK FALSE
