SPECIFICATION Spec
CONSTANTS
  p1 = p1
  p2 = p2
  g1 = g1
  g2 = g2
  pol = pol
  d1 = d1
  d2 = d2
  d3 = d3
  t1 = t1
  t2 = t2
  Proc = {p1, p2}
  Target = {g1, g2}
  Policy = {}
  NoPolicy = NoPolicy
  Config <- TwoTargets
  Turn = {t1, t2}
  Doc = {d1, d2, d3}
  SegmentsOf <- TwoTurns
  SchemaOf <- BothText
  Rank <- RankOf
  Size <- SizeOf
  RetryDelay <- Delay
  MaxRows = 2
  MaxBytes = 3
  Backlog = {}
  BacklogTarget = g1
  Status = Status
  Nobody = Nobody
  NoDoc = NoDoc
  MaxAttempts = 3
  MaxAdmissions = 2
  MaxFaults = 2
  Horizon = 0
INVARIANTS
  ClaimHeld
  NoStrandedRow
  NoOverlap
  NoLoss
  Isolation
  WholeTurns
  WithinCapacity
  AttemptsCounted
PROPERTIES
  ImplementsDelivery
SYMMETRY ProcSymmetry
CHECK_DEADLOCK FALSE
