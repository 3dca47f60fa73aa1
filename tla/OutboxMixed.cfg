SPECIFICATION FairSpec
CONSTANTS
  p1 = p1
  p2 = p2
  g1 = g1
  g2 = g2
  pol = pol
  d1 = d1
  d2 = d2
  d3 = d3
  t1 = t1
  t2 = t2
  Proc = {p1, p2}
  Target = {g1, g2}
  Policy = {}
  NoPolicy = NoPolicy
  Config <- TwoTargets
  Turn = {t1}
  Doc = {d1, d2}
  SegmentsOf <- OneTurn
  SchemaOf <- OneText
  Rank <- RankOf
  Size <- SizeOf
  RetryDelay <- Delay
  MaxRows = 3
  MaxBytes = 4
  Backlog = {}
  BacklogTarget = g1
  Status = Status
  Nobody = Nobody
  NoDoc = NoDoc
  MaxAttempts = 3
  MaxAdmissions = 1
  MaxFaults = 0
  Horizon = 0
PROPERTY
  RestoredConfigurationDrains
CHECK_DEADLOCK FALSE
