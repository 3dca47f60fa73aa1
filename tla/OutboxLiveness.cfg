SPECIFICATION FairSpec
CONSTANTS
  p1 = p1
  p2 = p2
  g1 = g1
  g2 = g2
  pol = pol
  d1 = d1
  d2 = d2
  d3 = d3
  t1 = t1
  t2 = t2
  Proc = {p1, p2}
  Target = {g1}
  Policy = {pol}
  NoPolicy = NoPolicy
  Config <- PolicySwitch
  Turn = {t1, t2}
  Doc = {d1, d2, d3}
  SegmentsOf <- TwoTurns
  SchemaOf <- LegacyAndBinary
  Rank <- RankOf
  Size <- SizeOf
  RetryDelay <- Delay
  MaxRows = 3
  MaxBytes = 4
  Backlog = {t1}
  BacklogTarget = g1
  Status = Status
  Nobody = Nobody
  NoDoc = NoDoc
  MaxAttempts = 3
  MaxAdmissions = 2
  MaxFaults = 2
  Horizon = 0
PROPERTIES
  MatchedRowsDrain
  StopCompletes
CHECK_DEADLOCK FALSE
