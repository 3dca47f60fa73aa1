SPECIFICATION Spec
CONSTANTS
  m1 = m1
  m2 = m2
  m3 = m3
  Caller = {c1, c2}
  Model = {m1, m2, m3}
  Existing = {m1}
  MaxModels = 2
  Request = {r1, r2}
  NoModel = NoModel
  NoRequest = NoRequest
  Nobody = Nobody
INVARIANTS
  WithinAllowance
  NoSecondCreation
  OneUncertainRefresh
SYMMETRY Symmetry
CHECK_DEADLOCK FALSE
