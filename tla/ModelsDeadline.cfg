SPECIFICATION Spec
CONSTANTS
  m1 = m1
  m2 = m2
  m3 = m3
  Caller = {c1}
  Model = {m1}
  Existing = {m1}
  MaxModels = 1
  Request = {r1}
  NoModel = NoModel
  NoRequest = NoRequest
  Nobody = Nobody
INVARIANT
  AcknowledgedKept
CHECK_DEADLOCK FALSE
