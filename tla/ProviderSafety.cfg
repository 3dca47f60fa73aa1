SPECIFICATION Spec
CONSTANTS
  MaxPending = 2
  MaxSeen = 2
  LastSession = 5
  Host = h
  Other = {t}
  Grants = {{"recall", "mental_models"}, {"retain", "reflect"}}
  Inclusive = {"reflect"}
  MaxGrants = 2
  MaxMemories = 1
  Hook = {h1, h2}
  NoHook = NoHook
  Gateway = {g1, g2}
  Operator = operator
  Nobody = nobody
  MaxRecords = 2
  QueueMax = 1
  MaxIssued = 4
  MaxKills = 1
INVARIANTS
  Converges
  CapabilityBindsCall
  FailuresRecall
  TurnIsReported
  NewestAreKept
PROPERTY
  NeverBackward
CHECK_DEADLOCK FALSE
