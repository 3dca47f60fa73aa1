SPECIFICATION Spec
CONSTANTS
  m1 = m1
  m2 = m2
  m3 = m3
  p1 = p1
  Model = {m1, m2, m3}
  Generated = {m3}
  Page = {p1}
  Existing = {m1}
  Allowance = 2
  MaxCommands = 2
  MaxChanges = 1
  Script <- MCScript
  NoModel = NoModel
  Deleted = Deleted
  Doc = {d1, d2}
  AgedAfter = 1
  Horizon = 1
  MaxPolls = 2
  Window = 3
  MinSamples = 2
  Percent = 50
  MaxEvents = 1
  MaxMishaps = 2
INVARIANTS
  OutcomesAreHonest
  CanaryLeavesNothing
  AlarmsAreShown
PROPERTIES
  VerifiedIsTrue
  StatusIsHonest
CHECK_DEADLOCK FALSE
