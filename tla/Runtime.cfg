SPECIFICATION FairSpec
CONSTANTS
  Caller = {c1, c2}
  Sender = Sender
  Finalizer = Finalizer
  MaxCalls = 2
  MaxExpiries = 1
  MaxRuntimes = 2
INVARIANTS
  TasksTracked
  OutboxOpenInUse
  ClosedIsQuiet
PROPERTIES
  CallsReturn
  FinalizeCompletes
CHECK_DEADLOCK FALSE
