SPECIFICATION Spec
CONSTANTS
  Proc = {p1, p2}
  Probe = probe
  NoProc = nobody
  Inode = {11, 12}
  MaxFiles = 3
  MaxCrashes = 1
  Inodes = {1, 2}
  MaxBlocks = 2
  MaxWrites = 3
  Policies <- MCPolicies
  Envelope = 1
  Text <- MCText
  Prefix = {0, 1}
  Limits <- MCLimits
  Common = 1
  Frame = 1
  Allowance = 1
  Chars <- MCChars
  Handle = {0, 2}
  Received <- MCReceived
  MaxResults = 3
  Budgets <- MCBudgets
  Lateness = {2, 6, 9, 12, 15, 40}
  Record = 1
  Marker = 1
  Attempts = {1, 2, 3, 4, 5, 6}
  Seconds = {1, 2, 3, 5, 8, 16}
INVARIANTS
  ClaimedRowsDecode
  PackingIsBest
  ContextIsBest
  DelayIsCapped
PROPERTIES
  StaleOwnersAreFenced
  SnapshotIsWhole
SYMMETRY ProcSymmetry
CHECK_DEADLOCK FALSE
