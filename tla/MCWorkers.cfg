SPECIFICATION MCSpec
CONSTANTS
  p1 = p1
  p2 = p2
  e1 = e1
  e2 = e2
  o1 = o1
  Proc <- MCProc
  Exec <- MCExec
  ProcOf <- MCProcOf
  MaxAttempts = 2
  Required = FALSE
  MaxClaims = 4
  Order = {1}
  Reader <- MCExec
  Last = 2
  Day = 2
  MaxTime = 6
  MaxMishaps = 1
  PageOrder <- MCPageOrder
  PageReader <- MCExec
  PageLast = 3
  MaxPages = 2
  MaxPageMishaps = 2
SYMMETRY Symmetry
INVARIANTS
  SingleOwner
  ClosedRunNeverRepeats
  RetryBudget
  NextRunTracksSchedule
  CoveredIsStored
  NotOlderThanRead
  StoredIsRecorded
PROPERTIES
  ImplementsLease
