SPECIFICATION Spec
CONSTANTS
  e1 = e1
  e2 = e2
  t1 = t1
  t2 = t2
  Exec <- MCExec
  Target <- MCTarget
  PerItem = TRUE
  MaxAttempt = 3
SYMMETRY Symmetry
INVARIANTS
  RepeatsOnlyWhatWasSeen
CHECK_DEADLOCK FALSE
