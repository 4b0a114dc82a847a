SPECIFICATION MCSpec
CONSTANTS
  e1 = e1
  e2 = e2
  e3 = e3
  t1 = t1
  t2 = t2
  Nobody = Nobody
  g1 = g1
  s1 = s1
  s2 = s2
  Exec <- MCExec
  Target <- MCTarget
  PerItem = TRUE
  MaxAttempt = 6
  Slot <- MCSlot
  Person <- MCTarget
  MaxRevision = 8
  Executor <- MCExec
  MaxAttempts = 3
  Group <- MCGroup
  Invoice <- MCInvoice
  First <- MCFirst
  Spare <- MCSpare
  Tracker <- MCExec
  MaxEvents = 2
  MaxJobs = 2
  MaxFaults = 1
SYMMETRY Symmetry
INVARIANTS
  CalledOnce
  NotAppliedWasSeen
  NothingStranded
  FinalizedOnce
  PausedAtLimit
  OneOverrunEach
  SentOnce
  EvidenceTells
  DeviceFollowsShipment
PROPERTIES
  ResumedAsSeen
CHECK_DEADLOCK FALSE
