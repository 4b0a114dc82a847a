SPECIFICATION Spec
CONSTANTS
  main = main
  recent = recent
  r1 = r1
  r2 = r2
  Lane <- MCLane
  MainLane = main
  Request <- MCRequest
INVARIANTS
  TerminatesAfterWorkerDrain
