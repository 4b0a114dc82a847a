SPECIFICATION MCSpec
CONSTANTS
  main = main
  recent = recent
  r1 = r1
  r2 = r2
  p1 = p1
  e1 = e1
  e2 = e2
  t1 = t1
  t2 = t2
  g1 = g1
  s1 = s1
  s2 = s2
  x1 = x1
  Lane <- MCLane
  MainLane = main
  Request <- MCRequest
INVARIANTS
  LanesQuietAfterDrain
PROPERTIES
  
  DrainEnds
  AbandonedRunIsRetaken
  InterruptedIsRecovered
  ProjectedUnlessHalted
