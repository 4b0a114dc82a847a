SPECIFICATION Spec
CONSTANTS
  r1 = r1
  r2 = r2
  n1 = n1
  n2 = n2
  s1 = s1
  s2 = s2
  NoRecord = NoRecord
  NoPg = NoPg
  Record <- MCRecord
  Pg <- MCPg
  Session <- MCSession
  Limit = 2
SYMMETRY Symmetry
INVARIANTS
  ReservedIsFree
