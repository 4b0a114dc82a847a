SPECIFICATION MCSpec
CONSTANTS
  s1 = s1
  s2 = s2
  u1 = u1
  u2 = u2
  n1 = n1
  n2 = n2
  d1 = d1
  d2 = d2
  first = first
  second = second
  reserve = reserve
  release = release
  hold = hold
  sell = sell
  reserve2 = reserve2
  NoRecord = NoRecord
  NoPg = NoPg
  NoDevice = NoDevice
  NoKey = NoKey
  Nowhere = Nowhere
  Session <- MCSession
  Record <- MCSku
  Pg <- MCPg
  Limit = 2
  Device <- MCDevice
  Sku <- MCSku
  Tx <- MCSession
  Op <- MCOp
  request <- MCrequest
  MaxRevision = 2
  Key <- MCKey
  Initial = first
  Exec <- MCSession
  Answers = {"number", "surplus", "short", "refused", "uncertain", "error"}
  MaxRetries = 2
  MaxFaults = 2
SYMMETRY Symmetry
INVARIANTS
  KeptForItsRow
  SavedOnce
  BalancesMatch
  MovedOnce
  RetryIsSafe
PROPERTIES
  SkuSettled
