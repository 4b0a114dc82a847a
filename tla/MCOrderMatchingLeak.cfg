SPECIFICATION Spec
CONSTANTS
  i1 = i1
  d1 = d1
  d2 = d2
  o1 = o1
  o2 = o2
  m1 = m1
  m2 = m2
  k1 = k1
  k2 = k2
  NoOffer = NoOffer
  NoItem = NoItem
  NoDevice = NoDevice
  Item <- MCItem
  Device <- MCDevice
  Offer <- MCOffer
  Fits <- MCFits
  SkuOf <- MCSkuOf
  Matcher <- MCMatcher
  MaxQty = 2
  MaxChange = 2
INVARIANT NoReservationLeaked
CHECK_DEADLOCK FALSE
