SPECIFICATION Spec
CONSTANTS
  r1 = r1
  r2 = r2
  c1 = c1
  m1 = m1
  m2 = m2
  b1 = b1
  a1 = a1
  Row <- TwoRows
  Order <- FirstIsFirst
  Customer = {c1}
  CustomerOf <- OfOne
  Inbound <- TwoHandlers
  Admin <- OneCaller
  Setter <- OneCaller
  Editor <- OneCaller
  Buyer <- OneBuyer
  Buys <- BuysTwo
  Menu <- TwoItems
SYMMETRY Handlers
CHECK_DEADLOCK FALSE
INVARIANTS
  OneAlertUnlessCrossed
  MarkedOnlyIfAlerted
  SettingUnlessOutdated
  OffersLastPurchase
