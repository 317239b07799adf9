SPECIFICATION WalletSpec
CONSTANTS
  w1 = w1
  w2 = w2
  o1 = o1
  o2 = o2
  o3 = o3
  a = a
  b = b
  Existing <- TwoRows
  Op <- ThreeOps
  CardOf <- FirstAgain
SYMMETRY SwapOps
INVARIANTS
  OneRewardUnlessCrossed
  OneRowUnlessRaced
  StatusUnlessUnsettled
CHECK_DEADLOCK FALSE
