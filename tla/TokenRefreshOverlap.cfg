SPECIFICATION FairTokenSpec
CONSTANTS
  c1 = c1
  c2 = c2
  c3 = c3
  MaxCalls = 2
  Chain <- ThreeChains
INVARIANTS
  RefreshGoesOn
  OneTimerUnlessOverlap
PROPERTY TokenRecovers
