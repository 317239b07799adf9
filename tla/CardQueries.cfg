SPECIFICATION Spec
CONSTANTS
  stray = stray
  lost = lost
  known = known
  q1 = q1
  Wallet <- ThreeCards
  Reader <- OneReader
  NotFound = {stray}
  MayLack = {lost}
  Changes <- KnownTwice
INVARIANTS
  OwnBalancesUnlessLacked
  NeverBackUnlessOvertaken
  FailsOnlyIfShort
  PointsOnlyIfGone
