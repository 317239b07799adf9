SPECIFICATION FairSpec
CONSTANTS
  u1 = u1
  g1 = g1
  Last = 2
  Due <- OpenThenClosed
  MaxLag = 1
  Retries = 1
  Guid <- OneTag
  User <- OneUser
PROPERTIES
  CacheConverges
  EveryMessageEnds
