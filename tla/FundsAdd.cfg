SPECIFICATION FairSpec
CONSTANTS
  r1 = r1
  c1 = c1
  InputChoices <- Input
  Request <- OneRequest
  Card <- OneCard
  CardOf <- SameCard
  EasyChoices = {"absent", "on", "off"}
INVARIANTS
  SuccessIsComplete
  VoidedUnlessCutShort
  RecordIsReliable
  TimeoutIsReported
PROPERTIES
  NoVoidOfVoided
  KeepsContract
  EveryRequestEnds
