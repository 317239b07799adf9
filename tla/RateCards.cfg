SPECIFICATION FairSpec
CONSTANTS
  s1 = s1
  s2 = s2
  u1 = u1
  u2 = u2
  Store <- TwoStores
  First = s1
  User <- TwoUsers
  Near <- NearFirst
  NewCustomer <- TwoUsers
  ApplePayer <- SecondUser
  Picker <- FirstUser
  DigitalBuyer <- SecondUser
  Terse <- FirstUser
  WithApple <- FirstOffers
  RateCardVersion <- DefaultVersion
  Last = 1
  Faults = 1
INVARIANTS
  NotOlderUnlessOvertaken
  RefusedOnlyIfChanged
PROPERTIES
  RatesConverge
  RefusedGetThrough
