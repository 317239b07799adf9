SPECIFICATION FairSpec
CONSTANTS
  u1 = u1
  b1 = b1
  Last = 2
  TicketChange = {2}
  User <- OneUser
  Buyer <- OneBuyer
INVARIANTS
  NotOlderUnlessOvertaken
  WholeUnlessVanished
PROPERTY BalancesConverge
