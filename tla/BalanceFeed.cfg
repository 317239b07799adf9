SPECIFICATION FairFeedSpec
CONSTANTS
  t1 = t1
  t2 = t2
  b1 = b1
  p1 = p1
  p2 = p2
  Message <- AllMessages
  Ticket <- Tickets
  Low = {b1}
  Dropping = {b1}
  Process <- TwoProcesses
  Home <- Spread
  MaxHandled = 2
INVARIANTS
  NoUpdateForgotten
PROPERTIES
  UpdatesReachPass
  SessionsEnd
  InvalidMarksPass
