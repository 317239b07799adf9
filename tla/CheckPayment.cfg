SPECIFICATION Spec
CONSTANTS
  r1 = r1
  r2 = r2
  InputChoices <- NoOffer
  Request <- TwoPayments
INVARIANTS
  OneReceiptUnlessRaced
  ReceiptShowsPaid
PROPERTY KeepsContract
