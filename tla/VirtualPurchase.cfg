SPECIFICATION Spec
CONSTANTS
  r1 = r1
  r2 = r2
  alice = alice
  InputChoices <- PlainOrFull
  Request <- TwoRequests
  Customer <- OneCustomer
  CustomerOf <- SameCustomer
SYMMETRY Symmetric
INVARIANTS
  CardIsBacked
  OneVirtualPowercardUnlessRaced
PROPERTY KeepsContract
