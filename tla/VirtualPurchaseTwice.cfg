SPECIFICATION Spec
CONSTANTS
  r1 = r1
  r2 = r2
  alice = alice
  InputChoices <- PlainInput
  Request <- TwoRequests
  Customer <- OneCustomer
  CustomerOf <- SameCustomer
INVARIANT OneVirtualPowercard
