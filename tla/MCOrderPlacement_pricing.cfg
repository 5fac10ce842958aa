SPECIFICATION Spec
CONSTANTS
  an = an
  bo = bo
  p1 = p1
  p2 = p2
  p3 = p3
  r1 = r1
  r2 = r2
  r3 = r3
  Users = {an}
  Products = {p1, p2}
  Requests = {r1}
  UserOf <- OneSender
  Origins <- AnyOrigin
  Prices = {200, 201}
  PoolSize = 1
  HighValue = 650
  Tolerance = 1
  MaxUnits = 2
CHECK_DEADLOCK FALSE
INVARIANTS
  StoredTotalIsSumOfItems
  HighValueOrdersAtLivePrice
  ApprovedOrdersAreTolerable
