SPECIFICATION PageSpec
CONSTANTS
  an = an
  p1 = p1
  p2 = p2
  r1 = r1
  r2 = r2
  t1 = t1
  t2 = t2
  c1 = c1
  Users = {an}
  Customer = an
  Products = {p1}
  Requests = {r1}
  UserOf <- OneSender
  Origins <- Browser
  Prices = {100}
  PoolSize = 1
  HighValue = 250
  Tolerance = 1
  MaxUnits = 1
  MaxAsked = 1
  CheckoutTabs = {t1}
  CartTabs = {c1}
SYMMETRY Symmetry
CHECK_DEADLOCK FALSE
INVARIANTS
  SuccessHasPayment
