SPECIFICATION FairSpec
CONSTANTS
  an = an
  bo = bo
  p1 = p1
  p2 = p2
  p3 = p3
  r1 = r1
  r2 = r2
  r3 = r3
  Users = {an, bo}
  Products = {p1}
  Requests = {r1, r2}
  UserOf <- TwoSenders
  Origins <- Browser
  Prices = {100}
  PoolSize = 1
  HighValue = 250
  Tolerance = 1
  MaxUnits = 1
CHECK_DEADLOCK FALSE
PROPERTIES
  HangsHoldUpNobodyElse
