SPECIFICATION Spec
CONSTANTS
  o1 = o1
  o2 = o2
  t1 = t1
  t2 = t2
  t3 = t3
  Orders = {o1}
  Payments = {t1, t2}
  OrderOf <- RetriedOrder
  PoolSize = 1
CHECK_DEADLOCK FALSE
PROPERTIES
  OnlyPendingOrdersAreCharged
