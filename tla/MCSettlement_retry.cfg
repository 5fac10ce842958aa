SPECIFICATION Spec
CONSTANTS
  o1 = o1
  o2 = o2
  t1 = t1
  t2 = t2
  t3 = t3
  Orders = {o1, o2}
  Payments = {t1, t2, t3}
  OrderOf <- RetriedOrder
  PoolSize = 2
CHECK_DEADLOCK FALSE
INVARIANTS
  TypeOK
  ChargedOnce
  PaidIsAccountedFor
  ChargedOrderIsNotPending
PROPERTIES
  SettledOrderStaysSettled
