SPECIFICATION Spec
CONSTANTS
  k1 = k1
  r1 = r1
  r2 = r2
  v1 = v1
  v2 = v2
  v3 = v3
  v4 = v4
  Requests = {r1, r2}
  Calls = {v1, v2, v3, v4}
  Keys = {k1}
  KeyOf <- OneKey
  ApprovalLife = 2
  PendingLife = 1
  MaxTime = 4
SYMMETRY Symmetry
CHECK_DEADLOCK FALSE
INVARIANTS
  TypeOK
  SettledForGood
  ThreeStrikes
PROPERTIES
  LeaseSpec
