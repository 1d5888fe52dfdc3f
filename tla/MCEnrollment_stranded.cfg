SPECIFICATION ScopedSpec
CONSTANTS
  c1 = c1  c2 = c2  c3 = c3  w1 = w1  w2 = w2  q1 = q1  q2 = q2
  ada = ada  ben = ben  kls = kls  prv = prv  s1 = s1  s2 = s2  s3 = s3  s4 = s4
  k1 = k1  k2 = k2  mum = mum  dad = dad  org = org  Null = Null
  Students = {ada, ben}  Classes = {kls, prv}  PrivateClasses = {prv}
  Keys = {k1, k2}  Callers = {mum, dad, org}
  ParentOf <- MCParentOf  TenantOf <- MCTenantOf  PurchaseOf <- MCPurchaseOf
  Checkouts = {c1}  Workers = {w1}  Purchases = {}
  Schedules = {s1}  InitSched <- OneSeat  Capacities = {1, 2}
  Requests <- Rivals
  Steps = {"class_schedules", "class_delete"}
SYMMETRY Symmetry
PROPERTY ActiveKeepsSchedule
CHECK_DEADLOCK FALSE
