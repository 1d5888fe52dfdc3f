SPECIFICATION MCSpec
CONSTANTS
  c1 = c1  c2 = c2  c3 = c3  w1 = w1  w2 = w2  q1 = q1  q2 = q2
  ada = ada  ben = ben  kls = kls  prv = prv  s1 = s1  s2 = s2  s3 = s3  s4 = s4
  k1 = k1  k2 = k2  mum = mum  dad = dad  org = org  Null = Null
  Students = {ada, ben}  Classes = {kls, prv}  PrivateClasses = {prv}
  Keys = {k1, k2}  Callers = {mum, dad, org}
  ParentOf <- MCParentOf  TenantOf <- MCTenantOf  PurchaseOf <- MCPurchaseOf
  Checkouts = {c1, c2}  Workers = {w1, w2}  Purchases = {q1, q2}
  Schedules = {s1, s2, s3, s4}  InitSched <- Timetable  Capacities = {1, 2}
  Requests <- Crowd
  Steps <- WorkerSteps
SYMMETRY Symmetry
INVARIANTS EnrollmentInvariant ActivationSticks OneLiveEnrollment AnswersMatchRequest SeatsWithinCapacity NoSeatOnDeletedSchedule
PROPERTY NoSuccessForRejected
CHECK_DEADLOCK FALSE
