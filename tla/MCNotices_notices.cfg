SPECIFICATION MCSpec
CONSTANTS
    ada = ada  ben = ben  mum = mum  s0 = s0  x1 = x1  x2 = x2
    m1 = m1  m2 = m2  r1 = r1  r2 = r2  Null = Null
    n1 = n1  n2 = n2  w1 = w1  w2 = w2
    Enrollments = {ada, ben}
    ParentOf <- Siblings
    Pupils = {Null, ada}
    Regular = s0
    Edits = {x1, x2}
    Marks = {m1, m2}
    Replicas = {r1, r2}
    DaysAhead = 1
    WindowDays = 1
    LastDay = 2
    MaxRequests = 2
    Rows = {n1}
    Reminders = {n1}
    Workers = {w1, w2}
    MaxAttempts = 3
    Lease = 2
    Timeout = 1
    Cutoff = 2
    Memory = 3
    MaxDelay = 1
    LastTick = 6
    MaxCrashes = 2
INVARIANTS OneMark RemindedOnce DeliveredOnce
PROPERTIES AbsenceToldOnce FamiliesAreTold ResultsHold NoticesResolve
CHECK_DEADLOCK FALSE
