SPECIFICATION Spec
CONSTANTS
  r1 = r1  r2 = r2  p1 = p1  p2 = p2  p3 = p3  ada = ada  mon = mon  tue = tue
  Null = Null  Students = {ada}  StudentOf <- OneStudent
  Requests = {r1}  Procs = {p1}  Slots = {mon, tue}  Limits = {}
  Failures = FALSE  Ops = {"recommend"}
SYMMETRY Symmetry
INVARIANTS AcceptedSlotsSold
CHECK_DEADLOCK FALSE
