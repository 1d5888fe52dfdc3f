SPECIFICATION Spec
CONSTANTS
  r1 = r1  r2 = r2  p1 = p1  p2 = p2  p3 = p3  ada = ada  mon = mon  tue = tue
  Null = Null  Students = {ada}  StudentOf <- OneStudent
  Requests = {r1, r2}  Procs = {p1, p2}  Slots = {mon}  Limits = {}
  Failures = FALSE  Ops = {}
SYMMETRY Symmetry
INVARIANTS NoFalseApproval
CHECK_DEADLOCK FALSE
