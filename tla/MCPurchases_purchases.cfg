SPECIFICATION MCSpec
CONSTANTS
  r1 = r1  r2 = r2  p1 = p1  p2 = p2  p3 = p3  ada = ada  mon = mon  tue = tue
  Null = Null  Students = {ada}  StudentOf <- OneStudent
  Requests = {r1, r2}  Procs = {p1, p2}  Slots = {mon, tue}  Limits = {1, 2}
  Failures = TRUE  Ops = {"recommend", "suspend", "end", "cancel", "class", "fail"}
SYMMETRY Symmetry
INVARIANTS PurchaseInvariant PurchaseImpliesApproval OneLivePurchase ActivationKept SoldAsApproved
CHECK_DEADLOCK FALSE
