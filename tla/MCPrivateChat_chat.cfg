\* One request, one HTTP request at a time and two workers; versions for a
\* created, a rejected or approved, and a reopened or accepted request.
SPECIFICATION FairChatSpec
CONSTANTS
  r1 = r1  p1 = p1  w1 = w1  w2 = w2  ada = ada  mon = mon
  Null = Null  Students = {ada}  StudentOf <- OneStudent
  Requests = {r1}  Procs = {p1}  Workers = {w1, w2}  Slots = {mon}  Limits = {}
  Failures = FALSE  Ops = {"recommend"}
  MaxVersion = 2  MaxAttempts = 2  MaxMishaps = 1
INVARIANTS
    NoGaps
    NoOutdatedApproval
    ChatInvariant
PROPERTIES
    ImplementsOrderedDelivery
    EventsResolve
