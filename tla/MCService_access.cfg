SPECIFICATION Spec
CONSTANTS
  Tenants = {"A", "B"}
  Parents = {"P", "Q"}
  Callers <- MCCallers
  MaxChanges = 1
  FactSets <- OneFact
  Visitors = {v1, v2}
  NoOne = NoOne
  MaxPolicies = 2
  MaxLapses = 1
  Attempts = {a1, a2}
  Nobody = Nobody
  MaxCrashes = 1
  MaxRetries = 2
INVARIANTS OnlyOwnRows ChangesArePermitted AnswersAreTrue IdsHidden ClosedCatalogHidden OneClassPerKey
PROPERTY RequestsAnswered
CHECK_DEADLOCK FALSE
