SPECIFICATION Spec
CONSTANTS
  Request = {r1, r2}
  Handlers <- EveryHandler
  Limit = 2
  MaxRetries = 3
  Month = 2
  Cycle = 2
  MaxDay = 2
  MaxCode = 3
  MaxRows = 3
  MaxRequests = 3
  Price = {2}
  Product = {1}
  Validity = {2}
  LinkDays = 7
  FirstStates <- MCFirstStates
SYMMETRY RequestSymmetry
INVARIANTS IntakeTypeOK CodeStaysFree QuotaKept OneOrderPerQuote LinkSound TotalIsSum
PROPERTIES DecisionStands
CHECK_DEADLOCK FALSE
