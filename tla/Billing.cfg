SPECIFICATION Spec
CONSTANTS
  Plan = {1, 2}
  AddOn = 1
  Covered = {FALSE}
  Request = {r1, r2}
  Handlers <- AllHandlers
  Together = 2
  MaxCycles = 1
  MaxRequests = 1
  FirstStates <- MCFirstStates
INVARIANTS BillingTypeOK OnboardedOnce LimitWithinPlan PaidTenantWorks ChargedOnce
SYMMETRY RequestSymmetry
CHECK_DEADLOCK FALSE
