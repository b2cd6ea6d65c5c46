SPECIFICATION FairSpec
CONSTANTS
  Plan = {1, 2}
  AddOn = 1
  Covered = {TRUE, FALSE}
  Request = {r1}
  Handlers <- LateHandlers
  Together = 2
  MaxCycles = 1
  MaxRequests = 1
  FirstStates <- LateStates
PROPERTY PastDueEnds
CHECK_DEADLOCK FALSE
