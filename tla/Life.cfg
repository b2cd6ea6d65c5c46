SPECIFICATION Spec
CONSTANTS
  Tech = {t1, t2}
  NoTech = NoTech
  Offer = {o1}
  Request = {r1}
  Handlers <- LifeHandlers
  MaxEntries = 0
  MaxOtp = 1
SYMMETRY TechSymmetry
INVARIANT DoneHasCompletion
PROPERTY CancelledLeftOnlyBy
CHECK_DEADLOCK FALSE
