SPECIFICATION Spec
CONSTANTS
  Tech = {t1}
  NoTech = NoTech
  Offer = {o1}
  Request = {r1, r2, r3}
  Handlers <- SettlementHandlers
  MaxEntries = 2
  MaxOtp = 0
SYMMETRY Symmetry
INVARIANT SettledOnce
PROPERTY SettlementSpec
CHECK_DEADLOCK FALSE
