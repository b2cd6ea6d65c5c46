SPECIFICATION Spec
CONSTANTS
  Tech = {t1}
  NoTech = NoTech
  Offer = {}
  Request = {r1}
  Handlers <- MoneyLifeHandlers
  MaxEntries = 2
  MaxOtp = 0
INVARIANT OneReceivable
PROPERTY CancelCascades
CHECK_DEADLOCK FALSE
