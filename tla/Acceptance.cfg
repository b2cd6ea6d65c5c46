SPECIFICATION Spec
CONSTANTS
  Tech = {t1, t2}
  NoTech = NoTech
  Offer = {o1, o2}
  Request = {r1, r2}
  Handlers <- AcceptanceHandlers
  MaxEntries = 0
  MaxOtp = 1
SYMMETRY Symmetry
INVARIANTS TypeOK AcceptedHasTech
PROPERTY AcceptKeepsTech
