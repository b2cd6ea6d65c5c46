SPECIFICATION Spec
CONSTANTS
  bank = bank
  vt = vt
  l1 = l1
  l2 = l2
  Account = {bank, vt}
  Bank = bank
  Transit = vt
  NoAccount = NoAccount
  Month = {1, 2}
  Amount <- MCAmount
  Bps <- MCBps
  Line = {l1, l2}
  NoLine = NoLine
  LineAmount <- MCLineAmount
  LineMonth <- MCLineMonth
  Request = {r1, r2}
  Handlers <- AllHandlers
  MaxEntries = 2
  MaxTransfers = 2
  MaxRequests = 3
  FirstEntries <- MCFirstEntries
SYMMETRY RequestSymmetry
CONSTRAINT BeforeFirstSlip
INVARIANTS TreasuryTypeOK Balanced OneLinePerEntry
PROPERTY ClosedMonthKept
CHECK_DEADLOCK FALSE
