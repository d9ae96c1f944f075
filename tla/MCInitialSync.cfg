SPECIFICATION Spec
CONSTANTS
  c1 = c1  c2 = c2  listedOn1 = listedOn1  listedOn2 = listedOn2
  delistedOn1 = delistedOn1  delistedOn2 = delistedOn2
  Codes = {c1, c2}
  Identities = {listedOn1}
  Dates = {delistedOn1, delistedOn2}
  RowLimit = 1
  Days <- MCDays
  YearOf <- MCYearOf
  NoStock = NoStock
  NoDate = NoDate
  MaxChanges = 1
SYMMETRY MCSymmetry
INVARIANTS
  TypeOK
  CalendarWhole
  StocksStored
  MergedByPriority
  HonestAccepted
