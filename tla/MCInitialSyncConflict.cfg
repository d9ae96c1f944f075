SPECIFICATION Spec
CONSTANTS
  c1 = c1  c2 = c2  listedOn1 = listedOn1  listedOn2 = listedOn2
  delistedOn1 = delistedOn1  delistedOn2 = delistedOn2
  Codes = {c1}
  Identities = {listedOn1, listedOn2}
  Dates = {delistedOn1}
  RowLimit = 1
  Days <- MCDay
  YearOf <- MCYearOfDay
  NoStock = NoStock
  NoDate = NoDate
  MaxChanges = 1
PROPERTY
  ConflictIsIncomplete
