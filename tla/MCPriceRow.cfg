SPECIFICATION Spec
CONSTANTS
  MaxText = 10
  MaxExponent = 4
  MaxDigits = 7
  Missing = Missing
  NotANumber = NotANumber
  Rows <- MCRows
  PriceColumn <- MCPriceColumn
  AmountColumn <- MCAmountColumn
  FactorColumn <- MCFactorColumn
  Thousand = 1000
INVARIANTS
  AcceptedExactly
  StoredExactly
