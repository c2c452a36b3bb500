SPECIFICATION Spec
CONSTANTS
  Indices = {1, 12}
  Decimal <- MCDecimal
  Faults = {"syncError", "shortWrite", "powerLoss"}
  MaxIndex = 111
  MaxBytes = 8
INVARIANTS
  AckedIsDurable
