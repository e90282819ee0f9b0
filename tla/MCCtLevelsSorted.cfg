SPECIFICATION CtSpec
CONSTANTS
  OrderIds = {a, b, c}
  InputPrices = {1, 2, 3}
  MaxQuantity = 2
INVARIANT LevelsSorted
CHECK_DEADLOCK FALSE
