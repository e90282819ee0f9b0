SPECIFICATION CtSpec
CONSTANTS
  OrderIds = {a, b, c}
  InputPrices = {1, 2, 3}
  MaxQuantity = 2
SYMMETRY Symmetry
INVARIANTS CtTypeOK CtUncrossed
PROPERTIES ViewFollowsTrades TradesConform NextCompiles CancelExact
CHECK_DEADLOCK FALSE
