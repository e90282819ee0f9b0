SPECIFICATION CtSpec
CONSTANTS
  OrderIds = {a, b, c}
  InputPrices = {1, 2, 3}
  MaxQuantity = 2
PROPERTY RestKept
CHECK_DEADLOCK FALSE
