SPECIFICATION Spec
CONSTANTS
  MaxOrders = 3
  npos = npos
  MinPrice <- MCMinPrice
  MaxPrice = 1
  InputPrices <- MCInputPrices
  QtyModulus = 8
  MaxQuantity = 2
  OrderIds = {a, b, c, d}
  NoCall = NoCall
INVARIANT SnapshotConforms
