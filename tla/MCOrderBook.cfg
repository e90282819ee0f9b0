SPECIFICATION Spec
CONSTANTS
  MaxOrders = 3
  npos = npos
  MinPrice <- MCMinPrice
  MaxPrice = 1
  InputPrices <- MCInputPrices
  QtyModulus = 4
  MaxQuantity = 2
  OrderIds = {a, b, c, d}
  NoCall = NoCall
VIEW LiveState
SYMMETRY Symmetry
INVARIANTS FrameExact PoolTypeOK FreeListExact CountersExact BookTypeOK NotCrossed BitmapExact LevelChains IndexExact RestingPositive EmptyLevelsReset
PROPERTIES PoolContract LoopProgress
