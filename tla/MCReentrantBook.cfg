SPECIFICATION ReentrantSpec
CONSTANTS
  MaxOrders = 4
  npos = npos
  MinPrice = 0
  MaxPrice = 1
  InputPrices = {0, 1}
  QtyModulus = 4
  MaxQuantity = 2
  OrderIds = {a, b, c, d}
  NoCall = NoCall
VIEW QueuesState
INVARIANTS HeldIntact ReentrantConsistent NotCrossed
PROPERTIES SubmitReturns
