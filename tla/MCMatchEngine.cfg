SPECIFICATION EngineSpec
CONSTANTS
  MaxOrders = 3
  npos = npos
  MinPrice = 0
  MaxPrice = 2
  InputPrices = {0, 2}
  QtyModulus = 8
  MaxQuantity = 2
  OrderIds = {0, 3, 11}
  NoCall = NoCall
  Capacity = 8
  HashFactor = 31765
  WordBits = 2
VIEW QueuesState
PROPERTIES ImplementsBook
