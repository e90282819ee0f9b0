SPECIFICATION IndexSpec
CONSTANTS
  MaxOrders = 3
  Capacity = 8
  HashFactor = 31765
  OrderIds = {0, 1, 3, 7, 8, 9, 11, 15}
  PoolIndices = {0, 1}
  npos = npos
INVARIANTS IndexTypeOK Reachable UniqueIds SizeExact
PROPERTIES ImplementsMap
VIEW Table
