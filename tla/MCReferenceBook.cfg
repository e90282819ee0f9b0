SPECIFICATION RefSpec
CONSTANTS
  OrderIds = {a, b, c}
  InputPrices = {0, 1}
  MaxQuantity = 2
  NoCall = NoCall
SYMMETRY Symmetry
INVARIANTS RefTypeOK RefUncrossed RefIndexExact
