SPECIFICATION Spec
CONSTANTS
  None = None
  BuyIds = {b1, b2}
  CloseIds = {c1, c2}
  MaxQuantity = 2
  MaxOrders = 3
INVARIANTS TypeOK OneOrderPerId ReceiptsBacked NeverShort
SYMMETRY Symmetry
