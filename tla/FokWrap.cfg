\* Quantities up to QtyWrap - 1, so that two orders make a level total wrap.
\* Tree index: price 0 is not a valid price.
CONSTANTS
  OrderId = {o1, o2, o3, o4}
  CmdPrices = {0, 1, 2}
  CmdQtys = {0, 1, 2, 3}
  QtyWrap = 4
  SeqWrap = 1
  MaxOrders = 3
  IndexKind = "tree"
  PriceMin = 0
  PriceMax = 0
  Sink0 = 0
  OnEvent <- MCNullOnEvent
SYMMETRY MCIdSymmetry
SPECIFICATION Spec
INVARIANTS
  FokRejectedOnlyWhenShort
