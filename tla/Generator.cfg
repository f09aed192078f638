\* Two adds build the book, two commands are measured: enough for a replace
\* to meet an order on the other side.
CONSTANTS
  Workload = "w3"
  SetupN = 2
  RunN = 2
  Mid = 3
  Spread = 3
  Reach = 3
  OrderId = {1, 2, 3, 4}
  CmdPrices = {0, 1, 2, 3, 4, 5, 6}
  CmdQtys = {1, 2}
  QtyWrap = 16
  SeqWrap = 1
  MaxOrders = 20
  IndexKind = "ladder"
  PriceMin = 0
  PriceMax = 6
  Sink0 = 0
  OnEvent <- MCNullOnEvent
SPECIFICATION GeneratorSpec
CHECK_DEADLOCK FALSE
INVARIANTS
  LiveIdsExact
