\* Three orders in chunks of two slots and a map of four: lists of two chunks,
\* chunks freed and reused by another level, a probe chain that wraps, and a
\* removal that moves the entry of the order being replaced.
CONSTANTS
  OrderId = {1, 2, 3}
  CmdPrices = {1, 2}
  CmdQtys = {1, 2}
  QtyWrap = 8
  SeqWrap = 1
  MaxOrders = 3
  IndexKind = "ladder"
  PriceMin = 1
  PriceMax = 2
  ChunkSlots = 2
  Cap = 4
  RemovesWrap = 4
  Client <- MCClient
  Home <- MCHome
  TagOf <- MCTagOf
VIEW MCView
SPECIFICATION Spec
INVARIANTS
  StoreAndMapAgree
PROPERTIES
  ImplementsOrderBook
