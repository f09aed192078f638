\* Two symbols, three ids that both use.  The default book is a ladder of two
\* prices for two orders, the other a tree for three, so that a snapshot can
\* fail to restore by its number of orders and by a price.  An engine that
\* panicked in restore has stopped, hence no deadlock check.
CONSTANTS
  Symbol = {s1, s2}
  NoSymbol = NoSymbol
  Watched = s1
  OrderId = {1, 2, 3}
  CmdPrices = {1, 2, 3}
  CmdQtys = {1, 2, 3}
  QtyWrap = 16
  SeqWrap = 2
  MaxOrders = 2
  IndexKind = "ladder"
  PriceMin = 1
  PriceMax = 2
  OwnMaxOrders = 3
  OwnIndex = "tree"
  OwnPriceMin = 0
  OwnPriceMax = 0
  Client <- MCClient
  Sink0 <- EngineSink0
  OnEvent <- Tagged
SPECIFICATION EngineSpec
CHECK_DEADLOCK FALSE
INVARIANTS
  EngineTypeOK
  DefaultBooksRestore
PROPERTIES
  RoutingAddsNoSemantics
  CommandEnds
