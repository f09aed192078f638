\* Three orders may rest at two prices; o4 finds the book full.  Price 0 is
\* not valid in a tree.  Two orders of quantity 3 make a level total wrap.
\* SeqWrap = 3: a skipped or repeated sequence number is noticed.
CONSTANTS
  OrderId = {o1, o2, o3, o4}
  CmdPrices = {0, 1, 2}
  CmdQtys = {0, 1, 3}
  QtyWrap = 4
  SeqWrap = 3
  MaxOrders = 3
  IndexKind = "tree"
  PriceMin = 0
  PriceMax = 0
  Sink0 <- FeedSink0
  OnEvent <- FeedOnEvent
SYMMETRY MCIdSymmetry
SPECIFICATION Spec
INVARIANTS
  TypeOK
  BookNeverCrossed
  MapLocatesOrders
  CapacityRespected
  PostOnlyNeverTakes
  LevelTotalsExact
  FokNeverPartial
  FokRefusalJustified
  FeedNeverMisled
  FeedMatchesBook
PROPERTIES
  ImplementsPriceTimePriority
