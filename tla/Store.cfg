\* Three orders in chunks of three slots: a chunk can have a dead slot before
\* a live one and room behind it, lists grow to three chunks of which any may
\* die, freed chunks are reused, and running past max_orders chunks shows.
\* Totals wrap at 3: two whole orders of a level are more than that.
CONSTANTS
  OrderId = {o1, o2, o3}
  CmdPrices = {1}
  CmdQtys = {1, 2}
  QtyWrap = 3
  SeqWrap = 1
  MaxOrders = 3
  IndexKind = "ladder"
  PriceMin = 1
  PriceMax = 2
  ChunkSlots = 3
  Offered <- MCPairOrders
SYMMETRY MCIdSymmetry
VIEW MCView
SPECIFICATION Spec
INVARIANTS
  TypeOK
  ListsSound
  LocsExact
  NoChunkLost
  FreeChunksDead
PROPERTIES
  ImplementsLevelQueues
  FillsHitOldest
