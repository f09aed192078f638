\* A crashed recovery may have failed for good, and a run ends after
\* MaxCommands commands.
CONSTANTS
  OrderId = {1, 3, 12}
  CmdPrices = {1, 2}
  CmdQtys = {1, 2, 3, 4, 10, 12}
  QtyWrap = 64
  SeqWrap = 64
  MaxOrders = 2
  IndexKind = "tree"
  PriceMin = 0
  PriceMax = 0
  Client <- MCClient
  MaxCommands = 4
  Sink0 <- JournalSink0
  OnEvent <- JournalOnEvent
SPECIFICATION RecoverySpec
CHECK_DEADLOCK FALSE
INVARIANTS
  StreamContinues
  SnapshotRoundTrip
