----------------------------- MODULE Snapshots -----------------------------
(***************************************************************************)
(* What a snapshot says of a book, and the book restored from it           *)
(* (OrderBook::resting_orders, write_book, OrderBook::restore): the        *)
(* resting orders in book order and the sequence number, nothing else.     *)
(* The operators take the queues as an argument, because an engine writes  *)
(* books other than the one at work.                                       *)
(***************************************************************************)
EXTENDS OrderBook

Resting(side, p, order) == [side |-> side, price |-> p, order |-> order]

\* Mutant: the orders of a level are written newest first.
LevelOrdersReversed(q, side, p) ==
  Reverse([i \in DOMAIN q[side][p] |-> Resting(side, p, q[side][p][i])])

\* Store::iter_level: oldest first.
LevelOrders(q, side, p) ==
  [i \in DOMAIN q[side][p] |-> Resting(side, p, q[side][p][i])]

\* PriceIndex::depth(usize::MAX): the prices of a side, best first.
Depth(q, side) ==
  LET held == {p \in DOMAIN q[side] : q[side][p] # << >>}
  IN  [k \in 1 .. Cardinality(held) |->
         CHOOSE p \in held : Cardinality({r \in held : ~Better(side, p, r)}) = k]

\* OrderBook::resting_orders, "book order".
RestingOrders(q) ==
  LET of(side) == FlattenSeq([k \in DOMAIN Depth(q, side) |->
                                LevelOrders(q, side, Depth(q, side)[k])])
  IN  of("bid") \o of("ask")

\* Where OrderBook::restore does not panic: the orders fit, no order is named
\* twice (in a debug build), and each price has a level in the index.
Restorable(orders) ==
  /\ Len(orders) <= MaxOrders
  /\ \A i, j \in DOMAIN orders : orders[i].order.id = orders[j].order.id => i = j
  /\ \A i \in DOMAIN orders : PriceOk(orders[i].price)

\* OrderBook::restore: rest is called for each order in file order, so a
\* level's queue is the file's orders of that level.
RestoredQueue(orders) ==
  [side \in Side |-> [p \in Price |->
     LET here == {i \in DOMAIN orders : orders[i].side = side /\ orders[i].price = p}
     IN  [n \in 1 .. Cardinality(here) |-> orders[Nth(here, n)].order]]]

RestoredTotal(orders) ==
  [side \in Side |-> [p \in Price |->
     QueueQty(RestoredQueue(orders)[side][p]) % QtyWrap]]

RestoredMap(orders) ==
  [id \in {orders[i].order.id : i \in DOMAIN orders} |->
     LET at == CHOOSE i \in DOMAIN orders : orders[i].order.id = id
     IN  [side |-> orders[at].side, price |-> orders[at].price]]

Restored(orders, n) ==
  [queue |-> RestoredQueue(orders), total |-> RestoredTotal(orders), live |-> Len(orders),
   map |-> RestoredMap(orders), seq |-> n]

\* The writer, between two commands, goes on with that book.
Load(book) ==
  /\ queue' = book.queue
  /\ total' = book.total
  /\ live' = book.live
  /\ map' = book.map
  /\ seq' = book.seq
=============================================================================
