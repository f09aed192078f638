---------------------------- MODULE LevelQueues ----------------------------
(***************************************************************************)
(* What the order store promises the book (src/store.rs seen through       *)
(* src/book.rs): for each side and price a FIFO queue of resting orders,   *)
(* the running total of the level, and the number of live orders.          *)
(*                                                                         *)
(* The book reaches a queue in four ways: it appends an order, removes one *)
(* from anywhere, fills the one in front, and lowers a quantity in place.  *)
(* ChunkStore.tla gives the unrolled linked lists that do this and is      *)
(* checked to implement this module; OrderBook.tla is built on top of it.  *)
(***************************************************************************)
EXTENDS BookTypes, SequencesExt

VARIABLES
  queue,  \* queue[side][price]: the resting orders of a level, oldest first
  total,  \* total[side][price]: Level.total, modulo QtyWrap
  live    \* Store.live

queueVars == <<queue, total, live>>

\* Only limit orders that may rest do, and never with quantity zero.
Order == [id: OrderId, qty: Qty \ {0}, tif: {"gtc", "post_only"}]

Occupied(side) == {p \in Price : queue[side][p] # << >>}

\* PriceIndex::best_price: p is the best occupied level of side.
IsBest(side, p) ==
  /\ p \in Occupied(side)
  /\ \A r \in Occupied(side) : ~Better(side, r, p)

QueueInit ==
  /\ queue = [side \in Side |-> [p \in Price |-> << >>]]
  /\ total = [side \in Side |-> [p \in Price |-> 0]]
  /\ live = 0

\* Store::push
Push(side, p, order) ==
  /\ live' = live + 1
  /\ queue' = [queue EXCEPT ![side][p] = Append(@, order)]
  /\ total' = [total EXCEPT ![side][p] = (@ + order.qty) % QtyWrap]

\* Store::unlink of the i-th order of the level.
Unlink(side, p, i) ==
  /\ live' = live - 1
  /\ queue' = [queue EXCEPT ![side][p] = RemoveAt(@, i)]
  /\ total' = [total EXCEPT ![side][p] = (@ - queue[side][p][i].qty) % QtyWrap]

\* Mutant: a maker that gave everything stays in the queue.
TakeFrontKeepsEmpty(side, p, q) ==
  /\ total' = [total EXCEPT ![side][p] = (@ - q) % QtyWrap]
  /\ queue' = [queue EXCEPT ![side][p][1].qty = @ - q]
  /\ UNCHANGED live

\* OrderBook::cross, one maker: the order in front gives up q, and leaves
\* the book when nothing of it is left.
TakeFront(side, p, q) ==
  LET maker == Head(queue[side][p])
  IN  /\ live' = IF maker.qty = q THEN live - 1 ELSE live
      /\ queue' = IF maker.qty = q THEN [queue EXCEPT ![side][p] = Tail(@)]
                                  ELSE [queue EXCEPT ![side][p][1].qty = @ - q]
      /\ total' = [total EXCEPT ![side][p] = (@ - q) % QtyWrap]

\* Mutant: the level total is not adjusted.
ReduceOnlyOrder(side, p, i, q) ==
  /\ queue' = [queue EXCEPT ![side][p][i].qty = q]
  /\ UNCHANGED <<total, live>>

\* OrderBook::replace, the branch that keeps priority.
Reduce(side, p, i, q) ==
  /\ UNCHANGED live
  /\ queue' = [queue EXCEPT ![side][p][i].qty = q]
  /\ total' = [total EXCEPT ![side][p] = (@ - (queue[side][p][i].qty - q)) % QtyWrap]

\* The ids in a queue, in a level and in the store.
IdsOf(q) == {q[i].id : i \in DOMAIN q}
IdsAt(side, p) == IdsOf(queue[side][p])
StoredIds == UNION {IdsAt(side, p) : side \in Side, p \in Price}

\* What is for sale in a queue, order by order.
QueueQty(q) == SumFunction([i \in DOMAIN q |-> q[i].qty])

(***************************************************************************)
(* The store alone, under the discipline of its only client: an id is      *)
(* pushed once at a time, nothing is pushed beyond max_orders, and a       *)
(* quantity is lowered but never to zero.                                  *)
(***************************************************************************)
QueueNext ==
  \E side \in Side, p \in Price :
    \/ \E order \in Order :
         /\ live < MaxOrders
         /\ order.id \notin StoredIds
         /\ Push(side, p, order)
    \/ \E i \in DOMAIN queue[side][p] : Unlink(side, p, i)
    \/ /\ queue[side][p] # << >>
       /\ \E q \in 1 .. Head(queue[side][p]).qty : TakeFront(side, p, q)
    \/ \E i \in DOMAIN queue[side][p] :
         \E q \in 1 .. queue[side][p][i].qty : Reduce(side, p, i, q)

QueueSpec == QueueInit /\ [][QueueNext]_queueVars
=============================================================================
