--------------------------- MODULE PTPRefinement ---------------------------
(***************************************************************************)
(* The order book implements PriceTimePriority.  The mapping forgets the   *)
(* totals, the map and the counters, turns the queues into the set of      *)
(* resting orders, and reads "ahead of" off the positions in a queue.      *)
(***************************************************************************)
EXTENDS OrderBook

\* Every resting order with its level.
Entries ==
  UNION {{[id |-> queue[s][p][i].id, side |-> s, price |-> p, qty |-> queue[s][p][i].qty] :
            i \in DOMAIN queue[s][p]} : s \in Side, p \in Price}

RestingById ==
  [id \in StoredIds |->
     LET e == CHOOSE entry \in Entries : entry.id = id
     IN  [side |-> e.side, price |-> e.price, qty |-> e.qty]]

AheadOf ==
  {pair \in StoredIds \X StoredIds :
     \E side \in Side, p \in Price : \E i, j \in DOMAIN queue[side][p] :
       i < j /\ pair = <<queue[side][p][i].id, queue[side][p][j].id>>}

WorkingOrder ==
  IF taker = Idle THEN [id |-> "nobody"]
  ELSE LET new == taker.cmd = "new"
       IN  [id |-> taker.id, side |-> taker.side,
            limit |-> {p \in Price : Acceptable(p)},
            rests |-> RestsRemainder,
            price |-> taker.price, qty |-> taker.qty,
            fillOrKill |-> new /\ taker.bound /\ taker.tif = "fok",
            passive |-> new /\ taker.bound /\ taker.tif = "post_only"]

Abstract == INSTANCE PriceTimePriority
              WITH resting <- RestingById, ahead <- AheadOf, working <- WorkingOrder

\* Price-time priority, fill-or-kill and post-only as promised by SPEC 5:
\* every step of the book is a step of PriceTimePriority or invisible to it.
ImplementsPriceTimePriority == Abstract!PTPSpec
=============================================================================
