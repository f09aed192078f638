------------------------- MODULE PriceTimePriority -------------------------
(***************************************************************************)
(* What a client of the book is promised, without queues, totals, maps or  *)
(* counters: a set of resting orders, the relation "has been waiting       *)
(* longer, at the same side and price", and one order being matched.       *)
(*                                                                         *)
(* An order in flight trades only with the best-priced of the orders it    *)
(* accepts, and among those with one nobody is ahead of; it rests only     *)
(* when nothing acceptable is left.  A fill-or-kill order is taken on only *)
(* if the book can fill it, and never given up.                            *)
(* The order book is checked to implement this module.                     *)
(***************************************************************************)
EXTENDS BookTypes, Functions

VARIABLES
  resting,  \* order id -> [side, price, qty]
  ahead,    \* <<a, b>>: a and b rest at one side and price, a came first
  working   \* the order being matched, or Nobody

Nobody == [id |-> "nobody"]

Resting == [side: Side, price: Price, qty: Qty \ {0}]
\* limit is the set of prices the order accepts.
Works == [id: OrderId, side: Side, limit: SUBSET Price, rests: BOOLEAN,
          price: CmdPrices \cup {0}, qty: Qty, fillOrKill: BOOLEAN, passive: BOOLEAN]

Within(side, price) == {p \in Price : Crosses(side, price, p)}

Makers(side, limit) ==
  {m \in DOMAIN resting : resting[m].side = Opposite(side) /\ resting[m].price \in limit}

Peers(side, price) == {m \in DOMAIN resting : resting[m].side = side /\ resting[m].price = price}

Gone(id) == {pair \in ahead : pair[1] # id /\ pair[2] # id}

PTPInit ==
  /\ resting = << >>
  /\ ahead = {}
  /\ working = Nobody

\* An order of positive quantity starts being matched.
Takes(id) ==
  /\ working = Nobody
  /\ working' \in Works
  /\ working'.id = id
  /\ working'.qty > 0

\* A new order is taken on; a fill-or-kill order only if it can be filled, a
\* passive one only if it has nothing to trade with.
Arrive(id) ==
  /\ Takes(id)
  /\ id \notin DOMAIN resting
  /\ LET makers == Makers(working'.side, working'.limit)
     IN  /\ working'.fillOrKill =>
              SumFunctionOnSet([m \in DOMAIN resting |-> resting[m].qty], makers) >= working'.qty
         /\ working'.passive => makers = {}
  /\ UNCHANGED <<resting, ahead>>

\* A resting order leaves: for good, or to be matched at new terms.
Leave(id) ==
  /\ resting' = [m \in DOMAIN resting \ {id} |-> resting[m]]
  /\ ahead' = Gone(id)

Withdraw(id) ==
  /\ working = Nobody
  /\ Leave(id)
  /\ UNCHANGED working

\* Giving up quantity keeps the place in the queue.
Amend(id, q) ==
  /\ working = Nobody
  /\ q \in 1 .. resting[id].qty
  /\ resting' = [resting EXCEPT ![id].qty = q]
  /\ UNCHANGED <<ahead, working>>

\* New terms that are not merely a smaller quantity cost the place.
Reenter(id) ==
  /\ Takes(id)
  /\ working'.side = resting[id].side
  /\ working'.rests /\ ~working'.fillOrKill /\ ~working'.passive
  /\ working'.price = resting[id].price => working'.qty > resting[id].qty
  /\ Leave(id)

\* Price, then time.
Match(m) ==
  LET makers == Makers(working.side, working.limit)
      q      == MinQty(working.qty, resting[m].qty)
  IN  /\ working # Nobody
      /\ working.qty > 0 /\ ~working.passive
      /\ m \in makers
      /\ \A n \in makers : /\ ~Better(Opposite(working.side), resting[n].price, resting[m].price)
                           /\ <<n, m>> \notin ahead
      /\ working' = [working EXCEPT !.qty = @ - q]
      /\ IF q = resting[m].qty THEN Leave(m)
         ELSE /\ resting' = [resting EXCEPT ![m].qty = @ - q]
              /\ UNCHANGED ahead

Rest ==
  /\ working # Nobody
  /\ working.qty > 0 /\ working.rests
  /\ Makers(working.side, working.limit) = {}
  /\ resting' = [m \in DOMAIN resting \cup {working.id} |->
                   IF m = working.id
                   THEN [side |-> working.side, price |-> working.price, qty |-> working.qty]
                   ELSE resting[m]]
  /\ ahead' = ahead \cup (Peers(working.side, working.price) \X {working.id})
  /\ working' = Nobody

\* The order is filled, or it may not wait and nothing is left for it.
Finish ==
  /\ working # Nobody
  /\ \/ working.qty = 0
     \/ /\ Makers(working.side, working.limit) = {}
        /\ ~working.rests /\ ~working.fillOrKill
  /\ working' = Nobody
  /\ UNCHANGED <<resting, ahead>>

\* A command that is refused changes nothing.
Refuse == UNCHANGED <<working, resting, ahead>>

PTPNext ==
  \/ Refuse
  \/ \E id \in OrderId : Arrive(id)
  \/ \E id \in DOMAIN resting : Withdraw(id)
  \/ \E id \in DOMAIN resting, q \in Qty : Amend(id, q)
  \/ \E id \in DOMAIN resting : Reenter(id)
  \/ \E m \in DOMAIN resting : Match(m)
  \/ Rest
  \/ Finish

ptpVars == <<resting, ahead, working>>

PTPSpec == PTPInit /\ [][PTPNext]_ptpVars
=============================================================================
