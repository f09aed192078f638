----------------------------- MODULE OrderBook -----------------------------
(***************************************************************************)
(* The order book of src/book.rs: a single writer applies one command at a *)
(* time to a book of resting orders and reports what happened as a stream  *)
(* of events.                                                              *)
(*                                                                         *)
(* A command that trades is a sequence of steps of that writer, one per    *)
(* maker it hits, because the book calls its sink between them: taker is   *)
(* the writer's position in such a command and what is left of the order   *)
(* it is working.  While taker is not Idle no other command runs.          *)
(*                                                                         *)
(* Like the code the module is generic in its sink: Sink0 is the state of  *)
(* the sink when the book is created and OnEvent(sink, seq, event) its     *)
(* state after Sink::on_event.                                             *)
(***************************************************************************)
EXTENDS LevelQueues, FiniteSetsExt

CONSTANTS Sink0, OnEvent(_, _, _)

VARIABLES
  map,    \* order id -> the level its loc points into; OrderBook.map
  taker,  \* the order being matched by the current command, or Idle
  seq,    \* number of events emitted so far; OrderBook.seq
  sink    \* the state of the sink

vars == <<queue, total, live, map, taker, seq, sink>>

Idle == [cmd |-> "none"]

\* The order in flight: cmd tells which handler is running.  bound is false
\* for a market order, which matches at any price.
Taker == [cmd: {"new", "replace"}, id: OrderId, side: Side, bound: BOOLEAN,
          price: CmdPrices \cup {0}, tif: Tif, qty: Qty]

Level == [side: Side, price: Price]

----------------------------------------------------------------------------
\* Reading the book

\* OrderBook::would_cross
WouldCross(side, price) ==
  \E p \in Occupied(Opposite(side)) : Crosses(side, price, p)

\* Mutant: the limit price itself is left out of the sum.
FillableInside(side, price) ==
  LET opp    == Opposite(side)
      inside == {p \in Occupied(opp) : Crosses(side, price, p) /\ p # price}
  IN  SumFunctionOnSet(total[opp], inside) % QtyWrap

\* OrderBook::fillable, over the u64 sum of PriceIndex::sum_range.
Fillable(side, price) ==
  LET opp    == Opposite(side)
      inside == {p \in Occupied(opp) : Crosses(side, price, p)}
  IN  SumFunctionOnSet(total[opp], inside) % QtyWrap

\* The i-th order of its level is the one the map finds for id.
At(id, i) ==
  /\ id \in DOMAIN map
  /\ i \in DOMAIN queue[map[id].side][map[id].price]
  /\ queue[map[id].side][map[id].price][i].id = id

\* The prices the working order may trade at.
Acceptable(p) == taker.bound => Crosses(taker.side, taker.price, p)

----------------------------------------------------------------------------
\* Writing the event stream

\* Mutant: the sequence number does not wrap.
NextSeqUnwrapped(n) == n + 1

NextSeq(n) == (n + 1) % SeqWrap

\* OrderBook::emit
Emit(event) ==
  /\ seq' = NextSeq(seq)
  /\ sink' = OnEvent(sink, NextSeq(seq), event)

\* Mutant: the consequence is reported before the fill.
EmitSwapped(first, second) ==
  /\ seq' = NextSeq(NextSeq(seq))
  /\ sink' = OnEvent(OnEvent(sink, NextSeq(seq), second), NextSeq(NextSeq(seq)), first)

\* Two events of one step, in order.
EmitBoth(first, second) ==
  /\ seq' = NextSeq(NextSeq(seq))
  /\ sink' = OnEvent(OnEvent(sink, NextSeq(seq), first), NextSeq(NextSeq(seq)), second)

----------------------------------------------------------------------------
\* Validation, in the order of the early returns

\* Mutant: one order too many is let in.
BookOverfull == live > MaxOrders

BookFull == live >= MaxOrders

\* Mutant: the checks of the time-in-force are forgotten.
NoTifRejection(c) == "none"

\* What the time-in-force asks of the other side.
TifRejection(c) ==
  IF c.otype = "limit" /\ c.tif = "post_only" /\ WouldCross(c.side, c.price)
  THEN "post_only_would_cross"
  ELSE IF c.otype = "limit" /\ c.tif = "fok" /\ Fillable(c.side, c.price) < c.qty
  THEN "fok_cannot_fill"
  ELSE "none"

NewRejection(c) ==
  IF c.qty = 0 THEN "invalid_qty"
  ELSE IF c.otype = "limit" /\ ~PriceOk(c.price) THEN "invalid_price"
  ELSE IF c.id \in DOMAIN map THEN "duplicate_order_id"
  ELSE IF BookFull THEN "book_full"
  ELSE TifRejection(c)

CancelRejection(c) ==
  IF c.id \notin DOMAIN map THEN "unknown_order_id" ELSE "none"

ReplaceRejection(c) ==
  IF c.id \notin DOMAIN map THEN "unknown_order_id"
  ELSE IF c.qty = 0 THEN "invalid_qty"
  ELSE IF ~PriceOk(c.price) THEN "invalid_price"
  ELSE "none"

\* OrderBook::reject: one event, the book untouched.
Reject(id, reason) ==
  /\ taker = Idle
  /\ reason # "none"
  /\ Emit(Rejected(id, reason))
  /\ UNCHANGED <<queue, total, live, map, taker>>

RejectNew     == \E c \in NewCommand : Reject(c.id, NewRejection(c))
RejectCancel  == \E c \in CancelCommand : Reject(c.id, CancelRejection(c))
RejectReplace == \E c \in ReplaceCommand : Reject(c.id, ReplaceRejection(c))

----------------------------------------------------------------------------
\* Commands that are carried out

\* OrderBook::new_order up to the call of cross.
New(c) ==
  /\ taker = Idle
  /\ NewRejection(c) = "none"
  /\ taker' = [cmd |-> "new", id |-> c.id, side |-> c.side, bound |-> c.otype = "limit",
               price |-> c.price, tif |-> c.tif, qty |-> c.qty]
  /\ UNCHANGED <<queue, total, live, map, seq, sink>>

\* OrderBook::cancel
Cancel(c) ==
  /\ taker = Idle
  /\ CancelRejection(c) = "none"
  /\ \E i \in DOMAIN queue[map[c.id].side][map[c.id].price] :
       /\ At(c.id, i)
       /\ Unlink(map[c.id].side, map[c.id].price, i)
  /\ map' = [id \in DOMAIN map \ {c.id} |-> map[id]]
  /\ Emit(Closed(c.id, "cancelled"))
  /\ UNCHANGED taker

\* Mutant: an increased quantity keeps its place, too.
KeepsPriorityByPrice(c, i) ==
  /\ c.price = map[c.id].price
  /\ i \in DOMAIN queue[map[c.id].side][map[c.id].price]

\* OrderBook::replace decides by the order as it rests.
KeepsPriority(c, i) ==
  /\ c.price = map[c.id].price
  /\ c.qty <= queue[map[c.id].side][map[c.id].price][i].qty

ReplaceInPlace(c) ==
  /\ taker = Idle
  /\ ReplaceRejection(c) = "none"
  /\ \E i \in DOMAIN queue[map[c.id].side][map[c.id].price] :
       /\ At(c.id, i)
       /\ KeepsPriority(c, i)
       /\ Reduce(map[c.id].side, map[c.id].price, i, c.qty)
  /\ Emit(Replaced(c.id, c.price, c.qty))
  /\ UNCHANGED <<map, taker>>

\* The order leaves its queue and is matched again; its map entry stays, so
\* that the id remains taken, and points at a slot that is no longer live.
ReplaceAndCross(c) ==
  /\ taker = Idle
  /\ ReplaceRejection(c) = "none"
  /\ \E i \in DOMAIN queue[map[c.id].side][map[c.id].price] :
       /\ At(c.id, i)
       /\ ~KeepsPriority(c, i)
       /\ Unlink(map[c.id].side, map[c.id].price, i)
       /\ taker' = [cmd |-> "replace", id |-> c.id, side |-> map[c.id].side,
                    bound |-> TRUE, price |-> c.price,
                    tif |-> queue[map[c.id].side][map[c.id].price][i].tif, qty |-> c.qty]
  /\ UNCHANGED <<map, seq, sink>>

----------------------------------------------------------------------------
\* OrderBook::cross and what follows it

Working == taker # Idle

\* Mutant: the loop does not stop when nothing is left to match.
AlwaysUnfilled == TRUE

Unfilled == taker.qty > 0

\* One maker: the order in front of the best level on the other side.
Fill(p) ==
  LET opp   == Opposite(taker.side)
      maker == Head(queue[opp][p])
      q     == MinQty(taker.qty, maker.qty)
      trade == Trade(maker.id, taker.id, p, q)
  IN  /\ Working
      /\ Unfilled
      /\ IsBest(opp, p)
      /\ Acceptable(p)
      /\ TakeFront(opp, p, q)
      /\ taker' = [taker EXCEPT !.qty = @ - q]
      /\ IF maker.qty = q
         THEN /\ map' = [id \in DOMAIN map \ {maker.id} |-> map[id]]
              /\ EmitBoth(trade, Closed(maker.id, "filled"))
         ELSE /\ UNCHANGED map
              /\ Emit(trade)

\* The loop ended with quantity left: no level, or none within the bound.
Exhausted ==
  /\ Working
  /\ taker.qty > 0
  /\ \A p \in Occupied(Opposite(taker.side)) : ~Acceptable(p)

\* Mutant: the map entry of a replaced order survives its fill.
CloseFilledKeepsEntry ==
  /\ Working
  /\ taker.qty = 0
  /\ Emit(Closed(taker.id, "filled"))
  /\ taker' = Idle
  /\ UNCHANGED <<queue, total, live, map>>

\* Only a replaced order has a map entry to remove here.
CloseFilled ==
  /\ Working
  /\ taker.qty = 0
  /\ map' = [id \in DOMAIN map \ {taker.id} |-> map[id]]
  /\ Emit(Closed(taker.id, "filled"))
  /\ taker' = Idle
  /\ UNCHANGED <<queue, total, live>>

\* OrderBook::rest, also the tail of replace: the remainder goes to the back
\* of its level and the map (re)directs the id to it.
RestsRemainder ==
  \/ taker.cmd = "replace"
  \/ taker.bound /\ taker.tif \in {"gtc", "post_only"}

\* Mutant: the map entry of a replaced order is not redirected.
EntryKept == map @@ (taker.id :> [side |-> taker.side, price |-> taker.price])

\* The map with the id of the working order (re)directed to its level.
EntryWritten ==
  [id \in DOMAIN map \cup {taker.id} |->
     IF id = taker.id THEN [side |-> taker.side, price |-> taker.price] ELSE map[id]]

RestRemainder ==
  /\ Exhausted
  /\ RestsRemainder
  /\ Push(taker.side, taker.price, [id |-> taker.id, qty |-> taker.qty, tif |-> taker.tif])
  /\ map' = EntryWritten
  /\ Emit(IF taker.cmd = "new" THEN Accepted(taker.id, taker.qty)
                               ELSE Replaced(taker.id, taker.price, taker.qty))
  /\ taker' = Idle

Expire ==
  /\ Exhausted
  /\ ~RestsRemainder
  /\ Emit(Closed(taker.id, "expired"))
  /\ taker' = Idle
  /\ UNCHANGED <<queue, total, live, map>>

----------------------------------------------------------------------------
\* The specification

Init ==
  /\ QueueInit
  /\ map = << >>
  /\ taker = Idle
  /\ seq = 0
  /\ sink = Sink0

\* OrderBook::apply, for one command
Handle(c) ==
  \/ c.cmd = "new" /\ (Reject(c.id, NewRejection(c)) \/ New(c))
  \/ c.cmd = "cancel" /\ (Reject(c.id, CancelRejection(c)) \/ Cancel(c))
  \/ c.cmd = "replace" /\ (Reject(c.id, ReplaceRejection(c)) \/ ReplaceInPlace(c)
                                                             \/ ReplaceAndCross(c))

\* A command arrives ...
Submit ==
  \/ RejectNew
  \/ RejectCancel
  \/ RejectReplace
  \/ \E c \in NewCommand : New(c)
  \/ \E c \in CancelCommand : Cancel(c)
  \/ \E c \in ReplaceCommand : ReplaceInPlace(c)
  \/ \E c \in ReplaceCommand : ReplaceAndCross(c)

\* ... and the writer goes on with the one it is in.
Continue ==
  \/ \E p \in Price : Fill(p)
  \/ CloseFilled
  \/ RestRemainder
  \/ Expire

Next == Submit \/ Continue

Spec == Init /\ [][Next]_vars

----------------------------------------------------------------------------
\* Properties

\* Type invariant of the book (struct OrderBook and the locals of its
\* handlers).
TypeOK ==
  /\ queue \in [Side -> [Price -> Seq(Order)]]
  /\ total \in [Side -> [Price -> Qty]]
  /\ live \in 0 .. MaxOrders
  /\ DOMAIN map \subseteq OrderId
  /\ map \in [DOMAIN map -> Level]
  /\ taker \in Taker \cup {Idle}
  /\ seq \in 0 .. SeqWrap - 1

\* "A correct book is never crossed": whatever is matched, replaced or
\* rested, every resting bid stays below every resting ask.  restore relies
\* on it, because it inserts without matching.
BookNeverCrossed ==
  \A b \in Occupied("bid"), a \in Occupied("ask") : b < a

\* No id rests twice in a queue; the id that is in the map but in no queue.
NoIdTwice(q) == \A i, j \in DOMAIN q : q[i].id = q[j].id => i = j

OutOfBook == IF taker # Idle /\ taker.cmd = "replace" THEN {taker.id} ELSE {}

\* The order map and the queues describe the same set of orders: each order
\* is found exactly where it rests, no id rests twice, and the one entry
\* without an order is that of a replace in flight.
MapLocatesOrders ==
  /\ \A side \in Side, p \in Price :
       /\ NoIdTwice(queue[side][p])
       /\ \A id \in IdsAt(side, p) :
            id \in DOMAIN map \ OutOfBook /\ map[id] = [side |-> side, price |-> p]
  /\ \A id \in DOMAIN map \ OutOfBook : id \in IdsAt(map[id].side, map[id].price)
  /\ taker # Idle => (taker.id \in DOMAIN map <=> taker.cmd = "replace")

\* live counts the orders in the store and max_orders bounds both the store
\* and the order map, which never grow: also while a replaced order is out
\* of the store but still in the map.
CapacityRespected ==
  /\ live = Cardinality(StoredIds)
  /\ live <= MaxOrders
  /\ Cardinality(DOMAIN map) <= MaxOrders

\* Every fill, cancel and reduction adjusts the level total it should:
\* Level.total is the sum of the level's quantities, modulo 2^64.
LevelTotalsExact ==
  \A side \in Side, p \in Price :
    total[side][p] = QueueQty(queue[side][p]) % QtyWrap

\* What is really for sale within a limit, counted order by order.
Available(side, price) ==
  LET opp    == Opposite(side)
      inside == {p \in Occupied(opp) : Crosses(side, price, p)}
  IN  SumFunctionOnSet([p \in Price |-> QueueQty(queue[opp][p])], inside)

\* Fill-or-kill: at every step of a walk that the pre-check let through,
\* what is left to match does not exceed what is available, so the order
\* can never end partially filled.
FokNeverPartial ==
  taker # Idle /\ taker.cmd = "new" /\ taker.bound /\ taker.tif = "fok"
    => taker.qty <= Available(taker.side, taker.price)

FokCommand == {c \in LimitCommand : c.tif = "fok"}

\* Fill-or-kill is refused only when the book is short of the order, or when
\* what it offers within the limit is more than a 64-bit sum can hold.
FokRefusalJustified ==
  taker = Idle =>
    \A c \in FokCommand :
      NewRejection(c) = "fok_cannot_fill" =>
        \/ Available(c.side, c.price) < c.qty
        \/ Available(c.side, c.price) >= QtyWrap

\* What SPEC 5 says, without the second case: an order is refused if the
\* total is less than its quantity, "otherwise match normally".
FokRejectedOnlyWhenShort ==
  taker = Idle =>
    \A c \in FokCommand :
      NewRejection(c) = "fok_cannot_fill" => Available(c.side, c.price) < c.qty

\* A new post-only order that passed validation has nothing to trade with,
\* so matching it is idle and it rests whole.
PostOnlyNeverTakes ==
  taker # Idle /\ taker.cmd = "new" /\ taker.bound /\ taker.tif = "post_only"
    => ~WouldCross(taker.side, taker.price)
=============================================================================
