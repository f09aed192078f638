----------------------------- MODULE BookTypes -----------------------------
(***************************************************************************)
(* The vocabulary of the matching engine (src/types.rs, and BookConfig):   *)
(* sides, prices, quantities, commands and events.  Every other module     *)
(* speaks in these terms.                                                  *)
(*                                                                         *)
(* Ids stand for the u64 order ids; they are only ever compared, so they   *)
(* may be model values.  Prices are integers (i64).  Quantities are u64    *)
(* with QtyWrap standing for 2^64: the level totals are sums of quantities  *)
(* and wrap, which is why the width is kept.                               *)
(***************************************************************************)
EXTENDS Integers, Sequences, FiniteSets

CONSTANTS
  OrderId,    \* the order ids commands may name
  CmdPrices,  \* the prices commands may carry, valid or not
  CmdQtys,    \* the quantities commands may carry, zero included
  QtyWrap,     \* 2^64: the width of a quantity and of a level total
  SeqWrap,     \* 2^64: the width of the event sequence number
  MaxOrders,  \* BookConfig.max_orders
  IndexKind,  \* BookConfig.index
  PriceMin,   \* BookConfig.price_min
  PriceMax    \* BookConfig.price_max

ASSUME IdAssumption    == IsFiniteSet(OrderId)
ASSUME QtyAssumption   == QtyWrap \in Nat \ {0} /\ CmdQtys \subseteq 0 .. QtyWrap - 1
ASSUME SeqAssumption   == SeqWrap \in Nat \ {0}
ASSUME PriceAssumption == IsFiniteSet(CmdPrices) /\ CmdPrices \subseteq Int
\* OrderBook::new asserts a non-empty ladder range.
ASSUME ConfigAssumption ==
  /\ MaxOrders \in Nat
  /\ PriceMin \in Int /\ PriceMax \in Int
  /\ IndexKind \in {"ladder", "tree"}
  /\ IndexKind = "ladder" => PriceMax > PriceMin

Qty  == 0 .. QtyWrap - 1
Side == {"bid", "ask"}
OType == {"limit", "market"}
Tif  == {"gtc", "ioc", "fok", "post_only"}

Opposite(side) == IF side = "bid" THEN "ask" ELSE "bid"

MinQty(a, b) == IF a <= b THEN a ELSE b

\* OrderBook::price_ok: a ladder covers a closed range, a tree every
\* positive price.
PriceOk(price) ==
  IF IndexKind = "ladder" THEN price >= PriceMin /\ price <= PriceMax
                          ELSE price > 0

\* The prices at which an order can rest.
Price == {p \in CmdPrices : PriceOk(p)}

\* Price a is strictly better than price b for an order resting on side.
Better(side, a, b) == IF side = "bid" THEN a > b ELSE a < b

\* Mutant: the limit price itself does not trade.
CrossesStrictly(side, limit, p) == IF side = "bid" THEN p < limit ELSE p > limit

\* A limit order on side at price limit may trade with a maker at price p.
Crosses(side, limit, p) == IF side = "bid" THEN p <= limit ELSE p >= limit

\* The n-th place in a set of places, from the front.
Nth(places, n) == CHOOSE i \in places : Cardinality({j \in places : j <= i}) = n

(***************************************************************************)
(* Command::{New, Cancel, Replace}.  A market order's price and tif are    *)
(* present in the command and ignored by the book.                         *)
(***************************************************************************)
LimitCommand  == [cmd: {"new"}, id: OrderId, side: Side, otype: {"limit"},
                  price: CmdPrices, qty: CmdQtys, tif: Tif]
MarketCommand == [cmd: {"new"}, id: OrderId, side: Side, otype: {"market"},
                  price: {0}, qty: CmdQtys, tif: Tif]
NewCommand     == LimitCommand \cup MarketCommand
CancelCommand  == [cmd: {"cancel"}, id: OrderId]
ReplaceCommand == [cmd: {"replace"}, id: OrderId, price: CmdPrices, qty: CmdQtys]

\* Event::*, the only output of a book.
Accepted(id, leaves)            == [ev |-> "accepted", id |-> id, leaves |-> leaves]
Rejected(id, reason)            == [ev |-> "rejected", id |-> id, reason |-> reason]
Trade(maker, taker, price, qty) == [ev |-> "trade", maker |-> maker, taker |-> taker,
                                    price |-> price, qty |-> qty]
Closed(id, reason)              == [ev |-> "closed", id |-> id, reason |-> reason]
Replaced(id, price, qty)        == [ev |-> "replaced", id |-> id, price |-> price, qty |-> qty]
=============================================================================
