------------------------- MODULE MCBookOnStructures -------------------------
(***************************************************************************)
(* BookOnStructures on a small instance.  Ids 1 and 2 hash to the last     *)
(* slot of the map, id 3 to the first, so their chain wraps around and     *)
(* a removal may have to move entries over the end.                        *)
(***************************************************************************)
EXTENDS BookOnStructures, TLC

MCHome(id) == IF id = 3 THEN 0 ELSE Cap - 1
MCTagOf(id) == 1 + (id % 2)

\* Orders rest on either side of the spread, cross it when they are replaced,
\* and are hit by an immediate-or-cancel order.
Limit(id, side, price, qty, tif) ==
  [cmd |-> "new", id |-> id, side |-> side, otype |-> "limit", price |-> price,
   qty |-> qty, tif |-> tif]

MCClient ==
  {Limit(1, "bid", 1, 2, "gtc"), Limit(2, "bid", 1, 1, "gtc"), Limit(2, "ask", 2, 1, "gtc"),
   Limit(3, "ask", 2, 1, "gtc"), Limit(3, "ask", 1, 2, "ioc")}
  \cup CancelCommand \cup {c \in ReplaceCommand : c.id # 3}

\* removes is only compared with what replace remembers of it, and the
\* header of a chunk not in use is rewritten before it is read.
MCView ==
  <<[c \in DOMAIN chunks |-> IF chunks[c].live = 0 THEN <<chunks[c].next, chunks[c].s>>
                             ELSE chunks[c]],
    used, free, live, levels, tags, entries, len, shift, taker, seq, from,
    IF held = Map!NoReplace THEN held
    ELSE <<held.slot, held.key, (removes - held.removes) % RemovesWrap>>>>
=============================================================================
