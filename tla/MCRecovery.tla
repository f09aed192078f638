----------------------------- MODULE MCRecovery -----------------------------
(***************************************************************************)
(* Recovery on a small instance.  The client's commands are few, but reach *)
(* every handler: resting on both sides, two orders in one level, partial  *)
(* and full fills, expiry, replace in place and across the book, cancel,   *)
(* rejects.  Id 12 and quantity 12 lose a digit when their line is torn.   *)
(***************************************************************************)
EXTENDS Recovery, TLC

Limit(id, side, price, qty, tif) ==
  [cmd |-> "new", id |-> id, side |-> side, otype |-> "limit", price |-> price,
   qty |-> qty, tif |-> tif]

MCClient == {
  Limit(1, "bid", 1, 3, "gtc"),
  Limit(12, "bid", 1, 12, "post_only"),
  Limit(3, "ask", 1, 4, "ioc"),
  Limit(3, "ask", 2, 2, "gtc"),
  [cmd |-> "replace", id |-> 1, price |-> 2, qty |-> 2],
  [cmd |-> "replace", id |-> 12, price |-> 1, qty |-> 10],
  [cmd |-> "cancel", id |-> 12]}
=============================================================================
