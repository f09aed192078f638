------------------------------ MODULE MCEngine ------------------------------
(***************************************************************************)
(* Engine on a small instance.  Both symbols are sent the same few         *)
(* commands with the same ids.                                             *)
(***************************************************************************)
EXTENDS EngineRouting

Limit(id, side, price, qty, tif) ==
  [cmd |-> "new", id |-> id, side |-> side, otype |-> "limit", price |-> price,
   qty |-> qty, tif |-> tif]

MCClient == {
  Limit(1, "bid", 1, 2, "gtc"),
  Limit(2, "bid", 3, 1, "post_only"),
  Limit(3, "ask", 1, 3, "ioc"),
  Limit(3, "bid", 1, 1, "gtc"),
  Limit(2, "ask", 2, 1, "gtc"),
  [cmd |-> "replace", id |-> 1, price |-> 2, qty |-> 2],
  [cmd |-> "cancel", id |-> 3]}
=============================================================================
