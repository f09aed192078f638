---------------------------- MODULE MCOrderBook ----------------------------
(***************************************************************************)
(* OrderBook on small instances, with a sink that ignores every event      *)
(* (NullSink): the book's own properties do not depend on the sink.        *)
(***************************************************************************)
EXTENDS OrderBook, TLC

MCNullOnEvent(s, n, event) == s

MCIdSymmetry == Permutations(OrderId)
=============================================================================
