------------------------------- MODULE MCBook -------------------------------
(***************************************************************************)
(* The order book with a consumer on its event stream, on a small instance *)
(* that checks its invariants, what the consumer believes, and the         *)
(* refinement of PriceTimePriority at once: the consumer's state follows   *)
(* the book's and adds no states beyond the sequence number.               *)
(***************************************************************************)
EXTENDS BookWithFeed, PTPRefinement, TLC

MCIdSymmetry == Permutations(OrderId)
=============================================================================
