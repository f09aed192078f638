---------------------------- MODULE MCChunkStore ----------------------------
(***************************************************************************)
(* ChunkStore on small instances: one price, so two levels, one per side.  *)
(***************************************************************************)
EXTENDS ChunkStore, TLC

\* Orders that can be filled or reduced in part.
MCPairOrders == [id: OrderId, qty: {2}, tif: {"post_only"}]

MCIdSymmetry == Permutations(OrderId)

\* The header of a chunk that is not in use is rewritten before it is read
\* (alloc_chunk), so states that differ in nothing else are not told apart.
MCView ==
  <<[c \in ChunkIndex |-> IF chunks[c].live = 0 THEN <<chunks[c].next, chunks[c].s>>
                          ELSE chunks[c]],
    used, free, live, levels, locs>>
=============================================================================
