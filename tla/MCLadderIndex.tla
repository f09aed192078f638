--------------------------- MODULE MCLadderIndex ---------------------------
(***************************************************************************)
(* LadderIndex with words of two bits: nine levels are five words and      *)
(* three summary words, so a rescan crosses both kinds of boundary.        *)
(***************************************************************************)
EXTENDS LadderIndex
=============================================================================
