----------------------------- MODULE MCOrderMap -----------------------------
(***************************************************************************)
(* OrderMap for every hash function at once: a key carries the home slot   *)
(* it hashes to, and there are Twins keys for each, so that every pattern  *)
(* of collisions of up to LiveMax keys occurs.  Every other twin has the   *)
(* same tag as keys elsewhere.                                             *)
(***************************************************************************)
EXTENDS OrderMap

CONSTANT Twins

MCKey == [twin: 1 .. Twins, home: 0 .. Cap - 1]
MCHome(k) == k.home
MCTagOf(k) == 1 + (k.twin % 2)
=============================================================================
