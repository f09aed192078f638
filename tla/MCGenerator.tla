---------------------------- MODULE MCGenerator ----------------------------
(***************************************************************************)
(* A corpus of workload w3 (adds, cancels and replaces only) fed to a book *)
(* with a ladder of 0 .. 6 around Mid = 3.                                 *)
(***************************************************************************)
EXTENDS Generator

MCNullOnEvent(s, n, event) == s
=============================================================================
