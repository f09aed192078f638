----------------------------- MODULE Dictionary -----------------------------
(***************************************************************************)
(* What the order map promises the book: a partial function from order ids *)
(* to locations with at most LiveMax keys.  An entry that was looked up     *)
(* for a replace can be redirected later, whatever was dropped meanwhile,  *)
(* and while a removal tidies up the function does not change.             *)
(***************************************************************************)
EXTENDS Integers, FiniteSets

CONSTANTS Key, Val, LiveMax

VARIABLES
  dict,     \* the function
  pending,  \* the key of the replace in flight, if any
  tidying   \* a removal is at work

dictVars == <<dict, pending, tidying>>

DictInit == dict = << >> /\ pending = {} /\ tidying = FALSE

Without(k) == [x \in DOMAIN dict \ {k} |-> dict[x]]

Add(k, v) ==
  /\ ~tidying /\ pending = {}
  /\ k \notin DOMAIN dict
  /\ Cardinality(DOMAIN dict) < LiveMax
  /\ dict' = [x \in DOMAIN dict \cup {k} |-> IF x = k THEN v ELSE dict[x]]
  /\ UNCHANGED <<pending, tidying>>

Drop(k) ==
  /\ ~tidying
  /\ dict' = Without(k)
  /\ tidying' = TRUE
  /\ UNCHANGED pending

Hold(k) ==
  /\ ~tidying /\ pending = {}
  /\ pending' = {k}
  /\ UNCHANGED <<dict, tidying>>

Redirect(k, v) ==
  /\ ~tidying
  /\ dict' = [dict EXCEPT ![k] = v]
  /\ pending' = {}
  /\ UNCHANGED tidying

DropHeld(k) ==
  /\ ~tidying
  /\ dict' = Without(k)
  /\ pending' = {}
  /\ tidying' = TRUE

Tidied ==
  /\ tidying
  /\ tidying' = FALSE
  /\ UNCHANGED <<dict, pending>>

DictNext ==
  \/ \E k \in Key \ DOMAIN dict, v \in Val : Add(k, v)
  \/ \E k \in DOMAIN dict \ pending : Drop(k)
  \/ \E k \in DOMAIN dict : Hold(k)
  \/ \E k \in pending, v \in Val : Redirect(k, v)
  \/ \E k \in pending : DropHeld(k)
  \/ Tidied

DictSpec == DictInit /\ [][DictNext]_dictVars
=============================================================================
