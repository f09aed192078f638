------------------------------ MODULE OrderMap ------------------------------
(***************************************************************************)
(* The order map (src/ordermap.rs): order id -> location in an open-       *)
(* addressed table with linear probing and deletion by backward shift, and *)
(* the way OrderBook::replace holds on to one of its slots across the      *)
(* removals of a cross.                                                    *)
(*                                                                         *)
(* insert and find are single steps; the loop of remove that shifts        *)
(* entries back is one step per slot it looks at, so that what is true in  *)
(* the middle of it can be stated.  An entry whose tag is zero keeps its   *)
(* old contents in the code; it is forgotten here.                         *)
(***************************************************************************)
EXTENDS Integers, FiniteSets

CONSTANTS
  Key,          \* order ids
  Val,          \* locations
  Cap,          \* number of slots, mask + 1
  LiveMax,      \* keys the map is sized for: BookConfig.max_orders
  Home(_),      \* mix(key) & mask
  TagOf(_),     \* tag_of(mix(key)): never zero
  RemovesWrap   \* 2^64: the width of the removal counter

ASSUME MapAssumption ==
  /\ Cap \in Nat /\ LiveMax \in Nat /\ LiveMax < Cap
  /\ RemovesWrap \in Nat /\ RemovesWrap > LiveMax
  /\ \A k \in Key : Home(k) \in 0 .. Cap - 1 /\ TagOf(k) \in Nat \ {0}

VARIABLES
  tags,     \* OrderMap.tags
  entries,  \* OrderMap.entries
  len,      \* OrderMap.len
  removes,  \* OrderMap.removes
  shift,    \* hole and j of the loop of remove, or NoShift
  held      \* the slot and counter replace remembers, or NoReplace

vars == <<tags, entries, len, removes, shift, held>>

Slot == 0 .. Cap - 1
NoShift   == [hole |-> Cap, at |-> Cap]
Gone      == [key |-> "gone"]
NoReplace == [slot |-> Cap]

Occupied(i) == tags[i] # 0
Holds(i, k) == tags[i] = TagOf(k) /\ entries[i].key = k

\* The n-th slot of the probe sequence of k.
Probe(k, n) == (Home(k) + n) % Cap

\* Where a probe for k stops: at k or at the first empty slot before it.
StopsAt(k, i) ==
  \E n \in 0 .. Cap - 1 :
    /\ i = Probe(k, n)
    /\ ~Occupied(i) \/ Holds(i, k)
    /\ \A m \in 0 .. n - 1 : Occupied(Probe(k, m)) /\ ~Holds(Probe(k, m), k)

\* OrderMap::find: the slot, if the probe stops at k.
FoundAt(k, i) == StopsAt(k, i) /\ Occupied(i)
Found(k) == \E i \in Slot : FoundAt(k, i)

\* j lies in the cyclic interval (hole, at]: remove's test on an entry's home.
InInterval(j, hole, at) ==
  IF hole < at THEN j > hole /\ j <= at ELSE j > hole \/ j <= at

Init ==
  /\ tags = [i \in Slot |-> 0]
  /\ entries = [i \in Slot |-> Gone]
  /\ len = 0
  /\ removes = 0
  /\ shift = NoShift
  /\ held = NoReplace

----------------------------------------------------------------------------
\* Mutant: overwriting a value counts as a new key.
LenAlwaysUp(i) == len + 1

\* len once a key has been written to slot i.
LenWith(i) == IF Occupied(i) THEN len ELSE len + 1

\* OrderMap::insert
Insert(k, v) ==
  \E i \in Slot :
    /\ StopsAt(k, i)
    /\ tags' = [tags EXCEPT ![i] = TagOf(k)]
    /\ entries' = [entries EXCEPT ![i] = [key |-> k, val |-> v]]
    /\ len' = LenWith(i)

\* Mutant: the counter does not wrap.
CountedUnwrapped == removes + 1

\* Mutant: the removal is not counted.
NotCounted == removes

Counted == (removes + 1) % RemovesWrap

\* OrderMap::remove up to its loop
StartRemove(k) ==
  \E i \in Slot :
    /\ FoundAt(k, i)
    /\ tags' = [tags EXCEPT ![i] = 0]
    /\ entries' = [entries EXCEPT ![i] = Gone]
    /\ len' = len - 1
    /\ removes' = Counted
    /\ shift' = [hole |-> i, at |-> i]

\* One turn of the loop: stop at an empty slot, leave an entry that may not
\* move, or move one into the hole.
NextSlot == (shift.at + 1) % Cap

StopShift ==
  /\ shift # NoShift
  /\ ~Occupied(NextSlot)
  /\ shift' = NoShift
  /\ UNCHANGED <<tags, entries, len, removes, held>>

\* Mutant: the hole moves onto the entry that may not move.
SkippedWithHole == [hole |-> NextSlot, at |-> NextSlot]

\* Mutant: the scan does not advance.
NotSkipped == shift

Skipped == [shift EXCEPT !.at = NextSlot]

SkipEntry ==
  /\ shift # NoShift
  /\ Occupied(NextSlot)
  /\ InInterval(Home(entries[NextSlot].key), shift.hole, NextSlot)
  /\ shift' = Skipped
  /\ UNCHANGED <<tags, entries, len, removes, held>>

MoveEntry ==
  /\ shift # NoShift
  /\ Occupied(NextSlot)
  /\ ~InInterval(Home(entries[NextSlot].key), shift.hole, NextSlot)
  /\ tags' = [tags EXCEPT ![shift.hole] = tags[NextSlot], ![NextSlot] = 0]
  /\ entries' = [entries EXCEPT ![shift.hole] = entries[NextSlot], ![NextSlot] = Gone]
  /\ shift' = [hole |-> NextSlot, at |-> NextSlot]
  /\ UNCHANGED <<len, removes, held>>

----------------------------------------------------------------------------
\* What the book does with the map.  No operation starts inside another.

Quiet == shift = NoShift

\* rest, after the duplicate and capacity checks of new_order
Rest(k, v) ==
  /\ Quiet
  /\ held = NoReplace
  /\ ~Found(k)
  /\ len < LiveMax
  /\ Insert(k, v)
  /\ UNCHANGED <<removes, shift, held>>

\* cancel, or a maker filled by cross; never the order being replaced, which
\* is in no queue.
Leave(k) ==
  /\ Quiet
  /\ held # NoReplace => held.key # k
  /\ StartRemove(k)
  /\ UNCHANGED held

\* replace finds its entry and reads its location before it crosses
BeginReplace(k) ==
  /\ Quiet
  /\ held = NoReplace
  /\ \E i \in Slot :
       /\ FoundAt(k, i)
       /\ held' = [slot |-> i, key |-> k, removes |-> removes]
  /\ UNCHANGED <<tags, entries, len, removes, shift>>

\* ... and afterwards writes the new one: through the slot when nothing was
\* removed in between, else by probing again ...
WriteThrough(v) ==
  /\ Quiet
  /\ held # NoReplace
  /\ removes = held.removes
  /\ entries' = [entries EXCEPT ![held.slot].val = v]
  /\ held' = NoReplace
  /\ UNCHANGED <<tags, len, removes, shift>>

WriteAgain(v) ==
  /\ Quiet
  /\ held # NoReplace
  /\ removes # held.removes
  /\ Insert(held.key, v)
  /\ held' = NoReplace
  /\ UNCHANGED <<removes, shift>>

\* ... or removes the entry of an order that was filled.
ReplaceFilled ==
  /\ Quiet
  /\ held # NoReplace
  /\ StartRemove(held.key)
  /\ held' = NoReplace

Shift == StopShift \/ SkipEntry \/ MoveEntry

Next ==
  \/ \E k \in Key, v \in Val : Rest(k, v)
  \/ \E k \in Key : Leave(k)
  \/ \E k \in Key : BeginReplace(k)
  \/ \E v \in Val : WriteThrough(v)
  \/ \E v \in Val : WriteAgain(v)
  \/ ReplaceFilled
  \/ Shift

Spec == Init /\ [][Next]_vars

\* The loop of remove is straight-line code on the writer's thread.
FairSpec == Spec /\ WF_vars(Shift)

----------------------------------------------------------------------------
\* Properties

TypeOK ==
  /\ tags \in [Slot -> {0} \cup {TagOf(k) : k \in Key}]
  /\ entries \in [Slot -> [key: Key, val: Val] \cup {Gone}]
  /\ len \in 0 .. LiveMax
  /\ removes \in 0 .. RemovesWrap - 1
  /\ shift \in [hole: Slot, at: Slot] \cup {NoShift}
  /\ held \in [slot: Slot, key: Key, removes: 0 .. RemovesWrap - 1] \cup {NoReplace}

\* The keys in the table, wherever they are.
Stored == {entries[i].key : i \in {s \in Slot : Occupied(s)}}

\* No key is ever lost or duplicated: between operations a lookup finds
\* every stored key, in the one slot that holds it, with the tag of that key
\* (the deletion bug of the past: an entry shifted over a live one).
LookupFindsStored ==
  Quiet => \A i \in Slot : Occupied(i) =>
             LET k == entries[i].key
             IN  tags[i] = TagOf(k) /\ \A j \in Slot : FoundAt(k, j) <=> i = j

\* A lookup always comes to an end, for keys that are not there as well:
\* some slot is empty whatever max_orders lets in, and len counts the rest.
ProbesEnd ==
  /\ \A k \in Key : \E i \in Slot : StopsAt(k, i)
  /\ len = Cardinality({i \in Slot : Occupied(i)})

\* The slot replace remembered is still the slot of its key whenever it is
\* about to be written through: a removal that could have moved the entry
\* shows in the counter.
HeldSlotValid ==
  Quiet /\ held # NoReplace /\ held.removes = removes =>
    FoundAt(held.key, held.slot)

\* The backward shift of a removal comes to an end.
ShiftEnds == ~Quiet ~> Quiet

\* The map as the book sees it.
Dict == [k \in Stored |-> entries[CHOOSE i \in Slot : Holds(i, k)].val]

Contract == INSTANCE Dictionary
              WITH dict    <- Dict,
                   pending <- IF held = NoReplace THEN {} ELSE {held.key},
                   tidying <- ~Quiet

\* The table is a dictionary: an insertion adds one key, a removal takes one
\* away at once and its shift is not seen, and replace writes to the key it
\* looked up whatever was removed in between.
ImplementsDictionary == Contract!DictSpec
=============================================================================
