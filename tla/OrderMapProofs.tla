--------------------------- MODULE OrderMapProofs ---------------------------
(***************************************************************************)
(* Theorems about the order map for every capacity, every hash function    *)
(* and every set of keys: no key is lost or duplicated by the backward     *)
(* shift, a probe always ends, the slot replace holds is valid when it is  *)
(* written through, and the table implements the dictionary.               *)
(*                                                                         *)
(* Slots are compared by how far a probe that starts at a slot walks to    *)
(* reach them, so that nothing is said modulo Cap.  The heart is what is   *)
(* true in the middle of a removal (PathsFull): the hole lies on the probe *)
(* path only of entries that the shift has not looked at yet.              *)
(***************************************************************************)
EXTENDS OrderMap, BasicFacts

----------------------------------------------------------------------------
\* The inductive invariant

\* How many slots a probe walks from slot a to slot b.
Dist(a, b) == IF a <= b THEN b - a ELSE b - a + Cap

KeyAt(i) == entries[i].key
HomeAt(i) == Home(entries[i].key)

\* Every entry has the tag of its key ...
Tagged ==
  \A i \in Slot : Occupied(i) =>
    /\ entries[i] \in [key: Key, val: Val]
    /\ tags[i] = TagOf(KeyAt(i))

\* ... and no key has two.
NoTwice ==
  \A i, j \in Slot : Occupied(i) /\ Occupied(j) /\ KeyAt(i) = KeyAt(j) => i = j

\* The shift has walked from the hole over occupied slots only ...
Walked(i) == Dist(shift.hole, i) <= Dist(shift.hole, shift.at)

ShiftSound ==
  ~Quiet =>
    /\ ~Occupied(shift.hole)
    /\ \A i \in Slot : Walked(i) /\ i # shift.hole => Occupied(i)

\* ... and the only empty slot on the path of an entry is the hole, and that
\* only if the shift has not come to the entry yet.
PathsFull ==
  \A i \in Slot : Occupied(i) =>
    \A j \in Slot : Dist(HomeAt(i), j) < Dist(HomeAt(i), i) =>
      \/ Occupied(j)
      \/ ~Quiet /\ j = shift.hole /\ ~Walked(i)

OccupiedSlots == {i \in Slot : Occupied(i)}

Counts == len = Cardinality(OccupiedSlots)

\* The removals since replace took its slot.
Since == IF held.removes <= removes THEN removes - held.removes
                                    ELSE removes - held.removes + RemovesWrap

\* The key replace holds stays in the table.  No key enters meanwhile, so
\* that there are too few removals for the counter to come round, and while
\* there are none the slot is the one of the key.
HeldSound ==
  held # NoReplace =>
    /\ held.key \in Stored
    /\ Since + len <= LiveMax
    /\ held.removes = removes =>
         Quiet /\ Occupied(held.slot) /\ KeyAt(held.slot) = held.key

MapInv ==
  /\ TypeOK
  /\ Tagged
  /\ NoTwice
  /\ ShiftSound
  /\ PathsFull
  /\ Counts
  /\ HeldSound

----------------------------------------------------------------------------
\* Probing

\* The constants, and the slots the model speaks of.
LEMMA MapConstants ==
  /\ Cap \in Nat \ {0} /\ LiveMax \in Nat /\ LiveMax < Cap
  /\ RemovesWrap \in Nat \ {0} /\ LiveMax < RemovesWrap
  /\ \A k \in Key : Home(k) \in Slot /\ TagOf(k) \in Nat \ {0}
BY MapAssumption DEF Slot

\* A probe passes every slot once.
LEMMA DistType ==
  ASSUME NEW a \in Slot, NEW b \in Slot
  PROVE  /\ Dist(a, b) \in 0 .. Cap - 1
         /\ \A c \in Slot : Dist(a, b) = Dist(a, c) => b = c
BY MapConstants DEF Dist, Slot

\* The n-th probe of a key lands n slots from its home.
LEMMA ProbeDist ==
  ASSUME NEW k \in Key
  PROVE  /\ \A n \in 0 .. Cap - 1 : Probe(k, n) \in Slot /\ Dist(Home(k), Probe(k, n)) = n
         /\ \A i \in Slot : /\ Dist(Home(k), i) \in 0 .. Cap - 1
                            /\ Probe(k, Dist(Home(k), i)) = i
<1>1. Home(k) \in 0 .. Cap - 1 /\ Cap \in Nat \ {0}
  BY MapConstants DEF Slot
<1>2. ASSUME NEW n \in 0 .. Cap - 1
      PROVE  Probe(k, n) = IF Home(k) + n < Cap THEN Home(k) + n ELSE Home(k) + n - Cap
  BY <1>1, ModOnce DEF Probe
<1>3. ASSUME NEW n \in 0 .. Cap - 1
      PROVE  Probe(k, n) \in Slot /\ Dist(Home(k), Probe(k, n)) = n
  BY <1>1, <1>2 DEF Slot, Dist
<1>4. ASSUME NEW i \in Slot
      PROVE  Dist(Home(k), i) \in 0 .. Cap - 1 /\ Probe(k, Dist(Home(k), i)) = i
  <2>1. Dist(Home(k), i) \in 0 .. Cap - 1
    BY <1>1 DEF Slot, Dist
  <2>. QED  BY <1>1, <2>1, <1>2 DEF Slot, Dist
<1>. QED  BY <1>3, <1>4

\* Where a probe stops, said without counting modulo Cap.
LEMMA StopsAtMeans ==
  ASSUME NEW k \in Key, NEW i
  PROVE  StopsAt(k, i) <=>
           /\ i \in Slot
           /\ ~Occupied(i) \/ Holds(i, k)
           /\ \A j \in Slot : Dist(Home(k), j) < Dist(Home(k), i) => Occupied(j) /\ ~Holds(j, k)
<1>1. ASSUME StopsAt(k, i)
      PROVE  /\ i \in Slot
             /\ ~Occupied(i) \/ Holds(i, k)
             /\ \A j \in Slot : Dist(Home(k), j) < Dist(Home(k), i) => Occupied(j) /\ ~Holds(j, k)
  <2>1. PICK n \in 0 .. Cap - 1 :
          /\ i = Probe(k, n)
          /\ ~Occupied(i) \/ Holds(i, k)
          /\ \A m \in 0 .. n - 1 : Occupied(Probe(k, m)) /\ ~Holds(Probe(k, m), k)
    BY <1>1 DEF StopsAt
  <2>2. i \in Slot /\ Dist(Home(k), i) = n
    BY <2>1, ProbeDist
  <2>3. ASSUME NEW j \in Slot, Dist(Home(k), j) < n
        PROVE  Occupied(j) /\ ~Holds(j, k)
    <3>1. Dist(Home(k), j) \in 0 .. n - 1 /\ Probe(k, Dist(Home(k), j)) = j
      BY <2>3, ProbeDist
    <3>. QED  BY <3>1, <2>1
  <2>. QED  BY <2>1, <2>2, <2>3
<1>2. ASSUME i \in Slot,
             ~Occupied(i) \/ Holds(i, k),
             \A j \in Slot : Dist(Home(k), j) < Dist(Home(k), i) => Occupied(j) /\ ~Holds(j, k)
      PROVE  StopsAt(k, i)
  <2>. DEFINE n == Dist(Home(k), i)
  <2>1. n \in 0 .. Cap - 1 /\ i = Probe(k, n)
    BY <1>2, ProbeDist
  <2>2. \A m \in 0 .. n - 1 : Occupied(Probe(k, m)) /\ ~Holds(Probe(k, m), k)
    <3>. TAKE m \in 0 .. n - 1
    <3>1. m \in 0 .. Cap - 1 /\ m < n
      BY <2>1, MapConstants
    <3>2. Probe(k, m) \in Slot /\ Dist(Home(k), Probe(k, m)) = m
      BY <3>1, ProbeDist
    <3>. QED  BY <3>1, <3>2, <1>2
  <2>. QED  BY <2>1, <2>2, <1>2 DEF StopsAt
<1>. QED  BY <1>1, <1>2

\* A probe stops at the first slot that is empty or holds its key.
LEMMA ProbeStops ==
  ASSUME NEW k \in Key, NEW i \in Slot, ~Occupied(i) \/ Holds(i, k)
  PROVE  \E j \in Slot : StopsAt(k, j)
<1>. DEFINE S == {Dist(Home(k), j) : j \in {s \in Slot : ~Occupied(s) \/ Holds(s, k)}}
<1>1. S \in SUBSET Nat /\ S # {}
  BY MapConstants, DistType
<1>2. PICK n \in S : \A m \in S : n <= m
  BY <1>1, LeastNat
<1>3. PICK j \in Slot : (~Occupied(j) \/ Holds(j, k)) /\ n = Dist(Home(k), j)
  BY <1>2
<1>4. ASSUME NEW s \in Slot, Dist(Home(k), s) < n
      PROVE  Occupied(s) /\ ~Holds(s, k)
  <2>1. n \in Nat /\ Dist(Home(k), s) \in Nat
    BY <1>1, MapConstants, DistType
  <2>2. Dist(Home(k), s) \notin S
    BY <2>1, <1>2, <1>4
  <2>. QED  BY <2>2
<1>. QED  BY <1>3, <1>4, StopsAtMeans

\* Between operations a lookup finds every stored key where it is.
LEMMA FindsStored ==
  ASSUME Tagged, NoTwice, PathsFull, Quiet, NEW i \in Slot, Occupied(i)
  PROVE  \A j \in Slot : FoundAt(KeyAt(i), j) <=> i = j
<1>. DEFINE k == KeyAt(i)
<1>1. k \in Key /\ Holds(i, k)
  BY DEF Tagged, Holds, KeyAt
<1>2. StopsAt(k, i)
  <2>1. ASSUME NEW j \in Slot, Dist(Home(k), j) < Dist(Home(k), i)
        PROVE  Occupied(j) /\ ~Holds(j, k)
    <3>1. Occupied(j)
      BY <2>1 DEF PathsFull, HomeAt, KeyAt
    <3>2. j # i
      BY <2>1, <1>1, MapConstants, DistType
    <3>. QED  BY <3>1, <3>2 DEF NoTwice, Holds, KeyAt
  <2>. QED  BY <1>1, <2>1, StopsAtMeans
<1>3. ASSUME NEW j \in Slot, FoundAt(k, j)
      PROVE  i = j
  <2>1. Occupied(j) /\ Holds(j, k)
    BY <1>1, <1>3, StopsAtMeans DEF FoundAt
  <2>. QED  BY <2>1 DEF NoTwice, Holds, KeyAt
<1>. QED  BY <1>2, <1>3 DEF FoundAt

\* A key is found iff it is stored.
LEMMA FoundMeans ==
  ASSUME Tagged, NoTwice, PathsFull, Quiet, NEW k \in Key, NEW i \in Slot
  PROVE  FoundAt(k, i) <=> Occupied(i) /\ KeyAt(i) = k
<1>1. ASSUME FoundAt(k, i)
      PROVE  Occupied(i) /\ KeyAt(i) = k
  BY <1>1, StopsAtMeans DEF FoundAt, Holds, KeyAt
<1>2. ASSUME Occupied(i), KeyAt(i) = k
      PROVE  FoundAt(k, i)
  BY <1>2, FindsStored
<1>. QED  BY <1>1, <1>2

\* The map is never full.
LEMMA EmptySlot ==
  ASSUME TypeOK, Counts
  PROVE  \E i \in Slot : ~Occupied(i)
<1>1. IsFiniteSet(Slot) /\ Cardinality(Slot) = Cap
  BY MapConstants, FS_Interval DEF Slot
<1>2. Cardinality(OccupiedSlots) < Cap
  BY MapConstants DEF TypeOK, Counts
<1>3. OccupiedSlots # Slot
  BY <1>1, <1>2, MapConstants
<1>. QED  BY <1>3 DEF OccupiedSlots
----------------------------------------------------------------------------
\* The steps

\* The invariant holds of the empty map.
LEMMA InitInv ==
  ASSUME Init
  PROVE  MapInv
<1>1. \A i \in Slot : ~Occupied(i)
  BY DEF Init, Occupied
<1>2. TypeOK
  BY MapConstants DEF Init, TypeOK
<1>3. Tagged /\ NoTwice /\ PathsFull
  BY <1>1 DEF Tagged, NoTwice, PathsFull
<1>4. Counts
  <2>1. OccupiedSlots = {}
    BY <1>1 DEF OccupiedSlots
  <2>. QED  BY <2>1, FS_EmptySet DEF Counts, Init
<1>5. ShiftSound /\ HeldSound
  BY DEF Init, ShiftSound, Quiet, HeldSound
<1>. QED  BY <1>2, <1>3, <1>4, <1>5 DEF MapInv

\* A key that was not there is put into the first empty slot of its path.
LEMMA RestInv ==
  ASSUME MapInv, NEW k \in Key, NEW v \in Val, Rest(k, v)
  PROVE  MapInv'
<1>. USE DEF MapInv
<1>1. PICK i \in Slot :
        /\ StopsAt(k, i)
        /\ tags' = [tags EXCEPT ![i] = TagOf(k)]
        /\ entries' = [entries EXCEPT ![i] = [key |-> k, val |-> v]]
        /\ len' = LenWith(i)
  BY DEF Rest, Insert
<1>2. Quiet /\ Quiet' /\ held = NoReplace /\ held' = held /\ removes' = removes /\ shift' = shift
  BY DEF Rest, Quiet
<1>3. /\ ~Occupied(i)
      /\ \A j \in Slot : Dist(Home(k), j) < Dist(Home(k), i) => Occupied(j)
      /\ \A j \in Slot : Occupied(j) => KeyAt(j) # k
  <2>1. ~Occupied(i)
    BY <1>1 DEF Rest, Found, FoundAt
  <2>2. \A j \in Slot : Occupied(j) => KeyAt(j) # k
    BY <1>2, FoundMeans DEF Rest, Found
  <2>. QED  BY <2>1, <2>2, <1>1, StopsAtMeans
<1>4. /\ tags \in [Slot -> Nat] /\ tags' \in [Slot -> Nat]
      /\ entries' \in [Slot -> [key: Key, val: Val] \cup {Gone}]
  BY <1>1, MapConstants DEF TypeOK
<1>5. \A j \in Slot : /\ Occupied(j)' <=> Occupied(j) \/ j = i
                      /\ entries'[j] = IF j = i THEN [key |-> k, val |-> v] ELSE entries[j]
                      /\ tags'[j] = IF j = i THEN TagOf(k) ELSE tags[j]
  BY <1>1, MapConstants DEF TypeOK, Occupied
<1>6. Counts' /\ len' = len + 1
  <2>1. OccupiedSlots' = OccupiedSlots \cup {i} /\ i \notin OccupiedSlots
    BY <1>3, <1>5 DEF OccupiedSlots
  <2>2. IsFiniteSet(Slot)
    BY MapConstants, FS_Interval DEF Slot
  <2>3. IsFiniteSet(OccupiedSlots)
    BY <2>2, FS_Subset DEF OccupiedSlots
  <2>. QED  BY <2>1, <2>3, FS_AddElement, <1>1, <1>3 DEF Counts, LenWith
<1>7. TypeOK'
  <2>1. len' \in 0 .. LiveMax
    BY <1>6, MapConstants DEF Rest, TypeOK
  <2>2. tags' \in [Slot -> {0} \cup {TagOf(x) : x \in Key}]
    BY <1>1 DEF TypeOK
  <2>. QED  BY <1>2, <1>4, <2>1, <2>2 DEF TypeOK
<1>8. Tagged' /\ NoTwice'
  BY <1>3, <1>5 DEF Tagged, NoTwice, KeyAt
<1>9. PathsFull'
  <2>. SUFFICES ASSUME NEW j \in Slot, Occupied(j)',
                       NEW m \in Slot, Dist(HomeAt(j)', m) < Dist(HomeAt(j)', j)
                PROVE  Occupied(m)'
    BY <1>2 DEF PathsFull, Dist
  <2>1. CASE j = i
    BY <2>1, <1>3, <1>5 DEF HomeAt
  <2>2. CASE j # i
    <3>1. Occupied(j) /\ HomeAt(j)' = HomeAt(j)
      BY <2>2, <1>5 DEF HomeAt
    <3>2. Occupied(m)
      BY <3>1, <1>2 DEF PathsFull
    <3>. QED  BY <3>2, <1>5
  <2>. QED  BY <2>1, <2>2
<1>10. ShiftSound' /\ HeldSound'
  BY <1>2 DEF ShiftSound, HeldSound
<1>. QED  BY <1>6, <1>7, <1>8, <1>9, <1>10

\* Writing a value to a slot changes nothing else.
LEMMA SameKeys ==
  ASSUME MapInv, NEW i \in Slot, NEW v \in Val, Occupied(i),
         tags' = tags, entries' = [entries EXCEPT ![i] = [key |-> KeyAt(i), val |-> v]],
         len' = len, removes' = removes, shift' = shift, Quiet, held' = NoReplace
  PROVE  MapInv'
<1>. USE DEF MapInv
<1>1. entries' \in [Slot -> [key: Key, val: Val] \cup {Gone}]
  BY DEF TypeOK, Tagged, KeyAt
<1>2. \A j \in Slot : /\ Occupied(j)' <=> Occupied(j)
                      /\ Occupied(j) => KeyAt(j)' = KeyAt(j) /\ HomeAt(j)' = HomeAt(j)
                      /\ Occupied(j) => entries'[j] \in [key: Key, val: Val]
  BY DEF TypeOK, Tagged, KeyAt, HomeAt, Occupied
<1>3. Tagged' /\ NoTwice'
  BY <1>2 DEF Tagged, NoTwice
<1>4. PathsFull'
  BY <1>2 DEF PathsFull, Dist, Walked, Quiet
<1>5. Counts'
  <2>1. OccupiedSlots' = OccupiedSlots
    BY <1>2 DEF OccupiedSlots
  <2>. QED  BY <2>1 DEF Counts
<1>6. TypeOK' /\ ShiftSound' /\ HeldSound'
  BY <1>1 DEF TypeOK, ShiftSound, HeldSound, Quiet
<1>. QED  BY <1>3, <1>4, <1>5, <1>6

\* Writing through the held slot keeps the invariant.
LEMMA WriteThroughInv ==
  ASSUME MapInv, NEW v \in Val, WriteThrough(v)
  PROVE  MapInv'
<1>1. held.slot \in Slot /\ Occupied(held.slot)
  BY DEF MapInv, TypeOK, HeldSound, WriteThrough
<1>2. entries[held.slot] \in [key: Key, val: Val]
  BY <1>1 DEF MapInv, Tagged
<1>3. [entries[held.slot] EXCEPT !.val = v] = [key |-> KeyAt(held.slot), val |-> v]
  BY <1>2 DEF KeyAt
<1>4. entries' = [entries EXCEPT ![held.slot] = [key |-> KeyAt(held.slot), val |-> v]]
  BY <1>3 DEF WriteThrough
<1>. QED  BY <1>1, <1>4, SameKeys DEF WriteThrough

\* The second probe for the key replace holds ends at its entry.
LEMMA AgainSameSlot ==
  ASSUME MapInv, NEW v \in Val, WriteAgain(v)
  PROVE  \E i \in Slot :
           /\ Occupied(i) /\ KeyAt(i) = held.key /\ tags' = tags /\ len' = len
           /\ entries' = [entries EXCEPT ![i] = [key |-> held.key, val |-> v]]
<1>1. held.key \in Key /\ held.key \in Stored /\ Quiet
  BY DEF MapInv, TypeOK, HeldSound, WriteAgain
<1>2. PICK s \in Slot : Occupied(s) /\ KeyAt(s) = held.key
  BY <1>1 DEF Stored, KeyAt
<1>3. PICK i \in Slot :
        /\ StopsAt(held.key, i)
        /\ tags' = [tags EXCEPT ![i] = TagOf(held.key)]
        /\ entries' = [entries EXCEPT ![i] = [key |-> held.key, val |-> v]]
        /\ len' = LenWith(i)
  BY DEF WriteAgain, Insert
<1>4. i = s
  <2>1. FoundAt(held.key, s)
    BY <1>1, <1>2, FoundMeans DEF MapInv
  <2>2. StopsAt(held.key, s) /\ Holds(s, held.key) /\ Occupied(s)
    BY <2>1, <1>1, <1>2, StopsAtMeans DEF FoundAt
  <2>3. Dist(Home(held.key), i) \in Int /\ Dist(Home(held.key), s) \in Int
    BY <1>1, MapConstants, DistType
  <2>4. ~(Dist(Home(held.key), s) < Dist(Home(held.key), i))
    BY <1>1, <1>3, <2>2, StopsAtMeans
  <2>5. ~(Dist(Home(held.key), i) < Dist(Home(held.key), s))
    BY <1>1, <1>3, <2>2, StopsAtMeans
  <2>. QED  BY <1>1, <2>3, <2>4, <2>5, MapConstants, DistType
<1>5. tags' = tags /\ len' = len
  <2>1. tags[i] = TagOf(held.key)
    BY <1>2, <1>4 DEF MapInv, Tagged
  <2>. QED  BY <2>1, <1>2, <1>3, <1>4 DEF MapInv, TypeOK, LenWith
<1>. QED  BY <1>2, <1>3, <1>4, <1>5

\* So does probing again for the replaced key and writing there.
LEMMA WriteAgainInv ==
  ASSUME MapInv, NEW v \in Val, WriteAgain(v)
  PROVE  MapInv'
<1>1. PICK i \in Slot :
        /\ Occupied(i) /\ KeyAt(i) = held.key /\ tags' = tags /\ len' = len
        /\ entries' = [entries EXCEPT ![i] = [key |-> held.key, val |-> v]]
  BY AgainSameSlot
<1>. QED  BY <1>1, SameKeys DEF WriteAgain

\* A removal empties the slot of its key: between it and the next empty slot
\* the entries that probed past the slot are cut off from their home.
LEMMA StartRemoveInv ==
  ASSUME MapInv, Quiet, NEW k \in Key, StartRemove(k)
  PROVE  /\ tags' \in [Slot -> {0} \cup {TagOf(x) : x \in Key}]
         /\ entries' \in [Slot -> [key: Key, val: Val] \cup {Gone}]
         /\ shift' \in [hole: Slot, at: Slot]
         /\ ~Quiet'
         /\ removes' = Counted
         /\ len' \in Nat /\ len' = len - 1
         /\ Tagged' /\ NoTwice' /\ ShiftSound' /\ PathsFull' /\ Counts'
         /\ k \in Stored /\ Stored' = Stored \ {k}
<1>. USE DEF MapInv
<1>1. PICK i \in Slot :
        /\ FoundAt(k, i)
        /\ tags' = [tags EXCEPT ![i] = 0]
        /\ entries' = [entries EXCEPT ![i] = Gone]
        /\ len' = len - 1
        /\ removes' = Counted
        /\ shift' = [hole |-> i, at |-> i]
  BY DEF StartRemove
<1>2. Occupied(i) /\ KeyAt(i) = k
  BY <1>1, FoundMeans
<1>3. \A j \in Slot : /\ Occupied(j)' <=> Occupied(j) /\ j # i
                      /\ j # i => entries'[j] = entries[j] /\ tags'[j] = tags[j]
  BY <1>1 DEF TypeOK, Occupied
<1>4. /\ tags' \in [Slot -> {0} \cup {TagOf(x) : x \in Key}]
      /\ entries' \in [Slot -> [key: Key, val: Val] \cup {Gone}]
      /\ shift' \in [hole: Slot, at: Slot]
  BY <1>1 DEF TypeOK
<1>5. ~Quiet' /\ shift'.hole = i /\ shift'.at = i
  <2>1. i # Cap
    BY MapConstants DEF Slot
  <2>. QED  BY <1>1, <2>1 DEF Quiet, NoShift
<1>6. Counts' /\ len' \in Nat
  <2>1. OccupiedSlots' = OccupiedSlots \ {i} /\ i \in OccupiedSlots
    BY <1>2, <1>3 DEF OccupiedSlots
  <2>2. IsFiniteSet(Slot)
    BY MapConstants, FS_Interval DEF Slot
  <2>3. IsFiniteSet(OccupiedSlots)
    BY <2>2, FS_Subset DEF OccupiedSlots
  <2>4. Cardinality(OccupiedSlots') = len - 1 /\ Cardinality(OccupiedSlots') \in Nat
    BY <2>1, <2>3, FS_RemoveElement, FS_CardinalityType DEF Counts
  <2>. QED  BY <2>4, <1>1 DEF Counts
<1>7. Tagged' /\ NoTwice'
  BY <1>3 DEF Tagged, NoTwice, KeyAt
<1>8. ShiftSound'
  BY <1>3, <1>5, MapConstants, DistType DEF ShiftSound, Walked, Dist, Slot
<1>9. PathsFull'
  <2>. SUFFICES ASSUME NEW j \in Slot, Occupied(j)',
                       NEW m \in Slot, Dist(HomeAt(j)', m) < Dist(HomeAt(j)', j), ~Occupied(m)'
                PROVE  m = i /\ ~Walked(j)'
    BY <1>5 DEF PathsFull, Dist
  <2>1. Occupied(j) /\ j # i /\ HomeAt(j)' = HomeAt(j)
    BY <1>3 DEF HomeAt
  <2>2. Occupied(m)
    BY <2>1 DEF PathsFull
  <2>3. m = i
    BY <2>2, <1>3
  <2>4. ~Walked(j)'
    BY <2>1, <1>5, MapConstants DEF Walked, Dist, Slot
  <2>. QED  BY <2>3, <2>4
<1>10. k \in Stored /\ Stored' = Stored \ {k}
  <2>1. ASSUME NEW x \in Stored', x \notin Stored \ {k}
        PROVE  FALSE
    BY <2>1, <1>2, <1>3 DEF Stored, NoTwice, KeyAt
  <2>2. ASSUME NEW x \in Stored \ {k}, x \notin Stored'
        PROVE  FALSE
    BY <2>2, <1>2, <1>3 DEF Stored, KeyAt
  <2>3. k \in Stored
    BY <1>2 DEF Stored, KeyAt
  <2>. QED  BY <2>1, <2>2, <2>3
<1>. QED  BY <1>1, <1>4, <1>5, <1>6, <1>7, <1>8, <1>9, <1>10

\* A removal is one more since replace took its slot, wrapped or not.
LEMMA CountedOnce ==
  ASSUME TypeOK
  PROVE  Counted = IF removes + 1 < RemovesWrap THEN removes + 1 ELSE 0
<1>1. /\ RemovesWrap \in Nat \ {0} /\ removes \in Nat /\ removes < RemovesWrap
      /\ removes + 1 \in 0 .. 2 * RemovesWrap - 1
  BY MapConstants DEF TypeOK
<1>2. ASSUME NEW n \in 0 .. 2 * RemovesWrap - 1
      PROVE  n % RemovesWrap = IF n < RemovesWrap THEN n ELSE n - RemovesWrap
  BY <1>1, ModOnce
<1>. QED  BY <1>1, <1>2 DEF Counted

\* A cancelled or filled order leaves the invariant, and the hold, intact.
LEMMA LeaveInv ==
  ASSUME MapInv, NEW k \in Key, Leave(k)
  PROVE  MapInv'
<1>1. Quiet /\ StartRemove(k) /\ held' = held /\ (held # NoReplace => held.key # k)
  BY DEF Leave
<1>2. /\ tags' \in [Slot -> {0} \cup {TagOf(x) : x \in Key}]
      /\ entries' \in [Slot -> [key: Key, val: Val] \cup {Gone}]
      /\ shift' \in [hole: Slot, at: Slot]
      /\ ~Quiet'
      /\ removes' = Counted
      /\ len' \in Nat /\ len' = len - 1
      /\ Tagged' /\ NoTwice' /\ ShiftSound' /\ PathsFull' /\ Counts'
      /\ k \in Stored /\ Stored' = Stored \ {k}
  BY <1>1, StartRemoveInv
<1>3. removes \in 0 .. RemovesWrap - 1 /\ len \in 0 .. LiveMax
  BY DEF MapInv, TypeOK
<1>4. removes' = IF removes + 1 < RemovesWrap THEN removes + 1 ELSE 0
  BY <1>2, CountedOnce DEF MapInv
<1>5. TypeOK'
  BY <1>1, <1>2, <1>3, <1>4, MapConstants DEF MapInv, TypeOK
<1>6. HeldSound'
  <2>. SUFFICES ASSUME held # NoReplace
                PROVE  HeldSound'
    BY <1>1 DEF HeldSound
  <2>1. held.key \in Stored' /\ Since + len <= LiveMax /\ held.removes \in 0 .. RemovesWrap - 1
    BY <1>1, <1>2 DEF MapInv, TypeOK, HeldSound
  <2>2. Since' + len' <= LiveMax /\ held.removes # removes'
    BY <2>1, <1>1, <1>2, <1>3, <1>4, MapConstants DEF Since
  <2>. QED  BY <2>1, <2>2, <1>1 DEF HeldSound
<1>. QED  BY <1>2, <1>5, <1>6 DEF MapInv

\* Removing the replaced order itself gives up the hold.
LEMMA ReplaceFilledInv ==
  ASSUME MapInv, ReplaceFilled
  PROVE  MapInv'
<1>1. Quiet /\ held.key \in Key /\ StartRemove(held.key) /\ held' = NoReplace
  BY DEF ReplaceFilled, MapInv, TypeOK
<1>2. /\ tags' \in [Slot -> {0} \cup {TagOf(x) : x \in Key}]
      /\ entries' \in [Slot -> [key: Key, val: Val] \cup {Gone}]
      /\ shift' \in [hole: Slot, at: Slot]
      /\ removes' = Counted
      /\ len' \in Nat /\ len' = len - 1
      /\ Tagged' /\ NoTwice' /\ ShiftSound' /\ PathsFull' /\ Counts'
  BY <1>1, StartRemoveInv
<1>3. removes \in 0 .. RemovesWrap - 1 /\ len \in 0 .. LiveMax
  BY DEF MapInv, TypeOK
<1>4. removes' = IF removes + 1 < RemovesWrap THEN removes + 1 ELSE 0
  BY <1>2, CountedOnce DEF MapInv
<1>. QED  BY <1>1, <1>2, <1>3, <1>4, MapConstants DEF MapInv, TypeOK, HeldSound

\* replace takes hold of the slot that has its key.
LEMMA BeginReplaceInv ==
  ASSUME MapInv, NEW k \in Key, BeginReplace(k)
  PROVE  MapInv'
<1>1. PICK i \in Slot :
        FoundAt(k, i) /\ held' = [slot |-> i, key |-> k, removes |-> removes]
  BY DEF BeginReplace
<1>2. UNCHANGED <<tags, entries, len, removes, shift>> /\ Quiet
  BY DEF BeginReplace
<1>3. Occupied(i) /\ KeyAt(i) = k
  BY <1>1, <1>2, FoundMeans DEF MapInv
<1>4. HeldSound'
  <2>1. (held.key \in Stored /\ Occupied(held.slot) /\ KeyAt(held.slot) = held.key)'
    BY <1>1, <1>2, <1>3 DEF Stored, KeyAt, Occupied
  <2>2. Since' + len' <= LiveMax
    BY <1>1, <1>2, MapConstants DEF Since, MapInv, TypeOK
  <2>. QED  BY <2>1, <2>2, <1>2 DEF HeldSound, Quiet
<1>5. TypeOK'
  BY <1>1, <1>2 DEF MapInv, TypeOK
<1>6. Tagged' /\ NoTwice' /\ ShiftSound' /\ PathsFull' /\ Counts'
  BY <1>2 DEF MapInv, Tagged, NoTwice, ShiftSound, PathsFull, Counts, OccupiedSlots, Occupied,
              KeyAt, HomeAt, Quiet, Walked, Dist
<1>. QED  BY <1>4, <1>5, <1>6 DEF MapInv
\* The slot after the last one the shift has looked at.
LEMMA NextSlotIs ==
  ASSUME TypeOK, ~Quiet
  PROVE  /\ shift.hole \in Slot /\ shift.at \in Slot
         /\ NextSlot \in Slot
         /\ NextSlot # shift.hole =>
              Dist(shift.hole, NextSlot) = Dist(shift.hole, shift.at) + 1
         /\ NextSlot = shift.hole => \A i \in Slot : Walked(i)
<1>1. shift.hole \in 0 .. Cap - 1 /\ shift.at \in 0 .. Cap - 1 /\ Cap \in Nat \ {0}
  BY MapConstants DEF TypeOK, Quiet, Slot
<1>2. shift.at + 1 \in 0 .. 2 * Cap - 1
  BY <1>1
<1>3. NextSlot = IF shift.at + 1 < Cap THEN shift.at + 1 ELSE shift.at + 1 - Cap
  BY <1>1, <1>2, ModOnce DEF NextSlot
<1>. QED  BY <1>1, <1>3 DEF Slot, Dist, Walked

\* The shift may stop at an empty slot: no path leads across the hole.
LEMMA StopShiftInv ==
  ASSUME MapInv, StopShift
  PROVE  MapInv'
<1>. USE DEF MapInv
<1>1. ~Quiet /\ Quiet' /\ ~Occupied(NextSlot) /\ UNCHANGED <<tags, entries, len, removes, held>>
  BY DEF StopShift, Quiet
<1>2. PathsFull'
  <2>. SUFFICES ASSUME NEW i \in Slot, Occupied(i),
                       NEW j \in Slot, Dist(HomeAt(i), j) < Dist(HomeAt(i), i), ~Occupied(j)
                PROVE  FALSE
    BY <1>1 DEF PathsFull, Occupied, HomeAt, Dist
  <2>1. j = shift.hole /\ ~Walked(i)
    BY DEF PathsFull
  <2>2. HomeAt(i) \in Slot
    BY MapConstants DEF Tagged, HomeAt
  <2>3. NextSlot \in Slot /\ NextSlot # shift.hole
    BY <1>1, <2>1, NextSlotIs
  <2>4. Dist(HomeAt(i), NextSlot) < Dist(HomeAt(i), i)
    BY <1>1, <2>1, <2>2, <2>3, NextSlotIs, MapConstants DEF Walked, Dist, Slot
  <2>. QED  BY <1>1, <2>3, <2>4 DEF PathsFull
<1>3. TypeOK' /\ Tagged' /\ NoTwice' /\ ShiftSound' /\ Counts'
  BY <1>1 DEF TypeOK, Tagged, NoTwice, ShiftSound, Counts, OccupiedSlots, Occupied, KeyAt, Quiet
<1>4. HeldSound'
  BY <1>1 DEF HeldSound, Stored, Since, Occupied, KeyAt
<1>. QED  BY <1>2, <1>3, <1>4

\* An entry that may not move has the hole behind it on no path.
LEMMA SkipEntryInv ==
  ASSUME MapInv, SkipEntry
  PROVE  MapInv'
<1>. USE DEF MapInv
<1>1. /\ ~Quiet /\ Occupied(NextSlot)
      /\ InInterval(HomeAt(NextSlot), shift.hole, NextSlot)
      /\ shift' = [shift EXCEPT !.at = NextSlot]
      /\ UNCHANGED <<tags, entries, len, removes, held>>
  BY DEF SkipEntry, Skipped, Quiet, HomeAt
<1>2. NextSlot \in Slot /\ shift.hole \in Slot /\ NextSlot # shift.hole
  BY <1>1, NextSlotIs DEF ShiftSound
<1>3. shift'.hole = shift.hole /\ shift'.at = NextSlot /\ shift' \in [hole: Slot, at: Slot]
  BY <1>1, <1>2 DEF TypeOK, Quiet
<1>4. ~Quiet'
  BY <1>3, MapConstants DEF Quiet, NoShift, Slot
<1>5. \A i \in Slot : Walked(i)' <=> Walked(i) \/ i = NextSlot
  <2>1. Dist(shift.hole, NextSlot) = Dist(shift.hole, shift.at) + 1
    BY <1>1, <1>2, NextSlotIs
  <2>2. shift.at \in Slot
    BY <1>1, NextSlotIs
  <2>3. \A i \in Slot : Walked(i)' <=> Dist(shift.hole, i) <= Dist(shift.hole, NextSlot)
    BY <1>3 DEF Walked, Dist
  <2>4. \A i \in Slot : /\ Dist(shift.hole, i) \in Int
                        /\ Dist(shift.hole, i) = Dist(shift.hole, NextSlot) => i = NextSlot
    BY <1>2, DistType
  <2>. QED  BY <2>1, <2>2, <2>3, <2>4 DEF Walked
<1>6. ShiftSound'
  BY <1>1, <1>2, <1>3, <1>5 DEF ShiftSound, Occupied
<1>7. PathsFull'
  <2>. SUFFICES ASSUME NEW i \in Slot, Occupied(i),
                       NEW j \in Slot, Dist(HomeAt(i), j) < Dist(HomeAt(i), i), ~Occupied(j)
                PROVE  j = shift.hole /\ ~Walked(i) /\ i # NextSlot
    BY <1>1, <1>3, <1>4, <1>5 DEF PathsFull, Occupied, HomeAt, Dist
  <2>1. j = shift.hole /\ ~Walked(i)
    BY DEF PathsFull
  <2>2. HomeAt(i) \in Slot
    BY MapConstants DEF Tagged, HomeAt
  <2>3. i # NextSlot
    BY <1>1, <1>2, <2>1, <2>2, MapConstants DEF InInterval, Dist, Slot
  <2>. QED  BY <2>1, <2>3
<1>8. TypeOK' /\ Tagged' /\ NoTwice' /\ Counts'
  BY <1>1, <1>3 DEF TypeOK, Tagged, NoTwice, Counts, OccupiedSlots, Occupied, KeyAt
<1>9. HeldSound'
  BY <1>1, <1>4 DEF HeldSound, Stored, Since, Occupied, KeyAt
<1>. QED  BY <1>6, <1>7, <1>8, <1>9

\* An entry that probed past the hole goes into it and leaves the hole.
LEMMA MoveEntryInv ==
  ASSUME MapInv, MoveEntry
  PROVE  MapInv'
<1>. USE DEF MapInv
<1>. DEFINE h == shift.hole
            n == NextSlot
<1>1. /\ ~Quiet /\ Occupied(n)
      /\ ~InInterval(HomeAt(n), h, n)
      /\ tags' = [tags EXCEPT ![h] = tags[n], ![n] = 0]
      /\ entries' = [entries EXCEPT ![h] = entries[n], ![n] = Gone]
      /\ shift' = [hole |-> n, at |-> n]
      /\ UNCHANGED <<len, removes, held>>
  BY DEF MoveEntry, Quiet, HomeAt
<1>2. n \in Slot /\ h \in Slot /\ n # h /\ ~Occupied(h)
  BY <1>1, NextSlotIs DEF ShiftSound
<1>. HIDE DEF h, n
<1>3. /\ \A i \in Slot \ {h, n} : tags'[i] = tags[i] /\ entries'[i] = entries[i]
      /\ tags'[h] = tags[n] /\ entries'[h] = entries[n]
      /\ tags'[n] = 0
  BY <1>1, <1>2 DEF TypeOK
<1>4. \A i \in Slot : Occupied(i)' <=> i = h \/ (i # n /\ Occupied(i))
  BY <1>1, <1>2, <1>3 DEF Occupied
<1>5. /\ tags' \in [Slot -> {0} \cup {TagOf(x) : x \in Key}]
      /\ entries' \in [Slot -> [key: Key, val: Val] \cup {Gone}]
  BY <1>1, <1>2 DEF TypeOK
<1>6. shift'.hole = n /\ shift'.at = n /\ shift' \in [hole: Slot, at: Slot] /\ ~Quiet'
  <2>1. n # Cap
    BY <1>2, MapConstants DEF Slot
  <2>. QED  BY <1>1, <1>2, <2>1 DEF Quiet, NoShift
<1>7. TypeOK' /\ Tagged'
  <2>1. Tagged'
    BY <1>1, <1>2, <1>3, <1>4, ZenonT(30) DEF Tagged, KeyAt
  <2>. QED  BY <2>1, <1>1, <1>5, <1>6 DEF TypeOK
<1>8. NoTwice' /\ Stored' = Stored
  <2>1. NoTwice'
    BY <1>1, <1>2, <1>3, <1>4 DEF NoTwice, KeyAt
  <2>2. ASSUME NEW x \in Stored, x \notin Stored'
        PROVE  FALSE
    <3>1. PICK i \in Slot : Occupied(i) /\ x = entries[i].key
      BY <2>2 DEF Stored
    <3>2. PICK j \in Slot : Occupied(j)' /\ x = entries'[j].key
      BY <3>1, <1>1, <1>2, <1>3, <1>4
    <3>. QED  BY <2>2, <3>2 DEF Stored
  <2>3. ASSUME NEW x \in Stored', x \notin Stored
        PROVE  FALSE
    <3>1. PICK j \in Slot : Occupied(j)' /\ x = entries'[j].key
      BY <2>3 DEF Stored
    <3>2. PICK i \in Slot : Occupied(i) /\ x = entries[i].key
      BY <3>1, <1>1, <1>2, <1>3, <1>4
    <3>. QED  BY <2>3, <3>2 DEF Stored
  <2>. QED  BY <2>1, <2>2, <2>3
<1>9. Counts'
  <2>1. OccupiedSlots' = (OccupiedSlots \ {n}) \cup {h} /\ n \in OccupiedSlots /\ h \notin OccupiedSlots
    BY <1>1, <1>2, <1>4 DEF OccupiedSlots
  <2>2. IsFiniteSet(Slot)
    BY MapConstants, FS_Interval DEF Slot
  <2>3. IsFiniteSet(OccupiedSlots)
    BY <2>2, FS_Subset DEF OccupiedSlots
  <2>4. /\ IsFiniteSet(OccupiedSlots \ {n}) /\ Cardinality(OccupiedSlots \ {n}) = len - 1
        /\ h \notin OccupiedSlots \ {n}
    BY <2>1, <2>3, FS_RemoveElement DEF Counts
  <2>5. Cardinality(OccupiedSlots') = len - 1 + 1
    BY <2>1, <2>4, FS_AddElement
  <2>. QED  BY <2>5, <1>1 DEF Counts, TypeOK
<1>10. ShiftSound'
  BY <1>2, <1>4, <1>6, MapConstants, DistType DEF ShiftSound, Walked, Dist, Slot
<1>11. PathsFull'
  <2>. SUFFICES ASSUME NEW i \in Slot, Occupied(i)',
                       NEW j \in Slot, Dist(HomeAt(i)', j) < Dist(HomeAt(i)', i), ~Occupied(j)'
                PROVE  j = n /\ i # n
    BY <1>6, MapConstants DEF PathsFull, Dist, Walked, Slot
  <2>1. i # n /\ j # h
    BY <1>2, <1>4
  <2>2. CASE i = h
    <3>1. HomeAt(i)' = HomeAt(n) /\ HomeAt(n) \in Slot
      BY <2>2, <1>1, <1>2, <1>3, MapConstants DEF HomeAt, Tagged
    <3>2. Dist(HomeAt(n), j) < Dist(HomeAt(n), n)
      BY <2>2, <3>1, <1>1, <1>2, MapConstants DEF InInterval, Dist, Slot
    <3>3. Occupied(j)
      BY <3>2, <2>1, <1>1, <1>2 DEF PathsFull, h
    <3>. QED  BY <3>3, <2>1, <1>4
  <2>3. CASE i # h
    <3>1. Occupied(i) /\ HomeAt(i)' = HomeAt(i)
      BY <2>1, <2>3, <1>3, <1>4 DEF HomeAt
    <3>2. Occupied(j)
      BY <3>1, <2>1 DEF PathsFull, h
    <3>. QED  BY <3>2, <2>1, <1>4
  <2>. QED  BY <2>2, <2>3
<1>12. HeldSound'
  BY <1>1, <1>8 DEF HeldSound, Since
<1>. QED  BY <1>7, <1>8, <1>9, <1>10, <1>11, <1>12
----------------------------------------------------------------------------
\* The theorems

\* Every step keeps the invariant.
LEMMA StepInv ==
  ASSUME MapInv, [Next]_vars
  PROVE  MapInv'
<1>1. ASSUME NEW k \in Key, NEW v \in Val, Rest(k, v)
      PROVE  MapInv'
  BY <1>1, RestInv
<1>2. ASSUME NEW k \in Key, Leave(k)
      PROVE  MapInv'
  BY <1>2, LeaveInv
<1>3. ASSUME NEW k \in Key, BeginReplace(k)
      PROVE  MapInv'
  BY <1>3, BeginReplaceInv
<1>4. ASSUME NEW v \in Val, WriteThrough(v)
      PROVE  MapInv'
  BY <1>4, WriteThroughInv
<1>5. ASSUME NEW v \in Val, WriteAgain(v)
      PROVE  MapInv'
  BY <1>5, WriteAgainInv
<1>6. CASE ReplaceFilled
  BY <1>6, ReplaceFilledInv
<1>7. CASE Shift
  BY <1>7, StopShiftInv, SkipEntryInv, MoveEntryInv DEF Shift
<1>8. CASE UNCHANGED vars
  BY <1>8 DEF vars, MapInv, TypeOK, Tagged, NoTwice, ShiftSound, PathsFull, Counts, HeldSound,
             OccupiedSlots, Stored, Since, Walked, Dist, HomeAt, KeyAt, Occupied, Quiet
<1>. QED  BY <1>1, <1>2, <1>3, <1>4, <1>5, <1>6, <1>7, <1>8 DEF Next

\* The invariant of the map, whatever its constants.
LEMMA MapInvariant == Spec => []MapInv
<1>1. Init => MapInv
  BY InitInv
<1>2. MapInv /\ [Next]_vars => MapInv'
  BY StepInv
<1>. QED  BY <1>1, <1>2, PTL DEF Spec

\* The fields of the table keep their types: len never exceeds max_orders,
\* although insert does not check it.
THEOREM MapTypeOK == Spec => []TypeOK
<1>1. MapInv => TypeOK
  BY DEF MapInv
<1>. QED  BY <1>1, MapInvariant, PTL

\* Between operations a lookup finds every stored key in the one slot that
\* holds it, whatever collided and whatever remove shifted before.
THEOREM MapLookupFindsStored == Spec => []LookupFindsStored
<1>1. MapInv => LookupFindsStored
  BY FindsStored DEF MapInv, LookupFindsStored, Tagged, KeyAt
<1>. QED  BY <1>1, MapInvariant, PTL

\* Every probe ends, in the middle of a removal as well, and len counts the
\* entries.
THEOREM MapProbesEnd == Spec => []ProbesEnd
<1>1. MapInv => ProbesEnd
  <2>. SUFFICES ASSUME MapInv
                PROVE  ProbesEnd
    OBVIOUS
  <2>1. \A k \in Key : \E i \in Slot : StopsAt(k, i)
    BY EmptySlot, ProbeStops DEF MapInv
  <2>. QED  BY <2>1 DEF ProbesEnd, MapInv, Counts, OccupiedSlots
<1>. QED  BY <1>1, MapInvariant, PTL

\* The slot replace found before the fills is the one of its key whenever the
\* removal counter says so, although the counter wraps.
THEOREM MapHeldSlotValid == Spec => []HeldSlotValid
<1>1. MapInv => HeldSlotValid
  <2>. SUFFICES ASSUME MapInv, Quiet, held # NoReplace, held.removes = removes
                PROVE  FoundAt(held.key, held.slot)
    BY DEF HeldSlotValid
  <2>1. /\ held.slot \in Slot /\ held.key \in Key
        /\ Occupied(held.slot) /\ KeyAt(held.slot) = held.key
    BY DEF MapInv, TypeOK, HeldSound
  <2>. QED  BY <2>1, FoundMeans DEF MapInv
<1>. QED  BY <1>1, MapInvariant, PTL
----------------------------------------------------------------------------
\* The table implements the dictionary

\* The function the table stands for, said by its slots.
DictExact ==
  /\ Dict = [k \in Stored |-> Dict[k]]
  /\ \A i \in Slot : Occupied(i) => KeyAt(i) \in Stored /\ Dict[KeyAt(i)] = entries[i].val
  /\ \A k \in Stored : \E i \in Slot : Occupied(i) /\ KeyAt(i) = k

\* The invariant gives the dictionary by slots.
LEMMA DictIs == MapInv => DictExact
<1>. SUFFICES ASSUME MapInv
              PROVE  DictExact
  OBVIOUS
<1>1. ASSUME NEW i \in Slot, Occupied(i)
      PROVE  KeyAt(i) \in Stored /\ Dict[KeyAt(i)] = entries[i].val
  <2>. DEFINE k == KeyAt(i)
  <2>1. k \in Key /\ k \in Stored /\ Holds(i, k)
    BY <1>1 DEF MapInv, Tagged, Stored, KeyAt, Holds
  <2>2. \A j \in Slot : Holds(j, k) => Occupied(j)
    BY <2>1, MapConstants DEF Holds, Occupied
  <2>3. \A j \in Slot : Holds(j, k) => j = i
    BY <1>1, <2>2 DEF MapInv, NoTwice, Holds, KeyAt
  <2>4. (CHOOSE j \in Slot : Holds(j, k)) = i
    BY <2>1, <2>3
  <2>. QED  BY <2>1, <2>4 DEF Dict
<1>2. \A k \in Stored : \E i \in Slot : Occupied(i) /\ KeyAt(i) = k
  BY DEF Stored, KeyAt
<1>3. Dict = [k \in Stored |-> Dict[k]]
  BY DEF Dict
<1>. QED  BY <1>1, <1>2, <1>3 DEF DictExact

LEMMA DictIsNext == MapInv' => DictExact'
BY DictIs, PTL

\* As many keys as entries.
LEMMA StoredCount ==
  ASSUME MapInv
  PROVE  Cardinality(Stored) = len
<1>. DEFINE f == [i \in OccupiedSlots |-> KeyAt(i)]
<1>1. IsFiniteSet(Slot)
  BY MapConstants, FS_Interval DEF Slot
<1>2. IsFiniteSet(OccupiedSlots)
  BY <1>1, FS_Subset DEF OccupiedSlots
<1>3. f \in Surjection(OccupiedSlots, Stored)
  BY DEF Surjection, OccupiedSlots, Stored, KeyAt
<1>4. f \in Injection(OccupiedSlots, Stored)
  BY <1>3 DEF Surjection, Injection, IsInjective, OccupiedSlots, MapInv, NoTwice
<1>5. Cardinality(Stored) = Cardinality(OccupiedSlots)
  BY <1>2, <1>3, <1>4, FS_Surjection
<1>. QED  BY <1>5 DEF MapInv, Counts

\* An insertion adds its key.
LEMMA RestAdds ==
  ASSUME MapInv, DictExact, DictExact', NEW k \in Key, NEW v \in Val, Rest(k, v)
  PROVE  k \in Key \ DOMAIN Dict /\ Contract!Add(k, v)
<1>1. PICK i \in Slot :
        /\ StopsAt(k, i)
        /\ tags' = [tags EXCEPT ![i] = TagOf(k)]
        /\ entries' = [entries EXCEPT ![i] = [key |-> k, val |-> v]]
  BY DEF Rest, Insert
<1>2. Quiet /\ Quiet' /\ held = NoReplace /\ held' = NoReplace /\ len < LiveMax
  BY DEF Rest, Quiet
<1>3. \A j \in Slot : Occupied(j) => KeyAt(j) # k
  BY <1>2, FoundMeans DEF Rest, Found, MapInv
<1>4. ~Occupied(i)
  BY <1>1 DEF Rest, Found, FoundAt
<1>5. \A j \in Slot : /\ Occupied(j)' <=> Occupied(j) \/ j = i
                      /\ entries'[j] = IF j = i THEN [key |-> k, val |-> v] ELSE entries[j]
  BY <1>1, MapConstants DEF MapInv, TypeOK, Occupied
<1>6. DOMAIN Dict = Stored /\ k \notin Stored
  BY <1>3 DEF DictExact
<1>7. Stored' = Stored \cup {k}
  <2>1. ASSUME NEW x \in Stored'
        PROVE  x \in Stored \cup {k}
    <3>1. PICK j \in Slot : Occupied(j)' /\ KeyAt(j)' = x
      BY DEF DictExact
    <3>. QED  BY <3>1, <1>5 DEF DictExact, KeyAt
  <2>2. ASSUME NEW x \in Stored \cup {k}
        PROVE  x \in Stored'
    <3>1. CASE x = k
      BY <3>1, <1>5 DEF DictExact, KeyAt
    <3>2. CASE x \in Stored
      <4>1. PICK j \in Slot : Occupied(j) /\ KeyAt(j) = x
        BY <3>2 DEF DictExact
      <4>2. Occupied(j)' /\ KeyAt(j)' = x
        BY <4>1, <1>4, <1>5 DEF KeyAt
      <4>. QED  BY <4>2 DEF DictExact
    <3>. QED  BY <3>1, <3>2
  <2>. QED  BY <2>1, <2>2
<1>8. Dict' = [x \in Stored \cup {k} |-> IF x = k THEN v ELSE Dict[x]]
  <2>1. ASSUME NEW x \in Stored'
        PROVE  Dict'[x] = IF x = k THEN v ELSE Dict[x]
    <3>1. PICK j \in Slot : Occupied(j)' /\ KeyAt(j)' = x
      BY DEF DictExact
    <3>2. Dict'[x] = entries'[j].val
      BY <3>1 DEF DictExact
    <3>. QED  BY <3>1, <3>2, <1>3, <1>5 DEF DictExact, KeyAt
  <2>2. Dict' = [x \in Stored' |-> Dict'[x]]
    BY DEF DictExact
  <2>. QED  BY <2>1, <2>2, <1>7
<1>9. Contract!Cardinality(DOMAIN Dict) < LiveMax
  <2>1. Contract!Cardinality(Stored) = Cardinality(Stored)
    BY DEF Contract!Cardinality, Cardinality, Contract!IsFiniteSet, IsFiniteSet
  <2>. QED  BY <1>2, <1>6, <2>1, StoredCount
<1>. QED  BY <1>2, <1>6, <1>8, <1>9 DEF Contract!Add

\* A removal takes its key away at once.
LEMMA RemoveDrops ==
  ASSUME MapInv, Quiet, DictExact, DictExact', NEW k \in Key, StartRemove(k)
  PROVE  k \in DOMAIN Dict /\ Dict' = [x \in DOMAIN Dict \ {k} |-> Dict[x]] /\ ~Quiet'
<1>1. PICK i \in Slot :
        /\ FoundAt(k, i)
        /\ tags' = [tags EXCEPT ![i] = 0]
        /\ entries' = [entries EXCEPT ![i] = Gone]
  BY DEF StartRemove
<1>2. Stored' = Stored \ {k} /\ k \in Stored /\ ~Quiet' /\ DOMAIN Dict = Stored
  BY StartRemoveInv DEF DictExact
<1>3. \A j \in Slot : /\ Occupied(j)' <=> Occupied(j) /\ j # i
                      /\ j # i => entries'[j] = entries[j]
  BY <1>1 DEF MapInv, TypeOK, Occupied
<1>4. ASSUME NEW x \in Stored'
      PROVE  Dict'[x] = Dict[x]
  <2>1. PICK j \in Slot : Occupied(j)' /\ KeyAt(j)' = x
    BY DEF DictExact
  <2>2. Dict'[x] = entries'[j].val
    BY <2>1 DEF DictExact
  <2>. QED  BY <2>1, <2>2, <1>3 DEF DictExact, KeyAt
<1>5. Dict' = [x \in Stored' |-> Dict'[x]]
  BY DEF DictExact
<1>. QED  BY <1>2, <1>4, <1>5

\* Writing back the location of a replaced order changes that entry alone.
LEMMA WriteRedirects ==
  ASSUME MapInv, DictExact, DictExact', NEW i \in Slot, NEW v \in Val, Occupied(i),
         tags' = tags, entries' = [entries EXCEPT ![i] = [key |-> KeyAt(i), val |-> v]]
  PROVE  Dict' = [Dict EXCEPT ![KeyAt(i)] = v]
<1>1. \A j \in Slot : /\ Occupied(j)' <=> Occupied(j)
                      /\ j # i => entries'[j] = entries[j]
                      /\ entries'[i] = [key |-> KeyAt(i), val |-> v]
  BY DEF MapInv, TypeOK, Occupied
<1>2. \A j \in Slot : KeyAt(j)' = KeyAt(j)
  BY <1>1 DEF KeyAt
<1>3. Stored' = Stored
  <2>1. ASSUME NEW x \in Stored'
        PROVE  x \in Stored
    <3>1. PICK j \in Slot : Occupied(j)' /\ KeyAt(j)' = x
      BY DEF DictExact
    <3>2. Occupied(j) /\ KeyAt(j) = x
      BY <3>1, <1>1, <1>2
    <3>. QED  BY <3>2 DEF DictExact
  <2>2. ASSUME NEW x \in Stored
        PROVE  x \in Stored'
    <3>1. PICK j \in Slot : Occupied(j) /\ KeyAt(j) = x
      BY DEF DictExact
    <3>2. Occupied(j)' /\ KeyAt(j)' = x
      BY <3>1, <1>1, <1>2
    <3>. QED  BY <3>2 DEF DictExact
  <2>. QED  BY <2>1, <2>2
<1>4. ASSUME NEW x \in Stored'
      PROVE  Dict'[x] = IF x = KeyAt(i) THEN v ELSE Dict[x]
  <2>1. PICK j \in Slot : Occupied(j)' /\ KeyAt(j)' = x
    BY DEF DictExact
  <2>2. Dict'[x] = entries'[j].val
    BY <2>1 DEF DictExact
  <2>3. Occupied(j) /\ KeyAt(j) = x
    BY <2>1, <1>1, <1>2
  <2>4. CASE j = i
    BY <2>2, <2>3, <2>4, <1>1
  <2>5. CASE j # i
    <3>1. x # KeyAt(i)
      BY <2>3, <2>5 DEF MapInv, NoTwice
    <3>2. Dict[x] = entries[j].val
      BY <2>3 DEF DictExact
    <3>. QED  BY <2>2, <2>5, <3>1, <3>2, <1>1
  <2>. QED  BY <2>4, <2>5
<1>5. Dict' = [x \in Stored' |-> Dict'[x]] /\ Dict = [x \in Stored |-> Dict[x]]
  BY DEF DictExact
<1>. QED  BY <1>3, <1>4, <1>5

\* What does not touch the slots does not touch the dictionary.
LEMMA DictSame ==
  ASSUME DictExact, DictExact', tags' = tags, entries' = entries
  PROVE  Dict' = Dict /\ DOMAIN Dict = Stored
<1>1. \A i \in Slot : (Occupied(i)' <=> Occupied(i)) /\ KeyAt(i)' = KeyAt(i)
  BY DEF Occupied, KeyAt
<1>2. Stored' = Stored
  BY DEF Stored, Occupied
<1>3. ASSUME NEW x \in Stored
      PROVE  Dict'[x] = Dict[x]
  <2>1. PICK j \in Slot : Occupied(j) /\ KeyAt(j) = x
    BY DEF DictExact
  <2>2. Dict[x] = entries[j].val
    BY <2>1 DEF DictExact
  <2>3. Dict'[x] = entries'[j].val
    BY <2>1, <1>1 DEF DictExact
  <2>. QED  BY <2>2, <2>3
<1>4. Dict' = [x \in Stored' |-> Dict'[x]] /\ Dict = [x \in Stored |-> Dict[x]]
  BY DEF DictExact
<1>. QED  BY <1>2, <1>3, <1>4

\* While the shift is at work the dictionary stays as it is.
LEMMA ShiftUnseen ==
  ASSUME MapInv, DictExact, DictExact', Shift
  PROVE  Dict' = Dict
<1>1. CASE StopShift \/ SkipEntry
  BY <1>1, DictSame DEF StopShift, SkipEntry
<1>2. CASE MoveEntry
  <2>. DEFINE h == shift.hole
              n == NextSlot
  <2>1. /\ ~Quiet /\ Occupied(n)
        /\ tags' = [tags EXCEPT ![h] = tags[n], ![n] = 0]
        /\ entries' = [entries EXCEPT ![h] = entries[n], ![n] = Gone]
    BY <1>2 DEF MoveEntry, Quiet
  <2>2. n \in Slot /\ h \in Slot /\ n # h /\ ~Occupied(h)
    BY <2>1, NextSlotIs DEF MapInv, ShiftSound
  <2>. HIDE DEF h, n
  <2>3. \A i \in Slot :
          /\ Occupied(i)' <=> i = h \/ (i # n /\ Occupied(i))
          /\ i \notin {h, n} => entries'[i] = entries[i]
          /\ entries'[h] = entries[n]
    BY <2>1, <2>2 DEF MapInv, TypeOK, Occupied
  <2>4. \A j \in Slot : Occupied(j)' =>
          \E i \in Slot : Occupied(i) /\ entries'[j] = entries[i]
    BY <2>1, <2>2, <2>3
  <2>5. \A i \in Slot : Occupied(i) =>
          \E j \in Slot : Occupied(j)' /\ entries'[j] = entries[i]
    BY <2>1, <2>2, <2>3
  <2>6. ASSUME NEW x \in Stored'
        PROVE  x \in Stored /\ Dict'[x] = Dict[x]
    <3>1. PICK j \in Slot : Occupied(j)' /\ KeyAt(j)' = x
      BY DEF DictExact
    <3>2. Dict'[x] = entries'[j].val
      BY <3>1 DEF DictExact
    <3>3. PICK i \in Slot : Occupied(i) /\ entries'[j] = entries[i]
      BY <3>1, <2>4
    <3>. QED  BY <3>1, <3>2, <3>3 DEF DictExact, KeyAt
  <2>7. ASSUME NEW x \in Stored
        PROVE  x \in Stored'
    <3>1. PICK i \in Slot : Occupied(i) /\ KeyAt(i) = x
      BY DEF DictExact
    <3>2. PICK j \in Slot : Occupied(j)' /\ entries'[j] = entries[i]
      BY <3>1, <2>5
    <3>. QED  BY <3>1, <3>2 DEF DictExact, KeyAt
  <2>. QED  BY <2>6, <2>7 DEF DictExact
<1>. QED  BY <1>1, <1>2 DEF Shift

\* The dictionary is a function to locations, and what a lookup finds between
\* operations.
LEMMA DictTyped ==
  ASSUME MapInv
  PROVE  /\ Dict \in [Stored -> Val] /\ Stored \subseteq Key
         /\ DOMAIN Dict = Stored
<1>1. DictExact
  BY DictIs
<1>2. ASSUME NEW k \in Stored
      PROVE  k \in Key /\ Dict[k] \in Val
  <2>1. PICK i \in Slot : Occupied(i) /\ KeyAt(i) = k
    BY <1>1 DEF DictExact
  <2>. QED  BY <1>1, <2>1 DEF DictExact, MapInv, Tagged, KeyAt
<1>. QED  BY <1>2 DEF Dict

LEMMA LookupSeen ==
  ASSUME MapInv, Quiet, NEW k \in Key
  PROVE  /\ Found(k) <=> k \in Stored
         /\ Found(k) => entries[CHOOSE i \in Slot : FoundAt(k, i)].val = Dict[k]
<1>1. DictExact
  BY DictIs
<1>2. \A i \in Slot : FoundAt(k, i) <=> Occupied(i) /\ KeyAt(i) = k
  BY FoundMeans DEF MapInv
<1>3. Found(k) <=> k \in Stored
  BY <1>1, <1>2 DEF Found, DictExact
<1>4. ASSUME NEW i \in Slot, FoundAt(k, i)
      PROVE  entries[CHOOSE j \in Slot : FoundAt(k, j)].val = Dict[k]
  <2>1. FoundAt(k, CHOOSE j \in Slot : FoundAt(k, j)) /\ (CHOOSE j \in Slot : FoundAt(k, j)) \in Slot
    BY <1>4
  <2>. QED  BY <1>1, <1>2, <2>1 DEF DictExact
<1>. QED  BY <1>3, <1>4 DEF Found

\* What each operation does to the dictionary.
LEMMA RestSeen ==
  ASSUME MapInv, NEW k \in Key, NEW v \in Val, Rest(k, v)
  PROVE  /\ MapInv' /\ held = NoReplace /\ held' = NoReplace /\ Quiet /\ Quiet'
         /\ k \notin Stored /\ len < LiveMax
         /\ Dict' = [x \in Stored \cup {k} |-> IF x = k THEN v ELSE Dict[x]]
         /\ Contract!Add(k, v)
<1>1. MapInv' /\ DictExact /\ DictExact'
  <2>1. MapInv'
    BY RestInv
  <2>. QED  BY <2>1, DictIs, DictIsNext
<1>2. k \in Key \ DOMAIN Dict /\ Contract!Add(k, v)
  BY <1>1, RestAdds
<1>3. DOMAIN Dict = Stored
  BY DictTyped
<1>4. held = NoReplace /\ held' = NoReplace /\ Quiet /\ Quiet' /\ len < LiveMax
  BY DEF Rest, Quiet
<1>. QED  BY <1>1, <1>2, <1>3, <1>4 DEF Contract!Add

LEMMA LeaveSeen ==
  ASSUME MapInv, NEW k \in Key, Leave(k)
  PROVE  /\ MapInv' /\ held' = held /\ Quiet /\ ~Quiet'
         /\ k \in Stored /\ (held # NoReplace => held.key # k)
         /\ Dict' = [x \in Stored \ {k} |-> Dict[x]]
<1>1. Quiet /\ StartRemove(k) /\ held' = held /\ (held # NoReplace => held.key # k)
  BY DEF Leave
<1>2. MapInv' /\ DictExact /\ DictExact'
  <2>1. MapInv'
    BY LeaveInv
  <2>. QED  BY <2>1, DictIs, DictIsNext
<1>3. DOMAIN Dict = Stored
  BY DictTyped
<1>. QED  BY <1>1, <1>2, <1>3, RemoveDrops

LEMMA BeginReplaceSeen ==
  ASSUME MapInv, NEW k \in Key, BeginReplace(k)
  PROVE  /\ MapInv' /\ held = NoReplace /\ held' # NoReplace /\ held'.key = k
         /\ Quiet /\ Quiet' /\ k \in Stored /\ Dict' = Dict
<1>1. PICK i \in Slot :
        FoundAt(k, i) /\ held' = [slot |-> i, key |-> k, removes |-> removes]
  BY DEF BeginReplace
<1>2. UNCHANGED <<tags, entries, len, removes, shift>> /\ Quiet /\ Quiet' /\ held = NoReplace
  BY DEF BeginReplace, Quiet
<1>3. MapInv' /\ DictExact /\ DictExact'
  <2>1. MapInv'
    BY BeginReplaceInv
  <2>. QED  BY <2>1, DictIs, DictIsNext
<1>4. Occupied(i) /\ KeyAt(i) = k
  BY <1>1, <1>2, FoundMeans DEF MapInv
<1>5. k \in Stored /\ Dict' = Dict
  BY <1>2, <1>3, <1>4, DictSame DEF DictExact
<1>6. held' # NoReplace /\ held'.key = k
  <2>1. i # Cap
    BY MapConstants DEF Slot
  <2>. QED  BY <1>1, <2>1 DEF NoReplace
<1>. QED  BY <1>2, <1>3, <1>5, <1>6

LEMMA WriteSeen ==
  ASSUME MapInv, NEW v \in Val, WriteThrough(v) \/ WriteAgain(v)
  PROVE  /\ MapInv' /\ held # NoReplace /\ held' = NoReplace /\ Quiet /\ Quiet'
         /\ held.key \in Stored /\ Dict' = [Dict EXCEPT ![held.key] = v]
<1>1. held # NoReplace /\ held' = NoReplace /\ Quiet /\ Quiet'
  BY DEF WriteThrough, WriteAgain, Quiet
<1>2. MapInv' /\ DictExact /\ DictExact'
  <2>1. MapInv'
    BY WriteThroughInv, WriteAgainInv
  <2>. QED  BY <2>1, DictIs, DictIsNext
<1>3. held.key \in Stored
  BY <1>1 DEF MapInv, HeldSound
<1>4. CASE WriteThrough(v)
  <2>1. /\ held.slot \in Slot /\ Occupied(held.slot) /\ KeyAt(held.slot) = held.key
    BY <1>1, <1>4 DEF MapInv, TypeOK, HeldSound, WriteThrough
  <2>2. entries[held.slot] \in [key: Key, val: Val]
    BY <2>1 DEF MapInv, Tagged
  <2>3. [entries[held.slot] EXCEPT !.val = v] = [key |-> KeyAt(held.slot), val |-> v]
    BY <2>2 DEF KeyAt
  <2>4. entries' = [entries EXCEPT ![held.slot] = [key |-> KeyAt(held.slot), val |-> v]]
    BY <1>4, <2>3 DEF WriteThrough
  <2>5. Dict' = [Dict EXCEPT ![held.key] = v]
    BY <1>2, <1>4, <2>1, <2>4, WriteRedirects DEF WriteThrough
  <2>. QED  BY <1>1, <1>2, <1>3, <2>5
<1>5. CASE WriteAgain(v)
  <2>1. PICK i \in Slot :
          /\ Occupied(i) /\ KeyAt(i) = held.key /\ tags' = tags
          /\ entries' = [entries EXCEPT ![i] = [key |-> held.key, val |-> v]]
    BY <1>5, AgainSameSlot
  <2>2. Dict' = [Dict EXCEPT ![held.key] = v]
    BY <1>2, <2>1, WriteRedirects
  <2>. QED  BY <1>1, <1>2, <1>3, <2>2
<1>. QED  BY <1>4, <1>5

LEMMA ReplaceFilledSeen ==
  ASSUME MapInv, ReplaceFilled
  PROVE  /\ MapInv' /\ held # NoReplace /\ held' = NoReplace /\ Quiet /\ ~Quiet'
         /\ held.key \in Stored /\ Dict' = [x \in Stored \ {held.key} |-> Dict[x]]
<1>1. /\ Quiet /\ held # NoReplace /\ held.key \in Key /\ StartRemove(held.key)
      /\ held' = NoReplace
  BY DEF ReplaceFilled, MapInv, TypeOK
<1>2. MapInv' /\ DictExact /\ DictExact'
  <2>1. MapInv'
    BY ReplaceFilledInv
  <2>. QED  BY <2>1, DictIs, DictIsNext
<1>3. DOMAIN Dict = Stored
  BY DictTyped
<1>. QED  BY <1>1, <1>2, <1>3, RemoveDrops

LEMMA ShiftSeen ==
  ASSUME MapInv, Shift
  PROVE  MapInv' /\ held' = held /\ ~Quiet /\ Dict' = Dict
<1>1. MapInv'
  BY StepInv DEF Next
<1>2. DictExact /\ DictExact'
  BY <1>1, DictIs, DictIsNext
<1>3. held' = held /\ ~Quiet
  BY DEF Shift, StopShift, SkipEntry, MoveEntry, Quiet
<1>. QED  BY <1>1, <1>2, <1>3, ShiftUnseen

\* Every step of the map is a step of the dictionary or stutters there.
LEMMA StepImplements ==
  ASSUME MapInv, [Next]_vars
  PROVE  [Contract!DictNext]_(Contract!dictVars)
<1>. DEFINE pending == IF held = NoReplace THEN {} ELSE {held.key}
<1>0. DOMAIN Dict = Stored
  BY DictTyped
<1>1. ASSUME NEW k \in Key, NEW v \in Val, Rest(k, v)
      PROVE  Contract!DictNext
  BY <1>0, <1>1, RestSeen DEF Contract!DictNext
<1>2. ASSUME NEW k \in Key, Leave(k)
      PROVE  Contract!DictNext
  <2>1. k \in DOMAIN Dict \ pending /\ Contract!Drop(k)
    BY <1>0, <1>2, LeaveSeen DEF Contract!Drop, Contract!Without
  <2>. QED  BY <2>1 DEF Contract!DictNext
<1>3. ASSUME NEW k \in Key, BeginReplace(k)
      PROVE  Contract!DictNext
  <2>1. k \in DOMAIN Dict /\ Contract!Hold(k)
    BY <1>0, <1>3, BeginReplaceSeen DEF Contract!Hold
  <2>. QED  BY <2>1 DEF Contract!DictNext
<1>4. ASSUME NEW v \in Val, WriteThrough(v) \/ WriteAgain(v)
      PROVE  Contract!DictNext
  <2>1. held.key \in pending /\ Contract!Redirect(held.key, v)
    BY <1>4, WriteSeen DEF Contract!Redirect
  <2>. QED  BY <2>1 DEF Contract!DictNext
<1>5. CASE ReplaceFilled
  <2>1. held.key \in pending /\ Contract!DropHeld(held.key)
    BY <1>0, <1>5, ReplaceFilledSeen DEF Contract!DropHeld, Contract!Without
  <2>. QED  BY <2>1 DEF Contract!DictNext
<1>6. CASE Shift
  <2>1. Dict' = Dict /\ held' = held /\ ~Quiet
    BY <1>6, ShiftSeen
  <2>2. CASE Quiet'
    <3>1. Contract!Tidied
      BY <2>1, <2>2 DEF Contract!Tidied
    <3>. QED  BY <3>1 DEF Contract!DictNext
  <2>3. CASE ~Quiet'
    BY <2>1, <2>3 DEF Contract!dictVars
  <2>. QED  BY <2>2, <2>3
<1>7. CASE UNCHANGED vars
  BY <1>7 DEF vars, Contract!dictVars, Dict, Stored, Holds, Occupied, Quiet
<1>. QED  BY <1>1, <1>2, <1>3, <1>4, <1>5, <1>6, <1>7 DEF Next

\* The table with its probing, its backward shift and replace's two ways of
\* writing a location back is a dictionary: every step is one operation of
\* the dictionary or is not seen.
THEOREM MapImplementsDictionary == Spec => ImplementsDictionary
<1>1. Init => Contract!DictInit
  BY DEF Init, Contract!DictInit, Dict, Stored, Occupied, Quiet
<1>2. MapInv /\ [Next]_vars => [Contract!DictNext]_(Contract!dictVars)
  BY StepImplements
<1>. QED  BY <1>1, <1>2, MapInvariant, PTL DEF Spec, ImplementsDictionary, Contract!DictSpec
=============================================================================
