-------------------------- MODULE ChunkStoreProofs --------------------------
(***************************************************************************)
(* Theorems about the order store for every chunk size, every capacity and *)
(* every set of orders.                                                    *)
(*                                                                         *)
(* A list is described by an order on its chunks: there is a rank for each *)
(* chunk such that every next link leads to the nearest higher one of the  *)
(* same list.  Appending, splicing and reusing a chunk change the rank of  *)
(* one chunk only, where positions in a sequence would all move.           *)
(*                                                                         *)
(* The queue of a level is then its places, chunk and slot, in the order   *)
(* of rank and slot.  A step keeps that order among the places it keeps,   *)
(* so what it does to the set of places it does to the queue.              *)
(***************************************************************************)
EXTENDS ChunkStore, BasicFacts

\* The chunks that hold a live order, those of one level, and those that
\* were handed out and hold none: what free_chunk should lead to.
Busy == {c \in ChunkIndex : LiveSlots(c) # {}}
On(side, p) == {c \in Busy : chunks[c].side = side /\ chunks[c].price = p}
Spare == {c \in 0 .. used - 1 : LiveSlots(c) = {}}

NextOf == [c \in ChunkIndex |-> chunks[c].next]
PrevOf == [c \in ChunkIndex |-> chunks[c].prev]

\* Following nx from head visits S in the order of rk.
Ordered(S, head, nx, rk) ==
  /\ head = Nil <=> S = {}
  /\ head # Nil => head \in S /\ \A c \in S : rk[head] <= rk[c]
  /\ \A c, d \in S : rk[c] = rk[d] => c = d
  /\ \A c \in S : nx[c] = Nil => \A d \in S : rk[d] <= rk[c]
  /\ \A c \in S : nx[c] # Nil =>
       /\ nx[c] \in S
       /\ rk[c] < rk[nx[c]]
       /\ \A d \in S : rk[c] < rk[d] => rk[nx[c]] <= rk[d]

\* ... and pv leads back, from tail.
Linked(S, head, tail, nx, pv, rk) ==
  /\ Ordered(S, head, nx, rk)
  /\ tail = Nil <=> S = {}
  /\ tail # Nil => tail \in S /\ nx[tail] = Nil
  /\ head # Nil => pv[head] = Nil
  /\ \A c \in S : c # head => pv[c] \in S /\ nx[pv[c]] = c
  /\ \A c \in S : nx[c] # Nil => pv[nx[c]] = c

\* Every chunk counts its live slots, which lie between head and tail.
Counted ==
  \A c \in ChunkIndex :
    /\ chunks[c].live = Cardinality(LiveSlots(c))
    /\ LiveSlots(c) \subseteq chunks[c].head .. chunks[c].tail - 1
    /\ c \in Busy => chunks[c].price \in Price /\ c < used
    /\ c >= used => chunks[c].next = Nil

\* The order map knows every order that has a slot.
Kept == \A c \in ChunkIndex : \A i \in LiveSlots(c) : chunks[c].s[i].id \in DOMAIN locs

\* The lists of the levels and the free list.
ListsBy(rk) ==
  /\ \A side \in Side, p \in Price :
       Linked(On(side, p), levels[side][p].head, levels[side][p].tail, NextOf, PrevOf, rk)
  /\ Ordered(Spare, free, NextOf, rk)

Lists == \E rk \in [ChunkIndex -> Int] : ListsBy(rk)

\* In a step the chunks that hold orders before and after it keep their ranks.
Ranks(rk, rk2) ==
  /\ rk \in [ChunkIndex -> Int] /\ rk2 \in [ChunkIndex -> Int]
  /\ ListsBy(rk) /\ ListsBy(rk2)'
  /\ \A c \in Busy : c \in Busy' => rk2[c] = rk[c]

RanksKept == \E rk, rk2 : Ranks(rk, rk2)

\* What a step does to the slots that hold orders, and to the totals.
HeadersStay ==
  \A k \in ChunkIndex : chunks'[k].side = chunks[k].side /\ chunks'[k].price = chunks[k].price

SlotLost(c, i) ==
  /\ HeadersStay
  /\ \A k \in ChunkIndex : LiveSlots(k)' = IF k = c THEN LiveSlots(c) \ {i} ELSE LiveSlots(k)
  /\ \A k \in ChunkIndex : \A j \in LiveSlots(k)' : chunks'[k].s[j] = chunks[k].s[j]

SlotLess(c, i, q) ==
  /\ HeadersStay
  /\ \A k \in ChunkIndex : LiveSlots(k)' = LiveSlots(k)
  /\ \A k \in ChunkIndex : \A j \in LiveSlots(k) :
       chunks'[k].s[j] = IF k = c /\ j = i THEN [chunks[c].s[i] EXCEPT !.qty = q]
                                          ELSE chunks[k].s[j]

SlotTaken(c, i, side, p, order) ==
  /\ \A k \in Busy : chunks'[k].side = chunks[k].side /\ chunks'[k].price = chunks[k].price
  /\ chunks'[c].side = side /\ chunks'[c].price = p
  /\ \A k \in ChunkIndex : LiveSlots(k)' = IF k = c THEN LiveSlots(c) \cup {i} ELSE LiveSlots(k)
  /\ \A k \in ChunkIndex : \A j \in LiveSlots(k) : chunks'[k].s[j] = chunks[k].s[j]
  /\ chunks'[c].s[i] = order
  /\ levels'[side][p].tail = c
  /\ \A j \in LiveSlots(c) : j < i

TotalBecomes(side, p, t) ==
  \A s2 \in Side, p2 \in Price :
    levels'[s2][p2].total = IF s2 = side /\ p2 = p THEN t ELSE levels[s2][p2].total

StoreInv ==
  /\ TypeOK
  /\ Counted
  /\ LocsExact
  /\ Kept
  /\ live = Cardinality(DOMAIN locs)
  /\ Lists

----------------------------------------------------------------------------
\* Lists in general

\* A list that is not touched stays a list.
LEMMA OrderedSame ==
  ASSUME NEW S, NEW head, NEW nx, NEW rk, NEW nx2, NEW rk2,
         Ordered(S, head, nx, rk), \A c \in S : nx2[c] = nx[c] /\ rk2[c] = rk[c]
  PROVE  Ordered(S, head, nx2, rk2)
BY DEF Ordered

LEMMA LinkedSame ==
  ASSUME NEW S, NEW head, NEW tail, NEW nx, NEW pv, NEW rk, NEW nx2, NEW pv2, NEW rk2,
         Linked(S, head, tail, nx, pv, rk),
         \A c \in S : nx2[c] = nx[c] /\ pv2[c] = pv[c] /\ rk2[c] = rk[c]
  PROVE  Linked(S, head, tail, nx2, pv2, rk2)
<1>1. Ordered(S, head, nx2, rk2)
  BY OrderedSame DEF Linked
<1>. QED  BY <1>1 DEF Linked, Ordered

\* alloc_chunk takes the first chunk of the free list.
LEMMA OrderedRest ==
  ASSUME NEW S \in SUBSET ChunkIndex, NEW head \in S, NEW nx, NEW rk \in [ChunkIndex -> Int],
         NEW nx2, NEW rk2, Ordered(S, head, nx, rk),
         \A c \in S \ {head} : nx2[c] = nx[c] /\ rk2[c] = rk[c]
  PROVE  Ordered(S \ {head}, nx[head], nx2, rk2)
<1>1. head # Nil /\ \A c \in S : rk[c] \in Int
  BY ConfigAssumption DEF ChunkIndex, Nil
<1>2. \A c \in S : nx[c] # head
  BY <1>1 DEF Ordered
<1>3. nx[head] = Nil => S \ {head} = {}
  BY <1>1 DEF Ordered
<1>4. nx[head] # Nil => nx[head] \in S \ {head} /\ \A c \in S \ {head} : rk[nx[head]] <= rk[c]
  BY <1>1, <1>2 DEF Ordered
<1>5. \A c \in S \ {head} : rk2[c] = rk[c] /\ nx2[c] = nx[c] /\ (nx[c] # Nil => nx[c] \in S \ {head})
  BY <1>2 DEF Ordered
<1>. QED  BY <1>1, <1>3, <1>4, <1>5 DEF Ordered

\* drop_chunk puts a chunk in front of the free list.
LEMMA OrderedFront ==
  ASSUME NEW S \in SUBSET ChunkIndex, NEW head, NEW nx, NEW rk \in [ChunkIndex -> Int],
         NEW c \in ChunkIndex \ S, NEW nx2, NEW rk2 \in [ChunkIndex -> Int],
         Ordered(S, head, nx, rk),
         \A k \in S : nx2[k] = nx[k] /\ rk2[k] = rk[k],
         nx2[c] = head, head # Nil => rk2[c] < rk2[head]
  PROVE  Ordered(S \cup {c}, c, nx2, rk2)
<1>1. c # Nil /\ rk2[c] \in Int /\ \A k \in S : rk2[k] \in Int /\ k # Nil
  BY ConfigAssumption DEF ChunkIndex, Nil
<1>2. \A k \in S : rk2[c] < rk2[k]
  BY <1>1 DEF Ordered
<1>. QED  BY <1>1, <1>2 DEF Ordered

\* push opens a chunk behind the last one of a level.
Extend(S, head, tail, nx, pv, rk, c, T, head2, nx2, pv2, rk2) ==
  /\ T = S \cup {c}
  /\ head2 = IF tail = Nil THEN c ELSE head
  /\ \A k \in S : rk2[k] = rk[k] /\ pv2[k] = pv[k] /\ (k # tail => nx2[k] = nx[k])
  /\ nx2[c] = Nil /\ pv2[c] = tail
  /\ tail # Nil => nx2[tail] = c /\ rk2[tail] < rk2[c]

\* push appends a chunk to the list of its level.
LEMMA LinkedMore ==
  ASSUME NEW S \in SUBSET ChunkIndex, NEW head, NEW tail, NEW nx, NEW pv, NEW rk \in [ChunkIndex -> Int],
         NEW c \in ChunkIndex \ S, NEW nx2, NEW pv2, NEW rk2 \in [ChunkIndex -> Int],
         NEW T, NEW head2, Linked(S, head, tail, nx, pv, rk),
         Extend(S, head, tail, nx, pv, rk, c, T, head2, nx2, pv2, rk2)
  PROVE  Linked(T, head2, c, nx2, pv2, rk2)
<1>0. /\ T = S \cup {c}
      /\ head2 = IF tail = Nil THEN c ELSE head
      /\ \A k \in S : rk2[k] = rk[k] /\ pv2[k] = pv[k] /\ (k # tail => nx2[k] = nx[k])
      /\ nx2[c] = Nil /\ pv2[c] = tail
      /\ tail # Nil => nx2[tail] = c /\ rk2[tail] < rk2[c]
  BY DEF Extend
<1>. USE <1>0
<1>1. c # Nil /\ rk2[c] \in Int /\ \A k \in S : rk2[k] \in Int /\ k # Nil
  BY ConfigAssumption DEF ChunkIndex, Nil
<1>2. CASE tail = Nil
  BY <1>1, <1>2 DEF Linked, Ordered
<1>3. CASE tail # Nil
  <2>1. tail \in S /\ nx[tail] = Nil /\ head # Nil /\ head \in S
    BY <1>3 DEF Linked, Ordered
  <2>2. \A k \in S : rk2[k] <= rk2[tail] /\ rk2[k] < rk2[c]
    BY <1>1, <1>3, <2>1 DEF Linked, Ordered
  <2>3. Ordered(S \cup {c}, head, nx2, rk2)
    <3>1. \A k \in S : k # tail => nx2[k] \in S
      BY <1>3, <2>1, <2>2, <1>1 DEF Linked, Ordered
    <3>. QED  BY <1>1, <1>3, <2>1, <2>2, <3>1 DEF Linked, Ordered
  <2>. QED  BY <1>1, <1>3, <2>1, <2>2, <2>3 DEF Linked, Ordered
<1>. QED  BY <1>2, <1>3

\* drop_chunk takes a chunk out of the list of its level.
Cut(S, head, tail, nx, pv, rk, c, T, head2, tail2, nx2, pv2, rk2) ==
  /\ T = S \ {c}
  /\ head2 = IF pv[c] = Nil THEN nx[c] ELSE head
  /\ tail2 = IF nx[c] = Nil THEN pv[c] ELSE tail
  /\ \A k \in S \ {c} : /\ rk2[k] = rk[k]
                        /\ nx2[k] = IF k = pv[c] THEN nx[c] ELSE nx[k]
                        /\ pv2[k] = IF k = nx[c] THEN pv[c] ELSE pv[k]

\* drop_chunk takes a chunk out of it, wherever it is.
LEMMA LinkedLess ==
  ASSUME NEW S \in SUBSET ChunkIndex, NEW head, NEW tail, NEW nx, NEW pv, NEW rk \in [ChunkIndex -> Int],
         NEW c \in S, NEW nx2, NEW pv2, NEW rk2 \in [ChunkIndex -> Int],
         NEW T, NEW head2, NEW tail2, Linked(S, head, tail, nx, pv, rk),
         Cut(S, head, tail, nx, pv, rk, c, T, head2, tail2, nx2, pv2, rk2)
  PROVE  Linked(T, head2, tail2, nx2, pv2, rk2)
<1>0. /\ T = S \ {c}
      /\ head2 = IF pv[c] = Nil THEN nx[c] ELSE head
      /\ tail2 = IF nx[c] = Nil THEN pv[c] ELSE tail
      /\ \A k \in S \ {c} : /\ rk2[k] = rk[k]
                            /\ nx2[k] = IF k = pv[c] THEN nx[c] ELSE nx[k]
                            /\ pv2[k] = IF k = nx[c] THEN pv[c] ELSE pv[k]
  BY DEF Cut
<1>. USE <1>0
<1>. DEFINE a == pv[c]
            b == nx[c]
            first == head2
            last == tail2
<1>1. \A k \in S : rk[k] \in Int /\ k # Nil
  BY ConfigAssumption DEF ChunkIndex, Nil
<1>2. /\ a = Nil <=> c = head
      /\ a # Nil => a \in T /\ nx[a] = c /\ rk[a] < rk[c]
  BY <1>1 DEF Linked, Ordered
<1>3. /\ b = Nil <=> c = tail
      /\ b # Nil => b \in T /\ pv[b] = c /\ rk[c] < rk[b]
  BY <1>1 DEF Linked, Ordered
<1>4. \A k \in T : nx[k] = c <=> k = a
  BY <1>1, <1>2 DEF Linked, Ordered
<1>5. \A k \in T : pv[k] = c <=> k = b
  BY <1>1, <1>3 DEF Linked, Ordered
<1>6. head \in S /\ tail \in S /\ head # Nil /\ tail # Nil
  BY DEF Linked, Ordered
<1>7. \A k \in T : rk2[k] = rk[k] /\ rk[k] \in Int /\ k \in S /\ k # c /\ rk[k] # rk[c]
  BY <1>1 DEF Linked, Ordered
<1>8. \A k \in T : nx2[k] = IF k = a THEN b ELSE nx[k]
  OBVIOUS
<1>9. \A k \in T : pv2[k] = IF k = b THEN a ELSE pv[k]
  OBVIOUS
<1>10. \A k \in T : k # a /\ nx[k] # Nil => nx[k] \in T
  BY <1>4 DEF Linked, Ordered
<1>11. \A k \in T : k # b /\ k # head => pv[k] \in T
  BY <1>5 DEF Linked, Ordered
<1>12. rk[c] \in Int
  BY <1>1
<1>13. b # Nil => \A d \in T : rk[c] < rk[d] => rk[b] <= rk[d]
  BY DEF Linked, Ordered
<1>14. b = Nil => \A d \in T : rk[d] < rk[c]
  BY <1>1, <1>7, <1>12 DEF Linked, Ordered
<1>15. a # Nil => \A d \in T : rk[a] < rk[d] => rk[c] < rk[d]
  <2>. SUFFICES ASSUME a # Nil, NEW d \in T, rk[a] < rk[d]
                PROVE  rk[c] < rk[d]
    OBVIOUS
  <2>1. a \in S /\ nx[a] = c /\ c # Nil /\ d \in S
    BY <1>1, <1>2
  <2>2. rk[c] <= rk[d]
    BY <2>1 DEF Linked, Ordered
  <2>. QED  BY <1>7, <1>12, <2>2
<1>16. a = Nil => \A d \in T : rk[c] < rk[d]
  BY <1>2, <1>7, <1>12, SMTT(30) DEF Linked, Ordered
<1>17. a = Nil /\ b = Nil => T = {}
  BY <1>7, <1>12, <1>14, <1>16
<1>18. T \subseteq S /\ \A k \in T : k # Nil
  BY <1>1
<1>20. Ordered(T, first, nx2, rk2)
  <2>1. first = Nil <=> T = {}
    BY <1>2, <1>3, <1>6, <1>17, <1>18
  <2>2. first # Nil => first \in T /\ \A k \in T : rk2[first] <= rk2[k]
    <3>1. CASE a = Nil
      BY <3>1, <1>3, <1>7, <1>13, <1>16
    <3>2. CASE a # Nil
      BY <3>2, <1>2, <1>6, <1>7 DEF Linked, Ordered
    <3>. QED  BY <3>1, <3>2
  <2>3. \A k, d \in T : rk2[k] = rk2[d] => k = d
    BY <1>7 DEF Linked, Ordered
  <2>4. \A k \in T : nx2[k] = Nil => \A d \in T : rk2[d] <= rk2[k]
    <3>. SUFFICES ASSUME NEW k \in T, nx2[k] = Nil, NEW d \in T
                  PROVE  rk[d] <= rk[k]
      BY <1>7
    <3>1. CASE k = a
      BY <3>1, <1>7, <1>8, <1>12, <1>14, <1>15, <1>18
    <3>2. CASE k # a
      BY <3>2, <1>7, <1>8 DEF Linked, Ordered
    <3>. QED  BY <3>1, <3>2
  <2>5. \A k \in T : nx2[k] # Nil =>
          /\ nx2[k] \in T
          /\ rk2[k] < rk2[nx2[k]]
          /\ \A d \in T : rk2[k] < rk2[d] => rk2[nx2[k]] <= rk2[d]
    <3>. SUFFICES ASSUME NEW k \in T, nx2[k] # Nil
                  PROVE  /\ nx2[k] \in T
                         /\ rk[k] < rk[nx2[k]]
                         /\ \A d \in T : rk[k] < rk[d] => rk[nx2[k]] <= rk[d]
      BY <1>7
    <3>1. CASE k = a
      BY <3>1, <1>2, <1>3, <1>7, <1>8, <1>12, <1>13, <1>15, <1>18
    <3>2. CASE k # a
      BY <3>2, <1>7, <1>8, <1>10 DEF Linked, Ordered
    <3>. QED  BY <3>1, <3>2
  <2>. HIDE DEF first
  <2>. QED  BY <2>1, <2>2, <2>3, <2>4, <2>5 DEF Ordered
<1>21. last = Nil <=> T = {}
  BY <1>2, <1>3, <1>6, <1>17, <1>18
<1>22. last # Nil => last \in T /\ nx2[last] = Nil
  <2>1. CASE b = Nil
    BY <2>1, <1>2, <1>8
  <2>2. CASE b # Nil
    BY <2>2, <1>1, <1>2, <1>3, <1>6, <1>8 DEF Linked
  <2>. QED  BY <2>1, <2>2
<1>23. first # Nil => pv2[first] = Nil
  <2>1. CASE a = Nil
    BY <2>1, <1>3, <1>9
  <2>2. CASE a # Nil
    BY <2>2, <1>1, <1>2, <1>3, <1>6, <1>9 DEF Linked
  <2>. QED  BY <2>1, <2>2
<1>24. \A k \in T : k # first => pv2[k] \in T /\ nx2[pv2[k]] = k
  <2>. SUFFICES ASSUME NEW k \in T, k # first
                PROVE  pv2[k] \in T /\ nx2[pv2[k]] = k
    OBVIOUS
  <2>1. CASE k = b
    BY <2>1, <1>2, <1>8, <1>9
  <2>2. CASE k # b
    <3>1. k # head
      BY <2>2, <1>2
    <3>2. pv[k] \in T /\ nx[pv[k]] = k /\ pv2[k] = pv[k]
      BY <3>1, <2>2, <1>9, <1>11 DEF Linked
    <3>3. pv[k] # a
      BY <3>2, <1>2, <1>7, <1>18
    <3>. QED  BY <3>2, <3>3, <1>8
  <2>. QED  BY <2>1, <2>2
<1>25. \A k \in T : nx2[k] # Nil => pv2[nx2[k]] = k
  <2>. SUFFICES ASSUME NEW k \in T, nx2[k] # Nil
                PROVE  pv2[nx2[k]] = k
    OBVIOUS
  <2>1. CASE k = a
    BY <2>1, <1>2, <1>3, <1>8, <1>9
  <2>2. CASE k # a
    <3>1. nx2[k] = nx[k] /\ nx[k] \in T /\ pv[nx[k]] = k
      BY <2>2, <1>8, <1>10 DEF Linked
    <3>2. nx[k] # b
      BY <3>1, <1>3, <1>7, <1>18
    <3>. QED  BY <3>1, <3>2, <1>9
  <2>. QED  BY <2>1, <2>2
<1>. HIDE DEF first, last
<1>26. Linked(T, first, last, nx2, pv2, rk2)
  BY <1>20, <1>21, <1>22, <1>23, <1>24, <1>25 DEF Linked
<1>. QED  BY <1>26 DEF first, last

----------------------------------------------------------------------------
\* What the recursion of ChainFrom visits

\* The ranks are finitely many: a chunk of higher rank has fewer above it.
LEMMA RankMeasure ==
  ASSUME NEW rk \in [ChunkIndex -> Int]
  PROVE  \E m \in [ChunkIndex -> 0 .. MaxOrders + 1] :
           \A c, d \in ChunkIndex : rk[c] < rk[d] => m[d] < m[c]
<1>. DEFINE Above(c) == {d \in ChunkIndex : rk[c] < rk[d]}
            m == [c \in ChunkIndex |-> Cardinality(Above(c))]
<1>1. IsFiniteSet(ChunkIndex) /\ Cardinality(ChunkIndex) = MaxOrders + 1
  BY FS_Interval, ConfigAssumption DEF ChunkIndex
<1>2. \A c \in ChunkIndex : /\ IsFiniteSet(Above(c)) /\ Cardinality(Above(c)) \in Nat
                            /\ Cardinality(Above(c)) <= MaxOrders + 1
  BY <1>1, FS_Subset, FS_CardinalityType
<1>3. ASSUME NEW c \in ChunkIndex, NEW d \in ChunkIndex, rk[c] < rk[d]
      PROVE  Cardinality(Above(d)) < Cardinality(Above(c))
  <2>1. Above(d) \subseteq Above(c) /\ Above(d) # Above(c)
    BY <1>3
  <2>. HIDE DEF Above
  <2>2. /\ Cardinality(Above(d)) <= Cardinality(Above(c))
        /\ Cardinality(Above(d)) = Cardinality(Above(c)) => Above(d) = Above(c)
    BY <1>2, <2>1, FS_Subset
  <2>. QED  BY <1>2, <2>1, <2>2
<1>. HIDE DEF Above
<1>4. m \in [ChunkIndex -> 0 .. MaxOrders + 1]
  BY <1>2, ConfigAssumption
<1>5. \A c, d \in ChunkIndex : rk[c] < rk[d] => m[d] < m[c]
  BY <1>3
<1>. HIDE DEF m
<1>. QED  BY <1>4, <1>5

\* Every next link leads upwards.
Rising(rk) == \A c \in ChunkIndex : chunks[c].next # Nil => rk[c] < rk[chunks[c].next]

\* The equation that ChainFrom solves.
ChainEquation(h) ==
  h = [k \in ChunkIndex \cup {Nil} |-> IF k = Nil THEN << >> ELSE <<k>> \o h[chunks[k].next]]

\* ChainFrom is a recursive function: it solves its equation, if anything does.
LEMMA ChainIs == \A c : ChainFrom(c) = (CHOOSE h : ChainEquation(h))[c]
BY DEF ChainFrom, ChainEquation

LEMMA NextTyped ==
  TypeOK => \A c \in ChunkIndex : c # Nil /\ chunks[c].next \in ChunkIndex \cup {Nil}
BY ConfigAssumption DEF TypeOK, Chunk, ChunkIndex, Nil

\* It has a solution where next links lead upwards.
LEMMA ChainDefined ==
  ASSUME TypeOK, NEW rk \in [ChunkIndex -> Int], Rising(rk)
  PROVE  \E h \in [ChunkIndex \cup {Nil} -> Seq(ChunkIndex)] : ChainEquation(h)
<1>. DEFINE D == ChunkIndex \cup {Nil}
            F == [D -> Seq(ChunkIndex)]
            N == MaxOrders + 3
<1>1. PICK m \in [ChunkIndex -> 0 .. MaxOrders + 1] :
             \A c, d \in ChunkIndex : rk[c] < rk[d] => m[d] < m[c]
  BY RankMeasure
<1>2. \A c \in ChunkIndex : /\ c # Nil /\ chunks[c].next \in D
                            /\ chunks[c].next \in ChunkIndex => m[chunks[c].next] < m[c]
                            /\ m[c] \in 0 .. MaxOrders + 1
  <2>1. \A c \in ChunkIndex : c # Nil /\ chunks[c].next \in D
    BY NextTyped
  <2>2. \A c \in ChunkIndex : chunks[c].next \in ChunkIndex => rk[c] < rk[chunks[c].next]
    BY <2>1 DEF Rising
  <2>. QED  BY <1>1, <2>1, <2>2
<1>. DEFINE Step(g) == [k \in D |-> IF k = Nil THEN << >> ELSE <<k>> \o g[chunks[k].next]]
            Solves(n, g) == /\ g[Nil] = << >>
                            /\ \A k \in ChunkIndex : m[k] < n => g[k] = <<k>> \o g[chunks[k].next]
            T == {n \in Nat : \E g \in F : Solves(n, g)}
<1>3. 0 \in T
  <2>. DEFINE g == [k \in D |-> << >>]
  <2>1. g \in F /\ Solves(0, g)
    BY <1>2
  <2>. QED  BY <2>1
<1>4. ASSUME NEW n \in Nat, n \in T
      PROVE  n + 1 \in T
  <2>1. PICK g \in F : Solves(n, g)
    BY <1>4
  <2>. DEFINE h == Step(g)
  <2>2. h \in F
    BY <1>2, <2>1
  <2>3. h[Nil] = << >>
    OBVIOUS
  <2>4. \A k \in ChunkIndex : m[k] < n => h[k] = g[k]
    BY <1>2, <2>1
  <2>5. ASSUME NEW k \in ChunkIndex, m[k] < n + 1
        PROVE  h[k] = <<k>> \o h[chunks[k].next]
    <3>1. h[k] = <<k>> \o g[chunks[k].next]
      BY <1>2
    <3>2. CASE chunks[k].next = Nil
      BY <3>1, <3>2, <2>1, <2>3
    <3>3. CASE chunks[k].next \in ChunkIndex
      <4>1. m[chunks[k].next] < n
        BY <1>2, <2>5, <3>3
      <4>2. h[chunks[k].next] = g[chunks[k].next]
        BY <2>4, <3>3, <4>1
      <4>. QED  BY <3>1, <4>2
    <3>. QED  BY <1>2, <3>2, <3>3
  <2>. HIDE DEF h
  <2>6. Solves(n + 1, h)
    BY <2>3, <2>5
  <2>. HIDE DEF Solves, F
  <2>. QED  BY <2>2, <2>6
<1>. HIDE DEF T
<1>5. \A n \in Nat : n \in T
  BY <1>3, <1>4, SetInduction
<1>6. N \in T
  BY <1>5, ConfigAssumption
<1>7. PICK g \in F : Solves(N, g)
  BY <1>6 DEF T
<1>8. \A k \in ChunkIndex : m[k] < N
  BY <1>2, ConfigAssumption
<1>9. \A k \in ChunkIndex : g[k] = <<k>> \o g[chunks[k].next]
  BY <1>7, <1>8
<1>10. \A k \in D : g[k] = IF k = Nil THEN << >> ELSE <<k>> \o g[chunks[k].next]
  BY <1>2, <1>7, <1>9
<1>11. ChainEquation(g)
  BY <1>7, <1>10 DEF ChainEquation
<1>. QED  BY <1>7, <1>11

\* From any chunk of a list the recursion visits the chunks from there on,
\* each from the one before it, and ends at the last.
Visits(h, S, rk, c) ==
  /\ h[c] \in Seq(ChunkIndex) /\ Len(h[c]) > 0 /\ h[c][1] = c
  /\ ToSet(h[c]) = {d \in S : rk[c] <= rk[d]}
  /\ \A n \in 1 .. Len(h[c]) - 1 : h[c][n + 1] = chunks[h[c][n]].next
  /\ chunks[h[c][Len(h[c])]].next = Nil

LEMMA VisitsCons ==
  ASSUME NEW h, NEW S, NEW rk, NEW c \in ChunkIndex, NEW b,
         Visits(h, S, rk, b), b = chunks[c].next, h[c] = <<c>> \o h[b],
         {d \in S : rk[c] <= rk[d]} = {c} \cup {d \in S : rk[b] <= rk[d]}
  PROVE  Visits(h, S, rk, c)
<1>. DEFINE t == h[c]
            s == h[b]
<1>1. /\ s \in Seq(ChunkIndex) /\ Len(s) \in Nat /\ Len(s) > 0 /\ s[1] = b
      /\ ToSet(s) = {d \in S : rk[b] <= rk[d]}
      /\ \A n \in 1 .. Len(s) - 1 : s[n + 1] = chunks[s[n]].next
      /\ chunks[s[Len(s)]].next = Nil
  BY DEF Visits
<1>2. t = <<c>> \o s
  OBVIOUS
<1>. HIDE DEF t, s
<1>3. /\ t \in Seq(ChunkIndex) /\ Len(t) = Len(s) + 1 /\ t[1] = c
      /\ \A n \in 1 .. Len(s) : t[n + 1] = s[n]
      /\ \A n \in 2 .. Len(t) : t[n] = s[n - 1]
      /\ ToSet(t) = {c} \cup ToSet(s)
  <2>1. /\ t \in Seq(ChunkIndex) /\ Len(t) = Len(s) + 1 /\ t[1] = c
        /\ \A n \in 1 .. Len(s) : t[n + 1] = s[n]
        /\ \A n \in 2 .. Len(t) : t[n] = s[n - 1]
    BY <1>1, <1>2
  <2>2. DOMAIN t = 1 .. Len(s) + 1 /\ DOMAIN s = 1 .. Len(s) /\ Len(s) \in Nat
    BY <2>1
  <2>3. \A n \in DOMAIN t : t[n] \in {c} \cup ToSet(s)
    <3>. SUFFICES ASSUME NEW n \in DOMAIN t
                  PROVE  t[n] \in {c} \cup ToSet(s)
      OBVIOUS
    <3>1. CASE n = 1
      BY <3>1, <2>1
    <3>2. CASE n # 1
      <4>1. n - 1 \in 1 .. Len(s) /\ (n - 1) + 1 = n
        BY <3>2, <2>2
      <4>2. t[n] = s[n - 1]
        BY <4>1, <2>1
      <4>. QED  BY <4>1, <4>2, <2>2 DEF ToSet
    <3>. QED  BY <3>1, <3>2
  <2>4. c \in ToSet(t) /\ \A n \in DOMAIN s : s[n] \in ToSet(t)
    <3>1. 1 \in DOMAIN t /\ \A n \in DOMAIN s : n + 1 \in DOMAIN t
      BY <2>2
    <3>. QED  BY <3>1, <2>1, <2>2 DEF ToSet
  <2>5. ToSet(t) \subseteq {c} \cup ToSet(s) /\ {c} \cup ToSet(s) \subseteq ToSet(t)
    BY <2>3, <2>4 DEF ToSet
  <2>. QED  BY <2>1, <2>5
<1>4. ASSUME NEW n \in 1 .. Len(t) - 1
      PROVE  t[n + 1] = chunks[t[n]].next
  <2>1. CASE n = 1
    BY <2>1, <1>1, <1>3
  <2>2. CASE n # 1
    <3>1. n \in 2 .. Len(t) /\ n - 1 \in 1 .. Len(s) - 1 /\ n \in 1 .. Len(s)
      BY <2>2, <1>1, <1>3
    <3>2. t[n + 1] = s[n] /\ t[n] = s[n - 1]
      BY <3>1, <1>3
    <3>3. s[(n - 1) + 1] = chunks[s[n - 1]].next
      BY <3>1, <1>1
    <3>4. (n - 1) + 1 = n
      OBVIOUS
    <3>. QED  BY <3>2, <3>3, <3>4
  <2>. QED  BY <2>1, <2>2
<1>5. chunks[t[Len(t)]].next = Nil
  <2>1. Len(t) \in 2 .. Len(t) /\ Len(t) - 1 = Len(s)
    BY <1>1, <1>3
  <2>2. t[Len(t)] = s[Len(t) - 1]
    BY <2>1, <1>3
  <2>. QED  BY <2>1, <2>2, <1>1
<1>6. ToSet(t) = {d \in S : rk[c] <= rk[d]}
  BY <1>1, <1>3
<1>7. Len(t) > 0
  BY <1>1, <1>3
<1>. QED  BY <1>3, <1>4, <1>5, <1>6, <1>7 DEF Visits, t

\* Every chunk of a list is the start of a walk through the rest of it.
LEMMA ListVisited ==
  ASSUME TypeOK, NEW rk \in [ChunkIndex -> Int], NEW S \in SUBSET ChunkIndex, NEW head,
         Ordered(S, head, NextOf, rk),
         NEW h \in [ChunkIndex \cup {Nil} -> Seq(ChunkIndex)], ChainEquation(h)
  PROVE  \A c \in S : Visits(h, S, rk, c)
<1>1. PICK m \in [ChunkIndex -> 0 .. MaxOrders + 1] :
             \A c, d \in ChunkIndex : rk[c] < rk[d] => m[d] < m[c]
  BY RankMeasure
<1>. DEFINE T == {n \in Nat : \A c \in S : m[c] < n => Visits(h, S, rk, c)}
<1>2. 0 \in T
  BY <1>1
<1>3. ASSUME NEW n \in Nat, n \in T
      PROVE  n + 1 \in T
  <2>. SUFFICES ASSUME NEW c \in S, m[c] < n + 1
                PROVE  Visits(h, S, rk, c)
    OBVIOUS
  <2>. DEFINE b == chunks[c].next
  <2>1. c \in ChunkIndex /\ c # Nil /\ b \in ChunkIndex \cup {Nil} /\ NextOf[c] = b
    BY NextTyped DEF NextOf
  <2>2. h[c] = <<c>> \o h[b] /\ h[Nil] = << >>
    <3>1. \A k \in ChunkIndex \cup {Nil} : h[k] = IF k = Nil THEN << >> ELSE <<k>> \o h[chunks[k].next]
      BY DEF ChainEquation
    <3>. QED  BY <3>1, <2>1
  <2>3. \A d \in S : d \in ChunkIndex /\ rk[d] \in Int
    OBVIOUS
  <2>4. CASE b = Nil
    <3>1. \A d \in S : rk[d] <= rk[c] /\ (rk[d] = rk[c] => d = c)
      BY <2>1, <2>4 DEF Ordered
    <3>2. {d \in S : rk[c] <= rk[d]} = {c}
      BY <3>1, <2>3
    <3>3. h[c] = <<c>>
      BY <2>1, <2>2, <2>4
    <3>4. ToSet(h[c]) = {c}
      BY <3>3 DEF ToSet
    <3>. QED  BY <2>1, <2>4, <3>2, <3>3, <3>4, SMTT(30) DEF Visits
  <2>5. CASE b # Nil
    <3>1. b \in S /\ rk[c] < rk[b] /\ \A d \in S : rk[c] < rk[d] => rk[b] <= rk[d]
      BY <2>1, <2>5 DEF Ordered
    <3>2. m[b] < n
      <4>1. m[b] < m[c] /\ m[b] \in Nat /\ m[c] \in Nat
        BY <1>1, <2>1, <3>1
      <4>. QED  BY <4>1
    <3>3. Visits(h, S, rk, b)
      BY <1>3, <3>1, <3>2
    <3>4. {d \in S : rk[c] <= rk[d]} = {c} \cup {d \in S : rk[b] <= rk[d]}
      <4>1. \A d \in S : rk[c] <= rk[d] <=> d = c \/ rk[b] <= rk[d]
        BY <2>3, <3>1, SMTT(30) DEF Ordered
      <4>. QED  BY <4>1
    <3>5. h[c] = <<c>> \o h[b] /\ c \in ChunkIndex
      BY <2>1, <2>2
    <3>. HIDE DEF b, T
    <3>. QED  BY <2>5, <3>1, <3>3, <3>4, <3>5, VisitsCons DEF b
  <2>. QED  BY <2>4, <2>5
<1>. HIDE DEF T
<1>4. \A n \in Nat : n \in T
  BY <1>2, <1>3, SetInduction
<1>5. MaxOrders + 2 \in T /\ \A c \in S : m[c] < MaxOrders + 2
  BY <1>1, <1>4, ConfigAssumption
<1>. QED  BY <1>5 DEF T

\* There is only one solution, which ChainFrom has to choose.
LEMMA ChainTyped ==
  ASSUME TypeOK, NEW rk \in [ChunkIndex -> Int], Rising(rk), NEW h, ChainEquation(h)
  PROVE  h \in [ChunkIndex \cup {Nil} -> Seq(ChunkIndex)]
<1>1. PICK m \in [ChunkIndex -> 0 .. MaxOrders + 1] :
             \A c, d \in ChunkIndex : rk[c] < rk[d] => m[d] < m[c]
  BY RankMeasure
<1>2. \A k \in ChunkIndex \cup {Nil} : h[k] = IF k = Nil THEN << >> ELSE <<k>> \o h[chunks[k].next]
  <2>1. h = [k \in ChunkIndex \cup {Nil} |-> IF k = Nil THEN << >> ELSE <<k>> \o h[chunks[k].next]]
    BY DEF ChainEquation
  <2>. QED  BY <2>1
<1>0. h[Nil] \in Seq(ChunkIndex)
  <2>1. Nil \in ChunkIndex \cup {Nil}
    OBVIOUS
  <2>2. h[Nil] = << >>
    BY <1>2, <2>1, Zenon
  <2>3. << >> \in Seq(ChunkIndex)
    OBVIOUS
  <2>. QED  BY <2>2, <2>3
<1>. DEFINE T == {n \in Nat : \A c \in ChunkIndex : m[c] < n => h[c] \in Seq(ChunkIndex)}
<1>3. 0 \in T
  BY <1>1
<1>4. ASSUME NEW n \in Nat, n \in T
      PROVE  n + 1 \in T
  <2>. SUFFICES ASSUME NEW c \in ChunkIndex, m[c] < n + 1
                PROVE  h[c] \in Seq(ChunkIndex)
    OBVIOUS
  <2>. DEFINE b == chunks[c].next
  <2>1. c # Nil /\ b \in ChunkIndex \cup {Nil}
    BY NextTyped
  <2>2. h[c] = <<c>> \o h[b]
    BY <1>2, <2>1
  <2>3. CASE b = Nil
    <3>1. h[b] \in Seq(ChunkIndex)
      BY <1>0, <2>3
    <3>. QED  BY <2>2, <3>1
  <2>4. CASE b \in ChunkIndex
    <3>1. b # Nil
      BY <2>4, NextTyped
    <3>2. m[b] < m[c] /\ m[b] \in Nat /\ m[c] \in Nat
      BY <1>1, <2>4, <3>1 DEF Rising
    <3>3. h[b] \in Seq(ChunkIndex)
      BY <1>4, <2>4, <3>2
    <3>. QED  BY <2>2, <3>3
  <2>. QED  BY <2>1, <2>3, <2>4
<1>. HIDE DEF T
<1>5. \A n \in Nat : n \in T
  BY <1>3, <1>4, SetInduction
<1>6. \A c \in ChunkIndex : m[c] < MaxOrders + 2
  BY <1>1, ConfigAssumption
<1>7. \A c \in ChunkIndex : h[c] \in Seq(ChunkIndex)
  <2>1. MaxOrders + 2 \in T
    BY <1>5, ConfigAssumption
  <2>. QED  BY <1>6, <2>1 DEF T
<1>8. h[Nil] \in Seq(ChunkIndex)
  BY <1>0
<1>9. \A c \in ChunkIndex \cup {Nil} : h[c] \in Seq(ChunkIndex)
  BY <1>7, <1>8
<1>10. h = [k \in ChunkIndex \cup {Nil} |-> h[k]]
  BY DEF ChainEquation
<1>. QED  BY <1>9, <1>10

\* The chain from head visits the list, in the order of its links.
WalkOf(chain, S, head) ==
  /\ chain \in Seq(ChunkIndex) /\ ToSet(chain) = S
  /\ chain = << >> <=> S = {}
  /\ S # {} => chain[1] = head /\ chunks[chain[Len(chain)]].next = Nil
  /\ \A n \in 1 .. Len(chain) - 1 : chain[n + 1] = chunks[chain[n]].next

\* Altogether: what ChainFrom returns for the head of a list.
LEMMA ChainOfList ==
  ASSUME TypeOK, NEW rk \in [ChunkIndex -> Int], Rising(rk),
         NEW S \in SUBSET ChunkIndex, NEW head, Ordered(S, head, NextOf, rk)
  PROVE  WalkOf(ChainFrom(head), S, head)
<1>. DEFINE h == CHOOSE g : ChainEquation(g)
<1>1. PICK g \in [ChunkIndex \cup {Nil} -> Seq(ChunkIndex)] : ChainEquation(g)
  BY ChainDefined
<1>2. ChainEquation(h)
  BY <1>1
<1>3. ChainFrom(head) = h[head]
  BY ChainIs
<1>. HIDE DEF h
<1>4. h \in [ChunkIndex \cup {Nil} -> Seq(ChunkIndex)]
  BY <1>2, ChainTyped
<1>5. \A c \in S : Visits(h, S, rk, c)
  BY <1>2, <1>4, ListVisited
<1>6. CASE S = {}
  <2>1. h = [k \in ChunkIndex \cup {Nil} |-> IF k = Nil THEN << >> ELSE <<k>> \o h[chunks[k].next]]
    BY <1>2 DEF ChainEquation
  <2>2. h[Nil] = << >>
    BY <2>1
  <2>3. head = Nil
    BY <1>6 DEF Ordered
  <2>4. ChainFrom(head) = << >> /\ ToSet(<< >>) = {}
    BY <1>3, <2>2, <2>3 DEF ToSet
  <2>. QED  BY <1>6, <2>4 DEF WalkOf
<1>7. CASE S # {}
  <2>1. head \in S /\ \A c \in S : rk[head] <= rk[c]
    BY <1>7 DEF Ordered
  <2>2. Visits(h, S, rk, head)
    BY <1>5, <2>1
  <2>3. {d \in S : rk[head] <= rk[d]} = S
    BY <2>1
  <2>. DEFINE t == h[head]
  <2>4. /\ t \in Seq(ChunkIndex) /\ Len(t) > 0 /\ t[1] = head
        /\ ToSet(t) = S
        /\ \A n \in 1 .. Len(t) - 1 : t[n + 1] = chunks[t[n]].next
        /\ chunks[t[Len(t)]].next = Nil
    BY <2>2, <2>3 DEF Visits
  <2>5. ChainFrom(head) = t
    BY <1>3
  <2>. HIDE DEF t
  <2>6. t # << >>
    BY <2>4
  <2>. QED  BY <1>7, <2>4, <2>5, <2>6 DEF WalkOf
<1>. QED  BY <1>6, <1>7

----------------------------------------------------------------------------
\* What the invariant says about the lists

\* Every chunk handed out is in one list, so that next links lead upwards.
LEMMA ListsRise ==
  ASSUME TypeOK, Counted, NEW rk \in [ChunkIndex -> Int], ListsBy(rk)
  PROVE  Rising(rk)
<1>. SUFFICES ASSUME NEW c \in ChunkIndex, chunks[c].next # Nil
              PROVE  rk[c] < rk[chunks[c].next]
  BY DEF Rising
<1>1. c < used /\ NextOf[c] = chunks[c].next /\ c \in 0 .. used - 1
  BY ConfigAssumption DEF Counted, NextOf, TypeOK, ChunkIndex
<1>2. CASE c \in Busy
  <2>. DEFINE side == chunks[c].side
              p == chunks[c].price
  <2>1. side \in Side /\ p \in Price /\ c \in On(side, p)
    BY <1>2 DEF TypeOK, Chunk, Counted, On
  <2>. HIDE DEF side, p
  <2>2. Ordered(On(side, p), levels[side][p].head, NextOf, rk)
    BY <2>1 DEF ListsBy, Linked
  <2>. QED  BY <1>1, <2>1, <2>2 DEF Ordered
<1>3. CASE c \notin Busy
  <2>1. c \in Spare
    BY <1>1, <1>3 DEF Busy, Spare
  <2>. QED  BY <1>1, <2>1 DEF ListsBy, Ordered
<1>. QED  BY <1>2, <1>3

LEMMA PartsOfChunkIndex ==
  ASSUME TypeOK
  PROVE  /\ Busy \in SUBSET ChunkIndex /\ Spare \in SUBSET ChunkIndex
         /\ \A side, p : On(side, p) \in SUBSET ChunkIndex
BY ConfigAssumption DEF Busy, Spare, On, TypeOK, ChunkIndex

\* From ranks to sequences: the list of a level is as ListsSound says.
LEMMA ListsSoundNow == StoreInv => ListsSound
<1>. SUFFICES ASSUME StoreInv, NEW side \in Side, NEW p \in Price
              PROVE  LET level == levels[side][p]
                         chain == ChainFrom(level.head)
                     IN  /\ level.tail = IF chain = << >> THEN Nil ELSE Last(chain)
                         /\ \A n \in DOMAIN chain :
                              LET c == chunks[chain[n]]
                              IN  /\ c.side = side /\ c.price = p
                                  /\ c.prev = IF n = 1 THEN Nil ELSE chain[n - 1]
                                  /\ c.live = Cardinality(LiveSlots(chain[n]))
                                  /\ c.live > 0
                                  /\ LiveSlots(chain[n]) \subseteq c.head .. c.tail - 1
  BY DEF ListsSound
<1>. DEFINE S == On(side, p)
            head == levels[side][p].head
            tail == levels[side][p].tail
            chain == ChainFrom(head)
<1>0. TypeOK /\ Counted /\ S \in SUBSET ChunkIndex
  BY PartsOfChunkIndex DEF StoreInv
<1>1. PICK rk \in [ChunkIndex -> Int] : ListsBy(rk)
  BY DEF StoreInv, Lists
<1>2. Linked(S, head, tail, NextOf, PrevOf, rk) /\ Ordered(S, head, NextOf, rk)
  BY <1>1 DEF ListsBy, Linked
<1>3. Rising(rk)
  BY <1>0, <1>1, ListsRise
<1>4. \A c \in S : /\ c \in ChunkIndex /\ NextOf[c] = chunks[c].next /\ PrevOf[c] = chunks[c].prev
                   /\ rk[c] \in Int
                   /\ chunks[c].side = side /\ chunks[c].price = p /\ c \in Busy
  BY <1>0 DEF NextOf, PrevOf, On
<1>. HIDE DEF S, head, tail
<1>5. /\ chain \in Seq(ChunkIndex) /\ ToSet(chain) = S
      /\ chain = << >> <=> S = {}
      /\ S # {} => chain[1] = head /\ chunks[chain[Len(chain)]].next = Nil
      /\ \A n \in 1 .. Len(chain) - 1 : chain[n + 1] = chunks[chain[n]].next
  <2>1. WalkOf(chain, S, head)
    BY <1>0, <1>2, <1>3, ChainOfList
  <2>. QED  BY <2>1 DEF WalkOf
<1>. HIDE DEF chain
<1>6. \A n \in DOMAIN chain : chain[n] \in S
  BY <1>5 DEF ToSet
<1>7. DOMAIN chain = 1 .. Len(chain) /\ Len(chain) \in Nat
  BY <1>5
<1>8. tail = IF chain = << >> THEN Nil ELSE Last(chain)
  <2>1. CASE S = {}
    BY <2>1, <1>2, <1>5 DEF Linked
  <2>2. CASE S # {}
    <3>. DEFINE z == chain[Len(chain)]
    <3>1. Len(chain) > 0 /\ chain # << >>
      BY <1>5, <2>2
    <3>2. z \in S /\ chunks[z].next = Nil
      BY <1>5, <1>6, <1>7, <2>2, <3>1
    <3>3. tail \in S /\ NextOf[tail] = Nil
      BY <1>2, <2>2 DEF Linked
    <3>. HIDE DEF z
    <3>4. rk[z] <= rk[tail] /\ rk[tail] <= rk[z]
      BY <1>2, <1>4, <3>2, <3>3 DEF Ordered
    <3>5. z = tail
      BY <1>2, <1>4, <3>2, <3>3, <3>4 DEF Ordered
    <3>. QED  BY <3>1, <3>5 DEF Last, z
  <2>. QED  BY <2>1, <2>2
<1>9. ASSUME NEW n \in DOMAIN chain
      PROVE  chunks[chain[n]].prev = IF n = 1 THEN Nil ELSE chain[n - 1]
  <2>1. CASE n = 1
    <3>1. S # {} /\ chain[n] = head /\ head \in S /\ head # Nil
      BY <2>1, <1>2, <1>5, <1>6 DEF Ordered
    <3>2. PrevOf[head] = Nil
      BY <1>2, <3>1 DEF Linked
    <3>. QED  BY <2>1, <1>4, <3>1, <3>2
  <2>2. CASE n # 1
    <3>1. n - 1 \in 1 .. Len(chain) - 1 /\ n - 1 \in DOMAIN chain /\ (n - 1) + 1 = n
      BY <2>2, <1>7
    <3>. DEFINE a == chain[n - 1]
    <3>2. a \in S /\ chain[n] = chunks[a].next /\ chain[n] \in S
      BY <1>5, <1>6, <3>1
    <3>. HIDE DEF a
    <3>3. chain[n] # Nil
      BY <1>4, <3>2, NextTyped, <1>0
    <3>4. PrevOf[chain[n]] = a
      BY <1>2, <1>4, <3>2, <3>3 DEF Linked
    <3>. QED  BY <2>2, <1>4, <3>2, <3>4 DEF a
  <2>. QED  BY <2>1, <2>2
<1>10. ASSUME NEW c \in S
       PROVE  /\ chunks[c].live = Cardinality(LiveSlots(c)) /\ chunks[c].live > 0
              /\ LiveSlots(c) \subseteq chunks[c].head .. chunks[c].tail - 1
  <2>1. c \in ChunkIndex /\ LiveSlots(c) # {} /\ LiveSlots(c) \subseteq SlotIndex
    BY <1>4 DEF Busy, LiveSlots
  <2>2. IsFiniteSet(SlotIndex)
    BY FS_Interval, StoreAssumption DEF SlotIndex
  <2>3. IsFiniteSet(LiveSlots(c))
    BY <2>1, <2>2, FS_Subset
  <2>4. Cardinality(LiveSlots(c)) \in Nat /\ Cardinality(LiveSlots(c)) # 0
    BY <2>1, <2>3, FS_CardinalityType, FS_EmptySet
  <2>. QED  BY <1>0, <2>1, <2>4 DEF Counted
<1>11. \A n \in DOMAIN chain :
         /\ chunks[chain[n]].side = side /\ chunks[chain[n]].price = p
         /\ chunks[chain[n]].live = Cardinality(LiveSlots(chain[n])) /\ chunks[chain[n]].live > 0
         /\ LiveSlots(chain[n]) \subseteq chunks[chain[n]].head .. chunks[chain[n]].tail - 1
  BY <1>4, <1>6, <1>10
<1>. QED  BY <1>8, <1>9, <1>11 DEF chain, head, tail

\* Each busy chunk holds an order of its own.
LEMMA BusyFew == StoreInv => Cardinality(Busy) <= live
<1>. SUFFICES ASSUME StoreInv
              PROVE  Cardinality(Busy) <= live
  OBVIOUS
<1>. DEFINE f == [c \in Busy |-> chunks[c].s[CHOOSE i \in LiveSlots(c) : TRUE].id]
            D == DOMAIN locs
<1>1. \A c \in Busy : f[c] \in D /\ locs[f[c]][1] = c
  <2>. SUFFICES ASSUME NEW c \in Busy
                PROVE  f[c] \in D /\ locs[f[c]][1] = c
    OBVIOUS
  <2>. DEFINE i == CHOOSE j \in LiveSlots(c) : TRUE
  <2>1. c \in ChunkIndex /\ i \in LiveSlots(c)
    BY DEF Busy
  <2>2. f[c] = chunks[c].s[i].id
    OBVIOUS
  <2>. HIDE DEF f, i
  <2>3. f[c] \in D /\ locs[f[c]] = <<c, i>>
    BY <2>1, <2>2 DEF StoreInv, Kept, LocsExact
  <2>. QED  BY <2>3
<1>2. IsFiniteSet(D)
  BY IdAssumption, FS_Subset DEF StoreInv, TypeOK
<1>. HIDE DEF f, D
<1>3. f \in Injection(Busy, D)
  <2>1. f \in [Busy -> D]
    BY <1>1 DEF f
  <2>2. \A c, d \in Busy : f[c] = f[d] => c = d
    BY <1>1
  <2>. QED  BY <2>1, <2>2 DEF Injection, IsInjective
<1>4. Cardinality(Busy) <= Cardinality(D)
  BY <1>2, <1>3, FS_Injection
<1>. QED  BY <1>4 DEF StoreInv, D

\* The free list is the spare chunks.
LEMMA FreeListIs == StoreInv => ToSet(ChainFrom(free)) = Spare
<1>. SUFFICES ASSUME StoreInv
              PROVE  ToSet(ChainFrom(free)) = Spare
  OBVIOUS
<1>1. PICK rk \in [ChunkIndex -> Int] : ListsBy(rk)
  BY DEF StoreInv, Lists
<1>2. TypeOK /\ Rising(rk) /\ Spare \in SUBSET ChunkIndex /\ Ordered(Spare, free, NextOf, rk)
  BY <1>1, ListsRise, PartsOfChunkIndex DEF StoreInv, ListsBy
<1>. QED  BY <1>2, ChainOfList DEF WalkOf

LEMMA LevelListIs ==
  ASSUME StoreInv, NEW side \in Side, NEW p \in Price
  PROVE  ToSet(ChainFrom(levels[side][p].head)) = On(side, p)
<1>1. PICK rk \in [ChunkIndex -> Int] : ListsBy(rk)
  BY DEF StoreInv, Lists
<1>. DEFINE S == On(side, p)
            head == levels[side][p].head
<1>2. TypeOK /\ Rising(rk) /\ S \in SUBSET ChunkIndex /\ Ordered(S, head, NextOf, rk)
  BY <1>1, ListsRise, PartsOfChunkIndex DEF StoreInv, ListsBy, Linked
<1>. HIDE DEF S, head
<1>3. ToSet(ChainFrom(head)) = S
  BY <1>2, ChainOfList DEF WalkOf
<1>. QED  BY <1>3 DEF S, head

\* The chunks handed out are those of the levels and those of the free list.
LEMMA NoChunkLostNow == StoreInv => NoChunkLost
<1>. SUFFICES ASSUME StoreInv
              PROVE  NoChunkLost
  OBVIOUS
<1>. DEFINE chains == {ChainFrom(levels[s][p].head) : s \in Side, p \in Price}
            inUse == UNION {ToSet(chain) : chain \in chains}
<1>1. TypeOK /\ Counted
  BY DEF StoreInv
<1>2. Busy \subseteq inUse
  <2>. SUFFICES ASSUME NEW c \in Busy
                PROVE  c \in inUse
    OBVIOUS
  <2>. DEFINE s == chunks[c].side
              p == chunks[c].price
  <2>1. s \in Side /\ p \in Price /\ c \in On(s, p)
    BY <1>1 DEF TypeOK, Chunk, Counted, Busy, On
  <2>. HIDE DEF s, p
  <2>2. c \in ToSet(ChainFrom(levels[s][p].head))
    BY <2>1, LevelListIs
  <2>. QED  BY <2>1, <2>2
<1>3. inUse \subseteq Busy
  <2>. SUFFICES ASSUME NEW s \in Side, NEW p \in Price, NEW c \in ToSet(ChainFrom(levels[s][p].head))
                PROVE  c \in Busy
    OBVIOUS
  <2>. QED  BY LevelListIs DEF On
<1>4. ASSUME NEW a \in chains, NEW b \in chains, a # b
      PROVE  ToSet(a) \cap ToSet(b) = {}
  <2>1. PICK s1 \in Side, p1 \in Price : a = ChainFrom(levels[s1][p1].head)
    BY <1>4
  <2>2. PICK s2 \in Side, p2 \in Price : b = ChainFrom(levels[s2][p2].head)
    BY <1>4
  <2>3. ToSet(a) = On(s1, p1) /\ ToSet(b) = On(s2, p2)
    BY <2>1, <2>2, LevelListIs
  <2>4. s1 # s2 \/ p1 # p2
    BY <1>4, <2>1, <2>2
  <2>. QED  BY <2>3, <2>4 DEF On
<1>5. Busy \cup Spare = 0 .. used - 1 /\ Busy \cap Spare = {}
  BY <1>1, ConfigAssumption DEF Busy, Spare, Counted, TypeOK, ChunkIndex
<1>6. inUse = Busy
  BY <1>2, <1>3
<1>. HIDE DEF chains, inUse
<1>7. /\ inUse \cup ToSet(ChainFrom(free)) = 0 .. used - 1
      /\ inUse \cap ToSet(ChainFrom(free)) = {}
      /\ Cardinality(inUse) <= live
  BY <1>5, <1>6, FreeListIs, BusyFew
<1>. QED  BY <1>4, <1>7 DEF NoChunkLost, chains, inUse

LEMMA FreeChunksDeadNow == StoreInv => FreeChunksDead
<1>. SUFFICES ASSUME StoreInv
              PROVE  FreeChunksDead
  OBVIOUS
<1>1. \A c \in ToSet(ChainFrom(free)) : LiveSlots(c) = {}
  BY FreeListIs DEF Spare
<1>2. \A c \in used .. MaxOrders : LiveSlots(c) = {}
  BY ConfigAssumption DEF StoreInv, Counted, Busy, ChunkIndex, TypeOK
<1>. QED  BY <1>1, <1>2 DEF FreeChunksDead

----------------------------------------------------------------------------
\* What a step does to the lists

\* No chunk becomes busy or idle: the lists stay.
LEMMA StayLists ==
  ASSUME TypeOK, Lists, Busy' = Busy, used' = used, free' = free,
         \A k \in ChunkIndex : /\ (LiveSlots(k) = {})' = (LiveSlots(k) = {})
                               /\ chunks'[k].side = chunks[k].side
                               /\ chunks'[k].price = chunks[k].price
                               /\ chunks'[k].next = chunks[k].next
                               /\ chunks'[k].prev = chunks[k].prev,
         \A side \in Side, p \in Price : /\ levels'[side][p].head = levels[side][p].head
                                         /\ levels'[side][p].tail = levels[side][p].tail
  PROVE  Lists' /\ RanksKept
<1>1. PICK rk \in [ChunkIndex -> Int] : ListsBy(rk)
  BY DEF Lists
<1>2. NextOf' = NextOf /\ PrevOf' = PrevOf
  BY DEF NextOf, PrevOf
<1>3. \A side, p : On(side, p)' = On(side, p)
  BY DEF On, Busy
<1>4. Spare' = Spare
  BY ConfigAssumption, SMTT(30) DEF Spare, TypeOK, ChunkIndex
<1>5. ListsBy(rk)'
  BY <1>1, <1>2, <1>3, <1>4 DEF ListsBy
<1>6. Ranks(rk, rk)
  BY <1>1, <1>5 DEF Ranks
<1>. QED  BY <1>5, <1>6 DEF Lists, RanksKept

\* drop_chunk: one chunk moves from its level to the front of the free list.
LEMMA DropLists ==
  ASSUME TypeOK, Counted, Lists, NEW c \in Busy, Busy' = Busy \ {c}, used' = used, free' = c,
         \A k \in ChunkIndex :
           /\ (LiveSlots(k) = {})' = (k \notin Busy \/ k = c)
           /\ chunks'[k].side = chunks[k].side
           /\ chunks'[k].price = chunks[k].price
           /\ chunks'[k].next = IF k = c THEN free
                                ELSE IF k = chunks[c].prev THEN chunks[c].next
                                ELSE chunks[k].next
           /\ k # c => chunks'[k].prev = IF k # chunks[c].prev /\ k = chunks[c].next
                                         THEN chunks[c].prev ELSE chunks[k].prev,
         \A side \in Side, p \in Price :
           /\ levels'[side][p].head =
                IF side = chunks[c].side /\ p = chunks[c].price /\ chunks[c].prev = Nil
                THEN chunks[c].next ELSE levels[side][p].head
           /\ levels'[side][p].tail =
                IF side = chunks[c].side /\ p = chunks[c].price /\ chunks[c].next = Nil
                THEN chunks[c].prev ELSE levels[side][p].tail
  PROVE  Lists' /\ RanksKept
<1>s. PICK s, q, a, b : s = chunks[c].side /\ q = chunks[c].price /\ a = chunks[c].prev /\ b = chunks[c].next
  OBVIOUS
<1>. DEFINE S == On(s, q)
<1>0. /\ c \in ChunkIndex /\ s \in Side /\ q \in Price /\ c \in S /\ c < used /\ c # Nil
      /\ S \in SUBSET ChunkIndex /\ Spare \in SUBSET ChunkIndex /\ c \notin Spare
  <2>1. c \in ChunkIndex /\ c # Nil
    BY NextTyped DEF Busy
  <2>2. s \in Side /\ q \in Price /\ c < used
    BY <1>s, <2>1 DEF TypeOK, Chunk, Counted
  <2>3. c \in S /\ c \notin Spare
    BY <1>s DEF On, Busy, Spare
  <2>. QED  BY <2>1, <2>2, <2>3, PartsOfChunkIndex
<1>1. PICK rk \in [ChunkIndex -> Int] : ListsBy(rk)
  BY DEF Lists
<1>r. PICK rk2, v : /\ v = IF free = Nil THEN 0 ELSE rk[free] - 1
                    /\ rk2 = [rk EXCEPT ![c] = v]
  OBVIOUS
<1>2. Linked(S, levels[s][q].head, levels[s][q].tail, NextOf, PrevOf, rk)
  BY <1>0, <1>1 DEF ListsBy
<1>3. Ordered(Spare, free, NextOf, rk)
  BY <1>1 DEF ListsBy
<1>4. NextOf[c] = b /\ PrevOf[c] = a
  BY <1>s, <1>0 DEF NextOf, PrevOf
<1>. HIDE DEF S
<1>5. /\ b # Nil => b \in S /\ rk[c] < rk[b]
      /\ a # Nil => a \in S /\ NextOf[a] = c
  BY <1>0, <1>2, <1>4 DEF Linked, Ordered
<1>6. a # Nil => rk[a] < rk[c]
  BY <1>0, <1>2, <1>5 DEF Linked, Ordered
<1>7. \A k \in S : rk[k] \in Int /\ k # Nil /\ k \in ChunkIndex
  BY <1>0, NextTyped
<1>8. a # Nil => a # b /\ a # c
  BY <1>0, <1>5, <1>6, <1>7
<1>9. b # Nil => b # c
  BY <1>0, <1>5, <1>7
<1>10. rk2 \in [ChunkIndex -> Int]
  <2>1. free # Nil => free \in ChunkIndex
    BY DEF TypeOK
  <2>2. v \in Int
    BY <1>r, <2>1
  <2>. QED  BY <1>r, <2>2
<1>11. \A k \in ChunkIndex \ {c} : rk2[k] = rk[k]
  BY <1>r
<1>12. free # Nil => rk2[c] < rk[free]
  BY <1>r, <1>0 DEF TypeOK
<1>. DEFINE nx2 == NextOf'
            pv2 == PrevOf'
<1>13. \A k \in ChunkIndex : nx2[k] = IF k = c THEN free ELSE IF k = a THEN b ELSE NextOf[k]
  BY <1>s DEF NextOf
<1>14. \A k \in ChunkIndex \ {c} : pv2[k] = IF k # a /\ k = b THEN a ELSE PrevOf[k]
  BY <1>s DEF PrevOf
<1>. HIDE DEF nx2, pv2
<1>15. Linked(S \ {c}, IF a = Nil THEN b ELSE levels[s][q].head,
              IF b = Nil THEN a ELSE levels[s][q].tail, nx2, pv2, rk2)
  <2>. DEFINE hd == levels[s][q].head
              tl == levels[s][q].tail
  <2>1. \A k \in S \ {c} : /\ rk2[k] = rk[k]
                           /\ nx2[k] = IF k = PrevOf[c] THEN NextOf[c] ELSE NextOf[k]
                           /\ pv2[k] = IF k = NextOf[c] THEN PrevOf[c] ELSE PrevOf[k]
    BY <1>4, <1>7, <1>8, <1>11, <1>13, <1>14
  <2>2. Linked(S, hd, tl, NextOf, PrevOf, rk)
    BY <1>2
  <2>. HIDE DEF hd, tl
  <2>3. PICK hd2, tl2 : /\ hd2 = IF PrevOf[c] = Nil THEN NextOf[c] ELSE hd
                        /\ tl2 = IF NextOf[c] = Nil THEN PrevOf[c] ELSE tl
    OBVIOUS
  <2>. DEFINE T == S \ {c}
  <2>4. T = S \ {c}
    OBVIOUS
  <2>. HIDE DEF T
  <2>5. Cut(S, hd, tl, NextOf, PrevOf, rk, c, T, hd2, tl2, nx2, pv2, rk2)
    BY <2>1, <2>3, <2>4 DEF Cut
  <2>6. Linked(T, hd2, tl2, nx2, pv2, rk2)
    BY <1>0, <1>10, <2>2, <2>5, LinkedLess
  <2>. QED  BY <1>4, <2>3, <2>6 DEF hd, tl, T
<1>16. On(s, q)' = S \ {c}
  BY <1>s, <1>0 DEF On, Busy, S
<1>17. ASSUME NEW side \in Side, NEW p \in Price
       PROVE  Linked(On(side, p)', levels'[side][p].head, levels'[side][p].tail, nx2, pv2, rk2)
  <2>1. CASE side = s /\ p = q
    <3>1. /\ levels'[s][q].head = IF a = Nil THEN b ELSE levels[s][q].head
          /\ levels'[s][q].tail = IF b = Nil THEN a ELSE levels[s][q].tail
      BY <1>s, <1>0
    <3>2. Linked(On(s, q)', levels'[s][q].head, levels'[s][q].tail, nx2, pv2, rk2)
      BY ONLY <1>15, <1>16, <3>1, Zenon
    <3>. QED  BY ONLY <2>1, <3>2, Zenon
  <2>2. CASE ~(side = s /\ p = q)
    <3>. DEFINE R == On(side, p)
                hd == levels[side][p].head
                tl == levels[side][p].tail
    <3>1. On(side, p)' = R /\ c \notin R /\ R \in SUBSET ChunkIndex /\ R \cap S = {}
      BY <2>2, <1>0, PartsOfChunkIndex DEF On, Busy, S
    <3>2. levels'[side][p].head = hd /\ levels'[side][p].tail = tl
      BY <1>s, <2>2
    <3>3. Linked(R, hd, tl, NextOf, PrevOf, rk)
      BY <1>1 DEF ListsBy
    <3>. HIDE DEF R, hd, tl
    <3>4. \A k \in R : /\ k \in ChunkIndex /\ k # c /\ k # a /\ k # b
      BY <3>1, <1>5, <1>0, NextTyped
    <3>5. \A k \in R : nx2[k] = NextOf[k] /\ pv2[k] = PrevOf[k] /\ rk2[k] = rk[k]
      BY <3>4, <1>11, <1>13, <1>14
    <3>6. Linked(R, hd, tl, nx2, pv2, rk2)
      BY <3>3, <3>5, LinkedSame
    <3>. QED  BY <3>1, <3>2, <3>6
  <2>. QED  BY <2>1, <2>2
<1>18. Ordered(Spare', free', nx2, rk2)
  <2>1. Spare' = Spare \cup {c}
    <3>1. Spare' = {k \in 0 .. used - 1 : k \notin Busy \/ k = c}
      BY ConfigAssumption DEF Spare, TypeOK, ChunkIndex
    <3>2. Spare = {k \in 0 .. used - 1 : k \notin Busy}
      BY ConfigAssumption DEF Spare, Busy, TypeOK, ChunkIndex
    <3>3. c \in 0 .. used - 1
      BY <1>0, ConfigAssumption DEF TypeOK, ChunkIndex
    <3>. QED  BY <3>1, <3>2, <3>3
  <2>2. S \cap Spare = {}
    BY DEF S, On, Busy, Spare
  <2>3. \A k \in Spare : k \in ChunkIndex /\ k # c /\ k # a /\ k # Nil
    BY <2>2, <1>0, <1>5, NextTyped
  <2>4. \A k \in Spare : nx2[k] = NextOf[k] /\ rk2[k] = rk[k]
    BY <2>3, <1>11, <1>13
  <2>5. nx2[c] = free
    BY <1>0, <1>13
  <2>6. free # Nil => rk2[c] < rk2[free]
    <3>1. free # Nil => free \in Spare
      BY <1>3 DEF Ordered
    <3>. QED  BY <3>1, <2>4, <1>12
  <2>7. Ordered(Spare \cup {c}, c, nx2, rk2)
    BY <1>0, <1>3, <1>10, <2>4, <2>5, <2>6, OrderedFront
  <2>. QED  BY <2>1, <2>7
<1>19. ListsBy(rk2)'
  BY <1>17, <1>18 DEF ListsBy, nx2, pv2
<1>20. Ranks(rk, rk2)
  BY <1>1, <1>10, <1>11, <1>19 DEF Ranks, Busy
<1>. QED  BY <1>10, <1>19, <1>20 DEF Lists, RanksKept

\* The free list is empty only when every chunk handed out is busy.
LEMMA NoSpare ==
  ASSUME TypeOK, NEW rk, ListsBy(rk)
  PROVE  /\ free = Nil => Spare = {}
         /\ free # Nil => free \in Spare
BY DEF ListsBy, Ordered

\* push opens a chunk, from the free list or a fresh one, behind the last
\* of its level.
LEMMA OpenLists ==
  ASSUME TypeOK, Counted, Lists, NEW s \in Side, NEW q \in Price, NEW c \in ChunkIndex,
         c = AllocChunk, Busy' = Busy \cup {c},
         free' = IF free # Nil THEN chunks[free].next ELSE free,
         used' = IF free = Nil THEN used + 1 ELSE used,
         chunks'[c].side = s, chunks'[c].price = q, chunks'[c].next = Nil,
         chunks'[c].prev = levels[s][q].tail,
         \A k \in ChunkIndex :
           /\ (LiveSlots(k) = {})' = (k \notin Busy /\ k # c)
           /\ k # c =>
                /\ chunks'[k].side = chunks[k].side
                /\ chunks'[k].price = chunks[k].price
                /\ chunks'[k].next = IF k = levels[s][q].tail THEN c ELSE chunks[k].next
                /\ chunks'[k].prev = chunks[k].prev,
         \A side \in Side, p \in Price :
           /\ levels'[side][p].head = IF side = s /\ p = q /\ levels[s][q].tail = Nil
                                      THEN c ELSE levels[side][p].head
           /\ levels'[side][p].tail = IF side = s /\ p = q THEN c ELSE levels[side][p].tail
  PROVE  Lists' /\ RanksKept
<1>1. PICK rk \in [ChunkIndex -> Int] : ListsBy(rk)
  BY DEF Lists
<1>2. PICK hd, tl : hd = levels[s][q].head /\ tl = levels[s][q].tail
  OBVIOUS
<1>. DEFINE S == On(s, q)
<1>3. /\ c # Nil /\ c \notin Busy /\ c \notin S
      /\ S \in SUBSET ChunkIndex /\ Spare \in SUBSET ChunkIndex
      /\ free # Nil => c = free /\ c \in Spare /\ chunks[c].next = NextOf[c]
      /\ free = Nil => c = used /\ Spare = {}
  <2>1. c # Nil /\ S \in SUBSET ChunkIndex /\ Spare \in SUBSET ChunkIndex
    BY NextTyped, PartsOfChunkIndex
  <2>2. free # Nil => c = free /\ c \in Spare /\ chunks[c].next = NextOf[c]
    BY <1>1, NoSpare DEF AllocChunk, NextOf
  <2>3. free = Nil => c = used /\ Spare = {}
    BY <1>1, NoSpare DEF AllocChunk
  <2>4. c \notin Busy
    BY <2>2, <2>3, ConfigAssumption, SMTT(30) DEF Counted, Spare, Busy, TypeOK, ChunkIndex
  <2>. QED  BY <2>1, <2>2, <2>3, <2>4 DEF On
<1>4. Linked(S, hd, tl, NextOf, PrevOf, rk)
  BY <1>1, <1>2 DEF ListsBy
<1>. HIDE DEF S
<1>5. tl # Nil => tl \in S /\ tl \in ChunkIndex /\ tl # c
  BY <1>3, <1>4 DEF Linked
<1>6. PICK rk2, v : /\ v = IF tl = Nil THEN 0 ELSE rk[tl] + 1
                    /\ rk2 = [rk EXCEPT ![c] = v]
  OBVIOUS
<1>7. rk2 \in [ChunkIndex -> Int] /\ rk2[c] = v
  <2>1. v \in Int
    BY <1>5, <1>6
  <2>. QED  BY <1>6, <2>1
<1>8. \A k \in ChunkIndex \ {c} : rk2[k] = rk[k]
  BY <1>6
<1>. DEFINE nx2 == NextOf'
            pv2 == PrevOf'
<1>9. /\ nx2[c] = Nil /\ pv2[c] = tl
      /\ \A k \in ChunkIndex \ {c} : /\ nx2[k] = IF k = tl THEN c ELSE NextOf[k]
                                     /\ pv2[k] = PrevOf[k]
  BY <1>2 DEF NextOf, PrevOf
<1>. HIDE DEF nx2, pv2
<1>10. tl # Nil => nx2[tl] = c /\ rk2[tl] < rk2[c]
  BY <1>5, <1>6, <1>7, <1>8, <1>9
<1>11. Linked(S \cup {c}, IF tl = Nil THEN c ELSE hd, c, nx2, pv2, rk2)
  <2>1. \A k \in S : rk2[k] = rk[k] /\ pv2[k] = PrevOf[k] /\ (k # tl => nx2[k] = NextOf[k])
    BY <1>3, <1>8, <1>9
  <2>2. S \in SUBSET ChunkIndex /\ c \in ChunkIndex \ S /\ rk2 \in [ChunkIndex -> Int]
    BY <1>3, <1>7
  <2>3. PICK T, hd2 : T = S \cup {c} /\ hd2 = IF tl = Nil THEN c ELSE hd
    OBVIOUS
  <2>4. Extend(S, hd, tl, NextOf, PrevOf, rk, c, T, hd2, nx2, pv2, rk2)
    BY <1>9, <1>10, <2>1, <2>3 DEF Extend
  <2>5. Linked(T, hd2, c, nx2, pv2, rk2)
    BY <1>4, <2>2, <2>4, LinkedMore
  <2>. QED  BY <2>3, <2>5
<1>12. On(s, q)' = S \cup {c}
  BY <1>3 DEF On, Busy, S
<1>13. ASSUME NEW side \in Side, NEW p \in Price
       PROVE  Linked(On(side, p)', levels'[side][p].head, levels'[side][p].tail, nx2, pv2, rk2)
  <2>1. CASE side = s /\ p = q
    BY <1>2, <1>11, <1>12, <2>1
  <2>2. CASE ~(side = s /\ p = q)
    <3>. DEFINE R == On(side, p)
                h == levels[side][p].head
                t == levels[side][p].tail
    <3>1. On(side, p)' = R /\ c \notin R /\ R \in SUBSET ChunkIndex /\ R \cap S = {}
      BY <2>2, <1>3, PartsOfChunkIndex DEF On, Busy, S
    <3>2. levels'[side][p].head = h /\ levels'[side][p].tail = t
      BY <2>2
    <3>3. Linked(R, h, t, NextOf, PrevOf, rk)
      BY <1>1 DEF ListsBy
    <3>. HIDE DEF R, h, t
    <3>4. \A k \in R : k \in ChunkIndex /\ k # c /\ k # tl
      BY <3>1, <1>5, NextTyped
    <3>5. \A k \in R : nx2[k] = NextOf[k] /\ pv2[k] = PrevOf[k] /\ rk2[k] = rk[k]
      BY <3>4, <1>8, <1>9
    <3>6. Linked(R, h, t, nx2, pv2, rk2)
      BY <3>3, <3>5, LinkedSame
    <3>. QED  BY <3>1, <3>2, <3>6
  <2>. QED  BY <2>1, <2>2
<1>14. Ordered(Spare', free', nx2, rk2)
  <2>1. Spare' = Spare \ {c}
    <3>1. Spare' = {k \in 0 .. used' - 1 : k \notin Busy /\ k # c}
      <4>1. 0 .. used' - 1 \subseteq ChunkIndex
        BY <1>3, ConfigAssumption DEF TypeOK, ChunkIndex
      <4>. QED  BY <4>1 DEF Spare
    <3>2. Spare = {k \in 0 .. used - 1 : k \notin Busy}
      BY ConfigAssumption DEF Spare, Busy, TypeOK, ChunkIndex
    <3>. QED  BY <1>3, <3>1, <3>2, ConfigAssumption DEF TypeOK, ChunkIndex
  <2>2. Ordered(Spare, free, NextOf, rk)
    BY <1>1 DEF ListsBy
  <2>3. S \cap Spare = {}
    BY DEF S, On, Busy, Spare
  <2>4. \A k \in Spare \ {c} : nx2[k] = NextOf[k] /\ rk2[k] = rk[k]
    <3>1. \A k \in Spare \ {c} : k \in ChunkIndex \ {c} /\ k # tl
      BY <1>3, <1>5, <2>3, NextTyped
    <3>. QED  BY <1>8, <1>9, <3>1
  <2>5. CASE free = Nil
    <3>1. Spare = {} /\ Spare' = {} /\ free' = Nil
      BY <1>3, <2>1, <2>5
    <3>. QED  BY <3>1 DEF Ordered
  <2>6. CASE free # Nil
    <3>1. c \in Spare /\ free = c /\ free' = NextOf[c]
      BY <1>3, <2>6
    <3>2. Ordered(Spare \ {c}, NextOf[c], nx2, rk2)
      BY <1>3, <2>2, <2>4, <3>1, OrderedRest
    <3>. QED  BY <2>1, <3>1, <3>2
  <2>. QED  BY <2>5, <2>6
<1>15. ListsBy(rk2)'
  BY <1>13, <1>14 DEF ListsBy, nx2, pv2
<1>16. Ranks(rk, rk2)
  BY <1>1, <1>3, <1>7, <1>8, <1>15 DEF Ranks, Busy
<1>. QED  BY <1>7, <1>15, <1>16 DEF Lists, RanksKept

----------------------------------------------------------------------------
\* What a step does to the slots

LEMMA SlotFacts ==
  ASSUME TypeOK, Counted, NEW c \in ChunkIndex
  PROVE  /\ LiveSlots(c) \in SUBSET SlotIndex /\ IsFiniteSet(LiveSlots(c))
         /\ Cardinality(LiveSlots(c)) = chunks[c].live
         /\ chunks[c].live = 0 <=> LiveSlots(c) = {}
         /\ \A i \in LiveSlots(c) : /\ chunks[c].s[i] \in Order /\ chunks[c].s[i] # Dead
                                    /\ i >= chunks[c].head /\ i < chunks[c].tail
<1>1. LiveSlots(c) \in SUBSET SlotIndex
  BY DEF LiveSlots
<1>2. IsFiniteSet(SlotIndex)
  BY FS_Interval, StoreAssumption DEF SlotIndex
<1>3. IsFiniteSet(LiveSlots(c))
  BY <1>1, <1>2, FS_Subset
<1>4. Cardinality(LiveSlots(c)) = chunks[c].live /\ LiveSlots(c) \subseteq chunks[c].head .. chunks[c].tail - 1
  BY DEF Counted
<1>5. chunks[c].live = 0 <=> LiveSlots(c) = {}
  BY <1>3, <1>4, FS_EmptySet
<1>6. \A i \in LiveSlots(c) : chunks[c].s[i] \in Order /\ chunks[c].s[i] # Dead
  BY DEF LiveSlots, TypeOK, Chunk
<1>7. \A i \in LiveSlots(c) : i >= chunks[c].head /\ i < chunks[c].tail
  BY <1>4 DEF TypeOK, Chunk
<1>. QED  BY <1>1, <1>3, <1>4, <1>5, <1>6, <1>7

\* A slot dies and the map forgets its order.
LEMMA SlotGone ==
  ASSUME TypeOK, Counted, LocsExact, Kept, NEW c \in ChunkIndex, NEW i \in LiveSlots(c),
         \A k \in ChunkIndex : LiveSlots(k)' = IF k = c THEN LiveSlots(c) \ {i} ELSE LiveSlots(k),
         \A k \in ChunkIndex : \A j \in LiveSlots(k)' : chunks'[k].s[j].id = chunks[k].s[j].id,
         Forget(chunks[c].s[i].id)
  PROVE  /\ LocsExact' /\ Kept'
         /\ DOMAIN locs' \subseteq OrderId /\ locs' \in [DOMAIN locs' -> ChunkIndex \X SlotIndex]
         /\ Cardinality(DOMAIN locs) \in Nat \ {0}
         /\ Cardinality(DOMAIN locs') = Cardinality(DOMAIN locs) - 1
<1>1. PICK x : x = chunks[c].s[i].id
  OBVIOUS
<1>2. locs' = [y \in DOMAIN locs \ {x} |-> locs[y]]
  BY <1>1 DEF Forget
<1>3. DOMAIN locs' = DOMAIN locs \ {x} /\ \A y \in DOMAIN locs' : locs'[y] = locs[y]
  BY <1>2
<1>4. x \in DOMAIN locs /\ locs[x] = <<c, i>>
  BY <1>1 DEF Kept, LocsExact
<1>5. DOMAIN locs' \subseteq OrderId /\ locs' \in [DOMAIN locs' -> ChunkIndex \X SlotIndex]
  BY <1>2, <1>3 DEF TypeOK
<1>6. ASSUME NEW y \in DOMAIN locs'
      PROVE  chunks'[locs'[y][1]].s[locs'[y][2]] # Dead /\ chunks'[locs'[y][1]].s[locs'[y][2]].id = y
  <2>1. PICK k \in ChunkIndex, j \in SlotIndex : locs[y] = <<k, j>>
    BY <1>3 DEF TypeOK
  <2>2. j \in LiveSlots(k) /\ chunks[k].s[j].id = y
    BY <1>3, <2>1 DEF LocsExact, LiveSlots
  <2>3. j \in LiveSlots(k)'
    BY <1>1, <1>3, <2>2
  <2>4. chunks'[k].s[j] # Dead /\ chunks'[k].s[j].id = y
    BY <2>2, <2>3 DEF LiveSlots
  <2>. QED  BY <1>3, <2>1, <2>4
<1>7. ASSUME NEW k \in ChunkIndex, NEW j \in LiveSlots(k)'
      PROVE  chunks'[k].s[j].id \in DOMAIN locs' /\ locs'[chunks'[k].s[j].id] = <<k, j>>
  <2>1. PICK y : y = chunks[k].s[j].id
    OBVIOUS
  <2>2. j \in LiveSlots(k) /\ ~(k = c /\ j = i)
    OBVIOUS
  <2>3. y \in DOMAIN locs /\ locs[y] = <<k, j>>
    BY <2>1, <2>2 DEF Kept, LocsExact
  <2>4. y # x
    BY <1>4, <2>2, <2>3
  <2>. QED  BY <1>3, <2>1, <2>3, <2>4
<1>8. LocsExact' /\ Kept'
  BY <1>6, <1>7 DEF LocsExact, Kept
<1>9. IsFiniteSet(DOMAIN locs)
  BY IdAssumption, FS_Subset DEF TypeOK
<1>10. /\ Cardinality(DOMAIN locs \ {x}) = Cardinality(DOMAIN locs) - 1
       /\ Cardinality(DOMAIN locs) \in Nat /\ Cardinality(DOMAIN locs) # 0
  BY <1>4, <1>9, FS_RemoveElement, FS_CardinalityType, FS_EmptySet
<1>. QED  BY <1>3, <1>5, <1>8, <1>10

\* The live slots and their orders' ids stay.
LEMMA SlotsStay ==
  ASSUME LocsExact, Kept, locs' = locs, TypeOK,
         \A k \in ChunkIndex : LiveSlots(k)' = LiveSlots(k),
         \A k \in ChunkIndex : \A j \in LiveSlots(k) : chunks'[k].s[j].id = chunks[k].s[j].id
  PROVE  LocsExact' /\ Kept'
<1>1. ASSUME NEW y \in DOMAIN locs
      PROVE  chunks'[locs[y][1]].s[locs[y][2]] # Dead /\ chunks'[locs[y][1]].s[locs[y][2]].id = y
  <2>1. PICK k \in ChunkIndex, j \in SlotIndex : locs[y] = <<k, j>>
    BY DEF TypeOK
  <2>2. j \in LiveSlots(k) /\ chunks[k].s[j].id = y
    BY <2>1 DEF LocsExact, LiveSlots
  <2>3. j \in LiveSlots(k)'
    BY <2>2
  <2>4. chunks'[k].s[j] # Dead /\ chunks'[k].s[j].id = y
    BY <2>2, <2>3 DEF LiveSlots
  <2>. QED  BY <2>1, <2>4
<1>2. ASSUME NEW k \in ChunkIndex, NEW j \in LiveSlots(k)'
      PROVE  chunks'[k].s[j].id \in DOMAIN locs /\ locs[chunks'[k].s[j].id] = <<k, j>>
  BY DEF LocsExact, Kept
<1>. QED  BY <1>1, <1>2 DEF LocsExact, Kept

\* Locations and slots agree after a step.
LEMMA LocsAfter ==
  ASSUME \A k \in ChunkIndex : \A j \in LiveSlots(k)' :
           chunks'[k].s[j].id \in DOMAIN locs' /\ locs'[chunks'[k].s[j].id] = <<k, j>>,
         \A y \in DOMAIN locs' :
           chunks'[locs'[y][1]].s[locs'[y][2]] # Dead /\ chunks'[locs'[y][1]].s[locs'[y][2]].id = y
  PROVE  LocsExact' /\ Kept'
BY DEF LocsExact, Kept

\* A slot comes to life for an order the map did not know.
LEMMA SlotNew ==
  ASSUME LocsExact, Kept, TypeOK, NEW c \in ChunkIndex, NEW i \in SlotIndex, NEW order \in Order,
         i \notin LiveSlots(c), order.id \notin DOMAIN locs, chunks'[c].s[i] = order,
         \A k \in ChunkIndex : LiveSlots(k)' = IF k = c THEN LiveSlots(c) \cup {i} ELSE LiveSlots(k),
         \A k \in ChunkIndex : \A j \in LiveSlots(k) : chunks'[k].s[j] = chunks[k].s[j],
         locs' = [id \in DOMAIN locs \cup {order.id} |-> IF id = order.id THEN <<c, i>> ELSE locs[id]]
  PROVE  /\ LocsExact' /\ Kept'
         /\ DOMAIN locs' \subseteq OrderId /\ locs' \in [DOMAIN locs' -> ChunkIndex \X SlotIndex]
         /\ Cardinality(DOMAIN locs') = Cardinality(DOMAIN locs) + 1
<1>1. PICK x : x = order.id
  OBVIOUS
<1>2. x \in OrderId /\ x \notin DOMAIN locs /\ order # Dead
  BY <1>1 DEF Order, Dead
<1>3. /\ DOMAIN locs' = DOMAIN locs \cup {x} /\ locs'[x] = <<c, i>>
      /\ \A y \in DOMAIN locs : y # x /\ locs'[y] = locs[y]
  BY <1>1, <1>2
<1>4. DOMAIN locs' \subseteq OrderId /\ locs' \in [DOMAIN locs' -> ChunkIndex \X SlotIndex]
  <2>1. \A y \in DOMAIN locs' : locs'[y] \in ChunkIndex \X SlotIndex
    BY <1>3 DEF TypeOK
  <2>. QED  BY <1>2, <1>3, <2>1 DEF TypeOK
<1>5. ASSUME NEW y \in DOMAIN locs'
      PROVE  chunks'[locs'[y][1]].s[locs'[y][2]] # Dead /\ chunks'[locs'[y][1]].s[locs'[y][2]].id = y
  <2>1. CASE y = x
    BY <1>1, <1>2, <1>3, <2>1
  <2>2. CASE y # x
    <3>1. PICK k \in ChunkIndex, j \in SlotIndex : locs[y] = <<k, j>>
      BY <1>3, <2>2 DEF TypeOK
    <3>2. y \in DOMAIN locs /\ j \in LiveSlots(k) /\ chunks[k].s[j].id = y /\ chunks[k].s[j] # Dead
      BY <1>3, <2>2, <3>1 DEF LocsExact, LiveSlots
    <3>3. chunks'[k].s[j] = chunks[k].s[j]
      BY <3>2
    <3>. QED  BY <1>3, <3>1, <3>2, <3>3
  <2>. QED  BY <2>1, <2>2
<1>6. ASSUME NEW k \in ChunkIndex, NEW j \in LiveSlots(k)'
      PROVE  chunks'[k].s[j].id \in DOMAIN locs' /\ locs'[chunks'[k].s[j].id] = <<k, j>>
  <2>1. CASE k = c /\ j = i
    BY <1>1, <1>3, <2>1
  <2>2. CASE ~(k = c /\ j = i)
    <3>1. j \in LiveSlots(k) /\ chunks'[k].s[j] = chunks[k].s[j]
      BY <2>2
    <3>2. PICK y : y = chunks[k].s[j].id
      OBVIOUS
    <3>3. y \in DOMAIN locs /\ locs[y] = <<k, j>>
      BY <3>1, <3>2 DEF Kept, LocsExact
    <3>. QED  BY <1>3, <3>1, <3>2, <3>3
  <2>. QED  BY <2>1, <2>2
<1>7. LocsExact' /\ Kept'
  <2>1. \A k \in ChunkIndex : \A j \in LiveSlots(k)' :
          chunks'[k].s[j].id \in DOMAIN locs' /\ locs'[chunks'[k].s[j].id] = <<k, j>>
    BY <1>6
  <2>2. \A y \in DOMAIN locs' :
          chunks'[locs'[y][1]].s[locs'[y][2]] # Dead /\ chunks'[locs'[y][1]].s[locs'[y][2]].id = y
    BY <1>5
  <2>. QED  BY <2>1, <2>2, LocsAfter
<1>8. IsFiniteSet(DOMAIN locs)
  BY IdAssumption, FS_Subset DEF TypeOK
<1>9. Cardinality(DOMAIN locs \cup {x}) = Cardinality(DOMAIN locs) + 1
  BY <1>2, <1>8, FS_AddElement
<1>. QED  BY <1>3, <1>4, <1>7, <1>9

----------------------------------------------------------------------------
\* The steps

\* The store with a slot marked dead, as Bury is given it.
KillsSlot(after, c, i, h) ==
  after = [chunks EXCEPT ![c].head = h, ![c].s[i] = Dead, ![c].live = @ - 1]

LEMMA AfterKill ==
  ASSUME TypeOK, Counted, NEW c \in ChunkIndex, NEW i \in LiveSlots(c), NEW h \in 0 .. ChunkSlots,
         NEW after, KillsSlot(after, c, i, h)
  PROVE  /\ after \in [ChunkIndex -> Chunk]
         /\ \A k \in ChunkIndex \ {c} : after[k] = chunks[k]
         /\ after[c].side = chunks[c].side /\ after[c].price = chunks[c].price
         /\ after[c].prev = chunks[c].prev /\ after[c].next = chunks[c].next
         /\ after[c].head = h /\ after[c].tail = chunks[c].tail
         /\ after[c].live = chunks[c].live - 1
         /\ after[c].s = [chunks[c].s EXCEPT ![i] = Dead]
<1>. DEFINE r == [chunks[c] EXCEPT !.head = h, !.s[i] = Dead, !.live = @ - 1]
<1>1. after = [chunks EXCEPT ![c] = r]
  BY DEF KillsSlot
<1>2. chunks[c] \in Chunk /\ chunks[c].live \in 1 .. ChunkSlots /\ i \in SlotIndex
  BY SlotFacts DEF TypeOK, Chunk
<1>3. r \in Chunk /\ r.live = chunks[c].live - 1 /\ r.head = h /\ r.tail = chunks[c].tail
      /\ r.side = chunks[c].side /\ r.price = chunks[c].price /\ r.prev = chunks[c].prev
      /\ r.next = chunks[c].next /\ r.s = [chunks[c].s EXCEPT ![i] = Dead]
  <2>. DEFINE l == chunks[c].live - 1
              t == [chunks[c].s EXCEPT ![i] = Dead]
              old == chunks[c]
  <2>1. l \in 0 .. ChunkSlots
    BY <1>2, StoreAssumption
  <2>2. t \in [SlotIndex -> Order \cup {Dead}]
    BY <1>2 DEF Chunk
  <2>3. r = [old EXCEPT !.head = h, !.s = t, !.live = l]
    BY <1>2 DEF Chunk
  <2>4. old \in Chunk
    BY <1>2
  <2>. HIDE DEF l, t, old, r
  <2>5. r \in Chunk /\ r.live = l /\ r.head = h /\ r.tail = old.tail
        /\ r.side = old.side /\ r.price = old.price /\ r.prev = old.prev
        /\ r.next = old.next /\ r.s = t
    BY <2>1, <2>2, <2>3, <2>4 DEF Chunk
  <2>. QED  BY <2>5 DEF l, t, old
<1>. HIDE DEF r
<1>4. after[c] = r /\ \A k \in ChunkIndex \ {c} : after[k] = chunks[k]
  BY <1>1 DEF TypeOK
<1>5. after \in [ChunkIndex -> Chunk]
  BY <1>1, <1>3 DEF TypeOK
<1>. QED  BY <1>3, <1>4, <1>5

\* The store with a dropped chunk spliced out of its list.
LEMMA AfterSplice ==
  ASSUME TypeOK, NEW c \in ChunkIndex, NEW after \in [ChunkIndex -> Chunk], NEW dropped,
         dropped = Spliced(c, after)
  PROVE  /\ dropped \in [ChunkIndex -> Chunk]
         /\ \A k \in ChunkIndex :
              /\ dropped[k].side = after[k].side /\ dropped[k].price = after[k].price
              /\ dropped[k].head = after[k].head /\ dropped[k].tail = after[k].tail
              /\ dropped[k].live = after[k].live /\ dropped[k].s = after[k].s
              /\ dropped[k].next = IF k = c THEN free
                                   ELSE IF k = after[c].prev THEN after[c].next
                                   ELSE after[k].next
              /\ k # c => dropped[k].prev = IF k # after[c].prev /\ k = after[c].next
                                            THEN after[c].prev ELSE after[k].prev
<1>1. PICK a, b : a = after[c].prev /\ b = after[c].next
  OBVIOUS
<1>2. a \in ChunkIndex \cup {Nil} /\ b \in ChunkIndex \cup {Nil} /\ free \in ChunkIndex \cup {Nil}
  BY <1>1 DEF Chunk, TypeOK
<1>3. dropped = [k \in ChunkIndex |->
                   IF k = c THEN [after[c] EXCEPT !.next = free]
                   ELSE IF k = a THEN [after[k] EXCEPT !.next = b]
                   ELSE IF k = b THEN [after[k] EXCEPT !.prev = a]
                   ELSE after[k]]
  BY <1>1 DEF Spliced, Freed, Relinked
<1>4. ASSUME NEW k \in ChunkIndex
      PROVE  /\ dropped[k] \in Chunk
             /\ dropped[k].side = after[k].side /\ dropped[k].price = after[k].price
             /\ dropped[k].head = after[k].head /\ dropped[k].tail = after[k].tail
             /\ dropped[k].live = after[k].live /\ dropped[k].s = after[k].s
             /\ dropped[k].next = IF k = c THEN free ELSE IF k = a THEN b ELSE after[k].next
             /\ k # c => dropped[k].prev = IF k # a /\ k = b THEN a ELSE after[k].prev
  <2>1. after[k] \in Chunk
    OBVIOUS
  <2>2. CASE k = c
    BY <1>2, <1>3, <2>1, <2>2 DEF Chunk
  <2>3. CASE k # c /\ k = a
    BY <1>2, <1>3, <2>1, <2>3 DEF Chunk
  <2>4. CASE k # c /\ k # a /\ k = b
    BY <1>2, <1>3, <2>1, <2>4 DEF Chunk
  <2>5. CASE k # c /\ k # a /\ k # b
    BY <1>3, <2>1, <2>5
  <2>. QED  BY <2>2, <2>3, <2>4, <2>5
<1>5. dropped \in [ChunkIndex -> Chunk]
  BY <1>3, <1>4
<1>. QED  BY <1>1, <1>4, <1>5

\* An order is gone: from unlink, or as a maker that has given everything.
\* h is where the chunk's walk will start, ahead of every live slot left.
LEMMA BuryStep ==
  ASSUME StoreInv, NEW c \in ChunkIndex, NEW i \in LiveSlots(c), NEW h \in 0 .. ChunkSlots,
         \A j \in LiveSlots(c) \ {i} : h <= j, NEW q \in Int, NEW after, NEW side, NEW p, NEW level,
         side = chunks[c].side, p = chunks[c].price, level = levels[side][p],
         KillsSlot(after, c, i, h), Bury(c, level, q, after), Forget(chunks[c].s[i].id)
  PROVE  /\ StoreInv' /\ RanksKept /\ SlotLost(c, i)
         /\ TotalBecomes(side, p, (level.total - q) % QtyWrap) /\ live' = live - 1
<1>0. /\ TypeOK /\ Counted /\ LocsExact /\ Kept /\ live = Cardinality(DOMAIN locs) /\ Lists
      /\ c \in Busy /\ i \in SlotIndex /\ side \in Side /\ p \in Price
      /\ c < used
  <2>1. TypeOK /\ Counted /\ LocsExact /\ Kept /\ live = Cardinality(DOMAIN locs) /\ Lists
    BY DEF StoreInv
  <2>2. c \in Busy /\ i \in SlotIndex
    BY DEF Busy, LiveSlots
  <2>. QED  BY <2>1, <2>2 DEF TypeOK, Chunk, Counted
<1>1. /\ after \in [ChunkIndex -> Chunk]
      /\ \A k \in ChunkIndex \ {c} : after[k] = chunks[k]
      /\ after[c].side = side /\ after[c].price = p
      /\ after[c].prev = chunks[c].prev /\ after[c].next = chunks[c].next
      /\ after[c].head = h /\ after[c].tail = chunks[c].tail
      /\ after[c].live = chunks[c].live - 1
      /\ after[c].s = [chunks[c].s EXCEPT ![i] = Dead]
  <2>1. /\ after \in [ChunkIndex -> Chunk]
        /\ \A k \in ChunkIndex \ {c} : after[k] = chunks[k]
        /\ after[c].side = chunks[c].side /\ after[c].price = chunks[c].price
        /\ after[c].prev = chunks[c].prev /\ after[c].next = chunks[c].next
        /\ after[c].head = h /\ after[c].tail = chunks[c].tail
        /\ after[c].live = chunks[c].live - 1
        /\ after[c].s = [chunks[c].s EXCEPT ![i] = Dead]
    <3>1. TypeOK /\ Counted
      BY <1>0
    <3>. QED  BY ONLY <3>1, c \in ChunkIndex, i \in LiveSlots(c), h \in 0 .. ChunkSlots,
                 KillsSlot(after, c, i, h), AfterKill
  <2>. QED  BY <2>1
<1>2. PICK dead, dropped : dead = Spent(after[c]) /\ dropped = Spliced(c, after)
  OBVIOUS
<1>3. /\ chunks' = IF dead THEN dropped ELSE after
      /\ levels' = [levels EXCEPT ![side][p] =
                      IF dead THEN Shortened([level EXCEPT !.total = (@ - q) % QtyWrap], c, after)
                      ELSE [level EXCEPT !.total = (@ - q) % QtyWrap]]
      /\ free' = IF dead THEN c ELSE free
      /\ live' = live - 1
      /\ used' = used
  BY <1>1, <1>2 DEF Bury
<1>4. dead <=> chunks[c].live = 1
  <2>1. dead <=> after[c].live = 0
    BY ONLY <1>2 DEF Spent
  <2>2. after[c].live = chunks[c].live - 1
    BY ONLY <1>1
  <2>3. chunks[c].live \in Int
    BY <1>0 DEF TypeOK, Chunk
  <2>. QED  BY ONLY <2>1, <2>2, <2>3
<1>5. /\ dropped \in [ChunkIndex -> Chunk]
      /\ \A k \in ChunkIndex :
           /\ dropped[k].side = after[k].side /\ dropped[k].price = after[k].price
           /\ dropped[k].head = after[k].head /\ dropped[k].tail = after[k].tail
           /\ dropped[k].live = after[k].live /\ dropped[k].s = after[k].s
           /\ dropped[k].next = IF k = c THEN free
                                ELSE IF k = after[c].prev THEN after[c].next
                                ELSE after[k].next
           /\ k # c => dropped[k].prev = IF k # after[c].prev /\ k = after[c].next
                                         THEN after[c].prev ELSE after[k].prev
  <2>1. TypeOK /\ after \in [ChunkIndex -> Chunk] /\ dropped = Spliced(c, after)
    BY <1>0, <1>1, <1>2
  <2>. QED  BY ONLY <2>1, c \in ChunkIndex, AfterSplice
<1>6. /\ chunks' \in [ChunkIndex -> Chunk]
      /\ \A k \in ChunkIndex :
           /\ chunks'[k].side = chunks[k].side /\ chunks'[k].price = chunks[k].price
           /\ chunks'[k].tail = chunks[k].tail
           /\ k # c => /\ chunks'[k].head = chunks[k].head
                       /\ chunks'[k].live = chunks[k].live /\ chunks'[k].s = chunks[k].s
      /\ chunks'[c].head = h /\ chunks'[c].live = chunks[c].live - 1
      /\ chunks'[c].s = [chunks[c].s EXCEPT ![i] = Dead]
  <2>1. CASE dead
    <3>1. chunks' = dropped
      BY <1>3, <2>1, Zenon
    <3>2. dropped \in [ChunkIndex -> Chunk]
      BY <1>5, Zenon
    <3>3. ASSUME NEW k \in ChunkIndex, k # c
          PROVE  /\ dropped[k].side = chunks[k].side /\ dropped[k].price = chunks[k].price
                 /\ dropped[k].tail = chunks[k].tail /\ dropped[k].head = chunks[k].head
                 /\ dropped[k].live = chunks[k].live /\ dropped[k].s = chunks[k].s
      <4>1. after[k] = chunks[k]
        BY <1>1, <3>3
      <4>2. /\ dropped[k].side = after[k].side /\ dropped[k].price = after[k].price
            /\ dropped[k].head = after[k].head /\ dropped[k].tail = after[k].tail
            /\ dropped[k].live = after[k].live /\ dropped[k].s = after[k].s
        BY <1>5, Zenon
      <4>. QED  BY ONLY <4>1, <4>2
    <3>4. /\ dropped[c].side = chunks[c].side /\ dropped[c].price = chunks[c].price
          /\ dropped[c].tail = chunks[c].tail /\ dropped[c].head = h
          /\ dropped[c].live = chunks[c].live - 1
          /\ dropped[c].s = [chunks[c].s EXCEPT ![i] = Dead]
      BY <1>0, <1>1, <1>5, Zenon
    <3>. QED  BY ONLY <3>1, <3>2, <3>3, <3>4
  <2>2. CASE ~dead
    BY <1>0, <1>1, <1>3, <2>2
  <2>. QED  BY <2>1, <2>2
<1>7. \A k \in ChunkIndex : LiveSlots(k)' = IF k = c THEN LiveSlots(c) \ {i} ELSE LiveSlots(k)
  <2>1. ASSUME NEW k \in ChunkIndex, k # c
        PROVE  LiveSlots(k)' = LiveSlots(k)
    BY <1>6, <2>1 DEF LiveSlots
  <2>2. LiveSlots(c)' = LiveSlots(c) \ {i}
    <3>1. chunks[c].s \in [SlotIndex -> Order \cup {Dead}]
      BY <1>0 DEF TypeOK, Chunk
    <3>2. \A j \in SlotIndex : chunks'[c].s[j] = IF j = i THEN Dead ELSE chunks[c].s[j]
      BY <1>6, <3>1
    <3>. QED  BY <3>2 DEF LiveSlots
  <2>. QED  BY <2>1, <2>2
<1>8. \A k \in ChunkIndex : \A j \in LiveSlots(k)' : chunks'[k].s[j] = chunks[k].s[j]
  <2>1. chunks[c].s \in [SlotIndex -> Order \cup {Dead}]
    BY <1>0 DEF TypeOK, Chunk
  <2>2. \A j \in SlotIndex : j # i => chunks'[c].s[j] = chunks[c].s[j]
    BY <1>6, <2>1
  <2>3. \A j \in LiveSlots(c)' : j \in SlotIndex /\ j # i
    BY <1>7 DEF LiveSlots
  <2>4. ASSUME NEW k \in ChunkIndex, k # c, NEW j \in LiveSlots(k)'
        PROVE  chunks'[k].s[j] = chunks[k].s[j]
    BY <1>6, <2>4
  <2>. QED  BY <2>2, <2>3, <2>4
<1>9. /\ LocsExact' /\ Kept'
      /\ DOMAIN locs' \subseteq OrderId /\ locs' \in [DOMAIN locs' -> ChunkIndex \X SlotIndex]
      /\ live' = Cardinality(DOMAIN locs') /\ live' \in 0 .. MaxOrders
  <2>1. /\ LocsExact' /\ Kept'
        /\ DOMAIN locs' \subseteq OrderId /\ locs' \in [DOMAIN locs' -> ChunkIndex \X SlotIndex]
        /\ Cardinality(DOMAIN locs) \in Nat \ {0}
        /\ Cardinality(DOMAIN locs') = Cardinality(DOMAIN locs) - 1
    <3>1. \A k \in ChunkIndex : \A j \in LiveSlots(k)' : chunks'[k].s[j].id = chunks[k].s[j].id
      BY <1>8, Zenon
    <3>. QED  BY <1>0, <1>7, <3>1, SlotGone
  <2>2. live' \in 0 .. MaxOrders
    <3>1. live \in 0 .. MaxOrders /\ live = Cardinality(DOMAIN locs) /\ live' = live - 1
      BY <1>0, <1>3 DEF TypeOK
    <3>2. live # 0
      BY <2>1, <3>1
    <3>. QED  BY <3>1, <3>2, ConfigAssumption
  <2>. QED  BY <1>0, <1>3, <2>1, <2>2
<1>10. /\ IsFiniteSet(LiveSlots(c)) /\ Cardinality(LiveSlots(c)) = chunks[c].live
       /\ Cardinality(LiveSlots(c) \ {i}) = chunks[c].live - 1
       /\ dead <=> LiveSlots(c) \ {i} = {}
  <2>1. IsFiniteSet(LiveSlots(c)) /\ Cardinality(LiveSlots(c)) = chunks[c].live
    BY <1>0, SlotFacts
  <2>2. IsFiniteSet(LiveSlots(c) \ {i}) /\ Cardinality(LiveSlots(c) \ {i}) = chunks[c].live - 1
    BY <2>1, FS_RemoveElement
  <2>3. LiveSlots(c) \ {i} = {} <=> chunks[c].live - 1 = 0
    BY <2>2, FS_EmptySet
  <2>. QED  BY <1>0, <1>4, <2>1, <2>2, <2>3 DEF TypeOK, Chunk
<1>11. Busy' = IF dead THEN Busy \ {c} ELSE Busy
  BY <1>0, <1>7, <1>10 DEF Busy
<1>12. \A k \in ChunkIndex : k >= used => chunks'[k].next = Nil
  <2>. SUFFICES ASSUME NEW k \in ChunkIndex, k >= used
                PROVE  chunks'[k].next = Nil
    OBVIOUS
  <2>1. chunks[k].next = Nil /\ k # c
    BY <1>0, ConfigAssumption DEF Counted, TypeOK, ChunkIndex
  <2>2. CASE dead
    <3>1. k # chunks[c].prev
      <4>1. ASSUME k = chunks[c].prev PROVE FALSE
        <5>1. PICK rk \in [ChunkIndex -> Int] : ListsBy(rk)
          BY <1>0 DEF Lists
        <5>. DEFINE S == On(side, p)
                    hd == levels[side][p].head
                    tl == levels[side][p].tail
        <5>2. Linked(S, hd, tl, NextOf, PrevOf, rk) /\ c \in S
          BY <1>0, <5>1 DEF ListsBy, On
        <5>3. PrevOf[c] = k /\ k # Nil
          BY <4>1, <1>0, NextTyped DEF PrevOf
        <5>. HIDE DEF S, hd, tl
        <5>4. c # hd
          BY <5>2, <5>3, <1>0, NextTyped DEF Linked
        <5>5. NextOf[k] = c /\ c # Nil
          BY <5>2, <5>3, <5>4, <1>0, NextTyped DEF Linked
        <5>. QED  BY <2>1, <5>5 DEF NextOf
      <4>. QED  BY <4>1
    <3>2. chunks' = dropped
      BY <1>3, <2>2, Zenon
    <3>3. after[c].prev = chunks[c].prev /\ after[k].next = chunks[k].next
      BY <1>1, <2>1
    <3>4. dropped[k].next = IF k = c THEN free
                            ELSE IF k = after[c].prev THEN after[c].next ELSE after[k].next
      BY <1>5
    <3>. QED  BY ONLY <2>1, <3>1, <3>2, <3>3, <3>4
  <2>3. CASE ~dead
    BY <1>1, <1>3, <2>1, <2>3
  <2>. QED  BY <2>2, <2>3
<1>13. Counted'
  <2>. SUFFICES ASSUME NEW k \in ChunkIndex
                PROVE  /\ chunks'[k].live = Cardinality(LiveSlots(k)')
                       /\ LiveSlots(k)' \subseteq chunks'[k].head .. chunks'[k].tail - 1
                       /\ k \in Busy' => chunks'[k].price \in Price /\ k < used'
                       /\ k >= used' => chunks'[k].next = Nil
    BY DEF Counted
  <2>1. /\ k \in Busy' => chunks'[k].price \in Price /\ k < used'
        /\ k >= used' => chunks'[k].next = Nil
    BY <1>0, <1>3, <1>6, <1>11, <1>12 DEF Counted
  <2>2. CASE k = c
    <3>1. \A j \in LiveSlots(c) \ {i} : j \in h .. chunks[c].tail - 1
      <4>1. \A j \in LiveSlots(c) : j \in SlotIndex /\ j < chunks[c].tail
        BY <1>0, SlotFacts
      <4>. QED  BY <4>1, <1>0, StoreAssumption DEF SlotIndex, TypeOK, Chunk
    <3>. QED  BY <1>6, <1>7, <1>10, <2>1, <2>2, <3>1
  <2>3. CASE k # c
    BY <1>0, <1>6, <1>7, <2>1, <2>3 DEF Counted
  <2>. QED  BY <2>2, <2>3
<1>14. /\ levels' \in [Side -> [Price -> [head: ChunkIndex \cup {Nil}, tail: ChunkIndex \cup {Nil},
                                          total: Qty]]]
       /\ \A s2 \in Side, p2 \in Price :
            /\ levels'[s2][p2].head =
                 IF dead /\ s2 = side /\ p2 = p /\ chunks[c].prev = Nil
                 THEN chunks[c].next ELSE levels[s2][p2].head
            /\ levels'[s2][p2].tail =
                 IF dead /\ s2 = side /\ p2 = p /\ chunks[c].next = Nil
                 THEN chunks[c].prev ELSE levels[s2][p2].tail
            /\ levels'[s2][p2].total =
                 IF s2 = side /\ p2 = p THEN (level.total - q) % QtyWrap ELSE levels[s2][p2].total
  <2>. DEFINE Lv == [head: ChunkIndex \cup {Nil}, tail: ChunkIndex \cup {Nil}, total: Qty]
  <2>1. PICK t : t = (level.total - q) % QtyWrap
    OBVIOUS
  <2>2. level \in Lv /\ t \in Qty
    <3>1. level \in Lv /\ level.total \in Int
      BY <1>0, QtyAssumption DEF TypeOK, Qty
    <3>2. PICK n \in Int : n = level.total - q
      BY <1>0, <3>1
    <3>. QED  BY ONLY <2>1, <3>1, <3>2, QtyAssumption DEF Qty
  <2>. DEFINE lv == IF dead THEN Shortened([level EXCEPT !.total = (@ - q) % QtyWrap], c, after)
                    ELSE [level EXCEPT !.total = (@ - q) % QtyWrap]
  <2>3. levels' = [levels EXCEPT ![side][p] = lv]
    BY <1>3
  <2>4. PICK a, b : a = chunks[c].prev /\ b = chunks[c].next
    OBVIOUS
  <2>5. a \in ChunkIndex \cup {Nil} /\ b \in ChunkIndex \cup {Nil}
    BY <1>0, <2>4 DEF TypeOK, Chunk
  <2>6. lv \in Lv /\ lv.head = (IF dead /\ a = Nil THEN b ELSE level.head)
                  /\ lv.tail = (IF dead /\ b = Nil THEN a ELSE level.tail)
                  /\ lv.total = t
    <3>1. CASE dead
      <4>1. lv = [level EXCEPT !.total = t, !.head = IF a = Nil THEN b ELSE @,
                               !.tail = IF b = Nil THEN a ELSE @]
        BY <1>1, <2>1, <2>2, <2>4, <3>1 DEF Shortened
      <4>. HIDE DEF lv
      <4>. QED  BY <2>2, <2>5, <3>1, <4>1
    <3>2. CASE ~dead
      <4>1. lv = [level EXCEPT !.total = t]
        BY <2>1, <3>2
      <4>. HIDE DEF lv
      <4>. QED  BY <2>2, <3>2, <4>1
    <3>. QED  BY <3>1, <3>2
  <2>7. levels \in [Side -> [Price -> Lv]]
    BY <1>0 DEF TypeOK
  <2>. HIDE DEF Lv, lv
  <2>8. levels' \in [Side -> [Price -> Lv]]
    BY <1>0, <2>3, <2>6, <2>7
  <2>9. \A s2 \in Side, p2 \in Price :
          levels'[s2][p2] = IF s2 = side /\ p2 = p THEN lv ELSE levels[s2][p2]
    <3>1. levels' = [levels EXCEPT ![side] = [levels[side] EXCEPT ![p] = lv]]
      BY <2>3
    <3>2. ASSUME NEW s2 \in Side, NEW p2 \in Price
          PROVE  levels'[s2][p2] = IF s2 = side /\ p2 = p THEN lv ELSE levels[s2][p2]
      <4>1. CASE s2 = side
        <5>1. levels'[s2] = [levels[side] EXCEPT ![p] = lv] /\ levels[side] \in [Price -> Lv]
          BY <3>1, <4>1, <2>7, <1>0
        <5>. QED  BY <4>1, <5>1
      <4>2. CASE s2 # side
        BY <3>1, <4>2, <2>7
      <4>. QED  BY <4>1, <4>2
    <3>. QED  BY <3>2
  <2>. QED  BY <2>1, <2>4, <2>6, <2>8, <2>9 DEF Lv
<1>15. TypeOK'
  <2>1. free' \in ChunkIndex \cup {Nil} /\ used' \in 0 .. MaxOrders
    BY <1>0, <1>3 DEF TypeOK
  <2>. QED  BY <1>6, <1>9, <1>14, <2>1 DEF TypeOK
<1>16. Lists' /\ RanksKept
  <2>1. CASE dead
    <3>1. \A k \in ChunkIndex :
            /\ (LiveSlots(k) = {})' = (k \notin Busy \/ k = c)
            /\ chunks'[k].side = chunks[k].side
            /\ chunks'[k].price = chunks[k].price
            /\ chunks'[k].next = IF k = c THEN free
                                 ELSE IF k = chunks[c].prev THEN chunks[c].next
                                 ELSE chunks[k].next
            /\ k # c => chunks'[k].prev = IF k # chunks[c].prev /\ k = chunks[c].next
                                          THEN chunks[c].prev ELSE chunks[k].prev
      <4>1. \A k \in ChunkIndex : (LiveSlots(k) = {})' = (k \notin Busy \/ k = c)
        BY <1>7, <1>10, <2>1 DEF Busy
      <4>2. \A k \in ChunkIndex : chunks'[k].side = chunks[k].side /\ chunks'[k].price = chunks[k].price
        BY <1>6
      <4>3. chunks' = dropped
        BY <1>3, <2>1
      <4>. QED  BY <1>1, <1>5, <4>1, <4>2, <4>3
    <3>2. \A s2 \in Side, p2 \in Price :
            /\ levels'[s2][p2].head =
                 IF s2 = chunks[c].side /\ p2 = chunks[c].price /\ chunks[c].prev = Nil
                 THEN chunks[c].next ELSE levels[s2][p2].head
            /\ levels'[s2][p2].tail =
                 IF s2 = chunks[c].side /\ p2 = chunks[c].price /\ chunks[c].next = Nil
                 THEN chunks[c].prev ELSE levels[s2][p2].tail
      BY <1>14, <2>1
    <3>3. Busy' = Busy \ {c} /\ used' = used /\ free' = c
      BY <1>3, <1>11, <2>1
    <3>. QED  BY <1>0, <3>1, <3>2, <3>3, DropLists
  <2>2. CASE ~dead
    <3>1. chunks' = after /\ free' = free /\ used' = used /\ Busy' = Busy
      BY <1>3, <1>11, <2>2
    <3>2. \A k \in ChunkIndex : /\ (LiveSlots(k) = {})' = (LiveSlots(k) = {})
                                /\ chunks'[k].side = chunks[k].side
                                /\ chunks'[k].price = chunks[k].price
                                /\ chunks'[k].next = chunks[k].next
                                /\ chunks'[k].prev = chunks[k].prev
      <4>1. \A k \in ChunkIndex : (LiveSlots(k) = {})' = (LiveSlots(k) = {})
        BY <1>7, <1>10, <2>2
      <4>. QED  BY <1>1, <1>6, <3>1, <4>1
    <3>3. \A s2 \in Side, p2 \in Price : /\ levels'[s2][p2].head = levels[s2][p2].head
                                         /\ levels'[s2][p2].tail = levels[s2][p2].tail
      BY <1>14, <2>2
    <3>. QED  BY <1>0, <3>1, <3>2, <3>3, StayLists
  <2>. QED  BY <2>1, <2>2
<1>17. SlotLost(c, i)
  BY <1>6, <1>7, <1>8 DEF SlotLost, HeadersStay
<1>18. TotalBecomes(side, p, (level.total - q) % QtyWrap)
  BY <1>14 DEF TotalBecomes
<1>19. StoreInv'
  BY <1>9, <1>13, <1>15, <1>16 DEF StoreInv
<1>. QED  BY <1>3, <1>16, <1>17, <1>18, <1>19

\* An order shrinks where it stands, and its level with it.
ShrinksSlot(now, c, i, h, q) ==
  now = [chunks EXCEPT ![c].head = h, ![c].s[i].qty = q]

LEMMA AfterShrink ==
  ASSUME TypeOK, Counted, NEW c \in ChunkIndex, NEW i \in LiveSlots(c), NEW h \in 0 .. ChunkSlots,
         NEW q \in Qty \ {0}, NEW now, ShrinksSlot(now, c, i, h, q)
  PROVE  /\ now \in [ChunkIndex -> Chunk]
         /\ \A k \in ChunkIndex \ {c} : now[k] = chunks[k]
         /\ now[c].side = chunks[c].side /\ now[c].price = chunks[c].price
         /\ now[c].prev = chunks[c].prev /\ now[c].next = chunks[c].next
         /\ now[c].head = h /\ now[c].tail = chunks[c].tail
         /\ now[c].live = chunks[c].live
         /\ now[c].s[i] # Dead /\ now[c].s[i].id = chunks[c].s[i].id
         /\ now[c].s[i] = [chunks[c].s[i] EXCEPT !.qty = q]
         /\ \A j \in SlotIndex \ {i} : now[c].s[j] = chunks[c].s[j]
<1>. DEFINE old == chunks[c]
            o == [old.s[i] EXCEPT !.qty = q]
            t == [old.s EXCEPT ![i] = o]
            r == [old EXCEPT !.head = h, !.s = t]
<1>1. now = [chunks EXCEPT ![c] = r]
  BY DEF KillsSlot, ShrinksSlot, TypeOK, Chunk
<1>2. old \in Chunk /\ old.s[i] \in Order /\ i \in SlotIndex
  BY SlotFacts DEF TypeOK
<1>. HIDE DEF old
<1>3. o \in Order /\ o.id = old.s[i].id
  BY <1>2 DEF Order
<1>. HIDE DEF o
<1>4. t \in [SlotIndex -> Order \cup {Dead}] /\ t[i] = o /\ \A j \in SlotIndex \ {i} : t[j] = old.s[j]
  BY <1>2, <1>3 DEF Chunk
<1>5. o # Dead
  BY <1>3 DEF Order, Dead
<1>. HIDE DEF t
<1>6. /\ r \in Chunk /\ r.side = old.side /\ r.price = old.price /\ r.prev = old.prev
      /\ r.next = old.next /\ r.head = h /\ r.tail = old.tail /\ r.live = old.live /\ r.s = t
  BY <1>2, <1>4 DEF Chunk
<1>. HIDE DEF r
<1>8. o = [chunks[c].s[i] EXCEPT !.qty = q]
  BY DEF o, old
<1>7. now[c] = r /\ (\A k \in ChunkIndex \ {c} : now[k] = chunks[k]) /\ now \in [ChunkIndex -> Chunk]
  BY <1>1, <1>6 DEF TypeOK
<1>. QED  BY <1>3, <1>4, <1>5, <1>6, <1>7, <1>8 DEF old

\* A maker that is not used up, and a replace that keeps its place.
LEMMA ShrinkStep ==
  ASSUME StoreInv, NEW c \in ChunkIndex, NEW i \in LiveSlots(c), NEW h \in 0 .. ChunkSlots,
         \A j \in LiveSlots(c) : h <= j, NEW q \in Qty \ {0}, ShrinksSlot(chunks', c, i, h, q),
         NEW side \in Side, NEW p \in Price, NEW sum \in Qty,
         levels' = [levels EXCEPT ![side][p].total = sum],
         locs' = locs, used' = used, free' = free, live' = live
  PROVE  StoreInv' /\ RanksKept /\ SlotLess(c, i, q) /\ TotalBecomes(side, p, sum)
<1>0. /\ TypeOK /\ Counted /\ LocsExact /\ Kept /\ live = Cardinality(DOMAIN locs) /\ Lists
      /\ i \in SlotIndex
  BY DEF StoreInv, LiveSlots
<1>1. PICK now : now = chunks'
  OBVIOUS
<1>2. /\ chunks' \in [ChunkIndex -> Chunk]
      /\ \A k \in ChunkIndex \ {c} : chunks'[k] = chunks[k]
      /\ chunks'[c].side = chunks[c].side /\ chunks'[c].price = chunks[c].price
      /\ chunks'[c].prev = chunks[c].prev /\ chunks'[c].next = chunks[c].next
      /\ chunks'[c].head = h /\ chunks'[c].tail = chunks[c].tail
      /\ chunks'[c].live = chunks[c].live
      /\ chunks'[c].s[i] # Dead /\ chunks'[c].s[i].id = chunks[c].s[i].id
      /\ chunks'[c].s[i] = [chunks[c].s[i] EXCEPT !.qty = q]
      /\ \A j \in SlotIndex \ {i} : chunks'[c].s[j] = chunks[c].s[j]
  <2>1. TypeOK /\ Counted /\ ShrinksSlot(now, c, i, h, q)
    BY <1>0, <1>1 DEF ShrinksSlot
  <2>2. /\ now \in [ChunkIndex -> Chunk]
        /\ \A k \in ChunkIndex \ {c} : now[k] = chunks[k]
        /\ now[c].side = chunks[c].side /\ now[c].price = chunks[c].price
        /\ now[c].prev = chunks[c].prev /\ now[c].next = chunks[c].next
        /\ now[c].head = h /\ now[c].tail = chunks[c].tail
        /\ now[c].live = chunks[c].live
        /\ now[c].s[i] # Dead /\ now[c].s[i].id = chunks[c].s[i].id
        /\ now[c].s[i] = [chunks[c].s[i] EXCEPT !.qty = q]
        /\ \A j \in SlotIndex \ {i} : now[c].s[j] = chunks[c].s[j]
    BY ONLY <2>1, c \in ChunkIndex, i \in LiveSlots(c), h \in 0 .. ChunkSlots, q \in Qty \ {0},
            AfterShrink
  <2>. QED  BY <1>1, <2>2
<1>3. \A k \in ChunkIndex : LiveSlots(k)' = LiveSlots(k)
  <2>1. ASSUME NEW k \in ChunkIndex, k # c
        PROVE  LiveSlots(k)' = LiveSlots(k)
    BY <1>2, <2>1 DEF LiveSlots
  <2>2. LiveSlots(c)' = LiveSlots(c)
    <3>1. \A j \in SlotIndex : chunks'[c].s[j] # Dead <=> chunks[c].s[j] # Dead
      BY <1>2 DEF LiveSlots
    <3>. QED  BY <3>1 DEF LiveSlots
  <2>. QED  BY <2>1, <2>2
<1>4. \A k \in ChunkIndex : \A j \in LiveSlots(k) : chunks'[k].s[j].id = chunks[k].s[j].id
  <2>1. \A j \in LiveSlots(c) : chunks'[c].s[j].id = chunks[c].s[j].id
    BY <1>2 DEF LiveSlots
  <2>. QED  BY <1>2, <2>1
<1>5. LocsExact' /\ Kept'
  BY <1>0, <1>3, <1>4, SlotsStay
<1>6. /\ levels' \in [Side -> [Price -> [head: ChunkIndex \cup {Nil}, tail: ChunkIndex \cup {Nil},
                                         total: Qty]]]
      /\ \A s2 \in Side, p2 \in Price : /\ levels'[s2][p2].head = levels[s2][p2].head
                                        /\ levels'[s2][p2].tail = levels[s2][p2].tail
                                        /\ levels'[s2][p2].total = IF s2 = side /\ p2 = p THEN sum
                                                                  ELSE levels[s2][p2].total
  <2>. DEFINE Lv == [head: ChunkIndex \cup {Nil}, tail: ChunkIndex \cup {Nil}, total: Qty]
              old == levels[side][p]
              lv == [old EXCEPT !.total = sum]
              row == levels[side]
              row2 == [row EXCEPT ![p] = lv]
  <2>1. levels \in [Side -> [Price -> Lv]]
    BY <1>0 DEF TypeOK
  <2>2. levels' = [levels EXCEPT ![side] = row2]
    OBVIOUS
  <2>3. row \in [Price -> Lv] /\ old = row[p]
    BY <2>1
  <2>. HIDE DEF row
  <2>4. old \in Lv
    BY <2>3
  <2>. HIDE DEF old
  <2>5. lv \in Lv /\ lv.head = old.head /\ lv.tail = old.tail /\ lv.total = sum
    BY <2>4
  <2>. HIDE DEF lv, Lv
  <2>6. /\ row2 \in [Price -> Lv]
        /\ \A p2 \in Price : /\ row2[p2].head = row[p2].head /\ row2[p2].tail = row[p2].tail
                             /\ row2[p2].total = IF p2 = p THEN sum ELSE row[p2].total
    BY <2>3, <2>5
  <2>. HIDE DEF row2
  <2>7. levels' \in [Side -> [Price -> Lv]]
    BY <2>1, <2>2, <2>6
  <2>8. ASSUME NEW s2 \in Side, NEW p2 \in Price
        PROVE  /\ levels'[s2][p2].head = levels[s2][p2].head /\ levels'[s2][p2].tail = levels[s2][p2].tail
               /\ levels'[s2][p2].total = IF s2 = side /\ p2 = p THEN sum ELSE levels[s2][p2].total
    BY <2>1, <2>2, <2>6 DEF row
  <2>. QED  BY <2>7, <2>8 DEF Lv
<1>7. TypeOK'
  BY <1>0, <1>2, <1>6 DEF TypeOK
<1>8. Counted'
  <2>1. ASSUME NEW k \in ChunkIndex
        PROVE  /\ chunks'[k].live = Cardinality(LiveSlots(k)')
               /\ k \in Busy' => chunks'[k].price \in Price /\ k < used'
               /\ k >= used' => chunks'[k].next = Nil
    BY <1>0, <1>2, <1>3 DEF Counted, Busy
  <2>2. ASSUME NEW k \in ChunkIndex
        PROVE  LiveSlots(k)' \subseteq chunks'[k].head .. chunks'[k].tail - 1
    <3>1. CASE k # c
      BY <1>0, <1>2, <1>3, <3>1 DEF Counted
    <3>2. CASE k = c
      <4>1. \A j \in LiveSlots(c) : j \in SlotIndex /\ j < chunks[c].tail
        BY <1>0, SlotFacts
      <4>2. \A j \in LiveSlots(c) : j \in h .. chunks[c].tail - 1
        BY <4>1, <1>0, StoreAssumption DEF SlotIndex, TypeOK, Chunk
      <4>. QED  BY <1>2, <1>3, <3>2, <4>2
    <3>. QED  BY <3>1, <3>2
  <2>. QED  BY <2>1, <2>2 DEF Counted
<1>9. Lists' /\ RanksKept
  <2>1. Busy' = Busy /\ \A k \in ChunkIndex : (LiveSlots(k) = {})' = (LiveSlots(k) = {})
    BY <1>3 DEF Busy
  <2>2. \A k \in ChunkIndex : /\ (LiveSlots(k) = {})' = (LiveSlots(k) = {})
                              /\ chunks'[k].side = chunks[k].side
                              /\ chunks'[k].price = chunks[k].price
                              /\ chunks'[k].next = chunks[k].next
                              /\ chunks'[k].prev = chunks[k].prev
    BY <1>2, <2>1
  <2>. QED  BY <1>0, <1>6, <2>1, <2>2, StayLists
<1>10. SlotLess(c, i, q)
  <2>1. \A j \in LiveSlots(c) : j # i => chunks'[c].s[j] = chunks[c].s[j]
    BY <1>2 DEF LiveSlots
  <2>2. \A k \in ChunkIndex : chunks'[k].side = chunks[k].side /\ chunks'[k].price = chunks[k].price
    BY <1>2
  <2>3. ASSUME NEW k \in ChunkIndex, NEW j \in LiveSlots(k)
        PROVE  chunks'[k].s[j] = IF k = c /\ j = i THEN [chunks[c].s[i] EXCEPT !.qty = q]
                                                  ELSE chunks[k].s[j]
    <3>1. CASE k = c
      BY <1>2, <2>1, <3>1
    <3>2. CASE k # c
      BY <1>2, <3>2
    <3>. QED  BY <3>1, <3>2
  <2>. QED  BY <1>3, <2>2, <2>3 DEF SlotLess, HeadersStay
<1>11. TotalBecomes(side, p, sum)
  BY <1>6 DEF TotalBecomes
<1>12. StoreInv'
  BY <1>0, <1>5, <1>7, <1>8, <1>9 DEF StoreInv
<1>. QED  BY <1>9, <1>10, <1>11, <1>12

----------------------------------------------------------------------------
\* The empty store.
LEMMA StoreInit == Init => StoreInv
<1>. SUFFICES ASSUME Init
              PROVE  StoreInv
  OBVIOUS
<1>1. /\ chunks = [c \in ChunkIndex |-> EmptyChunk] /\ used = 0 /\ free = Nil /\ live = 0
      /\ levels = [side \in Side |-> [p \in Price |-> EmptyLevel]] /\ locs = << >>
  BY DEF Init
<1>2. \A c \in ChunkIndex : LiveSlots(c) = {} /\ chunks[c].live = 0 /\ chunks[c].next = Nil
  BY <1>1 DEF LiveSlots, EmptyChunk
<1>3. DOMAIN locs = {} /\ locs \in [{} -> ChunkIndex \X SlotIndex]
  BY <1>1
<1>4. EmptyChunk \in Chunk /\ EmptyLevel \in [head: ChunkIndex \cup {Nil}, tail: ChunkIndex \cup {Nil}, total: Qty]
  BY StoreAssumption, QtyAssumption DEF EmptyChunk, EmptyLevel, Chunk, Side, Qty
<1>5. TypeOK
  BY <1>1, <1>3, <1>4, ConfigAssumption DEF TypeOK
<1>6. Busy = {} /\ Spare = {} /\ \A side, p : On(side, p) = {}
  BY <1>1, <1>2 DEF Busy, On, Spare
<1>7. Counted
  BY <1>2, <1>6, FS_EmptySet DEF Counted
<1>8. LocsExact /\ Kept
  BY <1>2, <1>3 DEF LocsExact, Kept
<1>9. live = Cardinality(DOMAIN locs)
  BY <1>1, <1>3, FS_EmptySet
<1>10. Lists
  <2>1. [c \in ChunkIndex |-> 0] \in [ChunkIndex -> Int]
    OBVIOUS
  <2>2. PICK rk \in [ChunkIndex -> Int] : rk = [c \in ChunkIndex |-> 0]
    BY <2>1
  <2>3. \A side \in Side, p \in Price : levels[side][p].head = Nil /\ levels[side][p].tail = Nil
    BY <1>1 DEF EmptyLevel
  <2>4. ListsBy(rk)
    BY <1>1, <1>6, <2>3 DEF ListsBy, Linked, Ordered
  <2>. QED  BY <2>4 DEF Lists
<1>. QED  BY <1>5, <1>7, <1>8, <1>9, <1>10 DEF StoreInv

\* A location the map knows is a live slot of a chunk of some level.
LEMMA SlotOf ==
  ASSUME StoreInv, NEW id \in DOMAIN locs
  PROVE  \E c, i :
           /\ c \in ChunkIndex /\ i \in LiveSlots(c)
           /\ locs[id] = <<c, i>> /\ chunks[c].s[i].id = id /\ c \in Busy
           /\ chunks[c].side \in Side /\ chunks[c].price \in Price
           /\ chunks[c].head \in 0 .. ChunkSlots /\ chunks[c].s[i].qty \in Qty \ {0}
           /\ \A j \in LiveSlots(c) : chunks[c].head <= j
<1>1. PICK c \in ChunkIndex, i \in SlotIndex : locs[id] = <<c, i>>
  BY DEF StoreInv, TypeOK
<1>2. i \in LiveSlots(c) /\ chunks[c].s[i].id = id /\ c \in Busy
  BY <1>1 DEF StoreInv, LocsExact, LiveSlots, Busy
<1>3. TypeOK /\ Counted
  BY DEF StoreInv
<1>4. chunks[c].side \in Side /\ chunks[c].price \in Price /\ chunks[c].head \in 0 .. ChunkSlots
  BY <1>2, <1>3 DEF TypeOK, Chunk, Counted
<1>5. chunks[c].s[i] \in Order /\ \A j \in LiveSlots(c) : chunks[c].head <= j
  BY <1>2, <1>3, <1>4, SlotFacts DEF SlotIndex
<1>. QED  BY <1>1, <1>2, <1>4, <1>5 DEF Order

\* unlink reaches its slot through the location.
LEMMA UnlinkStep ==
  ASSUME StoreInv, NEW id \in DOMAIN locs, Unlink(id)
  PROVE  /\ StoreInv' /\ RanksKept
         /\ \E c, i : /\ locs[id] = <<c, i>>
                     /\ c \in Busy /\ i \in LiveSlots(c) /\ SlotLost(c, i) /\ live' = live - 1
                     /\ TotalBecomes(chunks[c].side, chunks[c].price,
                          (levels[chunks[c].side][chunks[c].price].total - chunks[c].s[i].qty) % QtyWrap)
<1>1. PICK c, i :
        /\ c \in ChunkIndex /\ i \in LiveSlots(c)
        /\ locs[id] = <<c, i>> /\ chunks[c].s[i].id = id
        /\ chunks[c].side \in Side /\ chunks[c].price \in Price
        /\ chunks[c].head \in 0 .. ChunkSlots /\ chunks[c].s[i].qty \in Qty \ {0}
        /\ \A j \in LiveSlots(c) : chunks[c].head <= j
  BY SlotOf
<1>2. PICK h, q, side, p, level : /\ h = chunks[c].head /\ q = chunks[c].s[i].qty
                                  /\ side = chunks[c].side /\ p = chunks[c].price
                                  /\ level = levels[side][p]
  OBVIOUS
<1>3. PICK after : after = [chunks EXCEPT ![c].s[i] = Dead, ![c].live = @ - 1]
  OBVIOUS
<1>4. KillsSlot(after, c, i, h)
  <2>1. chunks \in [ChunkIndex -> Chunk]
    BY DEF StoreInv, TypeOK
  <2>. DEFINE old == chunks[c]
              l == old.live - 1
              t == [old.s EXCEPT ![i] = Dead]
  <2>2. after = [chunks EXCEPT ![c] = [old EXCEPT !.s = t, !.live = l]]
    BY <1>3, <2>1 DEF Chunk
  <2>3. old \in Chunk /\ h = old.head
    BY <1>1, <1>2, <2>1
  <2>4. [chunks EXCEPT ![c].head = h, ![c].s[i] = Dead, ![c].live = @ - 1]
          = [chunks EXCEPT ![c] = [old EXCEPT !.head = h, !.s = t, !.live = l]]
    BY <2>1 DEF Chunk
  <2>. HIDE DEF old, l, t
  <2>5. [old EXCEPT !.s = t, !.live = l] = [old EXCEPT !.head = h, !.s = t, !.live = l]
    BY <2>3 DEF Chunk
  <2>. QED  BY <2>2, <2>4, <2>5 DEF KillsSlot
<1>5. Bury(c, level, q, after) /\ Forget(chunks[c].s[i].id)
  BY <1>1, <1>2, <1>3 DEF Unlink, Kill, SlotAt
<1>6. q \in Int /\ h \in 0 .. ChunkSlots /\ \A j \in LiveSlots(c) \ {i} : h <= j
  BY <1>1, <1>2 DEF Qty
<1>7. /\ StoreInv' /\ RanksKept /\ SlotLost(c, i) /\ live' = live - 1
      /\ TotalBecomes(side, p, (level.total - q) % QtyWrap)
  BY <1>1, <1>2, <1>4, <1>5, <1>6, BuryStep
<1>8. c \in Busy
  BY <1>1 DEF Busy
<1>. QED  BY <1>1, <1>2, <1>7, <1>8

\* Lower writes the quantity where the order stands.
LEMMA ReduceStep ==
  ASSUME StoreInv, NEW id \in DOMAIN locs, NEW q \in Qty, Reduce(id, q)
  PROVE  /\ StoreInv' /\ RanksKept
         /\ \E c, i : /\ locs[id] = <<c, i>>
                     /\ c \in Busy /\ i \in LiveSlots(c) /\ SlotLess(c, i, q) /\ live' = live
                     /\ q \in 1 .. chunks[c].s[i].qty
                     /\ TotalBecomes(chunks[c].side, chunks[c].price,
                          (levels[chunks[c].side][chunks[c].price].total
                             - (chunks[c].s[i].qty - q)) % QtyWrap)
<1>1. PICK c, i :
        /\ c \in ChunkIndex /\ i \in LiveSlots(c)
        /\ locs[id] = <<c, i>> /\ chunks[c].s[i].id = id
        /\ chunks[c].side \in Side /\ chunks[c].price \in Price
        /\ chunks[c].head \in 0 .. ChunkSlots /\ chunks[c].s[i].qty \in Qty \ {0}
        /\ \A j \in LiveSlots(c) : chunks[c].head <= j
  BY SlotOf
<1>2. PICK h, side, p, sum : /\ h = chunks[c].head /\ side = chunks[c].side /\ p = chunks[c].price
                             /\ sum = (levels[side][p].total - (chunks[c].s[i].qty - q)) % QtyWrap
  OBVIOUS
<1>3. /\ q \in Qty \ {0} /\ side \in Side /\ p \in Price
      /\ h \in 0 .. ChunkSlots /\ \A j \in LiveSlots(c) : h <= j
  BY <1>1, <1>2 DEF Reduce, Qty
<1>4. sum \in Qty
  <2>1. levels[side][p].total \in Int /\ chunks[c].s[i].qty \in Int /\ q \in Int
    BY <1>1, <1>3 DEF StoreInv, TypeOK, Qty
  <2>. QED  BY <1>2, <2>1, QtyAssumption DEF Qty
<1>5. /\ chunks' = [chunks EXCEPT ![c].s[i].qty = q]
      /\ levels' = [levels EXCEPT ![side][p].total = sum]
      /\ used' = used /\ free' = free /\ live' = live /\ locs' = locs
  <2>1. PICK loc : loc = locs[id]
    OBVIOUS
  <2>2. Lower(loc, q) /\ locs' = locs
    BY <2>1 DEF Reduce
  <2>3. loc[1] = c /\ loc[2] = i
    BY <1>1, <2>1
  <2>. QED  BY ONLY <1>2, <2>2, <2>3 DEF Lower, SlotAt
<1>6. PICK now : now = chunks'
  OBVIOUS
<1>7. ShrinksSlot(now, c, i, h, q)
  <2>1. chunks \in [ChunkIndex -> Chunk]
    BY DEF StoreInv, TypeOK
  <2>. DEFINE old == chunks[c]
              t == [old.s EXCEPT ![i] = [@ EXCEPT !.qty = q]]
  <2>2. now = [chunks EXCEPT ![c] = [old EXCEPT !.s = t]]
    BY <1>5, <1>6, <2>1 DEF Chunk
  <2>3. old \in Chunk /\ h = old.head
    BY <1>1, <1>2, <2>1
  <2>4. [chunks EXCEPT ![c].head = h, ![c].s[i].qty = q]
          = [chunks EXCEPT ![c] = [old EXCEPT !.head = h, !.s = t]]
    BY <2>1 DEF Chunk
  <2>. HIDE DEF old, t
  <2>5. [old EXCEPT !.s = t] = [old EXCEPT !.head = h, !.s = t]
    BY <2>3 DEF Chunk
  <2>. QED  BY <2>2, <2>4, <2>5 DEF ShrinksSlot
<1>8. ShrinksSlot(chunks', c, i, h, q)
  BY <1>6, <1>7 DEF ShrinksSlot
<1>9. StoreInv' /\ RanksKept /\ SlotLess(c, i, q) /\ TotalBecomes(side, p, sum)
  BY <1>1, <1>3, <1>4, <1>5, <1>8, ShrinkStep
<1>10. c \in Busy
  BY <1>1 DEF Busy
<1>11. q \in 1 .. chunks[c].s[i].qty
  BY <1>1 DEF Reduce, SlotAt
<1>. QED  BY <1>1, <1>2, <1>5, <1>9, <1>10, <1>11

\* The slot where the walk of cross stops, in the first chunk of a level.
LEMMA FrontIs ==
  ASSUME StoreInv, NEW side \in Side, NEW p \in Price, levels[side][p].head # Nil
  PROVE  \E c, h :
           /\ c \in ChunkIndex /\ h \in LiveSlots(c)
           /\ levels[side][p].head = c /\ FrontSlot(c) = h
           /\ chunks[c].side = side /\ chunks[c].price = p
           /\ h \in 0 .. ChunkSlots /\ \A j \in LiveSlots(c) : h <= j
           /\ chunks[c].s[h] \in Order
<1>1. TypeOK /\ Counted /\ Lists
  BY DEF StoreInv
<1>2. PICK c : c = levels[side][p].head
  OBVIOUS
<1>3. c \in On(side, p) /\ c \in ChunkIndex
  <2>1. PICK rk \in [ChunkIndex -> Int] : ListsBy(rk)
    BY <1>1 DEF Lists
  <2>2. Ordered(On(side, p), c, NextOf, rk)
    BY <1>2, <2>1 DEF ListsBy, Linked
  <2>3. c \in On(side, p)
    BY <1>2, <2>2 DEF Ordered
  <2>. QED  BY <2>3 DEF On, Busy
<1>4. PICK L : L = LiveSlots(c)
  OBVIOUS
<1>5. L \in SUBSET Nat /\ L # {}
  BY <1>3, <1>4 DEF On, Busy, LiveSlots, SlotIndex
<1>6. PICK m \in L : \A n \in L : m <= n
  BY <1>5, LeastNat
<1>7. PICK top : top = chunks[c].head
  OBVIOUS
<1>8. top \in Nat /\ \A j \in L : j \in top .. ChunkSlots - 1
  BY <1>1, <1>3, <1>4, <1>7, SlotFacts, StoreAssumption DEF SlotIndex, TypeOK, Chunk
<1>9. \A j \in top .. ChunkSlots - 1 : j \in L <=> chunks[c].s[j] # Dead
  BY <1>4, <1>8 DEF LiveSlots, SlotIndex
<1>10. PICK h : h = FrontSlot(c)
  OBVIOUS
<1>11. /\ h \in top .. ChunkSlots - 1 /\ chunks[c].s[h] # Dead
       /\ \A j \in top .. h - 1 : chunks[c].s[j] = Dead
  <2>1. /\ m \in top .. ChunkSlots - 1 /\ chunks[c].s[m] # Dead
        /\ \A j \in top .. m - 1 : chunks[c].s[j] = Dead
    <3>1. m \in top .. ChunkSlots - 1 /\ chunks[c].s[m] # Dead
      BY <1>8, <1>9
    <3>2. \A j \in top .. m - 1 : j \in top .. ChunkSlots - 1 /\ j \notin L
      BY <1>6, <1>8, <3>1, StoreAssumption
    <3>. QED  BY <1>9, <3>1, <3>2
  <2>. QED  BY <1>7, <1>10, <2>1 DEF FrontSlot
<1>12. h \in L
  BY <1>9, <1>11
<1>13. \A j \in L : h <= j
  <2>. SUFFICES ASSUME NEW j \in L, j < h
                PROVE  FALSE
    BY <1>5, <1>12
  <2>1. j \in top .. h - 1
    BY <1>5, <1>8, <1>12
  <2>. QED  BY <1>8, <1>9, <1>11, <2>1
<1>14. chunks[c].s[h] \in Order
  BY <1>1, <1>3, <1>4, <1>12, SlotFacts
<1>15. h \in 0 .. ChunkSlots
  BY <1>8, <1>11, StoreAssumption
<1>. QED  BY <1>2, <1>3, <1>4, <1>10, <1>12, <1>13, <1>14, <1>15 DEF On

\* cross uses the oldest order up, or takes part of it.
LEMMA TakeFrontStep ==
  ASSUME StoreInv, NEW side \in Side, NEW p \in Price, NEW q \in Qty, TakeFront(side, p, q)
  PROVE  /\ StoreInv' /\ RanksKept
         /\ TotalBecomes(side, p, (levels[side][p].total - q) % QtyWrap)
         /\ \E c, h :
              /\ c \in ChunkIndex /\ h \in LiveSlots(c)
              /\ levels[side][p].head = c /\ \A j \in LiveSlots(c) : h <= j
              /\ chunks[c].side = side /\ chunks[c].price = p
              /\ q \in 1 .. chunks[c].s[h].qty
              /\ IF chunks[c].s[h].qty = q
                 THEN SlotLost(c, h) /\ live' = live - 1
                 ELSE SlotLess(c, h, chunks[c].s[h].qty - q) /\ live' = live
<1>1. levels[side][p].head # Nil
  BY DEF TakeFront
<1>2. PICK c, h :
        /\ c \in ChunkIndex /\ h \in LiveSlots(c)
        /\ levels[side][p].head = c /\ FrontSlot(c) = h
        /\ chunks[c].side = side /\ chunks[c].price = p
        /\ h \in 0 .. ChunkSlots /\ \A j \in LiveSlots(c) : h <= j
        /\ chunks[c].s[h] \in Order
  BY <1>1, FrontIs
<1>3. PICK maker : maker = chunks[c].s[h]
  OBVIOUS
<1>4. /\ q \in 1 .. maker.qty /\ Give(side, p, q)
      /\ IF maker.qty = q THEN Forget(maker.id) ELSE UNCHANGED locs
  BY <1>2, <1>3 DEF TakeFront, Oldest, SlotAt
<1>5. CASE maker.qty = q
  <2>1. PICK after, level : /\ after = [chunks EXCEPT ![c].head = h, ![c].s[h] = Dead, ![c].live = @ - 1]
                            /\ level = levels[side][p]
    OBVIOUS
  <2>2. KillsSlot(after, c, h, h)
    BY <2>1 DEF KillsSlot
  <2>3. Bury(c, level, q, after)
    BY <1>2, <1>3, <1>4, <1>5, <2>1 DEF Give, Oldest, SlotAt
  <2>4. Forget(chunks[c].s[h].id)
    BY <1>3, <1>4, <1>5
  <2>5. q \in Int /\ \A j \in LiveSlots(c) \ {h} : h <= j
    BY <1>2 DEF Qty
  <2>6. /\ StoreInv' /\ RanksKept /\ SlotLost(c, h) /\ live' = live - 1
        /\ TotalBecomes(side, p, (level.total - q) % QtyWrap)
    BY <1>2, <2>1, <2>2, <2>3, <2>4, <2>5, BuryStep
  <2>. QED  BY <1>2, <1>3, <1>4, <1>5, <2>1, <2>6
<1>6. CASE maker.qty # q
  <2>1. /\ chunks' = [chunks EXCEPT ![c].head = h, ![c].s[h].qty = @ - q]
        /\ levels' = [levels EXCEPT ![side][p].total = (@ - q) % QtyWrap]
        /\ used' = used /\ free' = free /\ live' = live /\ locs' = locs
    BY <1>2, <1>3, <1>4, <1>6 DEF Give, Oldest, SlotAt
  <2>2. PICK left, sum : left = maker.qty - q /\ sum = (levels[side][p].total - q) % QtyWrap
    OBVIOUS
  <2>3. left \in Qty \ {0} /\ sum \in Qty
    <3>1. maker.qty \in Qty /\ levels[side][p].total \in Int
      BY <1>2, <1>3 DEF Order, StoreInv, TypeOK, Qty
    <3>. QED  BY <1>4, <1>6, <2>2, <3>1, QtyAssumption DEF Qty
  <2>4. levels' = [levels EXCEPT ![side][p].total = sum]
    BY <2>1, <2>2
  <2>5. ShrinksSlot(chunks', c, h, h, left)
    <3>1. chunks \in [ChunkIndex -> Chunk]
      BY DEF StoreInv, TypeOK
    <3>2. chunks[c].s[h].qty - q = left
      BY <1>3, <2>2
    <3>. QED  BY <2>1, <3>1, <3>2 DEF ShrinksSlot, Chunk
  <2>6. used' = used /\ free' = free /\ live' = live /\ locs' = locs
    BY <2>1
  <2>7. StoreInv /\ side \in Side /\ p \in Price
    OBVIOUS
  <2>8. StoreInv' /\ RanksKept /\ SlotLess(c, h, left) /\ TotalBecomes(side, p, sum)
    BY ONLY <1>2, <2>3, <2>4, <2>5, <2>6, <2>7, ShrinkStep
  <2>. QED  BY <1>2, <1>3, <1>4, <1>6, <2>2, <2>6, <2>8
<1>. QED  BY <1>5, <1>6

\* alloc_chunk returns a chunk without orders, and there is one as long as
\* the store is not full.
LEMMA AllocIdle ==
  ASSUME StoreInv, live < MaxOrders
  PROVE  /\ AllocChunk \in ChunkIndex /\ AllocChunk \notin Busy
         /\ free # Nil => AllocChunk = free /\ AllocChunk < used
         /\ free = Nil => AllocChunk = used /\ used < MaxOrders
<1>1. TypeOK /\ Counted /\ Lists
  BY DEF StoreInv
<1>2. PICK rk \in [ChunkIndex -> Int] : ListsBy(rk)
  BY <1>1 DEF Lists
<1>3. CASE free # Nil
  <2>1. free \in Spare /\ AllocChunk = free
    BY <1>1, <1>2, <1>3, NoSpare DEF AllocChunk
  <2>2. free \in 0 .. used - 1 /\ LiveSlots(free) = {}
    BY <2>1 DEF Spare
  <2>. QED  BY <1>1, <1>3, <2>1, <2>2, ConfigAssumption DEF Busy, TypeOK, ChunkIndex
<1>4. CASE free = Nil
  <2>1. Spare = {} /\ AllocChunk = used
    BY <1>1, <1>2, <1>4, NoSpare DEF AllocChunk
  <2>2. used \in Nat /\ live \in Nat /\ used \in ChunkIndex
    BY <1>1, ConfigAssumption DEF TypeOK, ChunkIndex
  <2>3. 0 .. used - 1 \subseteq Busy
    BY <1>1, <2>1, ConfigAssumption DEF Spare, Busy, TypeOK, ChunkIndex
  <2>4. IsFiniteSet(Busy) /\ Cardinality(Busy) <= live
    <3>1. IsFiniteSet(ChunkIndex) /\ Busy \subseteq ChunkIndex
      BY FS_Interval, ConfigAssumption DEF ChunkIndex, Busy
    <3>. QED  BY <3>1, FS_Subset, BusyFew
  <2>5. Cardinality(0 .. used - 1) = used /\ IsFiniteSet(0 .. used - 1)
    BY <2>2, FS_Interval
  <2>6. Cardinality(0 .. used - 1) <= Cardinality(Busy)
    BY <2>3, <2>4, FS_Subset
  <2>7. Cardinality(Busy) \in Nat
    BY <2>4, FS_CardinalityType
  <2>8. used < MaxOrders
    BY <2>2, <2>4, <2>5, <2>6, <2>7, ConfigAssumption
  <2>9. used \notin Busy
    BY <1>1, <2>2 DEF Counted
  <2>. QED  BY <1>4, <2>1, <2>2, <2>8, <2>9
<1>. QED  BY <1>3, <1>4

\* The last chunk of a level has orders, of that level.
LEMMA TailBusy ==
  ASSUME StoreInv, NEW side \in Side, NEW p \in Price, levels[side][p].tail # Nil
  PROVE  /\ levels[side][p].tail \in Busy
         /\ levels[side][p].tail \in ChunkIndex
<1>1. PICK rk \in [ChunkIndex -> Int] : ListsBy(rk)
  BY DEF StoreInv, Lists
<1>2. PICK t : t = levels[side][p].tail
  OBVIOUS
<1>3. t \in On(side, p)
  BY <1>1, <1>2 DEF ListsBy, Linked
<1>. QED  BY <1>2, <1>3 DEF On, Busy

\* The chunk and slot of a push: there is room behind the last live slot.
LEMMA PushLocFree ==
  ASSUME StoreInv, live < MaxOrders, NEW side \in Side, NEW p \in Price
  PROVE  \E c, i :
           /\ PushLoc(side, p) = <<c, i>> /\ c \in ChunkIndex /\ i \in SlotIndex
           /\ i \notin LiveSlots(c)
           /\ NeedsChunk(levels[side][p]) =>
                c = AllocChunk /\ i = 0 /\ c \notin Busy /\ c # levels[side][p].tail
           /\ ~NeedsChunk(levels[side][p]) =>
                /\ c = levels[side][p].tail /\ i = chunks[c].tail /\ c \in Busy
                /\ chunks[c].live < ChunkSlots /\ chunks[c].head <= i
<1>1. TypeOK /\ Counted
  BY DEF StoreInv
<1>2. CASE NeedsChunk(levels[side][p])
  <2>1. PushLoc(side, p) = <<AllocChunk, 0>>
    BY <1>2 DEF PushLoc
  <2>2. AllocChunk \in ChunkIndex /\ AllocChunk \notin Busy
    BY AllocIdle
  <2>3. levels[side][p].tail # Nil => levels[side][p].tail \in Busy
    BY TailBusy
  <2>4. AllocChunk # Nil
    BY <2>2, ConfigAssumption DEF ChunkIndex, Nil
  <2>5. 0 \in SlotIndex /\ 0 \notin LiveSlots(AllocChunk)
    BY <2>2, StoreAssumption DEF SlotIndex, Busy
  <2>. QED  BY <1>2, <2>1, <2>2, <2>3, <2>4, <2>5
<1>3. CASE ~NeedsChunk(levels[side][p])
  <2>1. PICK c, i : c = levels[side][p].tail /\ i = chunks[c].tail
    OBVIOUS
  <2>2. PushLoc(side, p) = <<c, i>> /\ c # Nil /\ i # ChunkSlots
    BY <1>3, <2>1 DEF PushLoc, NeedsChunk
  <2>3. c \in ChunkIndex /\ c \in Busy
    BY <2>1, <2>2, TailBusy
  <2>4. i \in 0 .. ChunkSlots /\ chunks[c].head \in 0 .. ChunkSlots
    BY <1>1, <2>1, <2>3 DEF TypeOK, Chunk
  <2>5. i \in SlotIndex
    BY <2>2, <2>4, StoreAssumption DEF SlotIndex
  <2>6. \A j \in LiveSlots(c) : j \in SlotIndex /\ chunks[c].head <= j /\ j < i
    BY <1>1, <2>1, <2>3, SlotFacts
  <2>7. i \notin LiveSlots(c)
    BY <2>4, <2>6
  <2>8. chunks[c].head <= i
    <3>1. PICK j : j \in LiveSlots(c)
      BY <2>3 DEF Busy
    <3>. QED  BY <2>4, <2>6, <3>1 DEF SlotIndex
  <2>9. chunks[c].live < ChunkSlots
    <3>1. LiveSlots(c) \subseteq 0 .. i - 1
      BY <2>4, <2>6 DEF SlotIndex
    <3>2. IsFiniteSet(0 .. i - 1) /\ Cardinality(0 .. i - 1) = i
      <4>1. i \in Nat /\ i - 1 \in Int
        BY <2>4, StoreAssumption
      <4>. QED  BY <4>1, FS_Interval
    <3>3. Cardinality(LiveSlots(c)) <= i
      BY <3>1, <3>2, FS_Subset
    <3>. QED  BY <1>1, <2>3, <2>4, <2>5, <3>3, StoreAssumption DEF SlotIndex, TypeOK, Chunk, Counted
  <2>. QED  BY <1>3, <2>1, <2>2, <2>3, <2>5, <2>7, <2>8, <2>9
<1>. QED  BY <1>2, <1>3

\* The slot of a push is filled ...
FillsSlot(now, linked, c, i, order) ==
  now = [linked EXCEPT ![c].tail = @ + 1, ![c].live = @ + 1, ![c].s[i] = order]

LEMMA AfterFill ==
  ASSUME NEW linked \in [ChunkIndex -> Chunk], NEW c \in ChunkIndex, NEW i \in SlotIndex,
         NEW order \in Order, linked[c].tail < ChunkSlots, linked[c].live < ChunkSlots,
         NEW now, FillsSlot(now, linked, c, i, order)
  PROVE  /\ now \in [ChunkIndex -> Chunk]
         /\ \A k \in ChunkIndex \ {c} : now[k] = linked[k]
         /\ now[c].side = linked[c].side /\ now[c].price = linked[c].price
         /\ now[c].prev = linked[c].prev /\ now[c].next = linked[c].next
         /\ now[c].head = linked[c].head /\ now[c].tail = linked[c].tail + 1
         /\ now[c].live = linked[c].live + 1
         /\ now[c].s[i] = order
         /\ \A j \in SlotIndex \ {i} : now[c].s[j] = linked[c].s[j]
<1>. DEFINE old == linked[c]
            n == old.tail + 1
            l == old.live + 1
            t == [old.s EXCEPT ![i] = order]
            r == [old EXCEPT !.tail = n, !.live = l, !.s = t]
<1>1. now = [linked EXCEPT ![c] = r]
  BY DEF FillsSlot, Chunk
<1>2. old \in Chunk /\ old.tail < ChunkSlots /\ old.live < ChunkSlots
  OBVIOUS
<1>. HIDE DEF old
<1>3. n \in 0 .. ChunkSlots /\ l \in 0 .. ChunkSlots
  BY <1>2, StoreAssumption DEF Chunk
<1>4. t \in [SlotIndex -> Order \cup {Dead}] /\ t[i] = order /\ \A j \in SlotIndex \ {i} : t[j] = old.s[j]
  BY <1>2 DEF Chunk
<1>. HIDE DEF n, l, t
<1>5. /\ r \in Chunk /\ r.side = old.side /\ r.price = old.price /\ r.prev = old.prev
      /\ r.next = old.next /\ r.head = old.head /\ r.tail = n /\ r.live = l /\ r.s = t
  BY <1>2, <1>3, <1>4 DEF Chunk
<1>. HIDE DEF r
<1>6. now[c] = r /\ (\A k \in ChunkIndex \ {c} : now[k] = linked[k]) /\ now \in [ChunkIndex -> Chunk]
  BY <1>1, <1>5
<1>. QED  BY <1>4, <1>5, <1>6 DEF old, n, l

\* ... in a chunk that is opened first when it is a new one.
OpensChunk(linked, c, side, p, tail) ==
  linked = [k \in ChunkIndex |->
              IF k = c THEN Opened(c, side, p, tail)
              ELSE IF k = tail THEN [chunks[k] EXCEPT !.next = c]
              ELSE chunks[k]]

LEMMA AfterOpen ==
  ASSUME TypeOK, NEW c \in ChunkIndex, NEW side \in Side, NEW p \in Price,
         NEW tail \in ChunkIndex \cup {Nil}, NEW linked, OpensChunk(linked, c, side, p, tail)
  PROVE  /\ linked \in [ChunkIndex -> Chunk]
         /\ \A k \in ChunkIndex \ {c} :
              /\ linked[k].side = chunks[k].side /\ linked[k].price = chunks[k].price
              /\ linked[k].prev = chunks[k].prev
              /\ linked[k].next = IF k = tail THEN c ELSE chunks[k].next
              /\ linked[k].head = chunks[k].head /\ linked[k].tail = chunks[k].tail
              /\ linked[k].live = chunks[k].live /\ linked[k].s = chunks[k].s
         /\ linked[c].side = side /\ linked[c].price = p
         /\ linked[c].prev = tail /\ linked[c].next = Nil
         /\ linked[c].head = 0 /\ linked[c].tail = 0 /\ linked[c].live = 0
         /\ linked[c].s = chunks[c].s
<1>. DEFINE old == chunks[c]
            mine == [old EXCEPT !.price = p, !.side = side, !.prev = tail, !.next = Nil]
            r == [mine EXCEPT !.head = 0, !.tail = 0, !.live = 0]
<1>1. r = Opened(c, side, p, tail)
  BY DEF Opened
<1>2. old \in Chunk
  BY DEF TypeOK
<1>. HIDE DEF old
<1>3. /\ mine \in Chunk /\ mine.side = side /\ mine.price = p /\ mine.prev = tail
      /\ mine.next = Nil /\ mine.s = old.s
  BY <1>2 DEF Chunk
<1>. HIDE DEF mine
<1>4. /\ r \in Chunk /\ r.side = side /\ r.price = p /\ r.prev = tail /\ r.next = Nil
      /\ r.head = 0 /\ r.tail = 0 /\ r.live = 0 /\ r.s = old.s
  <2>1. PICK z : z = 0 /\ z \in 0 .. ChunkSlots
    BY StoreAssumption
  <2>2. r = [mine EXCEPT !.head = z, !.tail = z, !.live = z]
    BY <2>1
  <2>. HIDE DEF r
  <2>3. /\ r \in Chunk /\ r.side = mine.side /\ r.price = mine.price /\ r.prev = mine.prev
        /\ r.next = mine.next /\ r.head = z /\ r.tail = z /\ r.live = z /\ r.s = mine.s
    BY <1>3, <2>1, <2>2 DEF Chunk
  <2>. QED  BY <1>3, <2>1, <2>3
<1>. HIDE DEF r
<1>5. linked[c] = r
  BY <1>1 DEF OpensChunk
<1>6. ASSUME NEW k \in ChunkIndex \ {c}
      PROVE  /\ linked[k] \in Chunk
             /\ linked[k].side = chunks[k].side /\ linked[k].price = chunks[k].price
             /\ linked[k].prev = chunks[k].prev
             /\ linked[k].next = IF k = tail THEN c ELSE chunks[k].next
             /\ linked[k].head = chunks[k].head /\ linked[k].tail = chunks[k].tail
             /\ linked[k].live = chunks[k].live /\ linked[k].s = chunks[k].s
  <2>1. chunks[k] \in Chunk
    BY DEF TypeOK
  <2>2. linked[k] = IF k = tail THEN [chunks[k] EXCEPT !.next = c] ELSE chunks[k]
    BY DEF OpensChunk
  <2>. QED  BY <2>1, <2>2 DEF Chunk
<1>7. linked \in [ChunkIndex -> Chunk]
  <2>1. \A k \in ChunkIndex : linked[k] \in Chunk
    BY <1>4, <1>5, <1>6
  <2>2. linked = [k \in ChunkIndex |-> linked[k]]
    BY DEF OpensChunk
  <2>. QED  BY <2>1, <2>2
<1>. QED  BY <1>4, <1>5, <1>6, <1>7 DEF old

\* The chunks after a push, field by field.
LEMMA PushedChunks ==
  ASSUME StoreInv, live < MaxOrders, NEW side \in Side, NEW p \in Price, NEW order \in Order,
         NEW c \in ChunkIndex, NEW i \in SlotIndex, PushLoc(side, p) = <<c, i>>,
         NEW fresh \in BOOLEAN, fresh <=> NeedsChunk(levels[side][p]),
         fresh => i = 0 /\ c \notin Busy /\ c # levels[side][p].tail,
         ~fresh => i = chunks[c].tail /\ chunks[c].live < ChunkSlots,
         Stow(side, p, order)
  PROVE  /\ chunks' \in [ChunkIndex -> Chunk]
         /\ \A k \in ChunkIndex \ {c} :
              /\ chunks'[k].side = chunks[k].side /\ chunks'[k].price = chunks[k].price
              /\ chunks'[k].prev = chunks[k].prev
              /\ chunks'[k].next = IF fresh /\ k = levels[side][p].tail THEN c ELSE chunks[k].next
              /\ chunks'[k].head = chunks[k].head /\ chunks'[k].tail = chunks[k].tail
              /\ chunks'[k].live = chunks[k].live /\ chunks'[k].s = chunks[k].s
         /\ chunks'[c].s[i] = order
         /\ \A j \in SlotIndex \ {i} : chunks'[c].s[j] = chunks[c].s[j]
         /\ fresh => /\ chunks'[c].side = side /\ chunks'[c].price = p
                     /\ chunks'[c].prev = levels[side][p].tail /\ chunks'[c].next = Nil
                     /\ chunks'[c].head = 0 /\ chunks'[c].tail = 1 /\ chunks'[c].live = 1
         /\ ~fresh => /\ chunks'[c].side = chunks[c].side /\ chunks'[c].price = chunks[c].price
                      /\ chunks'[c].prev = chunks[c].prev /\ chunks'[c].next = chunks[c].next
                      /\ chunks'[c].head = chunks[c].head
                      /\ chunks'[c].tail = i + 1 /\ chunks'[c].live = chunks[c].live + 1
<1>1. TypeOK
  BY DEF StoreInv
<1>2. PICK tail, now : tail = levels[side][p].tail /\ now = chunks'
  OBVIOUS
<1>3. tail \in ChunkIndex \cup {Nil}
  BY <1>1, <1>2 DEF TypeOK
<1>4. PICK d, slot : d = PushLoc(side, p)[1] /\ slot = PushLoc(side, p)[2]
  OBVIOUS
<1>5. PICK linked :
        linked = IF ~fresh THEN chunks
                 ELSE [k \in ChunkIndex |->
                         IF k = d THEN Opened(d, side, p, tail)
                         ELSE IF k = tail THEN [chunks[k] EXCEPT !.next = d]
                         ELSE chunks[k]]
  OBVIOUS
<1>6. FillsSlot(now, linked, c, i, order)
  <2>1. d = c /\ slot = i
    BY <1>4
  <2>2. now = [linked EXCEPT ![d].tail = @ + 1, ![d].live = @ + 1, ![d].s[slot] = order]
    <3>1. CASE fresh
      BY <1>2, <1>4, <1>5, <3>1, Zenon DEF Stow
    <3>2. CASE ~fresh
      BY <1>2, <1>4, <1>5, <3>2, Zenon DEF Stow
    <3>. QED  BY <3>1, <3>2
  <2>. QED  BY ONLY <2>1, <2>2 DEF FillsSlot
<1>7. fresh => OpensChunk(linked, c, side, p, tail)
  BY <1>4, <1>5 DEF OpensChunk
<1>8. CASE fresh
  <2>1. OpensChunk(linked, c, side, p, tail)
    BY <1>8, <1>7
  <2>2. /\ linked \in [ChunkIndex -> Chunk]
        /\ \A k \in ChunkIndex \ {c} :
             /\ linked[k].side = chunks[k].side /\ linked[k].price = chunks[k].price
             /\ linked[k].prev = chunks[k].prev
             /\ linked[k].next = IF k = tail THEN c ELSE chunks[k].next
             /\ linked[k].head = chunks[k].head /\ linked[k].tail = chunks[k].tail
             /\ linked[k].live = chunks[k].live /\ linked[k].s = chunks[k].s
        /\ linked[c].side = side /\ linked[c].price = p
        /\ linked[c].prev = tail /\ linked[c].next = Nil
        /\ linked[c].head = 0 /\ linked[c].tail = 0 /\ linked[c].live = 0
        /\ linked[c].s = chunks[c].s
    BY <1>1, <1>3, <2>1, AfterOpen
  <2>3. linked[c].tail < ChunkSlots /\ linked[c].live < ChunkSlots
    BY <2>2, StoreAssumption
  <2>4. linked \in [ChunkIndex -> Chunk]
    BY <2>2
  <2>5. /\ now \in [ChunkIndex -> Chunk]
        /\ \A k \in ChunkIndex \ {c} : now[k] = linked[k]
        /\ now[c].side = linked[c].side /\ now[c].price = linked[c].price
        /\ now[c].prev = linked[c].prev /\ now[c].next = linked[c].next
        /\ now[c].head = linked[c].head /\ now[c].tail = linked[c].tail + 1
        /\ now[c].live = linked[c].live + 1
        /\ now[c].s[i] = order
        /\ \A j \in SlotIndex \ {i} : now[c].s[j] = linked[c].s[j]
    BY ONLY <1>6, <2>3, <2>4, c \in ChunkIndex, i \in SlotIndex, order \in Order, AfterFill
  <2>6. now[c].tail = 1 /\ now[c].live = 1
    BY ONLY <2>2, <2>5
  <2>. QED  BY <1>2, <1>8, <2>2, <2>5, <2>6
<1>9. CASE ~fresh
  <2>1. linked = chunks /\ linked \in [ChunkIndex -> Chunk]
    BY <1>1, <1>5, <1>9 DEF TypeOK
  <2>2. linked[c].tail = i /\ linked[c].tail < ChunkSlots /\ linked[c].live < ChunkSlots
    BY <1>9, <2>1, StoreAssumption DEF SlotIndex
  <2>3. /\ now \in [ChunkIndex -> Chunk]
        /\ \A k \in ChunkIndex \ {c} : now[k] = linked[k]
        /\ now[c].side = linked[c].side /\ now[c].price = linked[c].price
        /\ now[c].prev = linked[c].prev /\ now[c].next = linked[c].next
        /\ now[c].head = linked[c].head /\ now[c].tail = linked[c].tail + 1
        /\ now[c].live = linked[c].live + 1
        /\ now[c].s[i] = order
        /\ \A j \in SlotIndex \ {i} : now[c].s[j] = linked[c].s[j]
    BY ONLY <1>6, <2>1, <2>2, c \in ChunkIndex, i \in SlotIndex, order \in Order, AfterFill
  <2>. QED  BY <1>2, <1>9, <2>1, <2>2, <2>3
<1>. QED  BY <1>8, <1>9

\* push: the slot behind the last one, in the last chunk or a new one.
LEMMA PushStep ==
  ASSUME StoreInv, NEW side \in Side, NEW p \in Price, NEW order \in Offered, Push(side, p, order)
  PROVE  /\ StoreInv' /\ RanksKept /\ live' = live + 1
         /\ TotalBecomes(side, p, (levels[side][p].total + order.qty) % QtyWrap)
         /\ \E c, i : /\ c \in ChunkIndex /\ i \in SlotIndex \ LiveSlots(c)
                     /\ SlotTaken(c, i, side, p, order)
<1>0. /\ TypeOK /\ Counted /\ LocsExact /\ Kept /\ live = Cardinality(DOMAIN locs) /\ Lists
      /\ order \in Order /\ live < MaxOrders /\ order.id \notin DOMAIN locs
      /\ Stow(side, p, order)
  BY StoreAssumption DEF StoreInv, Push
<1>1. PICK c, i :
        /\ PushLoc(side, p) = <<c, i>> /\ c \in ChunkIndex /\ i \in SlotIndex
        /\ i \notin LiveSlots(c)
        /\ NeedsChunk(levels[side][p]) =>
             c = AllocChunk /\ i = 0 /\ c \notin Busy /\ c # levels[side][p].tail
        /\ ~NeedsChunk(levels[side][p]) =>
             /\ c = levels[side][p].tail /\ i = chunks[c].tail /\ c \in Busy
             /\ chunks[c].live < ChunkSlots /\ chunks[c].head <= i
  BY <1>0, PushLocFree
<1>2. PICK fresh \in BOOLEAN : fresh <=> NeedsChunk(levels[side][p])
  OBVIOUS
<1>3. PICK tail : tail = levels[side][p].tail
  OBVIOUS
<1>4. /\ c \in ChunkIndex /\ i \in SlotIndex /\ i \notin LiveSlots(c)
      /\ fresh => c = AllocChunk /\ i = 0 /\ c \notin Busy /\ c # tail
      /\ ~fresh => /\ c = tail /\ i = chunks[c].tail /\ c \in Busy
                   /\ chunks[c].live < ChunkSlots /\ chunks[c].head <= i
  BY <1>1, <1>2, <1>3
<1>5. /\ chunks' \in [ChunkIndex -> Chunk]
      /\ \A k \in ChunkIndex \ {c} :
           /\ chunks'[k].side = chunks[k].side /\ chunks'[k].price = chunks[k].price
           /\ chunks'[k].prev = chunks[k].prev
           /\ chunks'[k].next = IF fresh /\ k = tail THEN c ELSE chunks[k].next
           /\ chunks'[k].head = chunks[k].head /\ chunks'[k].tail = chunks[k].tail
           /\ chunks'[k].live = chunks[k].live /\ chunks'[k].s = chunks[k].s
      /\ chunks'[c].s[i] = order
      /\ \A j \in SlotIndex \ {i} : chunks'[c].s[j] = chunks[c].s[j]
      /\ fresh => /\ chunks'[c].side = side /\ chunks'[c].price = p
                  /\ chunks'[c].prev = tail /\ chunks'[c].next = Nil
                  /\ chunks'[c].head = 0 /\ chunks'[c].tail = 1 /\ chunks'[c].live = 1
      /\ ~fresh => /\ chunks'[c].side = chunks[c].side /\ chunks'[c].price = chunks[c].price
                   /\ chunks'[c].prev = chunks[c].prev /\ chunks'[c].next = chunks[c].next
                   /\ chunks'[c].head = chunks[c].head
                   /\ chunks'[c].tail = i + 1 /\ chunks'[c].live = chunks[c].live + 1
  BY <1>0, <1>1, <1>2, <1>3, PushedChunks
<1>6. PICK lv : lv = [head  |-> IF tail = Nil THEN c ELSE levels[side][p].head,
                      tail  |-> c,
                      total |-> (levels[side][p].total + order.qty) % QtyWrap]
  OBVIOUS
<1>7. /\ free' = IF fresh /\ free # Nil THEN chunks[free].next ELSE free
      /\ used' = IF fresh /\ free = Nil THEN used + 1 ELSE used
      /\ levels' = [levels EXCEPT ![side] = [levels[side] EXCEPT ![p] = lv]]
      /\ live' = live + 1
  <2>1. c = PushLoc(side, p)[1]
    BY <1>1
  <2>. QED  BY <1>0, <1>2, <1>3, <1>6, <2>1 DEF Stow
<1>8. locs' = [id \in DOMAIN locs \cup {order.id} |-> IF id = order.id THEN <<c, i>> ELSE locs[id]]
  BY <1>1 DEF Push
<1>9. /\ fresh /\ free # Nil => c = free /\ c < used
      /\ fresh /\ free = Nil => c = used /\ used < MaxOrders
  BY <1>0, <1>4, AllocIdle
<1>10. tail # Nil => tail \in Busy /\ tail \in ChunkIndex /\ tail < used
  <2>1. tail # Nil => tail \in Busy /\ tail \in ChunkIndex
    BY <1>3, TailBusy
  <2>. QED  BY <1>0, <2>1 DEF Counted
<1>11. \A k \in ChunkIndex : LiveSlots(k)' = IF k = c THEN LiveSlots(c) \cup {i} ELSE LiveSlots(k)
  <2>1. \A k \in ChunkIndex \ {c} : LiveSlots(k)' = LiveSlots(k)
    BY <1>5 DEF LiveSlots
  <2>2. order # Dead
    BY <1>0 DEF Order, Dead
  <2>3. \A j \in SlotIndex : chunks'[c].s[j] # Dead <=> j = i \/ chunks[c].s[j] # Dead
    BY <1>4, <1>5, <2>2
  <2>4. LiveSlots(c)' = LiveSlots(c) \cup {i}
    BY <1>4, <2>3 DEF LiveSlots
  <2>. QED  BY <2>1, <2>4
<1>12. \A k \in ChunkIndex : \A j \in LiveSlots(k) : chunks'[k].s[j] = chunks[k].s[j]
  <2>1. \A j \in LiveSlots(c) : j \in SlotIndex \ {i}
    BY <1>4 DEF LiveSlots
  <2>. QED  BY <1>5, <2>1
<1>13. /\ LocsExact' /\ Kept'
       /\ DOMAIN locs' \subseteq OrderId /\ locs' \in [DOMAIN locs' -> ChunkIndex \X SlotIndex]
       /\ Cardinality(DOMAIN locs') = Cardinality(DOMAIN locs) + 1
  <2>1. chunks'[c].s[i] = order
    BY <1>5
  <2>. QED  BY <1>0, <1>4, <1>8, <1>11, <1>12, <2>1, SlotNew
<1>14. Busy' = Busy \cup {c}
  BY <1>4, <1>11 DEF Busy
<1>15. used' \in 0 .. MaxOrders /\ used' >= used /\ c < used'
  <2>1. used \in 0 .. MaxOrders /\ (c \in Busy => c < used)
    BY <1>0, <1>4 DEF TypeOK, Counted
  <2>. QED  BY <1>4, <1>7, <1>9, <2>1, ConfigAssumption DEF ChunkIndex
<1>16. Counted'
  <2>1. ASSUME NEW k \in ChunkIndex, k # c
        PROVE  /\ chunks'[k].live = Cardinality(LiveSlots(k)')
               /\ LiveSlots(k)' \subseteq chunks'[k].head .. chunks'[k].tail - 1
               /\ k \in Busy' => chunks'[k].price \in Price /\ k < used'
               /\ k >= used' => chunks'[k].next = Nil
    <3>1. /\ LiveSlots(k)' = LiveSlots(k) /\ (k \in Busy' <=> k \in Busy)
          /\ chunks'[k].head = chunks[k].head /\ chunks'[k].tail = chunks[k].tail
          /\ chunks'[k].live = chunks[k].live /\ chunks'[k].price = chunks[k].price
      BY <1>5, <1>11, <1>14, <2>1
    <3>2. used \in Int /\ used' \in Int /\ k \in Int
      BY <1>0, <1>15, ConfigAssumption DEF TypeOK, ChunkIndex
    <3>3. k >= used' => chunks'[k].next = Nil
      BY <1>0, <1>5, <1>10, <1>15, <2>1, <3>2, NextTyped DEF Counted
    <3>. QED  BY <1>0, <1>15, <3>1, <3>2, <3>3 DEF Counted
  <2>2. /\ chunks'[c].live = Cardinality(LiveSlots(c)')
        /\ LiveSlots(c)' \subseteq chunks'[c].head .. chunks'[c].tail - 1
        /\ c \in Busy' => chunks'[c].price \in Price /\ c < used'
        /\ c >= used' => chunks'[c].next = Nil
    <3>1. chunks'[c].price \in Price /\ ~(c >= used')
      <4>1. c \in Int /\ used' \in Int
        BY <1>4, <1>15, ConfigAssumption DEF ChunkIndex
      <4>. QED  BY <1>0, <1>4, <1>5, <1>15, <4>1 DEF Counted
    <3>2. IsFiniteSet(LiveSlots(c)) /\ Cardinality(LiveSlots(c) \cup {i}) = Cardinality(LiveSlots(c)) + 1
      BY <1>0, <1>4, SlotFacts, FS_AddElement
    <3>3. CASE fresh
      <4>1. LiveSlots(c) = {} /\ i = 0
        BY <1>4, <3>3 DEF Busy
      <4>2. Cardinality(LiveSlots(c) \cup {i}) = 1
        BY <3>2, <4>1, FS_EmptySet
      <4>3. chunks'[c].live = 1 /\ chunks'[c].head = 0 /\ chunks'[c].tail = 1
        BY <1>5, <3>3
      <4>4. LiveSlots(c)' = LiveSlots(c) \cup {i}
        BY <1>4, <1>11
      <4>5. LiveSlots(c) \cup {i} \subseteq 0 .. 1 - 1
        BY <4>1
      <4>. QED  BY <1>15, <3>1, <4>2, <4>3, <4>4, <4>5
    <3>4. CASE ~fresh
      <4>1. chunks[c].live = Cardinality(LiveSlots(c))
        BY <1>0, <1>4 DEF Counted
      <4>2. \A j \in LiveSlots(c) \cup {i} : j \in chunks[c].head .. i
        <5>1. chunks[c].head \in 0 .. ChunkSlots /\ i \in Nat /\ i = chunks[c].tail
          BY <1>0, <1>4, <3>4 DEF TypeOK, Chunk, SlotIndex
        <5>2. \A j \in LiveSlots(c) : j \in SlotIndex /\ j >= chunks[c].head /\ j < i
          BY <1>0, <1>4, <5>1, SlotFacts
        <5>. QED  BY <1>4, <3>4, <5>1, <5>2 DEF SlotIndex
      <4>3. i + 1 - 1 = i
        BY <1>4 DEF SlotIndex
      <4>4. chunks'[c].live = chunks[c].live + 1 /\ chunks'[c].head = chunks[c].head
            /\ chunks'[c].tail = i + 1
        BY <1>5, <3>4
      <4>5. LiveSlots(c)' = LiveSlots(c) \cup {i}
        BY <1>4, <1>11
      <4>. QED  BY <1>15, <3>1, <3>2, <4>1, <4>2, <4>3, <4>4, <4>5
    <3>. QED  BY <3>3, <3>4
  <2>. QED  BY <2>1, <2>2 DEF Counted
<1>17. /\ levels' \in [Side -> [Price -> [head: ChunkIndex \cup {Nil}, tail: ChunkIndex \cup {Nil},
                                          total: Qty]]]
       /\ \A s2 \in Side, p2 \in Price :
            /\ levels'[s2][p2].head = IF s2 = side /\ p2 = p /\ tail = Nil
                                      THEN c ELSE levels[s2][p2].head
            /\ levels'[s2][p2].tail = IF s2 = side /\ p2 = p THEN c ELSE levels[s2][p2].tail
            /\ levels'[s2][p2].total = IF s2 = side /\ p2 = p THEN lv.total ELSE levels[s2][p2].total
  <2>. DEFINE Lv == [head: ChunkIndex \cup {Nil}, tail: ChunkIndex \cup {Nil}, total: Qty]
              row == levels[side]
              row2 == [row EXCEPT ![p] = lv]
  <2>1. levels \in [Side -> [Price -> Lv]] /\ row \in [Price -> Lv] /\ levels[side][p] \in Lv
    BY <1>0 DEF TypeOK
  <2>2. lv \in Lv /\ lv.tail = c /\ lv.head = IF tail = Nil THEN c ELSE levels[side][p].head
    <3>1. PICK sum : sum = (levels[side][p].total + order.qty) % QtyWrap
      OBVIOUS
    <3>2. sum \in Qty
      <4>1. levels[side][p].total \in Int /\ order.qty \in Int
        BY <1>0, <2>1 DEF Order, Qty
      <4>. QED  BY <3>1, <4>1, QtyAssumption DEF Qty
    <3>. QED  BY <1>4, <1>6, <2>1, <3>1, <3>2
  <2>. HIDE DEF Lv
  <2>3. row2 \in [Price -> Lv] /\ \A p2 \in Price : row2[p2] = IF p2 = p THEN lv ELSE row[p2]
    BY <2>1, <2>2
  <2>4. levels' = [levels EXCEPT ![side] = row2]
    BY <1>7
  <2>. HIDE DEF row2, row
  <2>5. levels' \in [Side -> [Price -> Lv]]
    BY <2>1, <2>3, <2>4
  <2>6. ASSUME NEW s2 \in Side, NEW p2 \in Price
        PROVE  /\ levels'[s2][p2].head = IF s2 = side /\ p2 = p /\ tail = Nil
                                         THEN c ELSE levels[s2][p2].head
               /\ levels'[s2][p2].tail = IF s2 = side /\ p2 = p THEN c ELSE levels[s2][p2].tail
               /\ levels'[s2][p2].total = IF s2 = side /\ p2 = p THEN lv.total ELSE levels[s2][p2].total
    <3>1. CASE s2 = side
      BY <2>1, <2>2, <2>3, <2>4, <3>1 DEF row
    <3>2. CASE s2 # side
      BY <2>1, <2>4, <3>2
    <3>. QED  BY <3>1, <3>2
  <2>. QED  BY <2>5, <2>6 DEF Lv
<1>18. TypeOK'
  <2>1. free' \in ChunkIndex \cup {Nil}
    BY <1>0, <1>7 DEF TypeOK, Chunk
  <2>2. live' \in 0 .. MaxOrders
    BY <1>0, <1>7, ConfigAssumption DEF TypeOK
  <2>. QED  BY <1>5, <1>13, <1>15, <1>17, <2>1, <2>2 DEF TypeOK
<1>19. \A k \in ChunkIndex : (LiveSlots(k) = {})' = (k \notin Busy /\ k # c)
  BY <1>11 DEF Busy
<1>20. Lists' /\ RanksKept
  <2>1. CASE fresh
    <3>1. c = AllocChunk
      BY <1>4, <2>1
    <3>2. /\ free' = IF free # Nil THEN chunks[free].next ELSE free
          /\ used' = IF free = Nil THEN used + 1 ELSE used
          /\ chunks'[c].side = side /\ chunks'[c].price = p /\ chunks'[c].next = Nil
          /\ chunks'[c].prev = levels[side][p].tail
      BY <1>3, <1>5, <1>7, <2>1
    <3>3. \A k \in ChunkIndex :
            /\ (LiveSlots(k) = {})' = (k \notin Busy /\ k # c)
            /\ k # c =>
                 /\ chunks'[k].side = chunks[k].side
                 /\ chunks'[k].price = chunks[k].price
                 /\ chunks'[k].next = IF k = levels[side][p].tail THEN c ELSE chunks[k].next
                 /\ chunks'[k].prev = chunks[k].prev
      BY <1>3, <1>5, <1>19, <2>1
    <3>4. \A s2 \in Side, p2 \in Price :
            /\ levels'[s2][p2].head = IF s2 = side /\ p2 = p /\ levels[side][p].tail = Nil
                                      THEN c ELSE levels[s2][p2].head
            /\ levels'[s2][p2].tail = IF s2 = side /\ p2 = p THEN c ELSE levels[s2][p2].tail
      BY <1>3, <1>17
    <3>5. TypeOK /\ Counted /\ Lists /\ c \in ChunkIndex
      BY <1>0, <1>4
    <3>. QED  BY <1>14, <3>1, <3>2, <3>3, <3>4, <3>5, OpenLists
  <2>2. CASE ~fresh
    <3>1. c \in Busy /\ c = tail
      BY <1>4, <2>2
    <3>2. Busy' = Busy /\ used' = used /\ free' = free
      BY <1>7, <1>14, <2>2, <3>1
    <3>3. \A k \in ChunkIndex : /\ (LiveSlots(k) = {})' = (LiveSlots(k) = {})
                                /\ chunks'[k].side = chunks[k].side
                                /\ chunks'[k].price = chunks[k].price
                                /\ chunks'[k].next = chunks[k].next
                                /\ chunks'[k].prev = chunks[k].prev
      BY <1>5, <1>11, <2>2, <3>1 DEF Busy
    <3>4. \A s2 \in Side, p2 \in Price : /\ levels'[s2][p2].head = levels[s2][p2].head
                                         /\ levels'[s2][p2].tail = levels[s2][p2].tail
      <4>1. tail # Nil
        BY <1>3, <1>2, <2>2 DEF NeedsChunk
      <4>. QED  BY <1>3, <1>17, <3>1, <4>1
    <3>. QED  BY <1>0, <3>2, <3>3, <3>4, StayLists
  <2>. QED  BY <2>1, <2>2
<1>21. StoreInv'
  BY <1>0, <1>7, <1>13, <1>16, <1>18, <1>20 DEF StoreInv
<1>22. TotalBecomes(side, p, (levels[side][p].total + order.qty) % QtyWrap)
  BY <1>6, <1>17 DEF TotalBecomes
<1>23. SlotTaken(c, i, side, p, order)
  <2>1. ~fresh => chunks[c].side = side /\ chunks[c].price = p
    <3>. SUFFICES ASSUME ~fresh
                  PROVE  chunks[c].side = side /\ chunks[c].price = p
      OBVIOUS
    <3>1. tail # Nil
      BY <1>3, <1>2 DEF NeedsChunk
    <3>2. PICK rk \in [ChunkIndex -> Int] : ListsBy(rk)
      BY <1>0 DEF Lists
    <3>3. Linked(On(side, p), levels[side][p].head, tail, NextOf, PrevOf, rk)
      BY <1>3, <3>2 DEF ListsBy
    <3>4. tail \in On(side, p)
      BY <3>1, <3>3 DEF Linked
    <3>. QED  BY <1>4, <3>4 DEF On
  <2>2. \A k \in Busy : chunks'[k].side = chunks[k].side /\ chunks'[k].price = chunks[k].price
    <3>1. ASSUME NEW k \in Busy
          PROVE  chunks'[k].side = chunks[k].side /\ chunks'[k].price = chunks[k].price
      <4>1. k \in ChunkIndex
        BY DEF Busy
      <4>2. CASE k = c
        BY <1>4, <1>5, <4>2
      <4>3. CASE k # c
        BY <1>5, <4>1, <4>3
      <4>. QED  BY <4>2, <4>3
    <3>. QED  BY <3>1
  <2>3. chunks'[c].side = side /\ chunks'[c].price = p
    BY <1>5, <2>1
  <2>4. \A j \in LiveSlots(c) : j < i
    <3>1. CASE fresh
      BY <1>4, <3>1 DEF Busy
    <3>2. CASE ~fresh
      <4>1. \A j \in LiveSlots(c) : j \in SlotIndex /\ j < chunks[c].tail
        BY <1>0, <1>4, SlotFacts
      <4>. QED  BY <1>4, <3>2, <4>1
    <3>. QED  BY <3>1, <3>2
  <2>5. levels'[side][p].tail = c /\ chunks'[c].s[i] = order
    BY <1>5, <1>17
  <2>. QED  BY <1>11, <1>12, <2>2, <2>3, <2>4, <2>5 DEF SlotTaken
<1>. QED  BY <1>4, <1>7, <1>20, <1>21, <1>22, <1>23

\* Nothing moves.
LEMMA StoreStutter ==
  ASSUME StoreInv, UNCHANGED storeVars
  PROVE  StoreInv'
<1>1. chunks' = chunks /\ used' = used /\ free' = free /\ live' = live /\ levels' = levels /\ locs' = locs
  BY DEF storeVars
<1>2. \A c : LiveSlots(c)' = LiveSlots(c)
  BY <1>1 DEF LiveSlots
<1>3. Busy' = Busy
  BY <1>2 DEF Busy
<1>4. TypeOK' /\ LocsExact' /\ Kept'
  BY <1>1, <1>2 DEF StoreInv, TypeOK, LocsExact, Kept
<1>5. Counted'
  BY <1>1, <1>2, <1>3 DEF StoreInv, Counted
<1>6. Lists'
  BY <1>1, <1>2, <1>3, StayLists DEF StoreInv
<1>. QED  BY <1>1, <1>4, <1>5, <1>6 DEF StoreInv

----------------------------------------------------------------------------
\* The inductive invariant holds: push, unlink, the walk of cross and the
\* replace that keeps priority all keep the lists, the counts and the map.
THEOREM StoreInvariant == Spec => []StoreInv
<1>1. Init => StoreInv
  BY StoreInit
<1>2. StoreInv /\ [Next]_storeVars => StoreInv'
  <2>. SUFFICES ASSUME StoreInv, [Next]_storeVars
                PROVE  StoreInv'
    OBVIOUS
  <2>1. ASSUME NEW side \in Side, NEW p \in Price, NEW order \in Offered, Push(side, p, order)
        PROVE  StoreInv'
    BY <2>1, PushStep
  <2>2. ASSUME NEW id \in DOMAIN locs, Unlink(id)
        PROVE  StoreInv'
    BY <2>2, UnlinkStep
  <2>3. ASSUME NEW side \in Side, NEW p \in Price, NEW q \in Qty, TakeFront(side, p, q)
        PROVE  StoreInv'
    BY <2>3, TakeFrontStep
  <2>4. ASSUME NEW id \in DOMAIN locs, NEW q \in Qty, Reduce(id, q)
        PROVE  StoreInv'
    BY <2>4, ReduceStep
  <2>5. CASE UNCHANGED storeVars
    BY <2>5, StoreStutter
  <2>. QED  BY <2>1, <2>2, <2>3, <2>4, <2>5 DEF Next
<1>. QED  BY <1>1, <1>2, PTL DEF Spec

\* Chunk and slot numbers, quantities and level totals stay in range, and
\* the store never hands out more than MaxOrders chunks.
THEOREM StoreTypeOK == Spec => []TypeOK
<1>1. StoreInv => TypeOK
  BY DEF StoreInv
<1>. QED  BY <1>1, StoreInvariant, PTL

\* The list of every price level is linked both ways from head to tail,
\* through chunks of that level only, each with the live slots it counts.
THEOREM StoreListsSound == Spec => []ListsSound
BY StoreInvariant, ListsSoundNow, PTL

\* A location stays good until its order leaves.
THEOREM StoreLocsExact == Spec => []LocsExact
<1>1. StoreInv => LocsExact
  BY DEF StoreInv
<1>. QED  BY <1>1, StoreInvariant, PTL

\* Every chunk handed out is in one level or free, so that max_orders chunks
\* are enough for max_orders orders.
THEOREM StoreNoChunkLost == Spec => []NoChunkLost
BY StoreInvariant, NoChunkLostNow, PTL

\* Reused chunks carry no live slot over.
THEOREM StoreFreeChunksDead == Spec => []FreeChunksDead
BY StoreInvariant, FreeChunksDeadNow, PTL

----------------------------------------------------------------------------
\* The queue that a list of chunks holds

\* The places of the orders of a level, and the order at a place.
PlacesOf(side, p) == {x \in ChunkIndex \X SlotIndex : x[1] \in On(side, p) /\ x[2] \in LiveSlots(x[1])}
OrderIn(x) == chunks[x[1]].s[x[2]]

\* From place to place a queue goes up in rank, and in a chunk from the front.
Key(S, rk) == [x \in S |-> rk[x[1]] * ChunkSlots + x[2]]

LEMMA KeyOrder ==
  ASSUME NEW S \in SUBSET (ChunkIndex \X SlotIndex), NEW rk \in [ChunkIndex -> Int]
  PROVE  /\ Key(S, rk) \in [S -> Int]
         /\ \A x, y \in S :
              /\ rk[x[1]] < rk[y[1]] => Key(S, rk)[x] < Key(S, rk)[y]
              /\ rk[x[1]] = rk[y[1]] /\ x[2] < y[2] => Key(S, rk)[x] < Key(S, rk)[y]
<1>1. ASSUME NEW x \in S
      PROVE  /\ x[1] \in ChunkIndex /\ x[2] \in SlotIndex /\ rk[x[1]] \in Int
             /\ x[2] \in Nat /\ x[2] < ChunkSlots
             /\ Key(S, rk)[x] = rk[x[1]] * ChunkSlots + x[2]
  BY StoreAssumption DEF SlotIndex, Key
<1>2. ASSUME NEW a \in Int, NEW b \in Int, a < b
      PROVE  a * ChunkSlots + ChunkSlots <= b * ChunkSlots
  <2>1. PICK d \in Nat : b = a + 1 + d
    <3>1. b - a - 1 \in Nat /\ b = a + 1 + (b - a - 1)
      BY <1>2
    <3>. QED  BY <3>1
  <2>2. (a + 1 + d) * ChunkSlots = a * ChunkSlots + ChunkSlots + d * ChunkSlots
    BY StoreAssumption
  <2>3. d * ChunkSlots \in Nat
    BY StoreAssumption
  <2>4. a * ChunkSlots \in Int /\ ChunkSlots \in Int
    BY StoreAssumption
  <2>. QED  BY <2>1, <2>2, <2>3, <2>4
<1>3. Key(S, rk) \in [S -> Int]
  <2>1. \A x \in S : Key(S, rk)[x] \in Int
    <3>. SUFFICES ASSUME NEW x \in S
                  PROVE  Key(S, rk)[x] \in Int
      OBVIOUS
    <3>1. rk[x[1]] * ChunkSlots \in Int
      BY <1>1, StoreAssumption
    <3>. QED  BY <1>1, <3>1
  <2>. QED  BY <2>1 DEF Key
<1>4. ASSUME NEW x \in S, NEW y \in S, rk[x[1]] < rk[y[1]]
      PROVE  Key(S, rk)[x] < Key(S, rk)[y]
  <2>1. PICK a, b : a = rk[x[1]] * ChunkSlots /\ b = rk[y[1]] * ChunkSlots
    OBVIOUS
  <2>2. a \in Int /\ b \in Int /\ ChunkSlots \in Int
    BY <1>1, <2>1, StoreAssumption
  <2>3. a + ChunkSlots <= b
    BY <1>1, <1>2, <1>4, <2>1
  <2>. QED  BY <1>1, <2>1, <2>2, <2>3
<1>5. ASSUME NEW x \in S, NEW y \in S, rk[x[1]] = rk[y[1]], x[2] < y[2]
      PROVE  Key(S, rk)[x] < Key(S, rk)[y]
  <2>1. PICK a : a = rk[x[1]] * ChunkSlots
    OBVIOUS
  <2>2. a \in Int
    BY <1>1, <2>1, StoreAssumption
  <2>. QED  BY <1>1, <1>5, <2>1, <2>2
<1>. QED  BY <1>3, <1>4, <1>5

\* The live slots of a chunk, from the front.
LEMMA SlotsListed ==
  ASSUME TypeOK, Counted, NEW c \in ChunkIndex
  PROVE  /\ OrdersOf(c) \in Seq(Order)
         /\ \A k \in 1 .. Len(OrdersOf(c)) :
              /\ Nth(LiveSlots(c), k) \in LiveSlots(c)
              /\ OrdersOf(c)[k] = chunks[c].s[Nth(LiveSlots(c), k)]
         /\ \A j, k \in 1 .. Len(OrdersOf(c)) : j < k => Nth(LiveSlots(c), j) < Nth(LiveSlots(c), k)
         /\ \A i \in LiveSlots(c) : \E k \in 1 .. Len(OrdersOf(c)) : Nth(LiveSlots(c), k) = i
<1>1. PICK L, n : L = LiveSlots(c) /\ n = Cardinality(L)
  OBVIOUS
<1>2. /\ L \in SUBSET Int /\ IsFiniteSet(L) /\ n \in Nat
      /\ \A i \in L : chunks[c].s[i] \in Order
  <2>1. L \in SUBSET SlotIndex /\ IsFiniteSet(L) /\ \A i \in L : chunks[c].s[i] \in Order
    BY <1>1, SlotFacts
  <2>2. Cardinality(L) \in Nat
    BY <2>1, FS_CardinalityType
  <2>. QED  BY <1>1, <2>1, <2>2 DEF SlotIndex
<1>3. PICK key : key = [x \in L |-> x]
  OBVIOUS
<1>4. key \in [L -> Int] /\ \A x, y \in L : key[x] = key[y] => x = y
  BY <1>2, <1>3
<1>5. PICK f : Listing(f, n, L, key)
  BY <1>1, <1>2, <1>4, ListingExists
<1>6. \A k \in 1 .. n : Nth(L, k) = f[k]
  <2>. SUFFICES ASSUME NEW k \in 1 .. n
                PROVE  Nth(L, k) = f[k]
    OBVIOUS
  <2>1. AtRank(L, key, k) = f[k]
    <3>1. n \in Nat /\ key \in [L -> Int] /\ k \in 1 .. n
      BY <1>2, <1>4
    <3>. QED  BY ONLY <1>5, <3>1, ListingIs
  <2>2. AtRank(L, key, k) = Nth(L, k)
    <3>1. \A x \in L : {y \in L : key[y] <= key[x]} = {y \in L : y <= x}
      BY <1>3
    <3>2. \A x : x \in L /\ Cardinality({y \in L : key[y] <= key[x]}) = k
                   <=> x \in L /\ Cardinality({y \in L : y <= x}) = k
      BY <3>1
    <3>. QED  BY <3>2, Zenon DEF AtRank, Nth
  <2>. QED  BY <2>1, <2>2
<1>7. OrdersOf(c) = [k \in 1 .. n |-> chunks[c].s[Nth(L, k)]]
  BY <1>1, Zenon DEF OrdersOf
<1>8. /\ f \in [1 .. n -> L]
      /\ \A i, j \in 1 .. n : i < j => f[i] < f[j]
      /\ \A x \in L : \E i \in 1 .. n : f[i] = x
  BY <1>3, <1>5 DEF Listing
<1>9. OrdersOf(c) \in Seq(Order) /\ Len(OrdersOf(c)) = n
  <2>1. \A k \in 1 .. n : chunks[c].s[Nth(L, k)] \in Order
    BY <1>2, <1>6, <1>8
  <2>. QED  BY <1>2, <1>7, <2>1
<1>10. \A k \in 1 .. n : OrdersOf(c)[k] = chunks[c].s[Nth(L, k)]
  BY <1>7
<1>. QED  BY <1>1, <1>6, <1>8, <1>9, <1>10

\* Along a chain of next links the ranks go up.
LEMMA ChainRises ==
  ASSUME TypeOK, NEW rk \in [ChunkIndex -> Int], Rising(rk), NEW chain, NEW S, NEW head,
         WalkOf(chain, S, head), NEW m \in 1 .. Len(chain), NEW n \in 1 .. Len(chain), m < n
  PROVE  rk[chain[m]] < rk[chain[n]]
<1>0. /\ Len(chain) \in Nat /\ \A k \in 1 .. Len(chain) : chain[k] \in ChunkIndex /\ rk[chain[k]] \in Int
      /\ \A k \in 1 .. Len(chain) - 1 : chain[k + 1] = chunks[chain[k]].next
  BY DEF WalkOf
<1>1. ASSUME NEW k \in 1 .. Len(chain) - 1
      PROVE  rk[chain[k]] < rk[chain[k + 1]]
  <2>1. k \in 1 .. Len(chain) /\ k + 1 \in 1 .. Len(chain)
    BY <1>0
  <2>2. /\ chain[k] \in ChunkIndex /\ chain[k + 1] \in ChunkIndex /\ chain[k + 1] # Nil
        /\ chain[k + 1] = chunks[chain[k]].next
    BY <1>0, <2>1, NextTyped
  <2>. QED  BY <2>2 DEF Rising
<1>. DEFINE T == {d \in Nat : m + d + 1 \in 1 .. Len(chain) => rk[chain[m]] < rk[chain[m + d + 1]]}
<1>2. 0 \in T
  <2>1. m + 1 \in 1 .. Len(chain) => m \in 1 .. Len(chain) - 1
    BY <1>0
  <2>2. m + 0 + 1 = m + 1
    OBVIOUS
  <2>. QED  BY <1>1, <2>1, <2>2
<1>3. ASSUME NEW d \in Nat, d \in T
      PROVE  d + 1 \in T
  <2>. SUFFICES ASSUME m + (d + 1) + 1 \in 1 .. Len(chain)
                PROVE  rk[chain[m]] < rk[chain[m + (d + 1) + 1]]
    OBVIOUS
  <2>1. PICK k \in Int : k = m + d + 1
    OBVIOUS
  <2>2. k \in 1 .. Len(chain) - 1 /\ k \in 1 .. Len(chain) /\ k + 1 \in 1 .. Len(chain)
        /\ m + (d + 1) + 1 = k + 1
    BY <1>0, <2>1
  <2>3. rk[chain[m]] < rk[chain[k]]
    BY <1>3, <2>1, <2>2
  <2>4. rk[chain[k]] < rk[chain[k + 1]]
    BY <1>1, <2>2
  <2>. QED  BY <1>0, <2>2, <2>3, <2>4
<1>. HIDE DEF T
<1>4. \A d \in Nat : d \in T
  BY <1>2, <1>3, SetInduction
<1>5. n - m - 1 \in Nat /\ m + (n - m - 1) + 1 = n
  OBVIOUS
<1>. QED  BY <1>4, <1>5 DEF T

\* f are the places q was read from.
ReadFrom(q, f, n) ==
  q \in Seq(Order) /\ Len(q) = n /\ \A k \in 1 .. n : q[k] = OrderIn(f[k])

\* The queue lists the places of the level.
LEMMA QueueListed ==
  ASSUME StoreInv, NEW rk \in [ChunkIndex -> Int], ListsBy(rk), NEW side \in Side, NEW p \in Price
  PROVE  \E n, f : /\ n \in Nat /\ Listing(f, n, PlacesOf(side, p), Key(PlacesOf(side, p), rk))
                   /\ ReadFrom(Queue(side, p), f, n)
<1>0. TypeOK /\ Counted /\ Rising(rk)
  BY ListsRise DEF StoreInv
<1>1. PICK chain : chain = ChainFrom(levels[side][p].head)
  OBVIOUS
<1>. DEFINE On1 == On(side, p)
            S == PlacesOf(side, p)
            key == Key(S, rk)
<1>2. WalkOf(chain, On1, levels[side][p].head)
  <2>1. On1 \in SUBSET ChunkIndex /\ Ordered(On1, levels[side][p].head, NextOf, rk)
    BY <1>0, PartsOfChunkIndex DEF ListsBy, Linked
  <2>. HIDE DEF On1
  <2>. QED  BY <1>0, <1>1, <2>1, ChainOfList
<1>3. /\ chain \in Seq(ChunkIndex) /\ Len(chain) \in Nat
      /\ \A c \in On1 : \E n \in 1 .. Len(chain) : chain[n] = c
      /\ \A n \in 1 .. Len(chain) : chain[n] \in On1 /\ chain[n] \in ChunkIndex
  <2>1. chain \in Seq(ChunkIndex) /\ ToSet(chain) = On1
    BY <1>2 DEF WalkOf
  <2>. HIDE DEF On1
  <2>. QED  BY <2>1 DEF ToSet
<1>4. \A m, n \in 1 .. Len(chain) : m < n => rk[chain[m]] < rk[chain[n]]
  BY <1>0, <1>2, ChainRises
<1>5. PICK ss : ss = [n \in DOMAIN chain |-> OrdersOf(chain[n])]
  OBVIOUS
<1>6. /\ ss \in Seq(Seq(Order)) /\ Len(ss) = Len(chain)
      /\ \A n \in 1 .. Len(chain) : ss[n] = OrdersOf(chain[n])
  <2>1. \A n \in 1 .. Len(chain) : OrdersOf(chain[n]) \in Seq(Order)
    BY <1>0, <1>3, SlotsListed
  <2>2. DOMAIN chain = 1 .. Len(chain)
    BY <1>3
  <2>. QED  BY <1>3, <1>5, <2>1, <2>2
<1>7. PICK q : q = Queue(side, p)
  OBVIOUS
<1>8. q = FlattenSeq(ss)
  BY <1>1, <1>5, <1>7 DEF Queue
<1>9. PICK pos : FlatBy(q, ss, Len(ss), pos)
  BY <1>6, <1>8, FlattenIs
<1>10. q \in Seq(Order) /\ Len(q) \in Nat
  BY <1>6, <1>8, FlattenIs
<1>11. \A i \in 1 .. Len(q) : /\ pos[i][1] \in 1 .. Len(chain)
                              /\ pos[i][2] \in 1 .. Len(OrdersOf(chain[pos[i][1]]))
                              /\ q[i] = OrdersOf(chain[pos[i][1]])[pos[i][2]]
  <2>1. pos \in [1 .. Len(q) -> Cells(ss, Len(ss))] /\ \A i \in 1 .. Len(q) : q[i] = ss[pos[i][1]][pos[i][2]]
    BY <1>9 DEF FlatBy
  <2>2. \A i \in 1 .. Len(q) : pos[i][1] \in 1 .. Len(ss) /\ pos[i][2] \in 1 .. Len(ss[pos[i][1]])
    BY <2>1 DEF Cells
  <2>. QED  BY <1>6, <2>1, <2>2
<1>. DEFINE slot(i) == Nth(LiveSlots(chain[pos[i][1]]), pos[i][2])
            f == [i \in 1 .. Len(q) |-> <<chain[pos[i][1]], slot(i)>>]
<1>12. \A i \in 1 .. Len(q) : /\ slot(i) \in LiveSlots(chain[pos[i][1]])
                              /\ q[i] = chunks[chain[pos[i][1]]].s[slot(i)]
  <2>. SUFFICES ASSUME NEW i \in 1 .. Len(q)
                PROVE  /\ slot(i) \in LiveSlots(chain[pos[i][1]])
                       /\ q[i] = chunks[chain[pos[i][1]]].s[slot(i)]
    OBVIOUS
  <2>1. PICK c, k : c = chain[pos[i][1]] /\ k = pos[i][2]
    OBVIOUS
  <2>2. c \in ChunkIndex /\ k \in 1 .. Len(OrdersOf(c)) /\ q[i] = OrdersOf(c)[k]
    BY <1>3, <1>11, <2>1
  <2>3. Nth(LiveSlots(c), k) \in LiveSlots(c) /\ OrdersOf(c)[k] = chunks[c].s[Nth(LiveSlots(c), k)]
    BY <1>0, <2>2, SlotsListed
  <2>. QED  BY <2>1, <2>2, <2>3
<1>. HIDE DEF slot
<1>13. \A i \in 1 .. Len(q) : f[i][1] = chain[pos[i][1]] /\ f[i][2] = slot(i)
  OBVIOUS
<1>14. f \in [1 .. Len(q) -> S]
  <2>1. \A i \in 1 .. Len(q) : /\ chain[pos[i][1]] \in On1 /\ chain[pos[i][1]] \in ChunkIndex
                               /\ slot(i) \in SlotIndex
    BY <1>3, <1>11, <1>12 DEF LiveSlots
  <2>. QED  BY <1>12, <2>1 DEF PlacesOf
<1>15. /\ S \in SUBSET (ChunkIndex \X SlotIndex)
       /\ \A x, y \in S : /\ rk[x[1]] < rk[y[1]] => key[x] < key[y]
                          /\ rk[x[1]] = rk[y[1]] /\ x[2] < y[2] => key[x] < key[y]
  <2>1. S \in SUBSET (ChunkIndex \X SlotIndex)
    BY DEF PlacesOf
  <2>. HIDE DEF S
  <2>. QED  BY <2>1, KeyOrder
<1>16. \A i, j \in 1 .. Len(q) : i < j => key[f[i]] < key[f[j]]
  <2>. SUFFICES ASSUME NEW i \in 1 .. Len(q), NEW j \in 1 .. Len(q), i < j
                PROVE  key[f[i]] < key[f[j]]
    OBVIOUS
  <2>1. Before(pos[i], pos[j])
    BY <1>9 DEF FlatBy
  <2>2. f[i] \in S /\ f[j] \in S
    BY <1>14
  <2>3. CASE pos[i][1] < pos[j][1]
    <3>1. rk[chain[pos[i][1]]] < rk[chain[pos[j][1]]]
      BY <1>4, <1>11, <2>3
    <3>2. rk[f[i][1]] < rk[f[j][1]]
      BY <1>13, <3>1
    <3>. HIDE DEF f, key, S
    <3>. QED  BY <1>15, <2>2, <3>2
  <2>4. CASE pos[i][1] = pos[j][1] /\ pos[i][2] < pos[j][2]
    <3>1. PICK c, k, l : c = chain[pos[i][1]] /\ k = pos[i][2] /\ l = pos[j][2]
      OBVIOUS
    <3>2. /\ c \in ChunkIndex /\ k \in 1 .. Len(OrdersOf(c)) /\ l \in 1 .. Len(OrdersOf(c)) /\ k < l
      BY <1>3, <1>11, <2>4, <3>1
    <3>3. Nth(LiveSlots(c), k) < Nth(LiveSlots(c), l)
      BY <1>0, <3>2, SlotsListed
    <3>4. f[i][1] = f[j][1] /\ f[i][2] < f[j][2]
      BY <1>13, <2>4, <3>1, <3>3 DEF slot
    <3>. HIDE DEF f, key, S
    <3>. QED  BY <1>15, <2>2, <3>4
  <2>. QED  BY <2>1, <2>3, <2>4 DEF Before
<1>17. \A x \in S : \E i \in 1 .. Len(q) : f[i] = x
  <2>. SUFFICES ASSUME NEW x \in S
                PROVE  \E i \in 1 .. Len(q) : f[i] = x
    OBVIOUS
  <2>1. x = <<x[1], x[2]>> /\ x[1] \in On1 /\ x[1] \in ChunkIndex /\ x[2] \in LiveSlots(x[1])
    BY DEF PlacesOf
  <2>2. PICK n \in 1 .. Len(chain) : chain[n] = x[1]
    BY <1>3, <2>1
  <2>3. PICK k \in 1 .. Len(OrdersOf(x[1])) : Nth(LiveSlots(x[1]), k) = x[2]
    BY <1>0, <2>1, SlotsListed
  <2>4. <<n, k>> \in Cells(ss, Len(ss))
    BY <1>6, <2>2, <2>3 DEF Cells
  <2>5. PICK i \in 1 .. Len(q) : pos[i] = <<n, k>>
    BY <1>9, <2>4 DEF FlatBy
  <2>6. f[i] = <<x[1], x[2]>>
    BY <2>2, <2>3, <2>5 DEF slot
  <2>. QED  BY <2>1, <2>6
<1>18. Listing(f, Len(q), S, key)
  <2>. HIDE DEF f, S, key
  <2>. QED  BY <1>14, <1>16, <1>17 DEF Listing
<1>19. ReadFrom(q, f, Len(q))
  BY <1>10, <1>12, <1>13 DEF ReadFrom, OrderIn
<1>. HIDE DEF f
<1>. QED  BY <1>7, <1>10, <1>18, <1>19

\* Whoever lists the places of a level has read its queue.
QueuesRead ==
  \A rk \in [ChunkIndex -> Int], side \in Side, p \in Price, n \in Nat : \A f :
    /\ StoreInv /\ ListsBy(rk)
    /\ Listing(f, n, PlacesOf(side, p), Key(PlacesOf(side, p), rk))
    => ReadFrom(Queue(side, p), f, n)

LEMMA QueueRead == QueuesRead
<1>. SUFFICES ASSUME NEW rk \in [ChunkIndex -> Int], NEW side \in Side, NEW p \in Price,
                     NEW n \in Nat, NEW f, StoreInv, ListsBy(rk),
                     Listing(f, n, PlacesOf(side, p), Key(PlacesOf(side, p), rk))
              PROVE  ReadFrom(Queue(side, p), f, n)
  BY DEF QueuesRead
<1>. DEFINE S == PlacesOf(side, p)
            key == Key(S, rk)
<1>1. PICK m, g : /\ m \in Nat /\ Listing(g, m, S, key) /\ ReadFrom(Queue(side, p), g, m)
  BY QueueListed
<1>2. key \in [S -> Int]
  <2>1. S \in SUBSET (ChunkIndex \X SlotIndex)
    BY DEF PlacesOf
  <2>. HIDE DEF S
  <2>. QED  BY <2>1, KeyOrder
<1>3. n = m /\ f = g
  <2>1. Listing(f, n, S, key)
    OBVIOUS
  <2>. HIDE DEF S, key
  <2>. QED  BY <1>1, <1>2, <2>1, ListingOnce
<1>. QED  BY <1>1, <1>3

\* And after a step.
LEMMA QueueReadNext == QueuesRead'
BY QueueRead, PTL

----------------------------------------------------------------------------
\* What becomes of a queue in a step

\* The key of a place stays, where its chunk is in use before and after.
LEMMA KeysStay ==
  ASSUME NEW rk, NEW rk2, Ranks(rk, rk2), NEW S, NEW T, NEW R,
         R \subseteq S, R \subseteq T, \A x \in R : x[1] \in Busy /\ x[1] \in Busy'
  PROVE  \A x \in R : Key(T, rk2)[x] = Key(S, rk)[x]
BY DEF Key, Ranks

\* A place is in a chunk in use.
LEMMA PlacesBusy ==
  \A side, p : /\ PlacesOf(side, p) \subseteq ChunkIndex \X SlotIndex
               /\ \A x \in PlacesOf(side, p) : x[1] \in Busy
BY DEF PlacesOf, On

LEMMA PlacesBusyNext ==
  \A side, p : /\ PlacesOf(side, p)' \subseteq ChunkIndex \X SlotIndex
               /\ \A x \in PlacesOf(side, p)' : x[1] \in Busy'
BY DEF PlacesOf, On

\* How a queue is read before and after a step.
LEMMA ReadBefore ==
  ASSUME StoreInv, NEW rk, NEW rk2, Ranks(rk, rk2), NEW side \in Side, NEW p \in Price
  PROVE  \E n, f : /\ n \in Nat /\ Listing(f, n, PlacesOf(side, p), Key(PlacesOf(side, p), rk))
                   /\ ReadFrom(Queue(side, p), f, n)
                   /\ Key(PlacesOf(side, p), rk) \in [PlacesOf(side, p) -> Int]
<1>1. rk \in [ChunkIndex -> Int] /\ ListsBy(rk)
  BY DEF Ranks
<1>2. Key(PlacesOf(side, p), rk) \in [PlacesOf(side, p) -> Int]
  BY <1>1, PlacesBusy, KeyOrder
<1>. QED  BY <1>1, <1>2, QueueListed

\* f lists the n places of a level.
ListsPlaces(f, n, side, p, rk) ==
  Listing(f, n, PlacesOf(side, p), Key(PlacesOf(side, p), rk))

LEMMA ReadAfter ==
  ASSUME StoreInv', NEW rk, NEW rk2, Ranks(rk, rk2), NEW side \in Side, NEW p \in Price,
         NEW n \in Nat, NEW f, ListsPlaces(f, n, side, p, rk2)'
  PROVE  /\ Queue(side, p)' \in Seq(Order) /\ Len(Queue(side, p)') = n
         /\ \A k \in 1 .. n : Queue(side, p)'[k] = OrderIn(f[k])'
<1>1. rk2 \in [ChunkIndex -> Int] /\ ListsBy(rk2)'
  BY DEF Ranks
<1>2. ReadFrom(Queue(side, p), f, n)'
  BY <1>1, QueueReadNext DEF QueuesRead, ListsPlaces
<1>. QED  BY <1>2 DEF ReadFrom

\* A list of what the places are after a step.
LEMMA ListsAfter ==
  ASSUME NEW f, NEW n, NEW side, NEW p, NEW rk2, NEW T, T = PlacesOf(side, p)',
         Listing(f, n, T, Key(T, rk2))
  PROVE  ListsPlaces(f, n, side, p, rk2)'
BY DEF ListsPlaces, Key, Listing

\* A level the step does not touch.
LEMMA QueueStays ==
  ASSUME StoreInv, StoreInv', RanksKept, NEW side \in Side, NEW p \in Price,
         PlacesOf(side, p)' = PlacesOf(side, p),
         \A x \in PlacesOf(side, p) : OrderIn(x)' = OrderIn(x)
  PROVE  Queue(side, p)' = Queue(side, p)
<1>1. PICK rk, rk2 : Ranks(rk, rk2)
  BY DEF RanksKept
<1>2. PICK n, f : /\ n \in Nat /\ Listing(f, n, PlacesOf(side, p), Key(PlacesOf(side, p), rk))
                  /\ ReadFrom(Queue(side, p), f, n)
  BY <1>1, ReadBefore
<1>3. PICK S : S = PlacesOf(side, p)
  OBVIOUS
<1>4. \A x \in S : Key(S, rk2)[x] = Key(S, rk)[x]
  BY <1>1, <1>3, PlacesBusy, PlacesBusyNext, KeysStay
<1>5. Listing(f, n, S, Key(S, rk)) /\ f \in [1 .. n -> S]
  BY <1>2, <1>3 DEF Listing
<1>6. Listing(f, n, S, Key(S, rk2))
  BY <1>4, <1>5 DEF Listing
<1>7. /\ Queue(side, p)' \in Seq(Order) /\ Len(Queue(side, p)') = n
      /\ \A k \in 1 .. n : Queue(side, p)'[k] = OrderIn(f[k])'
  BY <1>1, <1>2, <1>3, <1>6, ListsAfter, ReadAfter
<1>8. \A k \in 1 .. n : OrderIn(f[k])' = OrderIn(f[k])
  BY <1>3, <1>5
<1>9. PICK q, r : q = Queue(side, p) /\ r = Queue(side, p)'
  OBVIOUS
<1>10. /\ q \in Seq(Order) /\ Len(q) = n /\ r \in Seq(Order) /\ Len(r) = n
       /\ \A k \in 1 .. n : r[k] = q[k]
  BY <1>2, <1>7, <1>8, <1>9 DEF ReadFrom
<1>11. r = q
  BY <1>10
<1>. QED  BY <1>9, <1>11

\* A place comes before all others of its level.
FirstOf(rk, x, S) ==
  \A y \in S : y # x => rk[x[1]] < rk[y[1]] \/ (rk[x[1]] = rk[y[1]] /\ x[2] < y[2])

LEMMA FirstIsOne ==
  ASSUME NEW S \in SUBSET (ChunkIndex \X SlotIndex), NEW rk \in [ChunkIndex -> Int], NEW n \in Nat, NEW f,
         Listing(f, n, S, Key(S, rk)), NEW k \in 1 .. n, FirstOf(rk, f[k], S)
  PROVE  k = 1
<1>. DEFINE key == Key(S, rk)
<1>1. /\ f \in [1 .. n -> S] /\ \A i, j \in 1 .. n : i < j => key[f[i]] < key[f[j]]
      /\ \A i \in 1 .. n : key[f[i]] \in Int
  BY KeyOrder DEF Listing
<1>. SUFFICES ASSUME k > 1
              PROVE  FALSE
  OBVIOUS
<1>2. 1 \in 1 .. n /\ key[f[1]] < key[f[k]]
  BY <1>1
<1>3. f[1] # f[k] /\ f[1] \in S /\ f[k] \in S
  BY <1>1, <1>2
<1>4. key[f[k]] < key[f[1]]
  <2>1. rk[f[k][1]] < rk[f[1][1]] \/ (rk[f[k][1]] = rk[f[1][1]] /\ f[k][2] < f[1][2])
    BY <1>3 DEF FirstOf
  <2>. HIDE DEF key
  <2>. QED  BY <1>3, <2>1, KeyOrder DEF key
<1>. QED  BY <1>1, <1>2, <1>4

\* A place is given up.
LEMMA QueueLoses ==
  ASSUME StoreInv, StoreInv', NEW rk, NEW rk2, Ranks(rk, rk2), NEW side \in Side, NEW p \in Price,
         NEW x \in PlacesOf(side, p), PlacesOf(side, p)' = PlacesOf(side, p) \ {x},
         \A y \in PlacesOf(side, p) : y # x => OrderIn(y)' = OrderIn(y)
  PROVE  \E k \in DOMAIN Queue(side, p) :
           /\ Queue(side, p)[k] = OrderIn(x)
           /\ Queue(side, p)' = RemoveAt(Queue(side, p), k)
           /\ FirstOf(rk, x, PlacesOf(side, p)) => k = 1
<1>2. PICK n, f : /\ n \in Nat /\ Listing(f, n, PlacesOf(side, p), Key(PlacesOf(side, p), rk))
                  /\ ReadFrom(Queue(side, p), f, n)
                  /\ Key(PlacesOf(side, p), rk) \in [PlacesOf(side, p) -> Int]
  BY ReadBefore
<1>3. PICK S, T : S = PlacesOf(side, p) /\ T = PlacesOf(side, p)'
  OBVIOUS
<1>4. \A y \in T : Key(T, rk2)[y] = Key(S, rk)[y]
  BY <1>3, PlacesBusy, PlacesBusyNext, KeysStay
<1>5. Listing(f, n, S, Key(S, rk)) /\ f \in [1 .. n -> S] /\ Key(S, rk) \in [S -> Int]
  BY <1>2, <1>3 DEF Listing
<1>6. PICK k \in 1 .. n : f[k] = x
  BY <1>3, <1>5 DEF Listing
<1>0. n \in Nat /\ \A i, j \in 1 .. n : i # j => f[i] # f[j]
  <2>1. n \in Nat /\ Key(S, rk) \in [S -> Int]
    BY <1>2, <1>5
  <2>2. Listing(f, n, S, Key(S, rk))
    BY <1>5
  <2>. QED  BY ONLY <2>1, <2>2, ListedOnce
<1>7. PICK m, g : m = n - 1 /\ g = [j \in 1 .. m |-> IF j < k THEN f[j] ELSE f[j + 1]]
  OBVIOUS
<1>8. Listing(g, m, T, Key(T, rk2))
  <2>1. PICK key, key2 : key = Key(S, rk) /\ key2 = Key(T, rk2)
    OBVIOUS
  <2>2. n \in Nat
    BY <1>0
  <2>3. key \in [S -> Int] /\ Listing(f, n, S, key)
    BY <1>5, <2>1
  <2>4. T = S \ {f[k]} /\ \A y \in T : key2[y] = key[y]
    BY <1>3, <1>4, <1>6, <2>1
  <2>5. Fewer(f, n, S, key, k, g, m, T, key2)
    BY <1>7, <2>4 DEF Fewer
  <2>6. Listing(g, m, T, key2)
    BY ONLY <2>2, <2>3, <2>5, ListingLess
  <2>. QED  BY <2>1, <2>6
<1>9. m \in Nat /\ m = n - 1
  BY <1>0, <1>7
<1>10. /\ Queue(side, p)' \in Seq(Order) /\ Len(Queue(side, p)') = n - 1
       /\ \A j \in 1 .. n - 1 : Queue(side, p)'[j] = OrderIn(g[j])'
  <2>2. m \in Nat
    BY <1>9
  <2>3. T = PlacesOf(side, p)'
    BY <1>3
  <2>4. ListsPlaces(g, m, side, p, rk2)'
    BY <1>8, <2>3, ListsAfter
  <2>1. /\ Queue(side, p)' \in Seq(Order) /\ Len(Queue(side, p)') = m
        /\ \A j \in 1 .. m : Queue(side, p)'[j] = OrderIn(g[j])'
    BY <2>2, <2>4, ReadAfter
  <2>. QED  BY <1>9, <2>1
<1>11. PICK q, r : q = Queue(side, p) /\ r = Queue(side, p)'
  OBVIOUS
<1>12. /\ q \in Seq(Order) /\ Len(q) = n /\ r \in Seq(Order) /\ Len(r) = n - 1
       /\ \A j \in 1 .. n : q[j] = OrderIn(f[j])
       /\ \A j \in 1 .. n - 1 : r[j] = OrderIn(g[j])'
  BY <1>2, <1>10, <1>11 DEF ReadFrom
<1>13. ASSUME NEW j \in 1 .. n - 1
       PROVE  r[j] = IF j < k THEN q[j] ELSE q[j + 1]
  <2>1. PICK i \in 1 .. n : g[j] = f[i] /\ i = IF j < k THEN j ELSE j + 1
    BY <1>0, <1>7
  <2>2. f[i] # x /\ f[i] \in S
    <3>1. f[i] # f[k]
      <4>1. i # k
        BY <2>1
      <4>. QED  BY <1>0, <4>1
    <3>. QED  BY <1>5, <1>6, <3>1
  <2>3. OrderIn(f[i])' = OrderIn(f[i])
    BY <1>3, <2>2
  <2>4. r[j] = q[i]
    BY <1>12, <2>1, <2>3
  <2>. QED  BY <2>1, <2>4
<1>14. r = RemoveAt(q, k)
  <2>1. /\ RemoveAt(q, k) \in Seq(Order) /\ Len(RemoveAt(q, k)) = n - 1
        /\ \A j \in 1 .. n - 1 : RemoveAt(q, k)[j] = IF j < k THEN q[j] ELSE q[j + 1]
    BY <1>12, RemoveAtElements
  <2>2. PICK s : s = RemoveAt(q, k)
    OBVIOUS
  <2>3. /\ s \in Seq(Order) /\ Len(s) = n - 1 /\ \A j \in 1 .. n - 1 : r[j] = s[j]
    BY <1>13, <2>1, <2>2
  <2>. QED  BY <1>12, <2>2, <2>3
<1>15. k \in DOMAIN q /\ q[k] = OrderIn(x)
  BY <1>6, <1>12
<1>16. FirstOf(rk, x, S) => k = 1
  <2>1. S \subseteq ChunkIndex \X SlotIndex /\ rk \in [ChunkIndex -> Int]
    BY <1>3, PlacesBusy DEF Ranks
  <2>. QED  BY <1>2, <1>5, <1>6, <2>1, FirstIsOne
<1>. QED  BY <1>3, <1>11, <1>14, <1>15, <1>16

\* The order at a place is changed.
LEMMA QueueChanges ==
  ASSUME StoreInv, StoreInv', NEW rk, NEW rk2, Ranks(rk, rk2), NEW side \in Side, NEW p \in Price,
         NEW x \in PlacesOf(side, p), PlacesOf(side, p)' = PlacesOf(side, p),
         \A y \in PlacesOf(side, p) : y # x => OrderIn(y)' = OrderIn(y)
  PROVE  \E k \in DOMAIN Queue(side, p) :
           /\ Queue(side, p)[k] = OrderIn(x)
           /\ Queue(side, p)' = [Queue(side, p) EXCEPT ![k] = OrderIn(x)']
           /\ FirstOf(rk, x, PlacesOf(side, p)) => k = 1
<1>2. PICK n, f : /\ n \in Nat /\ Listing(f, n, PlacesOf(side, p), Key(PlacesOf(side, p), rk))
                  /\ ReadFrom(Queue(side, p), f, n)
                  /\ Key(PlacesOf(side, p), rk) \in [PlacesOf(side, p) -> Int]
  BY ReadBefore
<1>3. PICK S : S = PlacesOf(side, p)
  OBVIOUS
<1>4. \A y \in S : Key(S, rk2)[y] = Key(S, rk)[y]
  BY <1>3, PlacesBusy, PlacesBusyNext, KeysStay
<1>5. Listing(f, n, S, Key(S, rk)) /\ f \in [1 .. n -> S] /\ Key(S, rk) \in [S -> Int]
  BY <1>2, <1>3 DEF Listing
<1>6. PICK k \in 1 .. n : f[k] = x
  BY <1>3, <1>5 DEF Listing
<1>0. n \in Nat /\ \A i, j \in 1 .. n : i # j => f[i] # f[j]
  <2>1. n \in Nat /\ Key(S, rk) \in [S -> Int]
    BY <1>2, <1>5
  <2>2. Listing(f, n, S, Key(S, rk))
    BY <1>5
  <2>. QED  BY ONLY <2>1, <2>2, ListedOnce
<1>8. Listing(f, n, S, Key(S, rk2))
  BY <1>4, <1>5 DEF Listing
<1>10. /\ Queue(side, p)' \in Seq(Order) /\ Len(Queue(side, p)') = n
       /\ \A j \in 1 .. n : Queue(side, p)'[j] = OrderIn(f[j])'
  BY <1>2, <1>3, <1>8, ListsAfter, ReadAfter
<1>11. PICK q, r, o : q = Queue(side, p) /\ r = Queue(side, p)' /\ o = OrderIn(x)'
  OBVIOUS
<1>12. /\ q \in Seq(Order) /\ Len(q) = n /\ r \in Seq(Order) /\ Len(r) = n
       /\ \A j \in 1 .. n : q[j] = OrderIn(f[j])
       /\ \A j \in 1 .. n : r[j] = OrderIn(f[j])'
  BY <1>2, <1>10, <1>11 DEF ReadFrom
<1>13. ASSUME NEW j \in 1 .. n
       PROVE  r[j] = IF j = k THEN o ELSE q[j]
  <2>1. CASE j = k
    BY <1>6, <1>11, <1>12, <2>1
  <2>2. CASE j # k
    <3>1. f[j] # x /\ f[j] \in S
      <4>1. f[j] # f[k]
        BY <1>0, <2>2
      <4>. QED  BY <1>5, <1>6, <4>1
    <3>2. OrderIn(f[j])' = OrderIn(f[j])
      BY <1>3, <3>1
    <3>. QED  BY <1>12, <2>2, <3>2
  <2>. QED  BY <2>1, <2>2
<1>14. r = [q EXCEPT ![k] = o]
  BY <1>12, <1>13
<1>15. k \in DOMAIN q /\ q[k] = OrderIn(x)
  BY <1>6, <1>12
<1>16. FirstOf(rk, x, S) => k = 1
  <2>1. S \subseteq ChunkIndex \X SlotIndex /\ rk \in [ChunkIndex -> Int]
    BY <1>3, PlacesBusy DEF Ranks
  <2>. QED  BY <1>2, <1>5, <1>6, <2>1, FirstIsOne
<1>. QED  BY <1>3, <1>11, <1>14, <1>15, <1>16

\* A place is taken behind all others.
LEMMA QueueGrows ==
  ASSUME StoreInv, StoreInv', NEW rk, NEW rk2, Ranks(rk, rk2), NEW side \in Side, NEW p \in Price,
         NEW x, x \notin PlacesOf(side, p), PlacesOf(side, p)' = PlacesOf(side, p) \cup {x},
         \A y \in PlacesOf(side, p) : OrderIn(y)' = OrderIn(y),
         \A y \in PlacesOf(side, p) :
           rk2[y[1]] < rk2[x[1]] \/ (rk2[y[1]] = rk2[x[1]] /\ y[2] < x[2])
  PROVE  Queue(side, p)' = Append(Queue(side, p), OrderIn(x)')
<1>2. PICK n, f : /\ n \in Nat /\ Listing(f, n, PlacesOf(side, p), Key(PlacesOf(side, p), rk))
                  /\ ReadFrom(Queue(side, p), f, n)
                  /\ Key(PlacesOf(side, p), rk) \in [PlacesOf(side, p) -> Int]
  BY ReadBefore
<1>3. PICK S, T : S = PlacesOf(side, p) /\ T = PlacesOf(side, p)'
  OBVIOUS
<1>4. \A y \in S : Key(T, rk2)[y] = Key(S, rk)[y]
  BY <1>3, PlacesBusy, PlacesBusyNext, KeysStay
<1>5. Listing(f, n, S, Key(S, rk)) /\ f \in [1 .. n -> S] /\ Key(S, rk) \in [S -> Int]
  BY <1>2, <1>3 DEF Listing
<1>6. \A y \in S : Key(T, rk2)[y] < Key(T, rk2)[x]
  <2>1. T \subseteq ChunkIndex \X SlotIndex /\ rk2 \in [ChunkIndex -> Int]
    BY <1>3, PlacesBusyNext DEF Ranks
  <2>2. \A y \in S : y \in T /\ x \in T
    BY <1>3
  <2>3. \A y \in S : rk2[y[1]] < rk2[x[1]] \/ (rk2[y[1]] = rk2[x[1]] /\ y[2] < x[2])
    BY <1>3
  <2>. QED  BY <2>1, <2>2, <2>3, KeyOrder
<1>0. n \in Nat
  BY <1>2
<1>7. PICK m, g : m = n + 1 /\ g = [j \in 1 .. m |-> IF j = m THEN x ELSE f[j]]
  OBVIOUS
<1>8. Listing(g, m, T, Key(T, rk2))
  <2>1. PICK key, key2 : key = Key(S, rk) /\ key2 = Key(T, rk2)
    OBVIOUS
  <2>2. n \in Nat /\ key \in [S -> Int] /\ Listing(f, n, S, key)
    BY <1>0, <1>5, <2>1
  <2>3. T = S \cup {x} /\ x \notin S /\ \A y \in S : key2[y] = key[y] /\ key2[y] < key2[x]
    BY <1>3, <1>4, <1>6, <2>1
  <2>4. Listing(g, m, T, key2)
    BY ONLY <1>7, <2>2, <2>3, ListingMore
  <2>. QED  BY <2>1, <2>4
<1>9. m \in Nat /\ m = n + 1
  BY <1>0, <1>7
<1>10. /\ Queue(side, p)' \in Seq(Order) /\ Len(Queue(side, p)') = n + 1
       /\ \A j \in 1 .. n + 1 : Queue(side, p)'[j] = OrderIn(g[j])'
  <2>2. m \in Nat
    BY <1>9
  <2>3. T = PlacesOf(side, p)'
    BY <1>3
  <2>4. ListsPlaces(g, m, side, p, rk2)'
    BY <1>8, <2>3, ListsAfter
  <2>1. /\ Queue(side, p)' \in Seq(Order) /\ Len(Queue(side, p)') = m
        /\ \A j \in 1 .. m : Queue(side, p)'[j] = OrderIn(g[j])'
    BY <2>2, <2>4, ReadAfter
  <2>. QED  BY <1>9, <2>1
<1>11. PICK q, r, o : q = Queue(side, p) /\ r = Queue(side, p)' /\ o = OrderIn(x)'
  OBVIOUS
<1>12. /\ q \in Seq(Order) /\ Len(q) = n /\ r \in Seq(Order) /\ Len(r) = n + 1
       /\ \A j \in 1 .. n : q[j] = OrderIn(f[j])
       /\ \A j \in 1 .. n + 1 : r[j] = OrderIn(g[j])'
  BY <1>2, <1>10, <1>11 DEF ReadFrom
<1>13. ASSUME NEW j \in 1 .. n
       PROVE  r[j] = q[j]
  <2>1. j \in 1 .. n + 1 /\ j # n + 1 /\ f[j] \in S
    BY <1>0, <1>5
  <2>3. g[j] = f[j]
    BY <1>9, <1>7, <2>1
  <2>2. OrderIn(f[j])' = OrderIn(f[j])
    BY <1>3, <2>1
  <2>. QED  BY <1>12, <2>1, <2>2, <2>3
<1>14. r[n + 1] = o /\ o \in Order
  <2>1. n + 1 \in 1 .. n + 1 /\ g[n + 1] = x
    BY <1>0, <1>9, <1>7
  <2>2. r[n + 1] = o
    BY <1>11, <1>12, <2>1
  <2>. QED  BY <1>12, <2>1, <2>2
<1>15. r = Append(q, o)
  BY <1>2, <1>12, <1>13, <1>14
<1>. QED  BY <1>11, <1>15

----------------------------------------------------------------------------
\* What a step does to the queues

Queues == [side \in Side |-> [p \in Price |-> Queue(side, p)]]
Totals == [side \in Side |-> [p \in Price |-> levels[side][p].total]]

QueueBecomes(side, p, q) ==
  \A s2 \in Side, p2 \in Price :
    Queue(s2, p2)' = IF s2 = side /\ p2 = p THEN q ELSE Queue(s2, p2)

\* The slot the walk of cross stops at.
InFront(c, i, side, p) ==
  levels[side][p].head = c /\ \A j \in LiveSlots(c) : i <= j

\* A place belongs to the level its chunk is marked with.
LEMMA PlaceIs ==
  ASSUME NEW side, NEW p, NEW y
  PROVE  /\ y \in PlacesOf(side, p) <=>
              /\ y \in ChunkIndex \X SlotIndex /\ y[2] \in LiveSlots(y[1])
              /\ chunks[y[1]].side = side /\ chunks[y[1]].price = p
         /\ y \in PlacesOf(side, p)' <=>
              /\ y \in ChunkIndex \X SlotIndex /\ y[2] \in LiveSlots(y[1])'
              /\ chunks'[y[1]].side = side /\ chunks'[y[1]].price = p
BY DEF PlacesOf, On, Busy

\* A chunk that holds an order is marked with a level.
LEMMA PlaceTyped ==
  ASSUME StoreInv, NEW c \in ChunkIndex, NEW i \in LiveSlots(c)
  PROVE  /\ chunks[c].side \in Side /\ chunks[c].price \in Price
         /\ i \in SlotIndex /\ chunks[c].s[i] \in Order /\ chunks[c].s[i].id \in DOMAIN locs
         /\ <<c, i>> \in PlacesOf(chunks[c].side, chunks[c].price)
<1>1. TypeOK /\ Counted /\ Kept
  BY DEF StoreInv
<1>2. chunks[c].side \in Side
  BY <1>1 DEF TypeOK, Chunk
<1>3. c \in Busy /\ i \in SlotIndex
  BY DEF Busy, LiveSlots
<1>4. chunks[c].price \in Price
  BY <1>1, <1>3 DEF Counted
<1>5. chunks[c].s[i] \in Order
  BY <1>1, SlotFacts
<1>6. chunks[c].s[i].id \in DOMAIN locs
  BY <1>1 DEF Kept
<1>7. <<c, i>> \in PlacesOf(chunks[c].side, chunks[c].price)
  BY <1>3, PlaceIs
<1>. QED  BY <1>2, <1>3, <1>4, <1>5, <1>6, <1>7

\* The order at the front of a list stands before all others.
LEMMA FrontIsFirst ==
  ASSUME NEW rk \in [ChunkIndex -> Int], ListsBy(rk), NEW side \in Side, NEW p \in Price,
         NEW c, NEW i \in SlotIndex, levels[side][p].head = c, c # Nil, \A j \in LiveSlots(c) : i <= j
  PROVE  FirstOf(rk, <<c, i>>, PlacesOf(side, p))
<1>1. /\ c \in On(side, p) /\ \A d \in On(side, p) : rk[c] <= rk[d]
      /\ \A d \in On(side, p) : rk[d] = rk[c] => d = c
  BY DEF ListsBy, Linked, Ordered
<1>. SUFFICES ASSUME NEW y \in PlacesOf(side, p), y # <<c, i>>
              PROVE  rk[c] < rk[y[1]] \/ (rk[c] = rk[y[1]] /\ i < y[2])
  BY DEF FirstOf
<1>2. /\ y = <<y[1], y[2]>> /\ y[1] \in On(side, p) /\ y[1] \in ChunkIndex /\ y[2] \in SlotIndex
      /\ y[2] \in LiveSlots(y[1])
  BY DEF PlacesOf
<1>3. rk[c] \in Int /\ rk[y[1]] \in Int /\ rk[c] <= rk[y[1]] /\ c \in ChunkIndex
  BY <1>1, <1>2 DEF On, Busy
<1>4. CASE y[1] = c
  <2>1. i <= y[2] /\ y[2] # i
    BY <1>2, <1>4
  <2>. QED  BY <1>2, <1>4, <2>1 DEF SlotIndex
<1>5. CASE y[1] # c
  BY <1>1, <1>2, <1>3, <1>5
<1>. QED  BY <1>4, <1>5

\* The slot behind the last one comes last.
LEMMA NewIsLast ==
  ASSUME NEW rk2 \in [ChunkIndex -> Int], ListsBy(rk2)', NEW side \in Side, NEW p \in Price,
         NEW c \in ChunkIndex, NEW i \in SlotIndex, levels'[side][p].tail = c,
         \A j \in LiveSlots(c) : j < i,
         NEW y \in ChunkIndex \X SlotIndex, y[1] \in On(side, p)', y[2] \in LiveSlots(y[1])
  PROVE  rk2[y[1]] < rk2[c] \/ (rk2[y[1]] = rk2[c] /\ y[2] < i)
<1>1. Linked(On(side, p)', levels'[side][p].head, c, NextOf', PrevOf', rk2)
  BY DEF ListsBy, Linked, Ordered
<1>2. c # Nil
  BY DEF ChunkIndex, Nil
<1>3. /\ c \in On(side, p)' /\ rk2[y[1]] <= rk2[c]
      /\ rk2[y[1]] = rk2[c] => y[1] = c
  BY <1>1, <1>2 DEF Linked, Ordered
<1>4. rk2[y[1]] \in Int /\ rk2[c] \in Int
  OBVIOUS
<1>. QED  BY <1>3, <1>4

\* An order leaves, from the front if it stood there.
LEMMA LossSeen ==
  ASSUME StoreInv, StoreInv', RanksKept, NEW c \in ChunkIndex, NEW i \in LiveSlots(c), SlotLost(c, i),
         NEW side, NEW p, side = chunks[c].side, p = chunks[c].price
  PROVE  \E k \in DOMAIN Queue(side, p) :
           /\ Queue(side, p)[k] = chunks[c].s[i]
           /\ QueueBecomes(side, p, RemoveAt(Queue(side, p), k))
           /\ InFront(c, i, side, p) => k = 1
<1>1. PICK rk, rk2 : Ranks(rk, rk2)
  BY DEF RanksKept
<1>2. /\ side \in Side /\ p \in Price /\ i \in SlotIndex /\ <<c, i>> \in PlacesOf(side, p)
  BY PlaceTyped
<1>3. PICK x : x = <<c, i>>
  OBVIOUS
<1>4. ASSUME NEW s2 \in Side, NEW p2 \in Price
      PROVE  /\ PlacesOf(s2, p2)' = PlacesOf(s2, p2) \ {x}
             /\ ~(s2 = side /\ p2 = p) => x \notin PlacesOf(s2, p2)
             /\ \A y \in PlacesOf(s2, p2) : y # x => OrderIn(y)' = OrderIn(y)
  <2>1. \A y : y \in PlacesOf(s2, p2)' <=> y \in PlacesOf(s2, p2) /\ y # x
    <3>. SUFFICES ASSUME NEW y \in ChunkIndex \X SlotIndex
                  PROVE  y \in PlacesOf(s2, p2)' <=> y \in PlacesOf(s2, p2) /\ y # x
      BY PlaceIs
    <3>1. /\ y[1] \in ChunkIndex /\ y = <<y[1], y[2]>>
          /\ chunks'[y[1]].side = chunks[y[1]].side /\ chunks'[y[1]].price = chunks[y[1]].price
      BY DEF SlotLost, HeadersStay
    <3>2. y[2] \in LiveSlots(y[1])' <=> y[2] \in LiveSlots(y[1]) /\ y # x
      BY <1>3, <3>1 DEF SlotLost
    <3>. QED  BY <3>1, <3>2, PlaceIs
  <2>2. ~(s2 = side /\ p2 = p) => x \notin PlacesOf(s2, p2)
    BY <1>3, PlaceIs
  <2>3. ASSUME NEW y \in PlacesOf(s2, p2), y # x
        PROVE  OrderIn(y)' = OrderIn(y)
    <3>1. y \in PlacesOf(s2, p2)'
      BY <2>1, <2>3
    <3>2. y[1] \in ChunkIndex /\ y[2] \in LiveSlots(y[1])'
      BY <3>1, PlaceIs
    <3>. QED  BY <3>2 DEF OrderIn, SlotLost
  <2>. QED  BY <2>1, <2>2, <2>3
<1>5. PICK k \in DOMAIN Queue(side, p) :
        /\ Queue(side, p)[k] = OrderIn(x)
        /\ Queue(side, p)' = RemoveAt(Queue(side, p), k)
        /\ FirstOf(rk, x, PlacesOf(side, p)) => k = 1
  <2>1. x \in PlacesOf(side, p) /\ PlacesOf(side, p)' = PlacesOf(side, p) \ {x}
    BY <1>2, <1>3, <1>4
  <2>2. \A y \in PlacesOf(side, p) : y # x => OrderIn(y)' = OrderIn(y)
    BY <1>2, <1>4
  <2>. QED  BY <1>1, <1>2, <2>1, <2>2, QueueLoses
<1>6. ASSUME NEW s2 \in Side, NEW p2 \in Price, ~(s2 = side /\ p2 = p)
      PROVE  Queue(s2, p2)' = Queue(s2, p2)
  <2>1. PlacesOf(s2, p2)' = PlacesOf(s2, p2)
    BY <1>4, <1>6
  <2>2. \A y \in PlacesOf(s2, p2) : OrderIn(y)' = OrderIn(y)
    BY <1>4, <1>6
  <2>. QED  BY <2>1, <2>2, QueueStays
<1>7. QueueBecomes(side, p, RemoveAt(Queue(side, p), k))
  BY <1>5, <1>6 DEF QueueBecomes
<1>8. InFront(c, i, side, p) => k = 1
  <2>. SUFFICES ASSUME levels[side][p].head = c, \A j \in LiveSlots(c) : i <= j
                PROVE  k = 1
    BY DEF InFront
  <2>1. c # Nil
    BY DEF ChunkIndex, Nil
  <2>2. rk \in [ChunkIndex -> Int] /\ ListsBy(rk)
    BY <1>1 DEF Ranks
  <2>3. FirstOf(rk, <<c, i>>, PlacesOf(side, p))
    BY <1>2, <2>1, <2>2, FrontIsFirst
  <2>. QED  BY <1>3, <1>5, <2>3
<1>9. Queue(side, p)[k] = chunks[c].s[i]
  BY <1>3, <1>5 DEF OrderIn
<1>. QED  BY <1>7, <1>8, <1>9

\* An order shrinks where it stands.
QueueShrinks(c, i, side, p, q) ==
  \E k \in DOMAIN Queue(side, p) :
    /\ Queue(side, p)[k] = chunks[c].s[i]
    /\ QueueBecomes(side, p, [Queue(side, p) EXCEPT ![k] = [chunks[c].s[i] EXCEPT !.qty = q]])
    /\ InFront(c, i, side, p) => k = 1

LEMMA ShrinkSeen ==
  ASSUME StoreInv, StoreInv', RanksKept, NEW c \in ChunkIndex, NEW i \in LiveSlots(c),
         NEW q, SlotLess(c, i, q), NEW side, NEW p, side = chunks[c].side, p = chunks[c].price
  PROVE  QueueShrinks(c, i, side, p, q)
<1>1. PICK rk, rk2 : Ranks(rk, rk2)
  BY DEF RanksKept
<1>2. /\ side \in Side /\ p \in Price /\ i \in SlotIndex /\ <<c, i>> \in PlacesOf(side, p)
  BY PlaceTyped
<1>3. PICK x : x = <<c, i>>
  OBVIOUS
<1>4. ASSUME NEW s2 \in Side, NEW p2 \in Price
      PROVE  /\ PlacesOf(s2, p2)' = PlacesOf(s2, p2)
             /\ ~(s2 = side /\ p2 = p) => x \notin PlacesOf(s2, p2)
             /\ \A y \in PlacesOf(s2, p2) : y # x => OrderIn(y)' = OrderIn(y)
  <2>1. \A y : y \in PlacesOf(s2, p2)' <=> y \in PlacesOf(s2, p2)
    <3>. SUFFICES ASSUME NEW y \in ChunkIndex \X SlotIndex
                  PROVE  y \in PlacesOf(s2, p2)' <=> y \in PlacesOf(s2, p2)
      BY PlaceIs
    <3>1. /\ y[1] \in ChunkIndex /\ LiveSlots(y[1])' = LiveSlots(y[1])
          /\ chunks'[y[1]].side = chunks[y[1]].side /\ chunks'[y[1]].price = chunks[y[1]].price
      BY DEF SlotLess, HeadersStay
    <3>. QED  BY <3>1, PlaceIs
  <2>2. ~(s2 = side /\ p2 = p) => x \notin PlacesOf(s2, p2)
    BY <1>3, PlaceIs
  <2>3. ASSUME NEW y \in PlacesOf(s2, p2), y # x
        PROVE  OrderIn(y)' = OrderIn(y)
    <3>1. y[1] \in ChunkIndex /\ y[2] \in LiveSlots(y[1]) /\ ~(y[1] = c /\ y[2] = i)
      BY <1>3, <2>3, PlaceIs
    <3>. QED  BY <3>1 DEF OrderIn, SlotLess
  <2>. QED  BY <2>1, <2>2, <2>3
<1>5. PICK k \in DOMAIN Queue(side, p) :
        /\ Queue(side, p)[k] = OrderIn(x)
        /\ Queue(side, p)' = [Queue(side, p) EXCEPT ![k] = OrderIn(x)']
        /\ FirstOf(rk, x, PlacesOf(side, p)) => k = 1
  <2>1. x \in PlacesOf(side, p) /\ PlacesOf(side, p)' = PlacesOf(side, p)
    BY <1>2, <1>3, <1>4
  <2>2. \A y \in PlacesOf(side, p) : y # x => OrderIn(y)' = OrderIn(y)
    BY <1>2, <1>4
  <2>. QED  BY <1>1, <1>2, <2>1, <2>2, QueueChanges
<1>6. ASSUME NEW s2 \in Side, NEW p2 \in Price, ~(s2 = side /\ p2 = p)
      PROVE  Queue(s2, p2)' = Queue(s2, p2)
  <2>1. PlacesOf(s2, p2)' = PlacesOf(s2, p2)
    BY <1>4
  <2>2. \A y \in PlacesOf(s2, p2) : OrderIn(y)' = OrderIn(y)
    BY <1>4, <1>6
  <2>. QED  BY <2>1, <2>2, QueueStays
<1>7. OrderIn(x)' = [chunks[c].s[i] EXCEPT !.qty = q]
  BY <1>3 DEF OrderIn, SlotLess
<1>8. QueueBecomes(side, p, [Queue(side, p) EXCEPT ![k] = [chunks[c].s[i] EXCEPT !.qty = q]])
  BY <1>5, <1>6, <1>7 DEF QueueBecomes
<1>9. InFront(c, i, side, p) => k = 1
  <2>. SUFFICES ASSUME levels[side][p].head = c, \A j \in LiveSlots(c) : i <= j
                PROVE  k = 1
    BY DEF InFront
  <2>1. c # Nil
    BY DEF ChunkIndex, Nil
  <2>2. rk \in [ChunkIndex -> Int] /\ ListsBy(rk)
    BY <1>1 DEF Ranks
  <2>3. FirstOf(rk, <<c, i>>, PlacesOf(side, p))
    BY <1>2, <2>1, <2>2, FrontIsFirst
  <2>. QED  BY <1>3, <1>5, <2>3
<1>10. Queue(side, p)[k] = chunks[c].s[i]
  BY <1>3, <1>5 DEF OrderIn
<1>. QED  BY <1>8, <1>9, <1>10, Zenon DEF QueueShrinks

\* An order is put behind the others.
LEMMA GainSeen ==
  ASSUME StoreInv, StoreInv', RanksKept, NEW c \in ChunkIndex, NEW i \in SlotIndex \ LiveSlots(c),
         NEW side \in Side, NEW p \in Price, NEW order, SlotTaken(c, i, side, p, order)
  PROVE  QueueBecomes(side, p, Append(Queue(side, p), order))
<1>1. PICK rk, rk2 : Ranks(rk, rk2)
  BY DEF RanksKept
<1>3. PICK x : x = <<c, i>>
  OBVIOUS
<1>2. /\ x[1] = c /\ x[2] = i /\ OrderIn(x)' = order /\ i \in LiveSlots(c)'
      /\ chunks'[c].side = side /\ chunks'[c].price = p
  BY <1>3 DEF OrderIn, SlotTaken
<1>4. ASSUME NEW s2 \in Side, NEW p2 \in Price
      PROVE  /\ PlacesOf(s2, p2)' =
                  IF s2 = side /\ p2 = p THEN PlacesOf(s2, p2) \cup {x} ELSE PlacesOf(s2, p2)
             /\ \A y \in PlacesOf(s2, p2) : OrderIn(y)' = OrderIn(y)
  <2>1. \A y : y \in PlacesOf(s2, p2)' <=> y \in PlacesOf(s2, p2) \/ (y = x /\ s2 = side /\ p2 = p)
    <3>. SUFFICES ASSUME NEW y \in ChunkIndex \X SlotIndex
                  PROVE  y \in PlacesOf(s2, p2)' <=>
                           y \in PlacesOf(s2, p2) \/ (y = x /\ s2 = side /\ p2 = p)
      BY <1>3, PlaceIs
    <3>1. y[1] \in ChunkIndex /\ y = <<y[1], y[2]>>
      OBVIOUS
    <3>2. CASE y = x
      BY <1>2, <3>2, PlaceIs
    <3>3. CASE y # x
      <4>1. y[2] \in LiveSlots(y[1])' <=> y[2] \in LiveSlots(y[1])
        BY <1>3, <3>1, <3>3 DEF SlotTaken
      <4>2. y[2] \in LiveSlots(y[1]) => /\ chunks'[y[1]].side = chunks[y[1]].side
                                       /\ chunks'[y[1]].price = chunks[y[1]].price
        BY <3>1 DEF SlotTaken, Busy
      <4>. QED  BY <3>3, <4>1, <4>2, PlaceIs
    <3>. QED  BY <3>2, <3>3
  <2>2. PlacesOf(s2, p2)' =
          IF s2 = side /\ p2 = p THEN PlacesOf(s2, p2) \cup {x} ELSE PlacesOf(s2, p2)
    BY <2>1
  <2>3. \A y \in PlacesOf(s2, p2) : OrderIn(y)' = OrderIn(y)
    BY PlaceIs DEF OrderIn, SlotTaken
  <2>. QED  BY <2>2, <2>3
<1>5. x \notin PlacesOf(side, p)
  BY <1>2, PlaceIs
<1>6. \A y \in PlacesOf(side, p) :
        rk2[y[1]] < rk2[x[1]] \/ (rk2[y[1]] = rk2[x[1]] /\ y[2] < x[2])
  <2>. SUFFICES ASSUME NEW y \in PlacesOf(side, p)
                PROVE  rk2[y[1]] < rk2[c] \/ (rk2[y[1]] = rk2[c] /\ y[2] < i)
    BY <1>2
  <2>1. y \in ChunkIndex \X SlotIndex /\ y[2] \in LiveSlots(y[1]) /\ y[1] \in ChunkIndex
    BY PlaceIs
  <2>2. y \in PlacesOf(side, p)'
    BY <1>4
  <2>3. y[1] \in On(side, p)'
    BY <2>2 DEF PlacesOf
  <2>4. rk2 \in [ChunkIndex -> Int] /\ ListsBy(rk2)'
    BY <1>1 DEF Ranks
  <2>5. levels'[side][p].tail = c /\ \A j \in LiveSlots(c) : j < i
    BY DEF SlotTaken
  <2>. QED  BY <2>1, <2>3, <2>4, <2>5, NewIsLast
<1>7. Queue(side, p)' = Append(Queue(side, p), order)
  <2>1. PlacesOf(side, p)' = PlacesOf(side, p) \cup {x}
    BY <1>4
  <2>2. \A y \in PlacesOf(side, p) : OrderIn(y)' = OrderIn(y)
    BY <1>4
  <2>3. Queue(side, p)' = Append(Queue(side, p), OrderIn(x)')
    BY <1>1, <1>5, <1>6, <2>1, <2>2, QueueGrows
  <2>. QED  BY <1>2, <2>3
<1>8. ASSUME NEW s2 \in Side, NEW p2 \in Price, ~(s2 = side /\ p2 = p)
      PROVE  Queue(s2, p2)' = Queue(s2, p2)
  <2>1. PlacesOf(s2, p2)' = PlacesOf(s2, p2)
    BY <1>4, <1>8
  <2>2. \A y \in PlacesOf(s2, p2) : OrderIn(y)' = OrderIn(y)
    BY <1>4
  <2>. QED  BY <2>1, <2>2, QueueStays
<1>. QED  BY <1>7, <1>8 DEF QueueBecomes

----------------------------------------------------------------------------
\* The store implements the queues

LEMMA QueuesExcept ==
  ASSUME NEW side \in Side, NEW p \in Price, NEW q, QueueBecomes(side, p, q)
  PROVE  Queues' = [Queues EXCEPT ![side][p] = q]
BY DEF QueueBecomes, Queues

LEMMA TotalsExcept ==
  ASSUME NEW side \in Side, NEW p \in Price, NEW t, TotalBecomes(side, p, t)
  PROVE  Totals' = [Totals EXCEPT ![side][p] = t]
<1>1. PICK now, then : now = levels /\ then = levels'
  OBVIOUS
<1>2. \A s2 \in Side, p2 \in Price :
        then[s2][p2].total = IF s2 = side /\ p2 = p THEN t ELSE now[s2][p2].total
  BY <1>1 DEF TotalBecomes
<1>3. /\ Totals = [s2 \in Side |-> [p2 \in Price |-> now[s2][p2].total]]
      /\ Totals' = [s2 \in Side |-> [p2 \in Price |-> then[s2][p2].total]]
  BY <1>1 DEF Totals
<1>4. \A s2 \in Side : [p2 \in Price |-> then[s2][p2].total] =
        IF s2 = side THEN [[p2 \in Price |-> now[s2][p2].total] EXCEPT ![p] = t]
                     ELSE [p2 \in Price |-> now[s2][p2].total]
  BY <1>2
<1>. QED  BY <1>3, <1>4

\* The contract speaks of the same sides, prices and orders.
LEMMA SameTerms ==
  Contract!Side = Side /\ Contract!Price = Price /\ Contract!Order = Order
BY DEF Contract!Side, Side, Contract!Price, Price, Contract!PriceOk, PriceOk,
       Contract!Order, Order, Contract!Qty, Qty

LEMMA QueuesAt ==
  ASSUME NEW side \in Side, NEW p \in Price
  PROVE  Queues[side][p] = Queue(side, p) /\ Totals[side][p] = levels[side][p].total
BY DEF Queues, Totals

\* A queue holds orders the order map knows.
LEMMA QueueHolds ==
  ASSUME StoreInv, NEW side \in Side, NEW p \in Price
  PROVE  /\ Queue(side, p) \in Seq(Order)
         /\ \A k \in DOMAIN Queue(side, p) : Queue(side, p)[k].id \in DOMAIN locs
<1>1. PICK rk \in [ChunkIndex -> Int] : ListsBy(rk)
  BY DEF StoreInv, Lists
<1>2. PICK n, f : /\ n \in Nat /\ Listing(f, n, PlacesOf(side, p), Key(PlacesOf(side, p), rk))
                  /\ ReadFrom(Queue(side, p), f, n)
  BY <1>1, QueueListed
<1>3. /\ Queue(side, p) \in Seq(Order) /\ DOMAIN Queue(side, p) = 1 .. n
      /\ \A k \in 1 .. n : Queue(side, p)[k] = OrderIn(f[k]) /\ f[k] \in PlacesOf(side, p)
  BY <1>2 DEF ReadFrom, Listing
<1>4. \A x \in PlacesOf(side, p) : OrderIn(x).id \in DOMAIN locs
  <2>. SUFFICES ASSUME NEW x \in PlacesOf(side, p)
                PROVE  chunks[x[1]].s[x[2]].id \in DOMAIN locs
    BY DEF OrderIn
  <2>1. x[1] \in ChunkIndex /\ x[2] \in LiveSlots(x[1])
    BY PlaceIs
  <2>. QED  BY <2>1, PlaceTyped
<1>. QED  BY <1>3, <1>4

LEMMA PushSeen ==
  ASSUME StoreInv, NEW side \in Side, NEW p \in Price, NEW order \in Offered, Push(side, p, order)
  PROVE  /\ StoreInv' /\ Contract!Push(side, p, order)
         /\ order.id \notin Contract!StoredIds
         /\ \A k \in Busy : chunks'[k].side = chunks[k].side /\ chunks'[k].price = chunks[k].price
         /\ chunks'[PushLoc(side, p)[1]].side = side /\ chunks'[PushLoc(side, p)[1]].price = p
<1>1. /\ StoreInv' /\ RanksKept /\ live' = live + 1
      /\ TotalBecomes(side, p, (levels[side][p].total + order.qty) % QtyWrap)
      /\ \E c, i : /\ c \in ChunkIndex /\ i \in SlotIndex \ LiveSlots(c)
                   /\ SlotTaken(c, i, side, p, order)
  BY PushStep
<1>2. QueueBecomes(side, p, Append(Queue(side, p), order))
  BY <1>1, GainSeen
<1>3. Queues' = [Queues EXCEPT ![side][p] = Append(@, order)]
  BY <1>2, QueuesExcept, QueuesAt
<1>4. Totals' = [Totals EXCEPT ![side][p] = (@ + order.qty) % QtyWrap]
  BY <1>1, TotalsExcept, QueuesAt
<1>5. Contract!Push(side, p, order)
  BY <1>1, <1>3, <1>4, Zenon DEF Contract!Push, Queues, Totals
<1>6. order.id \notin Contract!StoredIds
  <2>. SUFFICES ASSUME NEW s2 \in Side, NEW p2 \in Price, order.id \in Contract!IdsAt(s2, p2)
                PROVE  FALSE
    BY SameTerms DEF Contract!StoredIds
  <2>1. order.id \in Contract!IdsOf(Queue(s2, p2))
    BY DEF Contract!IdsAt
  <2>2. PICK k \in DOMAIN Queue(s2, p2) : order.id = Queue(s2, p2)[k].id
    BY <2>1 DEF Contract!IdsOf
  <2>. QED  BY <2>2, QueueHolds DEF Push
<1>7. PICK c, i : /\ c \in ChunkIndex /\ i \in SlotIndex \ LiveSlots(c)
                  /\ SlotTaken(c, i, side, p, order)
  BY <1>1
<1>8. PushLoc(side, p)[1] = c
  <2>1. locs'[order.id] = PushLoc(side, p)
    BY DEF Push
  <2>2. i \in LiveSlots(c)' /\ chunks'[c].s[i].id = order.id
    BY <1>7 DEF SlotTaken
  <2>3. locs'[chunks'[c].s[i].id] = <<c, i>>
    BY <1>1, <1>7, <2>2 DEF StoreInv, LocsExact
  <2>. QED  BY <2>1, <2>2, <2>3
<1>9. /\ \A k \in Busy : chunks'[k].side = chunks[k].side /\ chunks'[k].price = chunks[k].price
      /\ chunks'[c].side = side /\ chunks'[c].price = p
  BY <1>7 DEF SlotTaken
<1>. QED  BY <1>1, <1>5, <1>6, <1>8, <1>9

LEMMA UnlinkSeen ==
  ASSUME StoreInv, NEW id \in DOMAIN locs, Unlink(id),
         NEW side, NEW p, side = chunks[locs[id][1]].side, p = chunks[locs[id][1]].price
  PROVE  /\ StoreInv' /\ HeadersStay
         /\ side \in Side /\ p \in Price
         /\ \E k \in DOMAIN Queues[side][p] :
              Queues[side][p][k] = SlotAt(locs[id]) /\ Contract!Unlink(side, p, k)
<1>1. /\ StoreInv' /\ RanksKept
      /\ \E c, i : /\ locs[id] = <<c, i>>
                   /\ c \in Busy /\ i \in LiveSlots(c) /\ SlotLost(c, i) /\ live' = live - 1
                   /\ TotalBecomes(chunks[c].side, chunks[c].price,
                        (levels[chunks[c].side][chunks[c].price].total - chunks[c].s[i].qty) % QtyWrap)
  BY UnlinkStep
<1>2. PICK c, i :
        /\ c \in ChunkIndex /\ i \in LiveSlots(c) /\ SlotLost(c, i) /\ live' = live - 1
        /\ locs[id][1] = c /\ locs[id][2] = i
        /\ side = chunks[c].side /\ p = chunks[c].price
        /\ TotalBecomes(side, p, (levels[side][p].total - chunks[c].s[i].qty) % QtyWrap)
  <2>1. PICK c, i : /\ locs[id] = <<c, i>>
                    /\ c \in Busy /\ i \in LiveSlots(c) /\ SlotLost(c, i) /\ live' = live - 1
                    /\ TotalBecomes(chunks[c].side, chunks[c].price,
                         (levels[chunks[c].side][chunks[c].price].total - chunks[c].s[i].qty) % QtyWrap)
    BY <1>1
  <2>2. locs[id][1] = c /\ locs[id][2] = i
    BY <2>1
  <2>. QED  BY <2>1, <2>2 DEF Busy
<1>3. side \in Side /\ p \in Price /\ HeadersStay
  BY <1>2, PlaceTyped DEF SlotLost
<1>4. PICK k \in DOMAIN Queue(side, p) :
        /\ Queue(side, p)[k] = chunks[c].s[i]
        /\ QueueBecomes(side, p, RemoveAt(Queue(side, p), k))
  BY <1>1, <1>2, LossSeen
<1>5. Queues' = [Queues EXCEPT ![side][p] = RemoveAt(@, k)]
  BY <1>3, <1>4, QueuesExcept, QueuesAt
<1>6. Totals' = [Totals EXCEPT ![side][p] = (@ - Queues[side][p][k].qty) % QtyWrap]
  <2>1. Totals' = [Totals EXCEPT ![side][p] = (levels[side][p].total - chunks[c].s[i].qty) % QtyWrap]
    BY <1>2, <1>3, TotalsExcept
  <2>. QED  BY <1>3, <1>4, <2>1, QueuesAt
<1>7. Contract!Unlink(side, p, k)
  BY <1>2, <1>5, <1>6, Zenon DEF Contract!Unlink, Contract!RemoveAt, RemoveAt, Queues, Totals
<1>8. k \in DOMAIN Queues[side][p] /\ Queues[side][p][k] = SlotAt(locs[id])
  BY <1>2, <1>3, <1>4, QueuesAt DEF SlotAt
<1>. QED  BY <1>1, <1>3, <1>7, <1>8

LEMMA ReduceSeen ==
  ASSUME StoreInv, NEW id \in DOMAIN locs, NEW q \in Qty, Reduce(id, q),
         NEW side, NEW p, side = chunks[locs[id][1]].side, p = chunks[locs[id][1]].price
  PROVE  /\ StoreInv' /\ HeadersStay
         /\ side \in Side /\ p \in Price
         /\ \E k \in DOMAIN Queues[side][p] :
              /\ Queues[side][p][k] = SlotAt(locs[id])
              /\ q \in 1 .. Queues[side][p][k].qty
              /\ Contract!Reduce(side, p, k, q)
<1>1. /\ StoreInv' /\ RanksKept
      /\ \E c, i : /\ locs[id] = <<c, i>>
                   /\ c \in Busy /\ i \in LiveSlots(c) /\ SlotLess(c, i, q) /\ live' = live
                   /\ q \in 1 .. chunks[c].s[i].qty
                   /\ TotalBecomes(chunks[c].side, chunks[c].price,
                        (levels[chunks[c].side][chunks[c].price].total
                           - (chunks[c].s[i].qty - q)) % QtyWrap)
  BY ReduceStep
<1>2. PICK c, i :
        /\ c \in ChunkIndex /\ i \in LiveSlots(c) /\ SlotLess(c, i, q) /\ live' = live
        /\ locs[id][1] = c /\ locs[id][2] = i
        /\ side = chunks[c].side /\ p = chunks[c].price /\ q \in 1 .. chunks[c].s[i].qty
        /\ TotalBecomes(side, p, (levels[side][p].total - (chunks[c].s[i].qty - q)) % QtyWrap)
  <2>1. PICK c, i : /\ locs[id] = <<c, i>>
                    /\ c \in Busy /\ i \in LiveSlots(c) /\ SlotLess(c, i, q) /\ live' = live
                    /\ q \in 1 .. chunks[c].s[i].qty
                    /\ TotalBecomes(chunks[c].side, chunks[c].price,
                         (levels[chunks[c].side][chunks[c].price].total
                            - (chunks[c].s[i].qty - q)) % QtyWrap)
    BY <1>1
  <2>2. locs[id][1] = c /\ locs[id][2] = i
    BY <2>1
  <2>. QED  BY <2>1, <2>2 DEF Busy
<1>3. side \in Side /\ p \in Price /\ HeadersStay
  BY <1>2, PlaceTyped DEF SlotLess
<1>4. PICK k \in DOMAIN Queue(side, p) :
        /\ Queue(side, p)[k] = chunks[c].s[i]
        /\ QueueBecomes(side, p, [Queue(side, p) EXCEPT ![k] = [chunks[c].s[i] EXCEPT !.qty = q]])
  <2>1. QueueShrinks(c, i, side, p, q)
    BY <1>1, <1>2, ShrinkSeen
  <2>. QED  BY <2>1, Zenon DEF QueueShrinks
<1>5. Queues' = [Queues EXCEPT ![side][p][k].qty = q]
  <2>1. Queues' = [Queues EXCEPT ![side][p] = [Queues[side][p] EXCEPT ![k] = [Queues[side][p][k] EXCEPT !.qty = q]]]
    <3>1. Queue(side, p) = Queues[side][p] /\ chunks[c].s[i] = Queues[side][p][k]
      BY <1>3, <1>4, QueuesAt
    <3>2. QueueBecomes(side, p, [Queues[side][p] EXCEPT ![k] = [Queues[side][p][k] EXCEPT !.qty = q]])
      BY ONLY <1>4, <3>1
    <3>. QED  BY ONLY <1>3, <3>2, QueuesExcept
  <2>. QED  BY <2>1
<1>6. Totals' = [Totals EXCEPT ![side][p] = (@ - (Queues[side][p][k].qty - q)) % QtyWrap]
  <2>1. Totals' = [Totals EXCEPT ![side][p] = (levels[side][p].total - (chunks[c].s[i].qty - q)) % QtyWrap]
    BY <1>2, <1>3, TotalsExcept
  <2>. QED  BY <1>3, <1>4, <2>1, QueuesAt
<1>7. Contract!Reduce(side, p, k, q)
  BY <1>2, <1>5, <1>6, Zenon DEF Contract!Reduce, Queues, Totals
<1>8. /\ k \in DOMAIN Queues[side][p] /\ q \in 1 .. Queues[side][p][k].qty
      /\ Queues[side][p][k] = SlotAt(locs[id])
  BY <1>2, <1>3, <1>4, QueuesAt DEF SlotAt
<1>. QED  BY <1>1, <1>3, <1>7, <1>8

LEMMA TakeFrontSeen ==
  ASSUME StoreInv, NEW side \in Side, NEW p \in Price, NEW q \in Qty, TakeFront(side, p, q)
  PROVE  /\ StoreInv' /\ HeadersStay
         /\ Contract!TakeFront(side, p, q)
         /\ Queues[side][p] # << >> /\ q \in 1 .. Head(Queues[side][p]).qty
<1>1. /\ StoreInv' /\ RanksKept
      /\ TotalBecomes(side, p, (levels[side][p].total - q) % QtyWrap)
      /\ \E c, h :
           /\ c \in ChunkIndex /\ h \in LiveSlots(c)
           /\ levels[side][p].head = c /\ \A j \in LiveSlots(c) : h <= j
           /\ chunks[c].side = side /\ chunks[c].price = p
           /\ q \in 1 .. chunks[c].s[h].qty
           /\ IF chunks[c].s[h].qty = q
              THEN SlotLost(c, h) /\ live' = live - 1
              ELSE SlotLess(c, h, chunks[c].s[h].qty - q) /\ live' = live
  BY TakeFrontStep
<1>2. PICK c, h :
        /\ c \in ChunkIndex /\ h \in LiveSlots(c)
        /\ InFront(c, h, side, p)
        /\ chunks[c].side = side /\ chunks[c].price = p
        /\ q \in 1 .. chunks[c].s[h].qty
        /\ chunks[c].s[h].qty = q => SlotLost(c, h) /\ live' = live - 1
        /\ chunks[c].s[h].qty # q => SlotLess(c, h, chunks[c].s[h].qty - q) /\ live' = live
  BY <1>1 DEF InFront
<1>3. PICK queue : queue = Queue(side, p)
  OBVIOUS
<1>4. queue \in Seq(Order) /\ Queues[side][p] = queue
  BY <1>3, QueueHolds, QueuesAt
<1>5. Totals' = [Totals EXCEPT ![side][p] = (@ - q) % QtyWrap]
  BY <1>1, TotalsExcept, QueuesAt
<1>6. CASE chunks[c].s[h].qty = q
  <2>1. /\ 1 \in DOMAIN queue /\ queue[1] = chunks[c].s[h]
        /\ QueueBecomes(side, p, RemoveAt(queue, 1))
    BY <1>1, <1>2, <1>3, <1>6, LossSeen
  <2>2. queue # << >> /\ Head(queue) = queue[1] /\ Len(queue) \in Nat /\ 1 \in 1 .. Len(queue)
    BY <1>4, <2>1
  <2>3. RemoveAt(queue, 1) = Tail(queue)
    <3>1. PICK r, s : r = RemoveAt(queue, 1) /\ s = Tail(queue)
      OBVIOUS
    <3>2. /\ r \in Seq(Order) /\ Len(r) = Len(queue) - 1
          /\ \A j \in 1 .. Len(queue) - 1 : r[j] = IF j < 1 THEN queue[j] ELSE queue[j + 1]
      BY <1>4, <2>2, <3>1, RemoveAtElements
    <3>3. /\ s \in Seq(Order) /\ Len(s) = Len(queue) - 1
          /\ \A j \in 1 .. Len(queue) - 1 : s[j] = queue[j + 1]
      BY <1>4, <2>2, <3>1
    <3>4. \A j \in 1 .. Len(queue) - 1 : r[j] = s[j]
      BY <3>2, <3>3
    <3>5. r = s
      BY <2>2, <3>2, <3>3, <3>4
    <3>. QED  BY <3>1, <3>5
  <2>4. Queues' = [Queues EXCEPT ![side][p] = Tail(@)]
    BY <1>4, <2>1, <2>3, QueuesExcept
  <2>5. Head(Queues[side][p]).qty = q
    BY <1>4, <1>6, <2>1, <2>2
  <2>6. Contract!TakeFront(side, p, q)
    BY <1>2, <1>5, <1>6, <2>4, <2>5, Zenon DEF Contract!TakeFront, Queues, Totals
  <2>. QED  BY <1>1, <1>2, <1>4, <1>6, <2>2, <2>5, <2>6 DEF SlotLost
<1>7. CASE chunks[c].s[h].qty # q
  <2>1. /\ 1 \in DOMAIN queue /\ queue[1] = chunks[c].s[h]
        /\ QueueBecomes(side, p, [queue EXCEPT ![1] = [chunks[c].s[h] EXCEPT !.qty = chunks[c].s[h].qty - q]])
    <3>1. PICK left : left = chunks[c].s[h].qty - q
      OBVIOUS
    <3>2. SlotLess(c, h, left)
      BY <1>2, <1>7, <3>1
    <3>3. QueueShrinks(c, h, side, p, left)
      BY <1>1, <1>2, <3>2, ShrinkSeen
    <3>4. PICK k \in DOMAIN Queue(side, p) :
            /\ Queue(side, p)[k] = chunks[c].s[h]
            /\ QueueBecomes(side, p, [Queue(side, p) EXCEPT ![k] = [chunks[c].s[h] EXCEPT !.qty = left]])
            /\ k = 1
      BY <1>2, <3>3, Zenon DEF QueueShrinks
    <3>. QED  BY <1>3, <3>1, <3>4
  <2>2. queue # << >> /\ Head(queue) = queue[1] /\ queue[1] \in Order
    BY <1>4, <2>1
  <2>3. Queues' = [Queues EXCEPT ![side][p][1].qty = @ - q]
    <3>1. Queues' = [Queues EXCEPT ![side][p] =
                       [Queues[side][p] EXCEPT ![1] =
                          [Queues[side][p][1] EXCEPT !.qty = Queues[side][p][1].qty - q]]]
      BY <1>4, <2>1, QueuesExcept
    <3>. QED  BY <3>1
  <2>4. Head(Queues[side][p]).qty # q /\ q \in 1 .. Head(Queues[side][p]).qty
    BY <1>2, <1>4, <1>7, <2>1, <2>2
  <2>5. Contract!TakeFront(side, p, q)
    BY <1>2, <1>5, <1>7, <2>3, <2>4, Zenon DEF Contract!TakeFront, Queues, Totals
  <2>. QED  BY <1>1, <1>2, <1>4, <1>7, <2>2, <2>4, <2>5 DEF SlotLess
<1>. QED  BY <1>6, <1>7

\* The slot the walk of cross stops at holds the order in front of the queue,
\* and a level without chunks has an empty queue.
LEMMA FrontSeen ==
  ASSUME StoreInv, NEW side \in Side, NEW p \in Price, Queues[side][p] # << >>
  PROVE  /\ levels[side][p].head # Nil
         /\ SlotAt(Oldest(side, p)) = Head(Queues[side][p])
         /\ Head(Queues[side][p]) \in Order /\ Head(Queues[side][p]).id \in DOMAIN locs
<1>1. PICK rk \in [ChunkIndex -> Int] : ListsBy(rk)
  BY DEF StoreInv, Lists
<1>2. PICK n, f : /\ n \in Nat /\ Listing(f, n, PlacesOf(side, p), Key(PlacesOf(side, p), rk))
                  /\ ReadFrom(Queue(side, p), f, n)
  BY <1>1, QueueListed
<1>3. PICK queue : queue = Queue(side, p)
  OBVIOUS
<1>4. /\ queue \in Seq(Order) /\ Queues[side][p] = queue
      /\ \A k \in DOMAIN queue : queue[k].id \in DOMAIN locs
  BY <1>3, QueueHolds, QueuesAt
<1>5. 1 \in 1 .. Len(queue) /\ Head(queue) = queue[1]
  BY <1>4
<1>6. n = Len(queue) /\ queue[1] = OrderIn(f[1]) /\ f[1] \in PlacesOf(side, p)
  BY <1>2, <1>3, <1>5 DEF ReadFrom, Listing
<1>7. levels[side][p].head # Nil
  <2>1. On(side, p) # {}
    BY <1>6 DEF PlacesOf
  <2>. QED  BY <1>1, <2>1 DEF ListsBy, Linked, Ordered
<1>8. PICK c, h :
        /\ c \in ChunkIndex /\ h \in LiveSlots(c)
        /\ levels[side][p].head = c /\ FrontSlot(c) = h
        /\ chunks[c].side = side /\ chunks[c].price = p
        /\ \A j \in LiveSlots(c) : h <= j
  BY <1>7, FrontIs
<1>9. <<c, h>> \in PlacesOf(side, p) /\ h \in SlotIndex
  BY <1>8, PlaceTyped
<1>10. FirstOf(rk, <<c, h>>, PlacesOf(side, p))
  BY <1>1, <1>7, <1>8, <1>9, FrontIsFirst
<1>11. f[1] = <<c, h>>
  <2>1. PICK k \in 1 .. n : f[k] = <<c, h>>
    BY <1>2, <1>9 DEF Listing
  <2>2. PlacesOf(side, p) \in SUBSET (ChunkIndex \X SlotIndex)
    BY DEF PlacesOf
  <2>. QED  BY <1>2, <1>10, <2>1, <2>2, FirstIsOne
<1>12. SlotAt(Oldest(side, p)) = queue[1]
  BY <1>6, <1>8, <1>11 DEF SlotAt, Oldest, OrderIn
<1>. QED  BY <1>4, <1>5, <1>7, <1>12

\* What happens to the orders when a fill is taken is what the queue of that
\* price says: the one in front gives, whatever slots died around it.
THEOREM StoreFillsHitOldest == Spec => FillsHitOldest
<1>1. StoreInv /\ [Next]_storeVars
        => [\A side \in Side, p \in Price, q \in Qty :
              TakeFront(side, p, q) => Contract!TakeFront(side, p, q)]_storeVars
  BY TakeFrontSeen
<1>. QED  BY <1>1, StoreInvariant, PTL DEF Spec, FillsHitOldest

\* Nothing is stored at first.
LEMMA QueuesInit ==
  ASSUME Init
  PROVE  Contract!QueueInit
<1>1. StoreInv
  BY StoreInit
<1>2. ASSUME NEW side \in Side, NEW p \in Price
      PROVE  Queue(side, p) = << >>
  <2>1. PICK rk \in [ChunkIndex -> Int] : ListsBy(rk)
    BY <1>1 DEF StoreInv, Lists
  <2>2. PICK n, f : /\ n \in Nat /\ Listing(f, n, PlacesOf(side, p), Key(PlacesOf(side, p), rk))
                    /\ ReadFrom(Queue(side, p), f, n)
    BY <1>1, <2>1, QueueListed
  <2>3. PlacesOf(side, p) = {}
    BY PlaceIs DEF Init, EmptyChunk, LiveSlots
  <2>4. n = 0
    <3>1. f \in [1 .. n -> {}]
      BY <2>2, <2>3 DEF Listing
    <3>. QED  BY <2>2, <3>1
  <2>5. PICK q : q = Queue(side, p)
    OBVIOUS
  <2>6. q \in Seq(Order) /\ Len(q) = 0
    BY <2>2, <2>4, <2>5 DEF ReadFrom
  <2>. QED  BY <2>5, <2>6
<1>3. Queues = [side \in Side |-> [p \in Price |-> << >>]]
  BY <1>2 DEF Queues
<1>4. Totals = [side \in Side |-> [p \in Price |-> 0]]
  BY DEF Totals, Init, EmptyLevel
<1>5. live = 0
  BY DEF Init
<1>. QED  BY <1>3, <1>4, <1>5, SameTerms, Zenon DEF Contract!QueueInit, Queues, Totals

\* A step that changes nothing changes no queue.
LEMMA QueuesStutter ==
  ASSUME StoreInv, UNCHANGED storeVars
  PROVE  UNCHANGED Contract!queueVars
<1>1. /\ chunks' = chunks /\ levels' = levels /\ live' = live
      /\ \A c : LiveSlots(c)' = LiveSlots(c)
  BY DEF storeVars, LiveSlots
<1>2. StoreInv' /\ RanksKept
  <2>1. StoreInv'
    BY StoreStutter
  <2>2. Busy' = Busy
    BY <1>1 DEF Busy
  <2>3. RanksKept
    BY <1>1, <2>2, StayLists DEF StoreInv, storeVars
  <2>. QED  BY <2>1, <2>3
<1>3. ASSUME NEW side \in Side, NEW p \in Price
      PROVE  Queue(side, p)' = Queue(side, p)
  <2>1. PlacesOf(side, p)' = PlacesOf(side, p)
    <3>1. \A y : y \in PlacesOf(side, p)' <=> y \in PlacesOf(side, p)
      BY <1>1, PlaceIs
    <3>. QED  BY <3>1
  <2>2. \A x \in PlacesOf(side, p) : OrderIn(x)' = OrderIn(x)
    BY <1>1 DEF OrderIn
  <2>. QED  BY <1>2, <2>1, <2>2, QueueStays
<1>4. Queues' = Queues
  BY <1>3 DEF Queues
<1>5. Totals' = Totals
  BY <1>1 DEF Totals
<1>. QED  BY <1>1, <1>4, <1>5, Zenon DEF Contract!queueVars, Queues, Totals

\* The unrolled lists are the FIFO queues the book is written against: a
\* push goes to the back, one order leaves or shrinks, nothing else moves.
THEOREM StoreImplementsQueues == Spec => ImplementsLevelQueues
<1>1. Init => Contract!QueueInit
  BY QueuesInit
<1>2. StoreInv /\ [Next]_storeVars => [Contract!QueueNext]_Contract!queueVars
  <2>. SUFFICES ASSUME StoreInv, [Next]_storeVars
                PROVE  Contract!QueueNext \/ UNCHANGED Contract!queueVars
    OBVIOUS
  <2>1. ASSUME NEW side \in Side, NEW p \in Price, NEW order \in Offered, Push(side, p, order)
        PROVE  Contract!QueueNext
    <3>1. /\ Contract!Push(side, p, order) /\ order.id \notin Contract!StoredIds
          /\ order \in Contract!Order /\ live < MaxOrders
      BY <2>1, PushSeen, StoreAssumption, SameTerms DEF Push
    <3>. QED  BY <3>1, SameTerms, Zenon DEF Contract!QueueNext
  <2>2. ASSUME NEW id \in DOMAIN locs, Unlink(id)
        PROVE  Contract!QueueNext
    <3>1. PICK side, p : side = chunks[locs[id][1]].side /\ p = chunks[locs[id][1]].price
      OBVIOUS
    <3>2. /\ side \in Side /\ p \in Price
          /\ \E k \in DOMAIN Queues[side][p] : Contract!Unlink(side, p, k)
      BY <2>2, <3>1, UnlinkSeen
    <3>. QED  BY <3>2, SameTerms, Zenon DEF Contract!QueueNext, Queues
  <2>3. ASSUME NEW side \in Side, NEW p \in Price, NEW q \in Qty, TakeFront(side, p, q)
        PROVE  Contract!QueueNext
    <3>1. /\ Contract!TakeFront(side, p, q)
          /\ Queues[side][p] # << >> /\ q \in 1 .. Head(Queues[side][p]).qty
      BY <2>3, TakeFrontSeen
    <3>. QED  BY <3>1, SameTerms, Zenon DEF Contract!QueueNext, Queues
  <2>4. ASSUME NEW id \in DOMAIN locs, NEW q \in Qty, Reduce(id, q)
        PROVE  Contract!QueueNext
    <3>1. PICK side, p : side = chunks[locs[id][1]].side /\ p = chunks[locs[id][1]].price
      OBVIOUS
    <3>2. /\ side \in Side /\ p \in Price
          /\ \E k \in DOMAIN Queues[side][p] :
               q \in 1 .. Queues[side][p][k].qty /\ Contract!Reduce(side, p, k, q)
      BY <2>4, <3>1, ReduceSeen
    <3>. QED  BY <3>2, SameTerms, Zenon DEF Contract!QueueNext, Queues
  <2>5. CASE UNCHANGED storeVars
    BY <2>5, QueuesStutter
  <2>. QED  BY <2>1, <2>2, <2>3, <2>4, <2>5 DEF Next
<1>. QED  BY <1>1, <1>2, StoreInvariant, PTL DEF Spec, ImplementsLevelQueues, Contract!QueueSpec
=============================================================================
