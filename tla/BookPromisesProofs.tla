------------------------- MODULE BookPromisesProofs -------------------------
(***************************************************************************)
(* Theorems about what the order book promises, for all values of its      *)
(* constants.  To a client: price-time priority, fill-or-kill and          *)
(* post-only, that is, every step of the book is a step of                 *)
(* PriceTimePriority or invisible to it.  To a consumer of its events: no  *)
(* event contradicts the ones before it, and together they determine the   *)
(* book.  To whoever restarts it: a snapshot gives back the book it was    *)
(* taken of, and a recovered book goes on with the events as if it had     *)
(* never stopped.                                                          *)
(*                                                                         *)
(* The first two rest on what a step does to the queues order by order: an *)
(* order leaves, its quantity is lowered in place, or one joins at the     *)
(* back.  The last rests on every step being a function of the state.      *)
(***************************************************************************)
EXTENDS OrderBookProofs, PTPRefinement, BookWithFeed, Recovery

----------------------------------------------------------------------------
\* One queue, order by order

\* The orders of a queue, and who is ahead of whom.
OrdersIn(q) == {q[i] : i \in DOMAIN q}
Precedes(q, a, b) == \E i, j \in DOMAIN q : i < j /\ a = q[i].id /\ b = q[j].id

\* Removing an order leaves the others in their order.
LEMMA RemoveAtContents ==
  ASSUME NEW q \in Seq(Order), NoIdTwice(q), NEW i \in DOMAIN q
  PROVE  /\ OrdersIn(RemoveAt(q, i)) = {o \in OrdersIn(q) : o.id # q[i].id}
         /\ \A a, b : Precedes(RemoveAt(q, i), a, b) <=>
                        Precedes(q, a, b) /\ a # q[i].id /\ b # q[i].id
<1>. DEFINE r == RemoveAt(q, i)
            old(j) == IF j < i THEN j ELSE j + 1
            new(k) == IF k < i THEN k ELSE k - 1
<1>0. i \in 1 .. Len(q) /\ DOMAIN q = 1 .. Len(q)
  OBVIOUS
<1>1. r \in Seq(Order) /\ Len(r) = Len(q) - 1
      /\ \A j \in 1 .. Len(q) - 1 : r[j] = IF j < i THEN q[j] ELSE q[j + 1]
  BY <1>0, RemoveAtElements
<1>. HIDE DEF r
<1>2. DOMAIN r = 1 .. Len(q) - 1
  BY <1>1
<1>3. \A j \in DOMAIN r : old(j) \in DOMAIN q /\ old(j) # i /\ r[j] = q[old(j)]
  BY <1>0, <1>1, <1>2
<1>4. \A k \in DOMAIN q : k # i => new(k) \in DOMAIN r /\ r[new(k)] = q[k]
  <2>. SUFFICES ASSUME NEW k \in DOMAIN q, k # i
                PROVE  new(k) \in DOMAIN r /\ r[new(k)] = q[k]
    OBVIOUS
  <2>1. new(k) \in DOMAIN r /\ old(new(k)) = k
    BY <1>0, <1>2
  <2>. HIDE DEF old, new
  <2>. QED  BY <1>3, <2>1
<1>5. /\ \A j, k \in DOMAIN r : j < k => old(j) < old(k)
      /\ \A j, k \in DOMAIN q : j < k /\ j # i /\ k # i => new(j) < new(k)
  BY <1>0, <1>2
<1>. HIDE DEF old, new
<1>6. \A k \in DOMAIN q : q[k].id = q[i].id => k = i
  BY DEF NoIdTwice
<1>7. OrdersIn(r) = {o \in OrdersIn(q) : o.id # q[i].id}
  <2>1. ASSUME NEW o \in OrdersIn(r)
        PROVE  o \in OrdersIn(q) /\ o.id # q[i].id
    BY <1>3, <1>6 DEF OrdersIn
  <2>2. ASSUME NEW o \in OrdersIn(q), o.id # q[i].id
        PROVE  o \in OrdersIn(r)
    BY <1>4, <2>2 DEF OrdersIn
  <2>. QED  BY <2>1, <2>2
<1>8. ASSUME NEW a, NEW b, Precedes(r, a, b)
      PROVE  Precedes(q, a, b) /\ a # q[i].id /\ b # q[i].id
  BY <1>3, <1>5, <1>6, <1>8 DEF Precedes
<1>9. ASSUME NEW a, NEW b, Precedes(q, a, b), a # q[i].id, b # q[i].id
      PROVE  Precedes(r, a, b)
  BY <1>4, <1>5, <1>9 DEF Precedes
<1>. QED  BY <1>7, <1>8, <1>9 DEF r

\* The order in front leaves like any other.
LEMMA TailIsRemoveAt ==
  ASSUME NEW q \in Seq(Order), q # << >>
  PROVE  Tail(q) = RemoveAt(q, 1) /\ 1 \in DOMAIN q /\ Head(q) = q[1]
<1>1. 1 \in 1 .. Len(q) /\ 1 \in DOMAIN q /\ Head(q) = q[1]
  OBVIOUS
<1>. DEFINE r == RemoveAt(q, 1)
            t == Tail(q)
<1>2. r \in Seq(Order) /\ Len(r) = Len(q) - 1
      /\ \A j \in 1 .. Len(q) - 1 : r[j] = IF j < 1 THEN q[j] ELSE q[j + 1]
  BY <1>1, RemoveAtElements
<1>3. t \in Seq(Order) /\ Len(t) = Len(q) - 1 /\ \A j \in 1 .. Len(q) - 1 : t[j] = q[j + 1]
  OBVIOUS
<1>. HIDE DEF r, t
<1>4. \A j \in 1 .. Len(q) - 1 : r[j] = t[j]
  BY <1>2, <1>3
<1>5. r = t
  BY <1>2, <1>3, <1>4
<1>. QED  BY <1>1, <1>5 DEF r, t

\* Lowering a quantity in place changes that order alone.
LEMMA SetQtyContents ==
  ASSUME NEW q \in Seq(Order), NoIdTwice(q), NEW i \in DOMAIN q, NEW n \in Qty \ {0}
  PROVE  /\ OrdersIn([q EXCEPT ![i].qty = n]) =
              {o \in OrdersIn(q) : o.id # q[i].id} \cup {[q[i] EXCEPT !.qty = n]}
         /\ \A a, b : Precedes([q EXCEPT ![i].qty = n], a, b) <=> Precedes(q, a, b)
<1>. DEFINE e == [q EXCEPT ![i].qty = n]
            o1 == [q[i] EXCEPT !.qty = n]
<1>0. q[i] \in Order
  OBVIOUS
<1>1. o1.id = q[i].id
  BY <1>0 DEF Order
<1>. HIDE DEF o1
<1>2. DOMAIN e = DOMAIN q /\ e[i] = o1 /\ \A j \in DOMAIN q \ {i} : e[j] = q[j]
  BY <1>0 DEF o1
<1>. HIDE DEF e
<1>3. \A j \in DOMAIN q : e[j].id = q[j].id
  BY <1>1, <1>2
<1>4. \A k \in DOMAIN q : q[k].id = q[i].id => k = i
  BY DEF NoIdTwice
<1>5. OrdersIn(e) = {o \in OrdersIn(q) : o.id # q[i].id} \cup {o1}
  BY <1>2, <1>4 DEF OrdersIn
<1>6. \A a, b : Precedes(e, a, b) <=> Precedes(q, a, b)
  BY <1>2, <1>3 DEF Precedes
<1>. QED  BY <1>5, <1>6 DEF e, o1

\* A new order joins behind all others.
LEMMA AppendContents ==
  ASSUME NEW q \in Seq(Order), NEW order \in Order
  PROVE  /\ OrdersIn(Append(q, order)) = OrdersIn(q) \cup {order}
         /\ \A a, b : Precedes(Append(q, order), a, b) <=>
                        Precedes(q, a, b) \/ (a \in IdsOf(q) /\ b = order.id)
<1>. DEFINE e == Append(q, order)
            n == Len(q) + 1
<1>1. DOMAIN e = 1 .. n /\ DOMAIN q = 1 .. Len(q) /\ Len(q) \in Nat
      /\ e[n] = order /\ \A j \in 1 .. Len(q) : e[j] = q[j]
  OBVIOUS
<1>. HIDE DEF e
<1>2. n \in DOMAIN e /\ n \notin DOMAIN q /\ DOMAIN e = DOMAIN q \cup {n}
      /\ \A j \in DOMAIN q : j < n /\ ~(n < j)
  BY <1>1
<1>3. ~(n < n) /\ \A j \in DOMAIN q : e[j] = q[j]
  BY <1>1
<1>4. e[n] = order
  BY <1>1
<1>. HIDE DEF n
<1>5. OrdersIn(e) = OrdersIn(q) \cup {order}
  BY <1>2, <1>3, <1>4 DEF OrdersIn
<1>6. ASSUME NEW a, NEW b
      PROVE  Precedes(e, a, b) <=> Precedes(q, a, b) \/ (a \in IdsOf(q) /\ b = order.id)
  <2>1. Precedes(e, a, b) => Precedes(q, a, b) \/ (a \in IdsOf(q) /\ b = order.id)
    BY <1>2, <1>3, <1>4 DEF Precedes, IdsOf
  <2>2. Precedes(q, a, b) => Precedes(e, a, b)
    BY <1>2, <1>3 DEF Precedes
  <2>3. a \in IdsOf(q) /\ b = order.id => Precedes(e, a, b)
    BY <1>2, <1>3, <1>4 DEF Precedes, IdsOf
  <2>. QED  BY <2>1, <2>2, <2>3
<1>. QED  BY <1>5, <1>6 DEF e

----------------------------------------------------------------------------
\* The queues, order by order

\* The order id leaves the book.
Leaves(id) ==
  \A s \in Side, r \in Price :
    /\ OrdersIn(queue'[s][r]) = {o \in OrdersIn(queue[s][r]) : o.id # id}
    /\ \A a, b : Precedes(queue'[s][r], a, b) <=> Precedes(queue[s][r], a, b) /\ a # id /\ b # id

\* The order id keeps its place and has quantity n.
KeepsWith(id, n) ==
  \A s \in Side, r \in Price :
    /\ OrdersIn(queue'[s][r]) =
         {IF o.id = id THEN [o EXCEPT !.qty = n] ELSE o : o \in OrdersIn(queue[s][r])}
    /\ \A a, b : Precedes(queue'[s][r], a, b) <=> Precedes(queue[s][r], a, b)

\* An order joins the book behind all others of its level.
Joins(side, p, order) ==
  \A s \in Side, r \in Price :
    LET here == s = side /\ r = p
    IN  /\ OrdersIn(queue'[s][r]) = OrdersIn(queue[s][r]) \cup (IF here THEN {order} ELSE {})
        /\ \A a, b : Precedes(queue'[s][r], a, b) <=>
             \/ Precedes(queue[s][r], a, b)
             \/ here /\ a \in IdsAt(s, r) /\ b = order.id

\* An id is in one level only.
LEMMA OneLevel ==
  ASSUME BookInv, NEW side \in Side, NEW p \in Price, NEW id \in IdsAt(side, p),
         NEW s \in Side, NEW r \in Price, id \in IdsAt(s, r)
  PROVE  s = side /\ r = p
<1>1. map[id] = [side |-> side, price |-> p] /\ map[id] = [side |-> s, price |-> r]
  BY DEF BookInv, Located
<1>2. map[id].side = side /\ map[id].side = s /\ map[id].price = p /\ map[id].price = r
  BY <1>1
<1>. QED  BY <1>2

\* The ids of a level are those of its orders, and of the pairs in it.
LEMMA ContentsIds ==
  ASSUME NEW s, NEW r
  PROVE  /\ \A id : id \in IdsAt(s, r) <=> \E o \in OrdersIn(queue[s][r]) : o.id = id
         /\ \A a, b : Precedes(queue[s][r], a, b) => a \in IdsAt(s, r) /\ b \in IdsAt(s, r)
BY DEF IdsAt, IdsOf, OrdersIn, Precedes

\* What each use of the store does to the orders of the book.
LEMMA UnlinkLeaves ==
  ASSUME BookInv, NEW side \in Side, NEW p \in Price, NEW i \in DOMAIN queue[side][p],
         Unlink(side, p, i)
  PROVE  Leaves(queue[side][p][i].id)
<1>. DEFINE q  == queue[side][p]
            id == q[i].id
            t  == RemoveAt(q, i)
<1>1. QueuesOK /\ q \in Seq(Order) /\ NoIdTwice(q)
  BY QueueTyped DEF BookInv, Typed
<1>2. /\ OrdersIn(t) = {o \in OrdersIn(q) : o.id # id}
      /\ \A a, b : Precedes(t, a, b) <=> Precedes(q, a, b) /\ a # id /\ b # id
  BY <1>1, RemoveAtContents
<1>3. id \in IdsAt(side, p)
  BY DEF IdsAt, IdsOf
<1>4. queue' = [queue EXCEPT ![side][p] = t]
  BY DEF Unlink
<1>. HIDE DEF t, id
<1>. SUFFICES ASSUME NEW s \in Side, NEW r \in Price
              PROVE  /\ OrdersIn(queue'[s][r]) = {o \in OrdersIn(queue[s][r]) : o.id # id}
                     /\ \A a, b : Precedes(queue'[s][r], a, b) <=>
                                    Precedes(queue[s][r], a, b) /\ a # id /\ b # id
  BY DEF Leaves, id
<1>5. CASE s = side /\ r = p
  <2>1. queue'[s][r] = t
    BY <1>1, <1>4, <1>5 DEF QueuesOK
  <2>. QED  BY <1>2, <1>5, <2>1
<1>6. CASE ~(s = side /\ r = p)
  <2>1. queue'[s][r] = queue[s][r]
    BY <1>1, <1>4, <1>6 DEF QueuesOK
  <2>2. id \notin IdsAt(s, r)
    BY <1>3, <1>6, OneLevel
  <2>3. \A o \in OrdersIn(queue[s][r]) : o.id # id
    BY <2>2, ContentsIds
  <2>4. \A a, b : Precedes(queue[s][r], a, b) => a # id /\ b # id
    BY <2>2, ContentsIds
  <2>. QED  BY <2>1, <2>3, <2>4
<1>. QED  BY <1>5, <1>6

LEMMA ReduceKeeps ==
  ASSUME BookInv, NEW side \in Side, NEW p \in Price, NEW i \in DOMAIN queue[side][p],
         NEW n \in Qty \ {0}, queue' = [queue EXCEPT ![side][p][i].qty = n]
  PROVE  KeepsWith(queue[side][p][i].id, n)
<1>. DEFINE q  == queue[side][p]
            id == q[i].id
            t  == [q EXCEPT ![i].qty = n]
            Changed(o) == IF o.id = id THEN [o EXCEPT !.qty = n] ELSE o
<1>1. QueuesOK /\ q \in Seq(Order) /\ NoIdTwice(q)
  BY QueueTyped DEF BookInv, Typed
<1>2. /\ OrdersIn(t) = {o \in OrdersIn(q) : o.id # id} \cup {[q[i] EXCEPT !.qty = n]}
      /\ \A a, b : Precedes(t, a, b) <=> Precedes(q, a, b)
  BY <1>1, SetQtyContents
<1>3. id \in IdsAt(side, p)
  BY DEF IdsAt, IdsOf
<1>4. queue' = [queue EXCEPT ![side][p] = t]
  OBVIOUS
<1>7. q[i] \in OrdersIn(q) /\ \A o \in OrdersIn(q) : o.id = id => o = q[i]
  BY <1>1 DEF OrdersIn, NoIdTwice
<1>8. OrdersIn(t) = {Changed(o) : o \in OrdersIn(q)}
  BY <1>2, <1>7
<1>. HIDE DEF t, id
<1>. SUFFICES ASSUME NEW s \in Side, NEW r \in Price
              PROVE  /\ OrdersIn(queue'[s][r]) = {Changed(o) : o \in OrdersIn(queue[s][r])}
                     /\ \A a, b : Precedes(queue'[s][r], a, b) <=> Precedes(queue[s][r], a, b)
  BY DEF KeepsWith, id
<1>5. CASE s = side /\ r = p
  <2>1. queue'[s][r] = t
    BY <1>1, <1>4, <1>5 DEF QueuesOK
  <2>. HIDE DEF Changed
  <2>. QED  BY <1>2, <1>5, <1>8, <2>1
<1>6. CASE ~(s = side /\ r = p)
  <2>1. queue'[s][r] = queue[s][r]
    BY <1>1, <1>4, <1>6 DEF QueuesOK
  <2>2. id \notin IdsAt(s, r)
    BY <1>3, <1>6, OneLevel
  <2>3. \A o \in OrdersIn(queue[s][r]) : Changed(o) = o
    BY <2>2, ContentsIds
  <2>. HIDE DEF Changed
  <2>4. OrdersIn(queue[s][r]) = {Changed(o) : o \in OrdersIn(queue[s][r])}
    BY <2>3
  <2>. QED  BY <2>1, <2>4
<1>. QED  BY <1>5, <1>6

\* A maker leaves or is left with the rest of its quantity, in its place.
LEMMA TakeFrontContents ==
  ASSUME BookInv, NEW side \in Side, NEW p \in Occupied(side), NEW n \in Qty \ {0},
         n <= Head(queue[side][p]).qty, TakeFront(side, p, n)
  PROVE  LET maker == Head(queue[side][p])
         IN  IF maker.qty = n THEN Leaves(maker.id)
             ELSE KeepsWith(maker.id, maker.qty - n) /\ maker.qty - n \in Qty \ {0}
<1>. DEFINE q == queue[side][p]
            maker == Head(q)
<1>1. p \in Price /\ q # << >> /\ QueuesOK
  BY DEF Occupied, BookInv, Typed
<1>2. q \in Seq(Order) /\ NoIdTwice(q)
  BY <1>1, QueueTyped
<1>3. Tail(q) = RemoveAt(q, 1) /\ 1 \in DOMAIN q /\ maker = q[1]
  BY <1>1, <1>2, TailIsRemoveAt
<1>4. maker.qty \in Qty
  <2>1. q[1] \in Order
    BY <1>2, <1>3
  <2>2. \A o \in Order : o.qty \in Qty
    BY DEF Order
  <2>. QED  BY <1>3, <2>1, <2>2
<1>5. CASE maker.qty = n
  <2>1. Unlink(side, p, 1)
    BY <1>3, <1>5 DEF TakeFront, Unlink
  <2>. QED  BY <1>1, <1>3, <1>5, <2>1, UnlinkLeaves
<1>6. CASE maker.qty # n
  <2>. DEFINE m == maker.qty - n
  <2>1. m \in Qty \ {0}
    BY <1>4, <1>6, QtyAssumption DEF Qty
  <2>2. queue' = [queue EXCEPT ![side][p][1].qty = q[1].qty - n]
    BY <1>6 DEF TakeFront
  <2>3. queue' = [queue EXCEPT ![side][p][1].qty = m]
    BY <1>3, <2>2
  <2>. HIDE DEF m
  <2>4. KeepsWith(q[1].id, m)
    BY <1>1, <1>3, <2>1, <2>3, ReduceKeeps
  <2>. QED  BY <1>3, <1>6, <2>1, <2>4 DEF m
<1>. QED  BY <1>5, <1>6

LEMMA PushJoins ==
  ASSUME BookInv, NEW side \in Side, NEW p \in Price, NEW order \in Order, Push(side, p, order)
  PROVE  Joins(side, p, order)
<1>. DEFINE q == queue[side][p]
            t == Append(q, order)
<1>1. QueuesOK /\ q \in Seq(Order)
  BY QueueTyped DEF BookInv, Typed
<1>2. /\ OrdersIn(t) = OrdersIn(q) \cup {order}
      /\ \A a, b : Precedes(t, a, b) <=> Precedes(q, a, b) \/ (a \in IdsOf(q) /\ b = order.id)
  BY <1>1, AppendContents
<1>4. queue' = [queue EXCEPT ![side][p] = t]
  BY DEF Push
<1>. HIDE DEF t
<1>5. ASSUME NEW s \in Side, NEW r \in Price, s = side /\ r = p
      PROVE  queue'[s][r] = t
  BY <1>1, <1>4, <1>5 DEF QueuesOK
<1>6. ASSUME NEW s \in Side, NEW r \in Price, ~(s = side /\ r = p)
      PROVE  queue'[s][r] = queue[s][r]
  BY <1>1, <1>4, <1>6 DEF QueuesOK
<1>. SUFFICES ASSUME NEW s \in Side, NEW r \in Price
              PROVE  LET here == s = side /\ r = p
                     IN  /\ OrdersIn(queue'[s][r]) =
                              OrdersIn(queue[s][r]) \cup (IF here THEN {order} ELSE {})
                         /\ \A a, b : Precedes(queue'[s][r], a, b) <=>
                              \/ Precedes(queue[s][r], a, b)
                              \/ here /\ a \in IdsAt(s, r) /\ b = order.id
  BY DEF Joins
<1>7. CASE s = side /\ r = p
  BY <1>2, <1>5, <1>7 DEF IdsAt
<1>8. CASE ~(s = side /\ r = p)
  BY <1>6, <1>8
<1>. QED  BY <1>7, <1>8

----------------------------------------------------------------------------
\* What the refinement mapping makes of the queues

\* The resting orders and the relation between them, read off the contents.
RestingExact ==
  /\ RestingById = [id \in StoredIds |-> RestingById[id]]
  /\ \A id : id \in StoredIds <=>
       \E s \in Side, r \in Price : \E o \in OrdersIn(queue[s][r]) : o.id = id
  /\ \A s \in Side, r \in Price : \A o \in OrdersIn(queue[s][r]) :
       RestingById[o.id] = [side |-> s, price |-> r, qty |-> o.qty]
  /\ AheadOf \subseteq StoredIds \X StoredIds
  /\ \A a, b : <<a, b>> \in AheadOf <=> \E s \in Side, r \in Price : Precedes(queue[s][r], a, b)

\* RestingById and AheadOf are read off the queues exactly.
LEMMA RestingIs == BookInv => RestingExact
<1>. SUFFICES ASSUME BookInv
              PROVE  RestingExact
  OBVIOUS
<1>1. RestingById = [id \in StoredIds |-> RestingById[id]]
  BY DEF RestingById
<1>2. \A id : id \in StoredIds <=> \E s \in Side, r \in Price : id \in IdsAt(s, r)
  BY DEF StoredIds
<1>3. \A id : id \in StoredIds <=>
        \E s \in Side, r \in Price : \E o \in OrdersIn(queue[s][r]) : o.id = id
  BY <1>2, ContentsIds
<1>4. ASSUME NEW s \in Side, NEW r \in Price, NEW o \in OrdersIn(queue[s][r])
      PROVE  RestingById[o.id] = [side |-> s, price |-> r, qty |-> o.qty]
  <2>. DEFINE entry == [id |-> o.id, side |-> s, price |-> r, qty |-> o.qty]
  <2>0. PICK k \in DOMAIN queue[s][r] : o = queue[s][r][k]
    BY DEF OrdersIn
  <2>1. entry \in Entries
    <3>. DEFINE at(S, v, i) == [id |-> queue[S][v][i].id, side |-> S, price |-> v, qty |-> queue[S][v][i].qty]
    <3>1. entry = at(s, r, k)
      BY <2>0
    <3>. DEFINE level(S, v) == {at(S, v, i) : i \in DOMAIN queue[S][v]}
    <3>2. Entries = UNION {level(S, v) : S \in Side, v \in Price}
      BY DEF Entries
    <3>. HIDE DEF at, entry
    <3>3. entry \in level(s, r)
      BY <3>1
    <3>. HIDE DEF level
    <3>. QED  BY <3>2, <3>3
  <2>2. ASSUME NEW e \in Entries, e.id = o.id
        PROVE  e = entry
    <3>1. PICK t, v, j : t \in Side /\ v \in Price /\ j \in DOMAIN queue[t][v] /\ 
            e = [id |-> queue[t][v][j].id, side |-> t, price |-> v, qty |-> queue[t][v][j].qty]
      BY DEF Entries
    <3>2. /\ t \in Side /\ v \in Price /\ j \in DOMAIN queue[t][v]
          /\ e.id = queue[t][v][j].id
          /\ e = [id |-> queue[t][v][j].id, side |-> t, price |-> v, qty |-> queue[t][v][j].qty]
      BY <3>1
    <3>. HIDE DEF entry
    <3>3. queue[t][v][j].id = o.id
      BY <2>2, <3>2
    <3>4. o.id \in IdsAt(s, r) /\ o.id \in IdsAt(t, v)
      BY <2>0, <3>2, <3>3 DEF IdsAt, IdsOf
    <3>. DEFINE m == o.id
    <3>41. m \in IdsAt(s, r) /\ m \in IdsAt(t, v)
      BY <3>4
    <3>. HIDE DEF m
    <3>5. t = s /\ v = r
      BY <3>2, <3>41, OneLevel
    <3>6. NoIdTwice(queue[s][r])
      BY DEF BookInv, Typed, QueuesOK
    <3>7. j = k
      BY <2>0, <3>2, <3>3, <3>5, <3>6 DEF NoIdTwice
    <3>. QED  BY <2>0, <3>2, <3>5, <3>7 DEF entry
  <2>3. (CHOOSE e \in Entries : e.id = o.id) = entry
    <3>. HIDE DEF entry
    <3>1. entry.id = o.id
      BY DEF entry
    <3>. QED  BY <2>1, <2>2, <3>1
  <2>4. o.id \in StoredIds
    BY <1>3
  <2>. HIDE DEF entry
  <2>5. RestingById[o.id] = [side |-> entry.side, price |-> entry.price, qty |-> entry.qty]
    BY <2>3, <2>4 DEF RestingById
  <2>. QED  BY <2>5 DEF entry
<1>5. AheadOf \subseteq StoredIds \X StoredIds
  BY DEF AheadOf
<1>6. ASSUME NEW a, NEW b
      PROVE  <<a, b>> \in AheadOf <=> \E s \in Side, r \in Price : Precedes(queue[s][r], a, b)
  <2>1. ASSUME NEW s \in Side, NEW r \in Price, Precedes(queue[s][r], a, b)
        PROVE  <<a, b>> \in AheadOf
    <3>1. a \in StoredIds /\ b \in StoredIds
      BY <1>2, <2>1, ContentsIds
    <3>. QED  BY <2>1, <3>1 DEF AheadOf, Precedes
  <2>2. ASSUME <<a, b>> \in AheadOf
        PROVE  \E s \in Side, r \in Price : Precedes(queue[s][r], a, b)
    <3>1. PICK s, r, i, j : s \in Side /\ r \in Price /\ i \in DOMAIN queue[s][r] /\ j \in DOMAIN queue[s][r] /\ 
            i < j /\ <<a, b>> = <<queue[s][r][i].id, queue[s][r][j].id>>
      BY <2>2 DEF AheadOf
    <3>2. a = queue[s][r][i].id /\ b = queue[s][r][j].id
      BY <3>1
    <3>. QED  BY <3>1, <3>2 DEF Precedes
  <2>. QED  BY <2>1, <2>2
<1>. QED  BY <1>1, <1>3, <1>4, <1>5, <1>6 DEF RestingExact

\* The domain of the mapping and the orders it puts at one level.
LEMMA PeersAre ==
  ASSUME RestingExact, NEW side \in Side, NEW p \in Price
  PROVE  /\ DOMAIN RestingById = StoredIds
         /\ \A m : m \in Abstract!Peers(side, p) <=> m \in IdsAt(side, p)
         /\ IdsAt(side, p) \subseteq StoredIds
<1>1. DOMAIN RestingById = StoredIds
  BY DEF RestingExact
<1>2. \A s \in Side, r \in Price : \A o \in OrdersIn(queue[s][r]) :
        RestingById[o.id] = [side |-> s, price |-> r, qty |-> o.qty] /\ o.id \in StoredIds
  BY ZenonT(30) DEF RestingExact
<1>3. ASSUME NEW m \in IdsAt(side, p)
      PROVE  m \in Abstract!Peers(side, p) /\ m \in StoredIds
  <2>1. PICK o \in OrdersIn(queue[side][p]) : o.id = m
    BY ContentsIds
  <2>2. RestingById[m] = [side |-> side, price |-> p, qty |-> o.qty] /\ m \in StoredIds
    BY <1>2, <2>1
  <2>. QED  BY <1>1, <2>2 DEF Abstract!Peers
<1>4. ASSUME NEW m \in Abstract!Peers(side, p)
      PROVE  m \in IdsAt(side, p)
  <2>1. m \in StoredIds /\ RestingById[m].side = side /\ RestingById[m].price = p
    BY <1>1 DEF Abstract!Peers
  <2>2. PICK s, r, o : s \in Side /\ r \in Price /\ o \in OrdersIn(queue[s][r]) /\ o.id = m
    <3>1. \A id : id \in StoredIds <=>
            \E s \in Side, r \in Price : \E o \in OrdersIn(queue[s][r]) : o.id = id
      BY DEF RestingExact
    <3>. QED  BY ONLY <2>1, <3>1, Zenon
  <2>3. RestingById[m] = [side |-> s, price |-> r, qty |-> o.qty]
    BY <1>2, <2>2
  <2>4. s = side /\ r = p
    BY <2>1, <2>3
  <2>. QED  BY <2>2, <2>4, ContentsIds
<1>. QED  BY <1>1, <1>3, <1>4

\* Two sets of pairs with the same pairs are the same.
LEMMA SamePairs ==
  ASSUME NEW X, NEW Y, NEW A, NEW B, A \subseteq X \X X, B \subseteq Y \X Y,
         \A a, b : <<a, b>> \in A <=> <<a, b>> \in B
  PROVE  A = B
OBVIOUS

\* The same uses, as changes of the abstract variables.
LEMMA StayMaps ==
  ASSUME queue' = queue
  PROVE  RestingById' = RestingById /\ AheadOf' = AheadOf
BY DEF RestingById, AheadOf, StoredIds, IdsAt, Entries

LEMMA LeaveMaps ==
  ASSUME RestingExact, RestingExact', NEW id, Leaves(id)
  PROVE  Abstract!Leave(id)
<1>0. \A s \in Side, r \in Price :
        OrdersIn(queue'[s][r]) = {o \in OrdersIn(queue[s][r]) : o.id # id}
  BY DEF Leaves
<1>1. /\ \A m : m \in StoredIds <=>
           \E s \in Side, r \in Price : \E o \in OrdersIn(queue[s][r]) : o.id = m
      /\ \A m : m \in StoredIds' <=>
           \E s \in Side, r \in Price : \E o \in OrdersIn(queue'[s][r]) : o.id = m
  BY DEF RestingExact
<1>11. \A s \in Side, r \in Price : \A o \in OrdersIn(queue[s][r]) :
         RestingById[o.id] = [side |-> s, price |-> r, qty |-> o.qty]
  BY DEF RestingExact
<1>12. \A s \in Side, r \in Price : \A o \in OrdersIn(queue'[s][r]) :
         RestingById'[o.id] = [side |-> s, price |-> r, qty |-> o.qty]
  BY DEF RestingExact
<1>13. \A a, b : <<a, b>> \in AheadOf <=> \E s \in Side, r \in Price : Precedes(queue[s][r], a, b)
  BY DEF RestingExact
<1>14. \A a, b : <<a, b>> \in AheadOf' <=> \E s \in Side, r \in Price : Precedes(queue'[s][r], a, b)
  BY DEF RestingExact
<1>2. StoredIds' = StoredIds \ {id}
  BY <1>0, <1>1
<1>3. ASSUME NEW m \in StoredIds'
      PROVE  RestingById'[m] = RestingById[m]
  <2>1. PICK s, r, o : s \in Side /\ r \in Price /\ o \in OrdersIn(queue'[s][r]) /\ o.id = m
    BY <1>1
  <2>2. o \in OrdersIn(queue[s][r])
    BY <1>0, <2>1
  <2>3. RestingById'[o.id] = RestingById[o.id]
    <3>1. RestingById[o.id] = [side |-> s, price |-> r, qty |-> o.qty]
      BY <1>11, <2>1, <2>2
    <3>2. RestingById'[o.id] = [side |-> s, price |-> r, qty |-> o.qty]
      BY <1>12, <2>1, <2>2
    <3>. QED  BY <3>1, <3>2
  <2>. QED  BY <2>1, <2>3
<1>4. RestingById' = [m \in StoredIds' |-> RestingById'[m]]
      /\ RestingById = [m \in StoredIds |-> RestingById[m]]
  BY DEF RestingExact
<1>5. RestingById' = [m \in DOMAIN RestingById \ {id} |-> RestingById[m]]
  BY <1>2, <1>3, <1>4
<1>. DEFINE rest == {pair \in AheadOf : pair[1] # id /\ pair[2] # id}
<1>6. AheadOf' = rest
  <2>1. \A a, b : <<a, b>> \in AheadOf' <=> <<a, b>> \in AheadOf /\ a # id /\ b # id
    <3>1. \A a, b : \A s \in Side, r \in Price :
            Precedes(queue'[s][r], a, b) <=> Precedes(queue[s][r], a, b) /\ a # id /\ b # id
      BY DEF Leaves
    <3>. QED  BY <1>13, <1>14, <3>1, Zenon
  <2>2. \A a, b : <<a, b>> \in rest <=> <<a, b>> \in AheadOf /\ a # id /\ b # id
    OBVIOUS
  <2>3. AheadOf' \subseteq StoredIds' \X StoredIds' /\ rest \subseteq StoredIds \X StoredIds
    BY DEF RestingExact
  <2>. HIDE DEF rest
  <2>4. \A a, b : <<a, b>> \in AheadOf' <=> <<a, b>> \in rest
    BY <2>1, <2>2
  <2>. QED  BY <2>3, <2>4, SamePairs
<1>. QED  BY <1>5, <1>6 DEF Abstract!Leave, Abstract!Gone

\* The orders of a queue are orders.
LEMMA OrdersTyped ==
  ASSUME QueuesOK, NEW s \in Side, NEW r \in Price, NEW o \in OrdersIn(queue[s][r])
  PROVE  o \in Order
BY QueueTyped DEF OrdersIn

LEMMA KeepMaps ==
  ASSUME QueuesOK, RestingExact, RestingExact', NEW id, NEW n, KeepsWith(id, n)
  PROVE  RestingById' = [RestingById EXCEPT ![id].qty = n] /\ AheadOf' = AheadOf
<1>. DEFINE Changed(o) == IF o.id = id THEN [o EXCEPT !.qty = n] ELSE o
<1>0. \A s \in Side, r \in Price :
        OrdersIn(queue'[s][r]) = {Changed(o) : o \in OrdersIn(queue[s][r])}
  BY DEF KeepsWith
<1>1. /\ \A m : m \in StoredIds <=>
           \E s \in Side, r \in Price : \E o \in OrdersIn(queue[s][r]) : o.id = m
      /\ \A m : m \in StoredIds' <=>
           \E s \in Side, r \in Price : \E o \in OrdersIn(queue'[s][r]) : o.id = m
  BY DEF RestingExact
<1>11. \A s \in Side, r \in Price : \A o \in OrdersIn(queue[s][r]) :
         RestingById[o.id] = [side |-> s, price |-> r, qty |-> o.qty]
  BY DEF RestingExact
<1>12. \A s \in Side, r \in Price : \A o \in OrdersIn(queue'[s][r]) :
         RestingById'[o.id] = [side |-> s, price |-> r, qty |-> o.qty]
  BY DEF RestingExact
<1>13. \A a, b : <<a, b>> \in AheadOf <=> \E s \in Side, r \in Price : Precedes(queue[s][r], a, b)
  BY DEF RestingExact
<1>14. \A a, b : <<a, b>> \in AheadOf' <=> \E s \in Side, r \in Price : Precedes(queue'[s][r], a, b)
  BY DEF RestingExact
<1>2. \A o \in Order : /\ Changed(o).id = o.id
                       /\ Changed(o).qty = IF o.id = id THEN n ELSE o.qty
  BY DEF Order
<1>. HIDE DEF Changed
<1>3. \A s \in Side, r \in Price : \A o \in OrdersIn(queue[s][r]) :
        /\ Changed(o) \in OrdersIn(queue'[s][r])
        /\ Changed(o).id = o.id
        /\ Changed(o).qty = IF o.id = id THEN n ELSE o.qty
  BY <1>0, <1>2, OrdersTyped
<1>4. StoredIds' = StoredIds
  <2>1. \A m : m \in StoredIds => m \in StoredIds'
    BY <1>1, <1>3
  <2>2. \A m : m \in StoredIds' => m \in StoredIds
    BY <1>0, <1>1, <1>3
  <2>. QED  BY <2>1, <2>2
<1>5. ASSUME NEW m \in StoredIds
      PROVE  RestingById'[m] = IF m = id THEN [RestingById[m] EXCEPT !.qty = n]
                                 ELSE RestingById[m]
  <2>1. PICK s, r, o : s \in Side /\ r \in Price /\ o \in OrdersIn(queue[s][r]) /\ o.id = m
    BY <1>1
  <2>2. RestingById[m] = [side |-> s, price |-> r, qty |-> o.qty]
    BY <1>11, <2>1
  <2>. DEFINE c == Changed(o)
  <2>3. c \in OrdersIn(queue'[s][r]) /\ c.id = m /\ c.qty = IF m = id THEN n ELSE o.qty
    BY <1>3, <2>1
  <2>. HIDE DEF c
  <2>4. RestingById'[m] = [side |-> s, price |-> r, qty |-> c.qty]
    BY <1>12, <2>1, <2>3
  <2>. QED  BY <2>2, <2>3, <2>4
<1>6. RestingById' = [m \in StoredIds' |-> RestingById'[m]]
      /\ RestingById = [m \in StoredIds |-> RestingById[m]]
  BY DEF RestingExact
<1>7. RestingById' = [RestingById EXCEPT ![id].qty = n]
  <2>. DEFINE X == RestingById
              Y == RestingById'
  <2>1. X = [m \in StoredIds |-> X[m]] /\ Y = [m \in StoredIds |-> Y[m]]
        /\ \A m \in StoredIds : Y[m] = IF m = id THEN [X[m] EXCEPT !.qty = n] ELSE X[m]
    BY <1>4, <1>5, <1>6
  <2>. HIDE DEF X, Y
  <2>2. Y = [X EXCEPT ![id].qty = n]
    BY <2>1
  <2>. QED  BY <2>2 DEF X, Y
<1>8. AheadOf' = AheadOf
  <2>1. \A a, b : <<a, b>> \in AheadOf' <=> <<a, b>> \in AheadOf
    BY <1>13, <1>14 DEF KeepsWith
  <2>2. AheadOf' \subseteq StoredIds' \X StoredIds' /\ AheadOf \subseteq StoredIds \X StoredIds
    BY DEF RestingExact
  <2>. QED  BY <2>1, <2>2, SamePairs
<1>. QED  BY <1>7, <1>8

LEMMA JoinMaps ==
  ASSUME RestingExact, RestingExact', NEW side \in Side, NEW p \in Price, NEW order,
         order.id \notin StoredIds, Joins(side, p, order)
  PROVE  /\ RestingById' = [m \in DOMAIN RestingById \cup {order.id} |->
                                IF m = order.id
                                THEN [side |-> side, price |-> p, qty |-> order.qty]
                                ELSE RestingById[m]]
         /\ AheadOf' = AheadOf \cup (Abstract!Peers(side, p) \X {order.id})
<1>1. /\ \A m : m \in StoredIds <=>
           \E s \in Side, r \in Price : \E o \in OrdersIn(queue[s][r]) : o.id = m
      /\ \A m : m \in StoredIds' <=>
           \E s \in Side, r \in Price : \E o \in OrdersIn(queue'[s][r]) : o.id = m
  BY DEF RestingExact
<1>11. \A s \in Side, r \in Price : \A o \in OrdersIn(queue[s][r]) :
         RestingById[o.id] = [side |-> s, price |-> r, qty |-> o.qty]
  BY DEF RestingExact
<1>12. \A s \in Side, r \in Price : \A o \in OrdersIn(queue'[s][r]) :
         RestingById'[o.id] = [side |-> s, price |-> r, qty |-> o.qty]
  BY DEF RestingExact
<1>13. \A a, b : <<a, b>> \in AheadOf <=> \E s \in Side, r \in Price : Precedes(queue[s][r], a, b)
  BY DEF RestingExact
<1>14. \A a, b : <<a, b>> \in AheadOf' <=> \E s \in Side, r \in Price : Precedes(queue'[s][r], a, b)
  BY DEF RestingExact
<1>2. \A s \in Side, r \in Price :
        OrdersIn(queue'[s][r]) =
          OrdersIn(queue[s][r]) \cup (IF s = side /\ r = p THEN {order} ELSE {})
  BY DEF Joins
<1>3. StoredIds' = StoredIds \cup {order.id}
  <2>1. \A m : m \in StoredIds' => m \in StoredIds \/ m = order.id
    BY <1>1, <1>2
  <2>2. \A m : m \in StoredIds \/ m = order.id => m \in StoredIds'
    BY <1>1, <1>2
  <2>. QED  BY <2>1, <2>2
<1>4. ASSUME NEW m \in StoredIds
      PROVE  RestingById'[m] = RestingById[m]
  <2>1. PICK s, r, o : s \in Side /\ r \in Price /\ o \in OrdersIn(queue[s][r]) /\ o.id = m
    BY <1>1
  <2>2. o \in OrdersIn(queue'[s][r])
    BY <1>2, <2>1
  <2>3. RestingById'[o.id] = RestingById[o.id]
    <3>1. RestingById[o.id] = [side |-> s, price |-> r, qty |-> o.qty]
      BY <1>11, <2>1, <2>2
    <3>2. RestingById'[o.id] = [side |-> s, price |-> r, qty |-> o.qty]
      BY <1>12, <2>1, <2>2
    <3>. QED  BY <3>1, <3>2
  <2>. QED  BY <2>1, <2>3
<1>5. RestingById'[order.id] = [side |-> side, price |-> p, qty |-> order.qty]
  <2>1. order \in OrdersIn(queue'[side][p])
    BY <1>2
  <2>. QED  BY <2>1 DEF RestingExact
<1>6. RestingById' = [m \in StoredIds' |-> RestingById'[m]]
      /\ RestingById = [m \in StoredIds |-> RestingById[m]]
  BY DEF RestingExact
<1>7. DOMAIN RestingById = StoredIds
  BY <1>6
<1>8. \A m \in StoredIds' :
        RestingById'[m] = IF m = order.id
                            THEN [side |-> side, price |-> p, qty |-> order.qty]
                            ELSE RestingById[m]
  BY <1>3, <1>4, <1>5
<1>9. \A m : m \in Abstract!Peers(side, p) <=> m \in IdsAt(side, p)
  BY PeersAre
<1>10. AheadOf' = AheadOf \cup (Abstract!Peers(side, p) \X {order.id})
  <2>. DEFINE P == Abstract!Peers(side, p)
              more == AheadOf \cup (P \X {order.id})
  <2>1. \A a, b : <<a, b>> \in AheadOf' <=>
                    <<a, b>> \in AheadOf \/ (a \in IdsAt(side, p) /\ b = order.id)
    <3>1. \A a, b : \A s \in Side, r \in Price :
            Precedes(queue'[s][r], a, b) <=>
              \/ Precedes(queue[s][r], a, b)
              \/ s = side /\ r = p /\ a \in IdsAt(s, r) /\ b = order.id
      BY DEF Joins
    <3>. QED  BY <1>13, <1>14, <3>1, ZenonT(30)
  <2>2. P \subseteq StoredIds
    BY <1>7 DEF Abstract!Peers
  <2>3. AheadOf' \subseteq StoredIds' \X StoredIds' /\ AheadOf \subseteq StoredIds \X StoredIds
    BY DEF RestingExact
  <2>4. \A m : m \in P <=> m \in IdsAt(side, p)
    BY <1>9
  <2>. HIDE DEF P
  <2>5. more \subseteq StoredIds' \X StoredIds'
    BY <1>3, <2>2, <2>3
  <2>6. \A a, b : <<a, b>> \in more <=> <<a, b>> \in AheadOf \/ (a \in P /\ b = order.id)
    OBVIOUS
  <2>7. \A a, b : <<a, b>> \in AheadOf' <=> <<a, b>> \in more
    BY <2>1, <2>4, <2>6
  <2>. HIDE DEF more
  <2>8. AheadOf' = more
    BY <2>3, <2>5, <2>7, SamePairs
  <2>. QED  BY <2>8 DEF more, P
<1>. QED  BY <1>3, <1>6, <1>7, <1>8, <1>10

----------------------------------------------------------------------------
\* What the orders a client may trade with add up to

\* The stored ids are those the map has, so there are finitely many.
LEMMA StoredIs == BookInv => StoredIds = InBook /\ IsFiniteSet(StoredIds)
<1>. SUFFICES ASSUME BookInv
              PROVE  StoredIds = InBook /\ IsFiniteSet(StoredIds)
  OBVIOUS
<1>1. \A x : x \in StoredIds <=> \E s \in Side, p \in Price : x \in IdsAt(s, p)
  BY DEF StoredIds
<1>2. \A x : x \in InBook <=> \E s \in Side, p \in Price : x \in IdsAt(s, p)
  BY DEF BookInv, Located
<1>. QED  BY <1>1, <1>2, InBookFinite DEF BookInv

RestQty == [m \in DOMAIN RestingById |-> RestingById[m].qty]

\* The orders of one level add up to what its queue offers.
LEMMA PeersSum ==
  ASSUME BookInv, RestingExact, NEW s \in Side, NEW p \in Price
  PROVE  /\ RestQty \in [StoredIds -> Int]
         /\ SumFunctionOnSet(RestQty, IdsAt(s, p)) = QtyAt(s, p)
<1>. DEFINE q == queue[s][p]
            E == 1 .. Len(q)
            S == IdsAt(s, p)
            h == [i \in E |-> q[i].id]
            f == RestQty
            g == Qtys(q)
<1>1. q \in Seq(Order) /\ NoIdTwice(q) /\ DOMAIN q = E /\ QueuesOK
  BY QueueTyped DEF BookInv, Typed
<1>2. f \in [StoredIds -> Int]
  <2>1. ASSUME NEW m \in StoredIds
        PROVE  RestingById[m].qty \in Int
    <3>1. PICK t, r, o : t \in Side /\ r \in Price /\ o \in OrdersIn(queue[t][r]) /\ o.id = m
      BY DEF RestingExact
    <3>2. RestingById[m] = [side |-> t, price |-> r, qty |-> o.qty]
      BY <3>1, ZenonT(30) DEF RestingExact
    <3>3. o \in Order
      BY <1>1, <3>1, OrdersTyped
    <3>4. o.qty \in Int
      BY <3>3, QtyAssumption DEF Order, Qty
    <3>. QED  BY <3>2, <3>4
  <2>. QED  BY <2>1, PeersAre DEF RestQty
<1>3. \A i \in E : RestQty[q[i].id] = q[i].qty
  <2>. SUFFICES ASSUME NEW i \in E
                PROVE  RestQty[q[i].id] = q[i].qty
    OBVIOUS
  <2>. DEFINE o == q[i]
  <2>1. o \in OrdersIn(queue[s][p])
    BY <1>1 DEF OrdersIn
  <2>. HIDE DEF o
  <2>2. RestingById[o.id] = [side |-> s, price |-> p, qty |-> o.qty] /\ o.id \in StoredIds
    BY <2>1 DEF RestingExact
  <2>3. RestQty[o.id] = o.qty
    BY <2>2, PeersAre DEF RestQty
  <2>. QED  BY <2>3 DEF o
<1>4. /\ QueueQty(q) = SumFunctionOnSet(g, E) /\ IsFiniteSet(E)
      /\ g \in [E -> Int] /\ \A i \in E : g[i] = q[i].qty
  BY <1>1, QueueQtyIs DEF Qtys
<1>5. S \in SUBSET StoredIds /\ IsFiniteSet(StoredIds)
  BY PeersAre, StoredIs
<1>6. h \in Bijection(E, S)
  <2>1. S = {q[i].id : i \in E}
    BY <1>1 DEF IdsAt, IdsOf
  <2>2. \A i, j \in E : q[i].id = q[j].id => i = j
    BY <1>1 DEF NoIdTwice
  <2>. QED  BY <2>1, <2>2 DEF Bijection, Injection, Surjection, IsInjective
<1>7. \A i \in E : g[i] = f[h[i]]
  BY <1>3, <1>4
<1>. HIDE DEF q, E, S, h, f, g
<1>8. SumFunctionOnSet(g, E) = SumFunctionOnSet(f, S)
  BY <1>2, <1>4, <1>5, <1>6, <1>7, SumRenamed
<1>. QED  BY <1>2, <1>4, <1>8 DEF q, S, f, QtyAt

\* The makers at given prices.
LEMMA MakersAre ==
  ASSUME RestingExact, NEW side \in Side, NEW L \in SUBSET Price
  PROVE  \A m : m \in Abstract!Makers(side, L) <=>
                  \E p \in L : m \in IdsAt(Opposite(side), p)
<1>1. Opposite(side) \in Side
  BY DEF Opposite, Side
<1>2. \A m : m \in Abstract!Makers(side, L) <=>
               \E p \in L : m \in Abstract!Peers(Opposite(side), p)
  <2>. DEFINE opp == Opposite(side)
  <2>1. \A m : m \in Abstract!Makers(side, L) <=>
          m \in DOMAIN RestingById /\ RestingById[m].side = opp /\ RestingById[m].price \in L
    BY DEF Abstract!Makers, Abstract!Opposite, Opposite
  <2>2. \A m : \A p : m \in Abstract!Peers(opp, p) <=>
          m \in DOMAIN RestingById /\ RestingById[m].side = opp /\ RestingById[m].price = p
    BY DEF Abstract!Peers
  <2>. HIDE DEF opp
  <2>3. \A m : m \in Abstract!Makers(side, L) <=> \E p \in L : m \in Abstract!Peers(opp, p)
    BY <2>1, <2>2
  <2>. QED  BY <2>3 DEF opp
<1>. QED  BY <1>1, <1>2, PeersAre

\* What a set of prices offers is what the makers at them have.
LEMMA MakersSum ==
  ASSUME BookInv, RestingExact, NEW side \in Side, NEW L \in SUBSET Price
  PROVE  SumFunctionOnSet(RestQty, Abstract!Makers(side, L))
           = SumFunctionOnSet(Offer(Opposite(side)), L)
<1>. DEFINE opp == Opposite(side)
            f == RestQty
            g == Offer(opp)
            M(P) == Abstract!Makers(side, P)
            T == {P \in SUBSET Price : SumFunctionOnSet(f, M(P)) = SumFunctionOnSet(g, P)}
<1>1. opp \in Side /\ QueuesOK
  BY DEF Opposite, Side, BookInv, Typed
<1>2. f \in [StoredIds -> Int]
  <2>1. CASE \E m : m \in StoredIds
    <3>1. \E p \in Price : TRUE
      BY <2>1 DEF RestingExact
    <3>. QED  BY <1>1, <3>1, PeersSum
  <2>2. CASE ~(\E m : m \in StoredIds)
    <3>1. DOMAIN RestingById = StoredIds
      BY DEF RestingExact
    <3>. QED  BY <2>2, <3>1 DEF RestQty
  <2>. QED  BY <2>1, <2>2
<1>3. g \in [Price -> Int] /\ \A p \in Price : g[p] = QtyAt(opp, p)
  <2>1. \A p \in Price : QtyAt(opp, p) \in Int
    BY <1>1, QueueTyped, QueueQtyIs DEF QtyAt
  <2>. HIDE DEF opp
  <2>. QED  BY <2>1 DEF Offer
<1>4. \A P \in SUBSET Price : \A m : m \in M(P) <=> \E p \in P : m \in IdsAt(opp, p)
  BY MakersAre
<1>5. \A p \in Price : IdsAt(opp, p) \in SUBSET StoredIds
                       /\ SumFunctionOnSet(f, IdsAt(opp, p)) = g[p]
  BY <1>1, <1>3, PeersAre, PeersSum
<1>6. \A p, r \in Price : \A m : m \in IdsAt(opp, p) /\ m \in IdsAt(opp, r) => p = r
  BY <1>1, OneLevel
<1>7. IsFiniteSet(StoredIds) /\ IsFiniteSet(Price)
  BY StoredIs, PriceFinite
<1>. HIDE DEF opp, f, g, M
<1>8. {} \in T
  <2>1. M({}) = {}
    BY <1>4
  <2>2. SumFunctionOnSet(f, {}) = 0 /\ SumFunctionOnSet(g, {}) = 0
    BY <1>2, <1>3, <1>7, SumFacts
  <2>. QED  BY <2>1, <2>2
<1>9. ASSUME NEW P \in SUBSET Price, NEW x \in Price \ P, P \in T
      PROVE  P \cup {x} \in T
  <2>. DEFINE A == M(P)
              B == IdsAt(opp, x)
              N == M(P \cup {x})
  <2>1. N = A \cup B
    BY <1>4
  <2>2. A \cap B = {}
    BY <1>4, <1>6
  <2>3. A \in SUBSET StoredIds /\ B \in SUBSET StoredIds
    BY <1>4, <1>5
  <2>4. SumFunctionOnSet(f, A) = SumFunctionOnSet(g, P) /\ SumFunctionOnSet(f, B) = g[x]
    BY <1>5, <1>9
  <2>. HIDE DEF A, B, N
  <2>5. SumFunctionOnSet(f, N) = SumFunctionOnSet(f, A) + SumFunctionOnSet(f, B)
    BY <1>2, <1>7, <2>1, <2>2, <2>3, SumSplit
  <2>. DEFINE Q == P \cup {x}
  <2>6. Q \in SUBSET Price /\ x \in Q /\ Q \ {x} = P
    OBVIOUS
  <2>. HIDE DEF Q
  <2>7. SumFunctionOnSet(g, Q) = g[x] + SumFunctionOnSet(g, Q \ {x})
    BY <1>3, <1>7, <2>6, SumFacts
  <2>8. g[x] \in Int /\ SumFunctionOnSet(g, P) \in Int
    BY <1>3, <1>7, SumFacts
  <2>9. SumFunctionOnSet(f, N) = SumFunctionOnSet(g, Q)
    <3>1. SumFunctionOnSet(g, Q) = g[x] + SumFunctionOnSet(g, P)
      BY <2>6, <2>7
    <3>2. SumFunctionOnSet(f, N) = SumFunctionOnSet(g, P) + g[x]
      BY <2>4, <2>5
    <3>. QED  BY <2>8, <3>1, <3>2
  <2>. QED  BY <2>1, <2>6, <2>9 DEF N, Q
<1>. HIDE DEF T
<1>10. \A P \in SUBSET Price : P \in T
  BY <1>7, <1>8, <1>9, SubsetInduction
<1>11. SumFunctionOnSet(f, M(L)) = SumFunctionOnSet(g, L)
  BY <1>10 DEF T
<1>. QED  BY <1>11 DEF opp, f, g, M

----------------------------------------------------------------------------
\* The order being matched

\* A taker as PriceTimePriority sees it.
As(t) ==
  [id |-> t.id, side |-> t.side,
   limit |-> {p \in Price : t.bound => Crosses(t.side, t.price, p)},
   rests |-> t.cmd = "replace" \/ (t.bound /\ t.tif \in {"gtc", "post_only"}),
   price |-> t.price, qty |-> t.qty,
   fillOrKill |-> t.cmd = "new" /\ t.bound /\ t.tif = "fok",
   passive |-> t.cmd = "new" /\ t.bound /\ t.tif = "post_only"]

LEMMA WorkingIs ==
  /\ WorkingOrder = IF taker = Idle THEN Abstract!Nobody ELSE As(taker)
  /\ WorkingOrder' = IF taker' = Idle THEN Abstract!Nobody ELSE As(taker')
BY DEF WorkingOrder, As, Abstract!Nobody, Acceptable, RestsRemainder

LEMMA AsTyped ==
  ASSUME NEW t \in Taker
  PROVE  /\ t # Idle
         /\ As(t) \in Abstract!Works
         /\ As(t) # Abstract!Nobody
<1>1. t # Idle
  BY TakerNotIdle
<1>2. As(t) \in Abstract!Works
  <2>1. /\ t.id \in OrderId /\ t.side \in Side /\ t.price \in CmdPrices \cup {0} /\ t.qty \in Qty
        /\ t.bound \in BOOLEAN
    BY DEF Taker
  <2>. DEFINE rests   == t.cmd = "replace" \/ (t.bound /\ t.tif \in {"gtc", "post_only"})
              fok     == t.cmd = "new" /\ t.bound /\ t.tif = "fok"
              passive == t.cmd = "new" /\ t.bound /\ t.tif = "post_only"
              limit   == {p \in Price : t.bound => Crosses(t.side, t.price, p)}
  <2>2. rests \in BOOLEAN /\ fok \in BOOLEAN /\ passive \in BOOLEAN
    BY <2>1, Zenon
  <2>3. limit \in SUBSET Price
    OBVIOUS
  <2>4. As(t) = [id |-> t.id, side |-> t.side, limit |-> limit, rests |-> rests,
                 price |-> t.price, qty |-> t.qty, fillOrKill |-> fok, passive |-> passive]
    BY DEF As
  <2>. HIDE DEF rests, fok, passive, limit
  <2>5. Abstract!Works = [id: OrderId, side: Side, limit: SUBSET Price, rests: BOOLEAN,
          price: CmdPrices \cup {0}, qty: Qty, fillOrKill: BOOLEAN, passive: BOOLEAN]
    BY DEF Abstract!Works, Abstract!Side, Abstract!Price, Abstract!PriceOk, Abstract!Qty,
           Side, Price, PriceOk, Qty
  <2>. QED  BY <2>1, <2>2, <2>3, <2>4, <2>5
<1>3. As(t) # Abstract!Nobody
  <2>1. As(t).id \in OrderId /\ DOMAIN As(t) # {"id"}
    <3>1. "qty" \in DOMAIN As(t)
      BY DEF As
    <3>2. As(t).id = t.id
      BY DEF As
    <3>. QED  BY <3>1, <3>2 DEF Taker
  <2>2. DOMAIN Abstract!Nobody = {"id"}
    BY DEF Abstract!Nobody
  <2>. QED  BY <2>1, <2>2
<1>. QED  BY <1>1, <1>2, <1>3

\* The invariant that the refinement rests on.
PromiseInv == BookInv /\ QtyInv /\ RestingExact

----------------------------------------------------------------------------
\* The refinement, action by action

\* Each action of the book is an action of the promise.
LEMMA NewRefines ==
  ASSUME PromiseInv, PromiseInv', NEW c \in NewCommand, New(c)
  PROVE  Abstract!Arrive(c.id) /\ c.id \in OrderId
<1>. DEFINE t == [cmd |-> "new", id |-> c.id, side |-> c.side, bound |-> c.otype = "limit",
                  price |-> c.price, tif |-> c.tif, qty |-> c.qty]
            makers == Abstract!Makers(c.side, As(t).limit)
<1>1. taker = Idle /\ taker' = t /\ queue' = queue /\ NewRejection(c) = "none"
  BY DEF New
<1>2. c.id \in OrderId /\ c.side \in Side /\ c.tif \in Tif /\ c.qty \in Qty
      /\ c.otype \in {"limit", "market"} /\ c.price \in CmdPrices \cup {0}
  BY QtyAssumption DEF NewCommand, LimitCommand, MarketCommand, Qty
<1>3. t \in Taker
  BY <1>2 DEF Taker
<1>4. /\ t.id = c.id /\ t.side = c.side /\ t.qty = c.qty /\ t.price = c.price /\ t.tif = c.tif
      /\ t.cmd = "new" /\ (t.bound <=> c.otype = "limit")
  OBVIOUS
<1>. HIDE DEF t
<1>5. WorkingOrder = Abstract!Nobody /\ WorkingOrder' = As(t) /\ As(t) \in Abstract!Works
  BY <1>1, <1>3, WorkingIs, AsTyped
<1>6. c.qty > 0
  BY <1>1, <1>2, NewAccepted, QtyAssumption DEF Qty
<1>7. As(t).id = c.id /\ As(t).side = c.side /\ As(t).qty = c.qty
      /\ As(t).fillOrKill = (t.cmd = "new" /\ t.bound /\ t.tif = "fok")
      /\ As(t).passive = (t.cmd = "new" /\ t.bound /\ t.tif = "post_only")
      /\ As(t).limit = {p \in Price : t.bound => Crosses(c.side, c.price, p)}
  BY <1>4 DEF As
<1>8. Abstract!Takes(c.id)
  BY <1>5, <1>6, <1>7 DEF Abstract!Takes
<1>9. c.id \notin DOMAIN RestingById
  BY <1>1, NewAccepted, StoredIs DEF PromiseInv, RestingExact, InBook
<1>10. ASSUME As(t).fillOrKill
       PROVE  SumFunctionOnSet(RestQty, makers) >= c.qty
  <2>1. c.otype = "limit" /\ c.tif = "fok"
    BY <1>4, <1>7, <1>10
  <2>2. Fillable(c.side, c.price) >= c.qty
    <3>1. ~(Fillable(c.side, c.price) < c.qty)
      BY <1>1, <2>1 DEF NewRejection, TifRejection
    <3>2. Fillable(c.side, c.price) \in Nat
      BY <1>2, FillableIs DEF PromiseInv, BookInv, Typed, QtyInv
    <3>. QED  BY <1>2, <3>1, <3>2, QtyAssumption DEF Qty
  <2>3. /\ Fillable(c.side, c.price) <= Available(c.side, c.price)
        /\ Fillable(c.side, c.price) \in Nat
    BY <1>2, FillableIs DEF PromiseInv, BookInv, Typed, QtyInv
  <2>4. As(t).limit = Within(c.side, c.price)
    BY <1>4, <1>7, <2>1 DEF Within
  <2>5. Available(c.side, c.price) = SumFunctionOnSet(Offer(Opposite(c.side)), As(t).limit)
        /\ Available(c.side, c.price) \in Nat
    BY <1>2, <2>4, AvailableIs DEF PromiseInv, BookInv, Typed
  <2>6. As(t).limit \in SUBSET Price
    BY <1>7
  <2>7. SumFunctionOnSet(RestQty, makers) = Available(c.side, c.price)
    <3>. DEFINE L == As(t).limit
    <3>1. L \in SUBSET Price
      BY <2>6
    <3>. HIDE DEF L
    <3>2. SumFunctionOnSet(RestQty, Abstract!Makers(c.side, L))
            = SumFunctionOnSet(Offer(Opposite(c.side)), L)
      BY <1>2, <3>1, MakersSum DEF PromiseInv
    <3>. QED  BY <2>5, <3>2 DEF L
  <2>. QED  BY <1>2, <2>2, <2>3, <2>5, <2>7, QtyAssumption DEF Qty
<1>11. ASSUME As(t).passive
       PROVE  makers = {}
  <2>1. c.otype = "limit" /\ c.tif = "post_only"
    BY <1>4, <1>7, <1>11
  <2>2. ~WouldCross(c.side, c.price)
    BY <1>1, <2>1, NewAccepted
  <2>3. \A p \in As(t).limit : p \in Price /\ Crosses(c.side, c.price, p)
    BY <1>4, <1>7, <2>1
  <2>4. \A p \in As(t).limit : queue[Opposite(c.side)][p] = << >>
    BY <2>2, <2>3 DEF WouldCross, Occupied
  <2>5. \A p \in As(t).limit : IdsAt(Opposite(c.side), p) = {}
    BY <2>4 DEF IdsAt, IdsOf
  <2>. DEFINE L == As(t).limit
  <2>6. L \in SUBSET Price /\ \A p \in L : IdsAt(Opposite(c.side), p) = {}
    BY <1>7, <2>5
  <2>. HIDE DEF L
  <2>7. Abstract!Makers(c.side, L) = {}
    BY <1>2, <2>6, MakersAre DEF PromiseInv
  <2>. QED  BY <2>7 DEF L
<1>12. RestingById' = RestingById /\ AheadOf' = AheadOf
  BY <1>1, StayMaps
<1>13. /\ WorkingOrder'.side = c.side /\ WorkingOrder'.limit = As(t).limit
       /\ WorkingOrder'.fillOrKill = As(t).fillOrKill /\ WorkingOrder'.qty = c.qty
       /\ WorkingOrder'.passive = As(t).passive
  BY <1>5, <1>7
<1>14. /\ WorkingOrder'.fillOrKill => SumFunctionOnSet(RestQty, makers) >= WorkingOrder'.qty
       /\ WorkingOrder'.passive => makers = {}
       /\ makers = Abstract!Makers(WorkingOrder'.side, WorkingOrder'.limit)
  BY <1>10, <1>11, <1>13
<1>. HIDE DEF makers
<1>15. \A f, S : Abstract!SumFunctionOnSet(f, S) = SumFunctionOnSet(f, S)
  BY DEF Abstract!SumFunctionOnSet, Abstract!FoldFunctionOnSet, Abstract!MapThenFoldSet,
         SumFunctionOnSet, FoldFunctionOnSet, MapThenFoldSet
<1>. QED  BY <1>2, <1>8, <1>9, <1>12, <1>14, <1>15 DEF Abstract!Arrive, RestQty

\* Where the map finds a resting order, and what the mapping makes of it.
LEMMA FoundIs ==
  ASSUME PromiseInv, NEW id, NEW i, At(id, i)
  PROVE  LET side == map[id].side
             p    == map[id].price
         IN  /\ side \in Side /\ p \in Price
             /\ i \in DOMAIN queue[side][p] /\ queue[side][p][i].id = id
             /\ queue[side][p][i] \in Order
             /\ id \in DOMAIN RestingById
             /\ RestingById[id] = [side |-> side, price |-> p, qty |-> queue[side][p][i].qty]
<1>. DEFINE side == map[id].side
            p    == map[id].price
            o    == queue[side][p][i]
<1>1. id \in DOMAIN map /\ i \in DOMAIN queue[side][p] /\ o.id = id
  BY DEF At
<1>2. side \in Side /\ p \in Price /\ QueuesOK
  BY <1>1, MapTyped DEF PromiseInv, BookInv, Typed
<1>3. o \in OrdersIn(queue[side][p])
  BY <1>1 DEF OrdersIn
<1>. HIDE DEF side, p, o
<1>4. o \in Order
  BY <1>2, <1>3, OrdersTyped
<1>5. RestingById[o.id] = [side |-> side, price |-> p, qty |-> o.qty] /\ o.id \in StoredIds
  BY <1>2, <1>3 DEF PromiseInv, RestingExact
<1>6. DOMAIN RestingById = StoredIds
  BY DEF PromiseInv, RestingExact
<1>. QED  BY <1>1, <1>2, <1>4, <1>5, <1>6 DEF side, p, o

LEMMA CancelRefines ==
  ASSUME PromiseInv, PromiseInv', NEW c \in CancelCommand, Cancel(c)
  PROVE  Abstract!Withdraw(c.id) /\ c.id \in DOMAIN RestingById
<1>. DEFINE side == map[c.id].side
            p    == map[c.id].price
            id   == c.id
<1>1. PICK i \in DOMAIN queue[side][p] : At(id, i) /\ Unlink(side, p, i)
  BY DEF Cancel
<1>2. /\ side \in Side /\ p \in Price /\ queue[side][p][i].id = id
      /\ id \in DOMAIN RestingById
  BY <1>1, FoundIs, ZenonT(30)
<1>3. taker = Idle /\ taker' = Idle
  BY DEF Cancel
<1>. HIDE DEF side, p, id
<1>4. Leaves(id)
  BY <1>1, <1>2, UnlinkLeaves DEF PromiseInv
<1>5. Abstract!Leave(id)
  BY <1>4, LeaveMaps DEF PromiseInv
<1>6. WorkingOrder = Abstract!Nobody /\ WorkingOrder' = Abstract!Nobody
  BY <1>3, WorkingIs
<1>. QED  BY <1>2, <1>5, <1>6 DEF Abstract!Withdraw, id

LEMMA ReplaceInPlaceRefines ==
  ASSUME PromiseInv, PromiseInv', NEW c \in ReplaceCommand, ReplaceInPlace(c)
  PROVE  Abstract!Amend(c.id, c.qty) /\ c.id \in DOMAIN RestingById /\ c.qty \in Qty
<1>. DEFINE side == map[c.id].side
            p    == map[c.id].price
            id   == c.id
            n    == c.qty
<1>1. PICK i \in DOMAIN queue[side][p] :
        At(id, i) /\ KeepsPriority(c, i) /\ Reduce(side, p, i, n)
  BY DEF ReplaceInPlace
<1>2. /\ side \in Side /\ p \in Price /\ queue[side][p][i].id = id
      /\ queue[side][p][i] \in Order /\ id \in DOMAIN RestingById
      /\ RestingById[id] = [side |-> side, price |-> p, qty |-> queue[side][p][i].qty]
  BY <1>1, FoundIs, ZenonT(30)
<1>3. taker = Idle /\ taker' = Idle /\ n \in Qty \ {0}
  BY ReplaceAccepted, ReplacesParsed DEF ReplaceInPlace
<1>4. n <= queue[side][p][i].qty
  BY <1>1 DEF KeepsPriority
<1>5. queue' = [queue EXCEPT ![side][p][i].qty = n]
  BY <1>1 DEF Reduce
<1>. HIDE DEF side, p, id, n
<1>6. KeepsWith(id, n)
  BY <1>2, <1>3, <1>5, ReduceKeeps DEF PromiseInv
<1>7. RestingById' = [RestingById EXCEPT ![id].qty = n] /\ AheadOf' = AheadOf
  BY <1>6, KeepMaps DEF PromiseInv, BookInv, Typed
<1>8. n \in 1 .. RestingById[id].qty
  BY <1>2, <1>3, <1>4, QtyAssumption DEF Order, Qty
<1>9. WorkingOrder = Abstract!Nobody /\ WorkingOrder' = Abstract!Nobody
  BY <1>3, WorkingIs
<1>. QED  BY <1>2, <1>3, <1>7, <1>8, <1>9 DEF Abstract!Amend, id, n

LEMMA ReplaceAndCrossRefines ==
  ASSUME PromiseInv, PromiseInv', NEW c \in ReplaceCommand, ReplaceAndCross(c)
  PROVE  Abstract!Reenter(c.id) /\ c.id \in DOMAIN RestingById
<1>. DEFINE side == map[c.id].side
            p    == map[c.id].price
            id   == c.id
<1>1. PICK i \in DOMAIN queue[side][p] :
        /\ At(id, i) /\ ~KeepsPriority(c, i) /\ Unlink(side, p, i)
        /\ taker' = [cmd |-> "replace", id |-> id, side |-> side, bound |-> TRUE,
                     price |-> c.price, tif |-> queue[side][p][i].tif, qty |-> c.qty]
  BY DEF ReplaceAndCross
<1>2. /\ side \in Side /\ p \in Price /\ queue[side][p][i].id = id
      /\ queue[side][p][i] \in Order /\ id \in DOMAIN RestingById
      /\ RestingById[id] = [side |-> side, price |-> p, qty |-> queue[side][p][i].qty]
  BY <1>1, FoundIs, ZenonT(30)
<1>3. taker = Idle /\ c.qty \in Qty \ {0} /\ c.price \in Price /\ id \in OrderId
  BY ReplaceAccepted, ReplacesParsed DEF ReplaceAndCross, ReplaceCommand
<1>4. ~(c.price = p /\ c.qty <= queue[side][p][i].qty)
  BY <1>1 DEF KeepsPriority
<1>. HIDE DEF side, p, id
<1>. DEFINE tif == queue[side][p][i].tif
            t == [cmd |-> "replace", id |-> id, side |-> side, bound |-> TRUE,
                  price |-> c.price, tif |-> tif, qty |-> c.qty]
<1>5. tif \in Tif
  BY <1>2 DEF Order, Tif
<1>. HIDE DEF tif
<1>6. t \in Taker
  BY <1>2, <1>3, <1>5 DEF Taker, Price
<1>7. As(t).id = id /\ As(t).side = side /\ As(t).qty = c.qty /\ As(t).price = c.price
      /\ As(t).rests /\ ~As(t).fillOrKill /\ ~As(t).passive
  BY DEF As
<1>8. taker' = t
  BY <1>1 DEF tif
<1>. HIDE DEF t
<1>9. WorkingOrder = Abstract!Nobody /\ WorkingOrder' = As(t) /\ As(t) \in Abstract!Works
  BY <1>3, <1>6, <1>8, WorkingIs, AsTyped
<1>10. Abstract!Takes(id)
  BY <1>3, <1>7, <1>9, QtyAssumption DEF Abstract!Takes, Qty
<1>11. Leaves(id)
  BY <1>1, <1>2, UnlinkLeaves DEF PromiseInv
<1>12. Abstract!Leave(id)
  BY <1>11, LeaveMaps DEF PromiseInv
<1>13. WorkingOrder'.price = RestingById[id].price => WorkingOrder'.qty > RestingById[id].qty
  BY <1>2, <1>3, <1>4, <1>7, <1>9, QtyAssumption DEF Order, Qty
<1>14. WorkingOrder'.side = RestingById[id].side
  BY <1>2, <1>7, <1>9
<1>15. WorkingOrder'.rests /\ ~WorkingOrder'.fillOrKill /\ ~WorkingOrder'.passive
  BY <1>7, <1>9
<1>. QED  BY <1>2, <1>10, <1>12, <1>13, <1>14, <1>15 DEF Abstract!Reenter, id

\* The order in flight, to the abstract specification.
LEMMA InFlight ==
  ASSUME PromiseInv, Working
  PROVE  /\ taker \in Taker /\ WorkingOrder = As(taker) /\ As(taker) # Abstract!Nobody
         /\ taker.side \in Side /\ Opposite(taker.side) \in Side /\ taker.qty \in Nat
         /\ WorkingOrder.id = taker.id /\ WorkingOrder.side = taker.side
         /\ WorkingOrder.price = taker.price /\ WorkingOrder.qty = taker.qty
         /\ WorkingOrder.limit = {p \in Price : Acceptable(p)}
         /\ WorkingOrder.rests <=> RestsRemainder
         /\ WorkingOrder.fillOrKill <=> taker.cmd = "new" /\ taker.bound /\ taker.tif = "fok"
         /\ WorkingOrder.passive <=> taker.cmd = "new" /\ taker.bound /\ taker.tif = "post_only"
<1>1. taker \in Taker /\ taker.side \in Side /\ Opposite(taker.side) \in Side /\ taker.qty \in Nat
  BY WorkingFacts, QtyAssumption DEF PromiseInv, Qty
<1>2. WorkingOrder = As(taker)
  BY WorkingIs DEF Working
<1>3. As(taker) # Abstract!Nobody
  BY <1>1, AsTyped
<1>4. /\ As(taker).limit = {p \in Price : Acceptable(p)}
      /\ As(taker).rests <=> RestsRemainder
  BY DEF As, Acceptable, RestsRemainder
<1>5. /\ As(taker).id = taker.id /\ As(taker).side = taker.side
      /\ As(taker).price = taker.price /\ As(taker).qty = taker.qty
      /\ As(taker).fillOrKill <=> taker.cmd = "new" /\ taker.bound /\ taker.tif = "fok"
      /\ As(taker).passive <=> taker.cmd = "new" /\ taker.bound /\ taker.tif = "post_only"
  BY DEF As
<1>. QED  BY <1>1, <1>2, <1>3, <1>4, <1>5

\* When the walk ends with quantity left there is nobody left to trade with.
LEMMA ExhaustedIs ==
  ASSUME PromiseInv, Exhausted
  PROVE  /\ Abstract!Makers(WorkingOrder.side, WorkingOrder.limit) = {}
         /\ ~WorkingOrder.fillOrKill
<1>1. Working /\ taker.qty > 0
      /\ \A p \in Occupied(Opposite(taker.side)) : ~Acceptable(p)
  BY DEF Exhausted
<1>. DEFINE opp == Opposite(taker.side)
            L == {p \in Price : Acceptable(p)}
<1>2. /\ taker.side \in Side /\ opp \in Side /\ taker.qty \in Nat
      /\ WorkingOrder.side = taker.side /\ WorkingOrder.limit = L
      /\ WorkingOrder.fillOrKill <=> taker.cmd = "new" /\ taker.bound /\ taker.tif = "fok"
  BY <1>1, InFlight
<1>3. L \in SUBSET Price /\ \A p \in L : IdsAt(opp, p) = {}
  BY <1>1 DEF Occupied, IdsAt, IdsOf
<1>. HIDE DEF L
<1>4. Abstract!Makers(taker.side, L) = {}
  <2>. DEFINE side == taker.side
  <2>1. side \in Side /\ \A p \in L : IdsAt(Opposite(side), p) = {}
    BY <1>2, <1>3
  <2>. HIDE DEF side
  <2>2. Abstract!Makers(side, L) = {}
    BY <1>3, <2>1, MakersAre DEF PromiseInv
  <2>. QED  BY <2>2 DEF side
<1>5. ASSUME taker.cmd = "new", taker.bound, taker.tif = "fok"
      PROVE  FALSE
  <2>. DEFINE inside == {p \in Occupied(opp) : Crosses(taker.side, taker.price, p)}
              f == [p \in Price |-> QueueQty(queue[opp][p])]
  <2>1. inside = {}
    BY <1>1, <1>5 DEF Acceptable
  <2>2. f \in [Price -> Int]
    <3>1. \A p \in Price : QueueQty(queue[opp][p]) \in Int
      BY <1>2, QueueTyped, QueueQtyIs DEF PromiseInv, BookInv, Typed
    <3>. QED  BY <3>1
  <2>. HIDE DEF f
  <2>3. SumFunctionOnSet(f, {}) = 0
    BY <2>2, PriceFinite, SumFacts
  <2>4. Available(taker.side, taker.price) = 0
    BY <2>1, <2>3 DEF Available, f
  <2>5. taker.qty <= Available(taker.side, taker.price)
    BY <1>1, <1>5 DEF PromiseInv, QtyInv, FokNeverPartial, Working
  <2>. QED  BY <1>1, <1>2, <2>4, <2>5
<1>. QED  BY <1>2, <1>4, <1>5

\* The order in front of the best acceptable level is the one that is due.
LEMMA FillTakesTheFirst ==
  ASSUME PromiseInv, NEW p \in Price, Fill(p)
  PROVE  LET opp    == Opposite(taker.side)
             maker  == Head(queue[opp][p])
             makers == Abstract!Makers(WorkingOrder.side, WorkingOrder.limit)
         IN  /\ maker \in Order /\ maker.id \in DOMAIN RestingById
             /\ RestingById[maker.id] = [side |-> opp, price |-> p, qty |-> maker.qty]
             /\ ~WorkingOrder.passive
             /\ maker.id \in makers
             /\ \A n \in makers : ~Better(opp, RestingById[n].price, p)
                                  /\ <<n, maker.id>> \notin AheadOf
<1>. DEFINE opp    == Opposite(taker.side)
            q      == queue[opp][p]
            maker  == Head(q)
            id     == maker.id
            L      == {r \in Price : Acceptable(r)}
<1>1. Working /\ p \in Occupied(opp) /\ Acceptable(p)
      /\ \A r \in Occupied(opp) : ~Better(opp, r, p)
  BY DEF Fill, IsBest
<1>2. /\ taker.side \in Side /\ opp \in Side
      /\ WorkingOrder.side = taker.side /\ WorkingOrder.limit = L
      /\ WorkingOrder.passive <=> taker.cmd = "new" /\ taker.bound /\ taker.tif = "post_only"
  BY <1>1, InFlight
<1>3. q \in Seq(Order) /\ q # << >> /\ NoIdTwice(q) /\ QueuesOK
  BY <1>1, <1>2, QueueTyped DEF PromiseInv, BookInv, Typed, Occupied
<1>4. 1 \in DOMAIN q /\ maker = q[1] /\ maker \in Order
  BY <1>3
<1>5. ~WorkingOrder.passive
  <2>. SUFFICES ASSUME taker.cmd = "new", taker.bound, taker.tif = "post_only"
                PROVE  FALSE
    BY <1>2
  <2>1. ~WouldCross(taker.side, taker.price)
    BY <1>1 DEF PromiseInv, BookInv, PostOnlyNeverTakes, Working
  <2>2. Crosses(taker.side, taker.price, p)
    BY <1>1 DEF Acceptable
  <2>. QED  BY <1>1, <2>1, <2>2 DEF WouldCross
<1>6. id \in IdsAt(opp, p) /\ maker \in OrdersIn(q)
  BY <1>4 DEF IdsAt, IdsOf, OrdersIn
<1>7. RestingById[id] = [side |-> opp, price |-> p, qty |-> maker.qty]
  BY <1>2, <1>6 DEF PromiseInv, RestingExact
<1>8. id \in DOMAIN RestingById
  BY <1>2, <1>6, PeersAre DEF PromiseInv
<1>9. L \in SUBSET Price /\ p \in L
  BY <1>1
<1>10. \A m : m \in Abstract!Makers(taker.side, L) <=> \E r \in L : m \in IdsAt(opp, r)
  <2>. HIDE DEF L
  <2>. QED  BY <1>2, <1>9, MakersAre DEF PromiseInv
<1>11. ASSUME NEW n \in Abstract!Makers(taker.side, L)
       PROVE  ~Better(opp, RestingById[n].price, p) /\ <<n, id>> \notin AheadOf
  <2>1. PICK r \in L : n \in IdsAt(opp, r)
    BY <1>10
  <2>2. PICK o \in OrdersIn(queue[opp][r]) : o.id = n
    BY <2>1, ContentsIds
  <2>3. RestingById[n] = [side |-> opp, price |-> r, qty |-> o.qty]
    BY <1>2, <2>2 DEF PromiseInv, RestingExact
  <2>4. r \in Occupied(opp)
    BY <2>1 DEF Occupied, IdsAt, IdsOf
  <2>5. ASSUME <<n, id>> \in AheadOf
        PROVE  FALSE
    <3>1. PICK s \in Side, v \in Price : Precedes(queue[s][v], n, id)
      BY <2>5 DEF PromiseInv, RestingExact
    <3>2. id \in IdsAt(s, v)
      BY <3>1, ContentsIds
    <3>. HIDE DEF opp, id
    <3>3. s = opp /\ v = p
      BY <1>2, <1>6, <3>2, OneLevel DEF PromiseInv
    <3>4. PICK i \in DOMAIN q, j \in DOMAIN q : i < j /\ q[j].id = id
      BY <3>1, <3>3 DEF Precedes
    <3>5. j = 1
      BY <1>3, <1>4, <3>4 DEF NoIdTwice, id
    <3>6. i \in Nat /\ i >= 1
      BY <1>3
    <3>. QED  BY <3>4, <3>5, <3>6
  <2>. QED  BY <1>1, <2>3, <2>4, <2>5
<1>12. id \in Abstract!Makers(taker.side, L)
  BY <1>6, <1>9, <1>10
<1>. HIDE DEF L, opp, id
<1>. QED  BY <1>2, <1>4, <1>5, <1>7, <1>8, <1>11, <1>12 DEF opp, id

LEMMA FillRefines ==
  ASSUME PromiseInv, PromiseInv', NEW p \in Price, Fill(p)
  PROVE  LET id == Head(queue[Opposite(taker.side)][p]).id
         IN  Abstract!Match(id) /\ id \in DOMAIN RestingById
<1>. DEFINE opp   == Opposite(taker.side)
            maker == Head(queue[opp][p])
            id    == maker.id
            q     == MinQty(taker.qty, maker.qty)
<1>1. /\ Working /\ taker.qty > 0 /\ p \in Occupied(opp) /\ TakeFront(opp, p, q)
      /\ taker' = [taker EXCEPT !.qty = taker.qty - q]
  BY DEF Fill, Unfilled, IsBest
<1>2. /\ taker \in Taker /\ WorkingOrder = As(taker) /\ As(taker) # Abstract!Nobody
      /\ taker.side \in Side /\ opp \in Side /\ taker.qty \in Nat
      /\ WorkingOrder.side = taker.side /\ WorkingOrder.qty = taker.qty
  BY <1>1, InFlight
<1>3. /\ maker \in Order /\ id \in DOMAIN RestingById
      /\ RestingById[id] = [side |-> opp, price |-> p, qty |-> maker.qty]
      /\ ~WorkingOrder.passive
      /\ id \in Abstract!Makers(WorkingOrder.side, WorkingOrder.limit)
      /\ \A n \in Abstract!Makers(WorkingOrder.side, WorkingOrder.limit) :
           ~Better(opp, RestingById[n].price, p) /\ <<n, id>> \notin AheadOf
  BY FillTakesTheFirst
<1>4. maker.qty \in Nat \ {0} /\ maker.qty \in Qty \ {0} /\ taker.qty \in Qty
  BY <1>1, <1>3, WorkingFacts, QtyAssumption, SMTT(30) DEF Order, Qty, PromiseInv
<1>. DEFINE a == taker.qty
            b == maker.qty
<1>5. q \in Qty \ {0} /\ q <= b /\ a - q \in Qty
  <2>1. a \in Qty /\ b \in Qty /\ a > 0 /\ b > 0 /\ q = MinQty(a, b)
    BY <1>1, <1>4, QtyAssumption DEF Qty
  <2>. HIDE DEF a, b, q
  <2>. QED  BY <2>1, QtyAssumption DEF MinQty, Qty
<1>6. IF b = q THEN Leaves(id) ELSE KeepsWith(id, b - q) /\ b - q \in Qty \ {0}
  <2>. HIDE DEF opp, q
  <2>. QED  BY <1>1, <1>2, <1>5, TakeFrontContents DEF PromiseInv
<1>. HIDE DEF q, opp
<1>7. WorkingOrder' = [WorkingOrder EXCEPT !.qty = WorkingOrder.qty - q]
  <2>. DEFINE n == a - q
              t == [taker EXCEPT !.qty = n]
  <2>1. t \in Taker /\ taker' = t
    BY <1>1, <1>2, <1>5 DEF Taker
  <2>2. WorkingOrder' = As(t)
    BY <2>1, WorkingIs, AsTyped
  <2>3. As(t) = [As(taker) EXCEPT !.qty = n]
    <3>1. /\ t.id = taker.id /\ t.side = taker.side /\ t.bound = taker.bound /\ t.tif = taker.tif
          /\ t.cmd = taker.cmd /\ t.price = taker.price /\ t.qty = n
      BY <1>2 DEF Taker
    <3>. HIDE DEF t, n
    <3>. DEFINE limit   == {r \in Price : taker.bound => Crosses(taker.side, taker.price, r)}
                rests   == taker.cmd = "replace" \/ (taker.bound /\ taker.tif \in {"gtc", "post_only"})
                fok     == taker.cmd = "new" /\ taker.bound /\ taker.tif = "fok"
                passive == taker.cmd = "new" /\ taker.bound /\ taker.tif = "post_only"
                record(k) == [id |-> taker.id, side |-> taker.side, limit |-> limit,
                              rests |-> rests, price |-> taker.price, qty |-> k,
                              fillOrKill |-> fok, passive |-> passive]
    <3>2. As(taker) = record(taker.qty)
      BY DEF As
    <3>3. As(t) = record(n)
      BY <3>1 DEF As
    <3>. HIDE DEF limit, rests, fok, passive
    <3>4. [record(taker.qty) EXCEPT !.qty = n] = record(n)
      OBVIOUS
    <3>. QED  BY <3>2, <3>3, <3>4
  <2>. QED  BY <1>2, <2>2, <2>3
<1>8. IF q = RestingById[id].qty THEN Abstract!Leave(id)
      ELSE /\ RestingById' = [RestingById EXCEPT ![id].qty = RestingById[id].qty - q]
           /\ UNCHANGED AheadOf
  <2>1. RestingById[id].qty = b
    BY <1>3
  <2>2. ASSUME b = q
        PROVE  Abstract!Leave(id)
    <3>. HIDE DEF id
    <3>. QED  BY <1>6, <2>2, LeaveMaps DEF PromiseInv
  <2>3. ASSUME b # q
        PROVE  RestingById' = [RestingById EXCEPT ![id].qty = b - q] /\ AheadOf' = AheadOf
    <3>. DEFINE n == b - q
    <3>1. KeepsWith(id, n)
      BY <1>6, <2>3
    <3>. HIDE DEF id, n
    <3>2. RestingById' = [RestingById EXCEPT ![id].qty = n] /\ AheadOf' = AheadOf
      BY <3>1, KeepMaps DEF PromiseInv, BookInv, Typed
    <3>. QED  BY <3>2 DEF n
  <2>. QED  BY <2>1, <2>2, <2>3
<1>9. q = Abstract!MinQty(WorkingOrder.qty, RestingById[id].qty)
  BY <1>2, <1>3 DEF q, Abstract!MinQty, MinQty
<1>10. \A n \in Abstract!Makers(WorkingOrder.side, WorkingOrder.limit) :
         /\ ~Abstract!Better(Abstract!Opposite(WorkingOrder.side), RestingById[n].price,
                             RestingById[id].price)
         /\ <<n, id>> \notin AheadOf
  BY <1>2, <1>3 DEF opp, Abstract!Better, Better, Abstract!Opposite, Opposite
<1>11. WorkingOrder # Abstract!Nobody /\ WorkingOrder.qty > 0
  BY <1>1, <1>2
<1>. HIDE DEF id
<1>12. Abstract!Match(id)
  BY <1>3, <1>7, <1>8, <1>9, <1>10, <1>11 DEF Abstract!Match
<1>. QED  BY <1>3, <1>12 DEF id, opp

LEMMA CloseFilledRefines ==
  ASSUME PromiseInv, CloseFilled
  PROVE  Abstract!Finish
<1>1. Working /\ taker.qty = 0 /\ taker' = Idle /\ queue' = queue
  BY DEF CloseFilled
<1>2. WorkingOrder # Abstract!Nobody /\ WorkingOrder.qty = 0
  BY <1>1, InFlight
<1>3. WorkingOrder' = Abstract!Nobody
  BY <1>1, WorkingIs
<1>. QED  BY <1>1, <1>2, <1>3, StayMaps DEF Abstract!Finish

LEMMA ExpireRefines ==
  ASSUME PromiseInv, Expire
  PROVE  Abstract!Finish
<1>1. Exhausted /\ Working /\ ~RestsRemainder /\ taker' = Idle /\ queue' = queue
  BY DEF Expire, Exhausted
<1>2. WorkingOrder # Abstract!Nobody /\ ~WorkingOrder.rests
  BY <1>1, InFlight
<1>3. WorkingOrder' = Abstract!Nobody
  BY <1>1, WorkingIs
<1>. QED  BY <1>1, <1>2, <1>3, StayMaps, ExhaustedIs DEF Abstract!Finish

LEMMA RestRefines ==
  ASSUME PromiseInv, PromiseInv', RestRemainder
  PROVE  Abstract!Rest
<1>. DEFINE order == [id |-> taker.id, qty |-> taker.qty, tif |-> taker.tif]
            side == taker.side
            p == taker.price
<1>1. /\ Exhausted /\ Working /\ taker.qty > 0 /\ RestsRemainder /\ taker' = Idle
      /\ Push(side, p, order)
  BY DEF RestRemainder, Exhausted
<1>2. /\ taker \in Taker /\ side \in Side /\ p \in Price /\ taker.id \notin InBook
      /\ taker.tif \in {"gtc", "post_only"}
  BY <1>1, WorkingFacts DEF RestsRemainder, PromiseInv
<1>3. order \in Order
  BY <1>1, <1>2, QtyAssumption DEF Order, Taker, Qty
<1>4. order.id = taker.id /\ order.qty = taker.qty
  OBVIOUS
<1>5. order.id \notin StoredIds
  BY <1>2, StoredIs DEF PromiseInv
<1>. HIDE DEF order, side, p
<1>6. Joins(side, p, order)
  BY <1>1, <1>2, <1>3, PushJoins DEF PromiseInv
<1>7. /\ RestingById' = [m \in DOMAIN RestingById \cup {order.id} |->
                             IF m = order.id
                             THEN [side |-> side, price |-> p, qty |-> order.qty]
                             ELSE RestingById[m]]
      /\ AheadOf' = AheadOf \cup (Abstract!Peers(side, p) \X {order.id})
  BY <1>2, <1>5, <1>6, JoinMaps DEF PromiseInv
<1>8. /\ WorkingOrder # Abstract!Nobody /\ WorkingOrder.qty > 0 /\ WorkingOrder.rests
      /\ WorkingOrder.id = order.id /\ WorkingOrder.side = side
      /\ WorkingOrder.price = p /\ WorkingOrder.qty = order.qty
  BY <1>1, <1>4, InFlight DEF side, p
<1>9. WorkingOrder' = Abstract!Nobody
  BY <1>1, WorkingIs
<1>10. Abstract!Makers(WorkingOrder.side, WorkingOrder.limit) = {}
  BY <1>1, ExhaustedIs
<1>. QED  BY <1>7, <1>8, <1>9, <1>10 DEF Abstract!Rest

LEMMA RejectRefines ==
  ASSUME NEW id, NEW reason, Reject(id, reason)
  PROVE  Abstract!Refuse
<1>1. queue' = queue /\ taker' = taker
  BY DEF Reject
<1>2. WorkingOrder' = WorkingOrder
  BY <1>1, WorkingIs
<1>. QED  BY <1>1, <1>2, StayMaps DEF Abstract!Refuse

LEMMA StepRefines ==
  PromiseInv /\ PromiseInv' /\ [Next]_vars => [Abstract!PTPNext]_(Abstract!ptpVars)
<1>. SUFFICES ASSUME PromiseInv, PromiseInv', [Next]_vars
              PROVE  Abstract!PTPNext \/ UNCHANGED Abstract!ptpVars
  OBVIOUS
<1>1. CASE RejectNew \/ RejectCancel \/ RejectReplace
  BY <1>1, RejectRefines DEF RejectNew, RejectCancel, RejectReplace, Abstract!PTPNext
<1>2. ASSUME NEW c \in NewCommand, New(c)
      PROVE  Abstract!PTPNext
  BY <1>2, NewRefines DEF Abstract!PTPNext
<1>3. ASSUME NEW c \in CancelCommand, Cancel(c)
      PROVE  Abstract!PTPNext
  BY <1>3, CancelRefines DEF Abstract!PTPNext
<1>4. ASSUME NEW c \in ReplaceCommand, ReplaceInPlace(c)
      PROVE  Abstract!PTPNext
  <2>1. Abstract!Amend(c.id, c.qty) /\ c.id \in DOMAIN RestingById /\ c.qty \in Abstract!Qty
    BY <1>4, ReplaceInPlaceRefines DEF Abstract!Qty, Qty
  <2>. QED  BY <2>1 DEF Abstract!PTPNext
<1>5. ASSUME NEW c \in ReplaceCommand, ReplaceAndCross(c)
      PROVE  Abstract!PTPNext
  BY <1>5, ReplaceAndCrossRefines DEF Abstract!PTPNext
<1>6. ASSUME NEW p \in Price, Fill(p)
      PROVE  Abstract!PTPNext
  BY <1>6, FillRefines DEF Abstract!PTPNext
<1>7. CASE CloseFilled \/ Expire
  BY <1>7, CloseFilledRefines, ExpireRefines DEF Abstract!PTPNext
<1>8. CASE RestRemainder
  BY <1>8, RestRefines DEF Abstract!PTPNext
<1>9. CASE UNCHANGED vars
  <2>1. queue' = queue /\ taker' = taker
    BY <1>9 DEF vars
  <2>2. WorkingOrder' = WorkingOrder
    BY <2>1, WorkingIs
  <2>. QED  BY <2>1, <2>2, StayMaps DEF Abstract!ptpVars
<1>. QED  BY <1>1, <1>2, <1>3, <1>4, <1>5, <1>6, <1>7, <1>8, <1>9 DEF Next, Submit, Continue

LEMMA InitRefines == Init => Abstract!PTPInit
<1>. SUFFICES ASSUME Init
              PROVE  Abstract!PTPInit
  OBVIOUS
<1>1. \A s \in Side, p \in Price : queue[s][p] = << >>
  BY DEF Init, QueueInit
<1>2. \A s \in Side, p \in Price : IdsAt(s, p) = {}
  BY <1>1 DEF IdsAt, IdsOf
<1>3. StoredIds = {}
  BY <1>2 DEF StoredIds
<1>4. RestingById = << >>
  BY <1>3 DEF RestingById
<1>5. AheadOf = {}
  BY <1>3 DEF AheadOf
<1>6. WorkingOrder = Abstract!Nobody
  BY WorkingIs DEF Init
<1>. QED  BY <1>4, <1>5, <1>6 DEF Abstract!PTPInit

\* What a client is promised, for every set of ids, prices and quantities
\* and every width: a trade is always with the best-priced acceptable order,
\* and among those with the one that has waited longest; a cut keeps the
\* place in the queue and any other replace costs it; a fill-or-kill order
\* is taken on only if the book can fill it and is never given up; a
\* post-only order never trades on arrival.
THEOREM BookKeepsItsPromises == Spec => ImplementsPriceTimePriority
<1>1. BookInv => RestingExact
  BY RestingIs
<1>2. Spec => []PromiseInv
  BY <1>1, QtyInvariant, PTL DEF PromiseInv
<1>. QED  BY <1>2, InitRefines, StepRefines, PTL
          DEF Spec, ImplementsPriceTimePriority, Abstract!PTPSpec

----------------------------------------------------------------------------
\* A consumer of the events

\* The sink of the book is the consumer of module FeedSink.
FeedPlugged ==
  /\ Sink0 = FeedSink0
  /\ \A s, n, e : OnEvent(s, n, e) = FeedOnEvent(s, n, e)

\* It knows the open quantity of every order the map has ...
KnowsBook ==
  /\ sink.leaves \in [DOMAIN map -> Nat \ {0}]
  /\ \A s \in Side, r \in Price : \A o \in OrdersIn(queue[s][r]) : sink.leaves[o.id] = o.qty

\* ... and that an order is being matched once that one has traded.
KnowsTaker ==
  IF taker = Idle THEN sink.taker = {}
  ELSE sink.taker \subseteq {taker.id} /\ (taker.qty = 0 => sink.taker = {taker.id})

InTouch == sink.ok = TRUE /\ sink.last = seq

FeedInv == InTouch /\ KnowsBook /\ KnowsTaker

\* After the step the consumer, in touch, has these leaves and this taker.
Told(leaves, t) == InTouch' /\ sink'.leaves = leaves /\ sink'.taker = t

\* The consumer after an event that fits what it knows.
LEMMA OnEventIs ==
  ASSUME NEW s, NEW e, s.ok = TRUE, InOrder(s, e), Consistent(s.leaves, e)
  PROVE  LET n == NextSeq(s.last)
             r == FeedOnEvent(s, n, e)
         IN  /\ r.ok = TRUE /\ r.last = n
             /\ r.leaves = LeavesAfter(s.leaves, e)
             /\ r.taker = TakerAfter(s, e)
BY DEF FeedOnEvent, NextSeq

LEMMA NothingUnclosed ==
  ASSUME KnowsBook
  PROVE  Unclosed(sink) = {}
BY DEF KnowsBook, Unclosed

\* An event that is not a trade ends the report of its order.
LEMMA EmitTold ==
  ASSUME FeedPlugged, FeedInv, NEW e, Emit(e), Consistent(sink.leaves, e), e.ev # "trade",
         sink.taker \subseteq {e.id}, ClosesFilled(e) => sink.taker = {e.id}
  PROVE  Told(LeavesAfter(sink.leaves, e), {})
<1>1. sink.ok = TRUE /\ sink.last = seq /\ Unclosed(sink) = {}
  BY NothingUnclosed DEF FeedInv, InTouch
<1>2. InOrder(sink, e) /\ TakerAfter(sink, e) = {}
  BY <1>1 DEF InOrder, TakerAfter
<1>3. seq' = NextSeq(seq) /\ sink' = FeedOnEvent(sink, NextSeq(seq), e)
  BY DEF Emit, FeedPlugged
<1>4. /\ sink'.ok = TRUE /\ sink'.last = seq'
      /\ sink'.leaves = LeavesAfter(sink.leaves, e) /\ sink'.taker = {}
  BY <1>1, <1>2, <1>3, OnEventIs
<1>. QED  BY <1>4 DEF Told, InTouch

----------------------------------------------------------------------------
\* What the consumer then knows of the book

\* The ids of resting orders are in the map, and no other order has them.
LEMMA OrdersInMap ==
  ASSUME BookInv, NEW s \in Side, NEW r \in Price, NEW o \in OrdersIn(queue[s][r])
  PROVE  o.id \in InBook /\ o.id \in DOMAIN map
<1>1. o.id \in IdsAt(s, r)
  BY ContentsIds
<1>2. o.id \in InBook
  BY <1>1 DEF BookInv, Located
<1>. QED  BY <1>2 DEF InBook

\* What the consumer knows of the book stays true.
LEMMA KnowsLess ==
  ASSUME KnowsBook, sink'.leaves = sink.leaves, DOMAIN map' = DOMAIN map,
         \A s \in Side, r \in Price : OrdersIn(queue'[s][r]) \subseteq OrdersIn(queue[s][r])
  PROVE  KnowsBook'
<1>1. sink'.leaves \in [DOMAIN map' -> Nat \ {0}]
  BY DEF KnowsBook
<1>2. ASSUME NEW s \in Side, NEW r \in Price, NEW o \in OrdersIn(queue'[s][r])
      PROVE  sink'.leaves[o.id] = o.qty
  <2>1. o \in OrdersIn(queue[s][r])
    OBVIOUS
  <2>. QED  BY <2>1 DEF KnowsBook
<1>. QED  BY <1>1, <1>2 DEF KnowsBook

LEMMA KnowsWithout ==
  ASSUME BookInv, KnowsBook, NEW id, DOMAIN map' = DOMAIN map \ {id},
         sink'.leaves = Without(sink.leaves, id),
         \A s \in Side, r \in Price :
           OrdersIn(queue'[s][r]) = {o \in OrdersIn(queue[s][r]) : o.id # id}
  PROVE  KnowsBook'
<1>0. sink.leaves \in [DOMAIN map -> Nat \ {0}]
  BY DEF KnowsBook
<1>1. /\ sink'.leaves \in [DOMAIN map' -> Nat \ {0}]
      /\ \A m \in DOMAIN map \ {id} : sink'.leaves[m] = sink.leaves[m]
  <2>. DEFINE f == sink.leaves
              D == DOMAIN map
              g == Without(f, id)
  <2>1. f \in [D -> Nat \ {0}]
    BY <1>0
  <2>. HIDE DEF f, D
  <2>2. g \in [D \ {id} -> Nat \ {0}] /\ \A m \in D \ {id} : g[m] = f[m]
    BY <2>1 DEF Without
  <2>. HIDE DEF g
  <2>. QED  BY <2>2 DEF f, D, g
<1>2. ASSUME NEW s \in Side, NEW r \in Price, NEW o \in OrdersIn(queue'[s][r])
      PROVE  sink'.leaves[o.id] = o.qty
  <2>1. o \in OrdersIn(queue[s][r]) /\ o.id # id
    OBVIOUS
  <2>2. sink.leaves[o.id] = o.qty /\ o.id \in DOMAIN map
    BY <2>1, OrdersInMap DEF KnowsBook
  <2>. QED  BY <1>1, <2>1, <2>2
<1>. QED  BY <1>1, <1>2 DEF KnowsBook

\* An order of this id, and of no other, has a new quantity.
LEMMA KnowsWith ==
  ASSUME BookInv, KnowsBook, NEW id, NEW n \in Nat \ {0}, DOMAIN map' = DOMAIN map \cup {id},
         sink'.leaves = With(sink.leaves, id, n),
         \A s \in Side, r \in Price : \A o \in OrdersIn(queue'[s][r]) :
           IF o.id = id THEN o.qty = n ELSE o \in OrdersIn(queue[s][r])
  PROVE  KnowsBook'
<1>0. sink.leaves \in [DOMAIN map -> Nat \ {0}]
  BY DEF KnowsBook
<1>1. /\ sink'.leaves \in [DOMAIN map' -> Nat \ {0}]
      /\ \A m \in DOMAIN map \cup {id} :
           sink'.leaves[m] = IF m = id THEN n ELSE sink.leaves[m]
  <2>. DEFINE f == sink.leaves
              D == DOMAIN map
              g == With(f, id, n)
  <2>1. f \in [D -> Nat \ {0}]
    BY <1>0
  <2>. HIDE DEF f, D
  <2>2. /\ g \in [D \cup {id} -> Nat \ {0}]
        /\ \A m \in D \cup {id} : g[m] = IF m = id THEN n ELSE f[m]
    BY <2>1 DEF With
  <2>. HIDE DEF g
  <2>. QED  BY <2>2 DEF f, D, g
<1>2. ASSUME NEW s \in Side, NEW r \in Price, NEW o \in OrdersIn(queue'[s][r])
      PROVE  sink'.leaves[o.id] = o.qty
  <2>1. CASE o.id = id
    BY <1>1, <2>1
  <2>2. CASE o.id # id
    <3>1. o \in OrdersIn(queue[s][r])
      BY <2>2
    <3>2. sink.leaves[o.id] = o.qty /\ o.id \in DOMAIN map
      BY <3>1, OrdersInMap DEF KnowsBook
    <3>. QED  BY <1>1, <2>2, <3>2
  <2>. QED  BY <2>1, <2>2
<1>. QED  BY <1>1, <1>2 DEF KnowsBook

\* An order whose quantity is lowered in place.
LEMMA KnowsReduced ==
  ASSUME BookInv, KnowsBook, NEW id \in DOMAIN map, NEW n \in Nat \ {0}, map' = map,
         sink'.leaves = With(sink.leaves, id, n), KeepsWith(id, n)
  PROVE  KnowsBook'
<1>1. ASSUME NEW s \in Side, NEW r \in Price, NEW o \in OrdersIn(queue'[s][r])
      PROVE  IF o.id = id THEN o.qty = n ELSE o \in OrdersIn(queue[s][r])
  <2>1. PICK e \in OrdersIn(queue[s][r]) : o = IF e.id = id THEN [e EXCEPT !.qty = n] ELSE e
    BY DEF KeepsWith
  <2>2. e \in Order
    BY OrdersTyped DEF BookInv, Typed
  <2>3. e.id = id => o.id = id /\ o.qty = n
    BY <2>1, <2>2 DEF Order
  <2>. QED  BY <2>1, <2>3
<1>2. DOMAIN map' = DOMAIN map \cup {id}
  OBVIOUS
<1>. QED  BY <1>1, <1>2, KnowsWith

----------------------------------------------------------------------------
\* The consumer, action by action

\* A reason the stream confirms.
ReasonTrue(id, reason) ==
  /\ reason = "unknown_order_id" => id \notin DOMAIN map
  /\ reason = "duplicate_order_id" => id \in DOMAIN map
  /\ reason = "book_full" => live >= MaxOrders

\* A rejection names a reason the consumer can agree with.
LEMMA ReasonsTrue ==
  /\ \A c \in NewCommand : ReasonTrue(c.id, NewRejection(c))
  /\ \A c \in CancelCommand : ReasonTrue(c.id, CancelRejection(c))
  /\ \A c \in ReplaceCommand : ReasonTrue(c.id, ReplaceRejection(c))
BY DEF ReasonTrue, NewRejection, CancelRejection, ReplaceRejection, TifRejection, BookFull

\* Each action keeps the consumer in touch.
LEMMA RejectFeed ==
  ASSUME FeedPlugged, BookInv, FeedInv, NEW id, NEW reason, ReasonTrue(id, reason),
         Reject(id, reason)
  PROVE  FeedInv'
<1>. DEFINE e == Rejected(id, reason)
<1>1. taker = Idle /\ Emit(e) /\ UNCHANGED <<queue, live, map, taker>>
  BY DEF Reject
<1>2. e.ev = "rejected" /\ e.id = id /\ e.reason = reason
  BY DEF Rejected
<1>. HIDE DEF e
<1>3. DOMAIN sink.leaves = DOMAIN map /\ sink.taker = {}
  BY <1>1 DEF FeedInv, KnowsBook, KnowsTaker
<1>4. reason = "book_full" => Cardinality(DOMAIN sink.leaves) = MaxOrders
  <2>1. live \in 0 .. MaxOrders /\ live = Cardinality(DOMAIN map)
    BY <1>1 DEF BookInv, LiveExact, InBook, OutOfBook
  <2>. QED  BY <1>3, <2>1, ConfigAssumption DEF ReasonTrue
<1>5. Consistent(sink.leaves, e)
  BY <1>2, <1>3, <1>4 DEF Consistent, Known, ReasonTrue
<1>6. LeavesAfter(sink.leaves, e) = sink.leaves
  BY <1>2 DEF LeavesAfter
<1>7. Told(sink.leaves, {})
  BY <1>1, <1>2, <1>3, <1>5, <1>6, EmitTold DEF ClosesFilled
<1>8. KnowsBook'
  BY <1>1, <1>7, KnowsLess DEF FeedInv, Told
<1>. QED  BY <1>1, <1>7, <1>8 DEF FeedInv, Told, KnowsTaker

LEMMA NewFeed ==
  ASSUME BookInv, FeedInv, NEW c \in NewCommand, New(c)
  PROVE  FeedInv'
<1>1. UNCHANGED <<queue, map, seq, sink>> /\ taker = Idle
  BY DEF New
<1>2. taker' # Idle /\ taker'.qty # 0
  <2>1. c.qty # 0
    BY NewAccepted DEF New
  <2>2. taker'.cmd = "new" /\ taker'.qty = c.qty
    BY DEF New
  <2>. QED  BY <2>1, <2>2 DEF Idle
<1>3. KnowsBook'
  BY <1>1, KnowsLess DEF FeedInv
<1>. QED  BY <1>1, <1>2, <1>3 DEF FeedInv, InTouch, KnowsTaker

LEMMA CancelFeed ==
  ASSUME FeedPlugged, PromiseInv, FeedInv, NEW c \in CancelCommand, Cancel(c)
  PROVE  FeedInv'
<1>. DEFINE side == map[c.id].side
            p    == map[c.id].price
            id   == c.id
            e    == Closed(id, "cancelled")
<1>1. PICK i \in DOMAIN queue[side][p] : At(id, i) /\ Unlink(side, p, i)
  BY DEF Cancel
<1>2. side \in Side /\ p \in Price /\ queue[side][p][i].id = id /\ id \in DOMAIN map
  BY <1>1, FoundIs DEF At
<1>3. taker = Idle /\ taker' = Idle /\ Emit(e)
      /\ map' = [x \in DOMAIN map \ {id} |-> map[x]]
  BY DEF Cancel
<1>4. e.ev = "closed" /\ e.id = id /\ e.reason = "cancelled"
  BY DEF Closed
<1>. HIDE DEF side, p, id, e
<1>5. Leaves(id)
  BY <1>1, <1>2, UnlinkLeaves DEF PromiseInv
<1>6. DOMAIN sink.leaves = DOMAIN map /\ sink.taker = {}
  BY <1>3 DEF FeedInv, KnowsBook, KnowsTaker
<1>7. Consistent(sink.leaves, e) /\ LeavesAfter(sink.leaves, e) = Without(sink.leaves, id)
  BY <1>2, <1>4, <1>6 DEF Consistent, Known, LeavesAfter
<1>8. Told(Without(sink.leaves, id), {})
  BY <1>3, <1>4, <1>6, <1>7, EmitTold DEF ClosesFilled
<1>9. KnowsBook'
  BY <1>3, <1>5, <1>8, KnowsWithout DEF FeedInv, Told, Leaves, PromiseInv
<1>. QED  BY <1>3, <1>8, <1>9 DEF FeedInv, Told, KnowsTaker

LEMMA ReplaceInPlaceFeed ==
  ASSUME FeedPlugged, PromiseInv, FeedInv, NEW c \in ReplaceCommand, ReplaceInPlace(c)
  PROVE  FeedInv'
<1>. DEFINE side == map[c.id].side
            p    == map[c.id].price
            id   == c.id
            n    == c.qty
            e    == Replaced(id, c.price, n)
<1>1. PICK i \in DOMAIN queue[side][p] : At(id, i) /\ Reduce(side, p, i, n)
  BY DEF ReplaceInPlace
<1>2. side \in Side /\ p \in Price /\ queue[side][p][i].id = id /\ id \in DOMAIN map
  BY <1>1, FoundIs DEF At
<1>3. /\ taker = Idle /\ taker' = Idle /\ Emit(e) /\ map' = map
      /\ n \in Qty \ {0} /\ n \in Nat \ {0} /\ n > 0
  BY ReplaceAccepted, ReplacesParsed, QtyAssumption DEF ReplaceInPlace, Qty
<1>4. e.ev = "replaced" /\ e.id = id /\ e.qty = n
  BY DEF Replaced
<1>5. queue' = [queue EXCEPT ![side][p][i].qty = n]
  BY <1>1 DEF Reduce
<1>. HIDE DEF side, p, id, e, n
<1>6. KeepsWith(id, n)
  BY <1>2, <1>3, <1>5, ReduceKeeps DEF PromiseInv
<1>7. DOMAIN sink.leaves = DOMAIN map /\ sink.taker = {}
  BY <1>3 DEF FeedInv, KnowsBook, KnowsTaker
<1>8. Consistent(sink.leaves, e) /\ LeavesAfter(sink.leaves, e) = With(sink.leaves, id, n)
  BY <1>2, <1>3, <1>4, <1>7 DEF Consistent, Known, LeavesAfter
<1>9. Told(With(sink.leaves, id, n), {})
  BY <1>3, <1>4, <1>7, <1>8, EmitTold DEF ClosesFilled
<1>10. KnowsBook'
  BY <1>2, <1>3, <1>6, <1>9, KnowsReduced DEF FeedInv, Told, PromiseInv
<1>. QED  BY <1>3, <1>9, <1>10 DEF FeedInv, Told, KnowsTaker

LEMMA ReplaceAndCrossFeed ==
  ASSUME PromiseInv, FeedInv, NEW c \in ReplaceCommand, ReplaceAndCross(c)
  PROVE  FeedInv'
<1>. DEFINE side == map[c.id].side
            p    == map[c.id].price
            id   == c.id
<1>1. PICK i \in DOMAIN queue[side][p] :
        At(id, i) /\ Unlink(side, p, i) /\ taker'.cmd = "replace" /\ taker'.qty = c.qty
  BY DEF ReplaceAndCross
<1>2. side \in Side /\ p \in Price /\ queue[side][p][i].id = id
  BY <1>1, FoundIs, ZenonT(30)
<1>3. taker = Idle /\ UNCHANGED <<map, seq, sink>> /\ c.qty # 0
  BY ReplaceAccepted, ReplacesParsed DEF ReplaceAndCross
<1>4. taker' # Idle
  BY <1>1 DEF Idle
<1>. HIDE DEF side, p, id
<1>5. Leaves(id)
  BY <1>1, <1>2, UnlinkLeaves DEF PromiseInv
<1>6. KnowsBook'
  BY <1>3, <1>5, KnowsLess DEF FeedInv, Leaves
<1>. QED  BY <1>1, <1>3, <1>4, <1>6 DEF FeedInv, InTouch, KnowsTaker

LEMMA CloseFilledFeed ==
  ASSUME FeedPlugged, PromiseInv, FeedInv, CloseFilled
  PROVE  FeedInv'
<1>. DEFINE id == taker.id
            e  == Closed(id, "filled")
<1>1. /\ Working /\ taker.qty = 0 /\ taker' = Idle /\ queue' = queue /\ Emit(e)
      /\ map' = [x \in DOMAIN map \ {id} |-> map[x]]
  BY DEF CloseFilled
<1>2. e.ev = "closed" /\ e.id = id /\ e.reason = "filled"
  BY DEF Closed
<1>3. id \notin InBook
  BY <1>1, WorkingFacts DEF PromiseInv
<1>4. sink.taker = {id}
  BY <1>1 DEF FeedInv, KnowsTaker, Working
<1>. HIDE DEF id, e
<1>5. Consistent(sink.leaves, e) /\ LeavesAfter(sink.leaves, e) = Without(sink.leaves, id)
  BY <1>2 DEF Consistent, LeavesAfter
<1>6. Told(Without(sink.leaves, id), {})
  BY <1>1, <1>2, <1>4, <1>5, EmitTold
<1>7. \A s \in Side, r \in Price : \A o \in OrdersIn(queue[s][r]) : o.id # id
  BY <1>3, OrdersInMap DEF PromiseInv
<1>8. KnowsBook'
  BY <1>1, <1>6, <1>7, KnowsWithout DEF FeedInv, Told, PromiseInv
<1>. QED  BY <1>1, <1>6, <1>8 DEF FeedInv, Told, KnowsTaker

LEMMA ExpireFeed ==
  ASSUME FeedPlugged, PromiseInv, FeedInv, Expire
  PROVE  FeedInv'
<1>. DEFINE id == taker.id
            e  == Closed(id, "expired")
<1>1. /\ Working /\ taker.qty > 0 /\ ~RestsRemainder /\ taker' = Idle
      /\ queue' = queue /\ map' = map /\ Emit(e)
  BY DEF Expire, Exhausted
<1>2. e.ev = "closed" /\ e.id = id /\ e.reason = "expired"
  BY DEF Closed
<1>3. id \notin DOMAIN map
  BY <1>1, WorkingFacts DEF PromiseInv, RestsRemainder
<1>4. sink.taker \subseteq {id}
  BY <1>1 DEF FeedInv, KnowsTaker, Working
<1>. HIDE DEF id, e
<1>5. sink.leaves \in [DOMAIN map -> Nat \ {0}]
  BY DEF FeedInv, KnowsBook
<1>6. Without(sink.leaves, id) = sink.leaves
  <2>1. DOMAIN sink.leaves \ {id} = DOMAIN sink.leaves
    BY <1>3, <1>5
  <2>2. sink.leaves = [m \in DOMAIN sink.leaves |-> sink.leaves[m]]
    BY <1>5
  <2>. QED  BY <2>1, <2>2 DEF Without
<1>7. Consistent(sink.leaves, e) /\ LeavesAfter(sink.leaves, e) = sink.leaves
  BY <1>2, <1>3, <1>5, <1>6 DEF Consistent, Known, LeavesAfter
<1>8. Told(sink.leaves, {})
  BY <1>1, <1>2, <1>4, <1>7, EmitTold DEF ClosesFilled
<1>9. KnowsBook'
  BY <1>1, <1>8, KnowsLess DEF FeedInv, Told
<1>. QED  BY <1>1, <1>8, <1>9 DEF FeedInv, Told, KnowsTaker

LEMMA RestFeed ==
  ASSUME FeedPlugged, PromiseInv, FeedInv, RestRemainder
  PROVE  FeedInv'
<1>. DEFINE order == [id |-> taker.id, qty |-> taker.qty, tif |-> taker.tif]
            side == taker.side
            p == taker.price
            id == taker.id
            n == taker.qty
            e == IF taker.cmd = "new" THEN Accepted(id, n) ELSE Replaced(id, p, n)
<1>1. /\ Exhausted /\ Working /\ n > 0 /\ RestsRemainder /\ taker' = Idle
      /\ Push(side, p, order) /\ Emit(e) /\ DOMAIN map' = DOMAIN map \cup {id}
  BY DEF RestRemainder, Exhausted, EntryWritten
<1>2. /\ taker \in Taker /\ side \in Side /\ p \in Price /\ id \notin InBook
      /\ taker.tif \in {"gtc", "post_only"}
      /\ id \in DOMAIN map <=> taker.cmd = "replace"
  BY <1>1, WorkingFacts DEF RestsRemainder, PromiseInv
<1>3. order \in Order /\ n \in Nat \ {0}
  BY <1>1, <1>2, QtyAssumption DEF Order, Taker, Qty
<1>4. order.id = id /\ order.qty = n
  OBVIOUS
<1>5. /\ e.id = id
      /\ \/ e.ev = "accepted" /\ e.leaves = n /\ taker.cmd = "new"
         \/ e.ev = "replaced" /\ e.qty = n /\ taker.cmd = "replace"
  BY <1>2 DEF Accepted, Replaced, Taker
<1>6. sink.taker \subseteq {id}
  BY <1>1 DEF FeedInv, KnowsTaker, Working
<1>. HIDE DEF order, side, p, id, n, e
<1>7. DOMAIN sink.leaves = DOMAIN map
  BY DEF FeedInv, KnowsBook
<1>8. Consistent(sink.leaves, e)
  BY <1>1, <1>2, <1>5, <1>7 DEF Consistent, Known
<1>9. LeavesAfter(sink.leaves, e) = With(sink.leaves, id, n)
  BY <1>5 DEF LeavesAfter
<1>10. Told(With(sink.leaves, id, n), {})
  BY <1>1, <1>5, <1>6, <1>8, <1>9, EmitTold DEF ClosesFilled
<1>11. Joins(side, p, order)
  BY <1>1, <1>2, <1>3, PushJoins DEF PromiseInv
<1>12. ASSUME NEW s \in Side, NEW r \in Price, NEW o \in OrdersIn(queue'[s][r])
       PROVE  IF o.id = id THEN o.qty = n ELSE o \in OrdersIn(queue[s][r])
  <2>1. o \in OrdersIn(queue[s][r]) \/ o = order
    BY <1>11 DEF Joins
  <2>2. o \in OrdersIn(queue[s][r]) => o.id # id
    BY <1>2, OrdersInMap DEF PromiseInv
  <2>. QED  BY <1>4, <2>1, <2>2
<1>13. KnowsBook'
  BY <1>1, <1>3, <1>10, <1>12, KnowsWith DEF FeedInv, Told, PromiseInv
<1>. QED  BY <1>1, <1>10, <1>13 DEF FeedInv, Told, KnowsTaker

\* A trade leaves the maker with less, and one left with nothing is closed
\* by the very next event.
LEMMA FillFeed ==
  ASSUME FeedPlugged, PromiseInv, FeedInv, NEW p \in Price, Fill(p)
  PROVE  FeedInv'
<1>. DEFINE opp   == Opposite(taker.side)
            maker == Head(queue[opp][p])
            id    == maker.id
            b     == maker.qty
            q     == MinQty(taker.qty, b)
            e1    == Trade(id, taker.id, p, q)
            e2    == Closed(id, "filled")
            l     == sink.leaves
<1>1. /\ Working /\ taker.qty > 0 /\ p \in Occupied(opp) /\ TakeFront(opp, p, q)
      /\ taker' = [taker EXCEPT !.qty = taker.qty - q]
      /\ IF b = q THEN map' = [x \in DOMAIN map \ {id} |-> map[x]] /\ EmitBoth(e1, e2)
                  ELSE map' = map /\ Emit(e1)
  BY DEF Fill, Unfilled, IsBest
<1>2. taker \in Taker /\ opp \in Side /\ taker.qty \in Qty /\ taker.id \notin InBook
  BY <1>1, WorkingFacts DEF PromiseInv
<1>3. maker \in OrdersIn(queue[opp][p]) /\ maker \in Order
  <2>1. queue[opp][p] \in Seq(Order) /\ queue[opp][p] # << >>
    BY <1>1, <1>2, QueueTyped DEF PromiseInv, BookInv, Typed, Occupied
  <2>2. 1 \in DOMAIN queue[opp][p] /\ maker = queue[opp][p][1]
    BY <2>1
  <2>. QED  BY <2>1, <2>2 DEF OrdersIn
<1>4. b \in Qty \ {0} /\ b \in Nat /\ taker.qty \in Nat
  BY <1>2, <1>3, QtyAssumption DEF Order, Qty
<1>5. q \in Qty \ {0} /\ q <= b /\ q \in Nat /\ q >= 1
  <2>. HIDE DEF b
  <2>. QED  BY <1>1, <1>2, <1>4, QtyAssumption DEF MinQty, Qty
<1>6. IF b = q THEN Leaves(id) ELSE KeepsWith(id, b - q) /\ b - q \in Qty \ {0}
  <2>. HIDE DEF opp, q
  <2>. QED  BY <1>1, <1>2, <1>5, TakeFrontContents DEF PromiseInv
<1>7. /\ e1.ev = "trade" /\ e1.maker = id /\ e1.taker = taker.id /\ e1.qty = q
      /\ e2.ev = "closed" /\ e2.id = id /\ e2.reason = "filled"
  BY DEF Trade, Closed
<1>8. id \in InBook /\ id \in DOMAIN map
  BY <1>2, <1>3, OrdersInMap DEF PromiseInv
<1>9. l[id] = b /\ l \in [DOMAIN map -> Nat \ {0}]
  BY <1>2, <1>3 DEF FeedInv, KnowsBook
<1>10. sink.taker \subseteq {taker.id} /\ sink.ok = TRUE /\ sink.last = seq /\ Unclosed(sink) = {}
  BY <1>1, NothingUnclosed DEF FeedInv, KnowsTaker, InTouch, Working
<1>11. taker' # Idle /\ taker'.id = taker.id
  BY <1>1, <1>2 DEF Taker, Idle
<1>. HIDE DEF opp, maker, id, b, q, e1, e2
<1>. DEFINE s1 == FeedOnEvent(sink, NextSeq(seq), e1)
            l1 == With(l, id, b - q)
<1>12. InOrder(sink, e1) /\ TakerAfter(sink, e1) = {taker.id}
  BY <1>7, <1>10 DEF InOrder, TakerAfter
<1>13. Consistent(l, e1)
  <2>1. id # taker.id
    BY <1>2, <1>8
  <2>2. q \in 1 .. b
    BY <1>4, <1>5
  <2>. QED  BY <1>7, <1>8, <1>9, <2>1, <2>2 DEF Consistent
<1>14. LeavesAfter(l, e1) = l1
  BY <1>7, <1>9 DEF LeavesAfter
<1>. HIDE DEF l
<1>15. s1.ok = TRUE /\ s1.last = NextSeq(seq) /\ s1.leaves = l1 /\ s1.taker = {taker.id}
  BY <1>10, <1>12, <1>13, <1>14, OnEventIs DEF l
<1>. HIDE DEF s1
<1>16. /\ l1 \in [DOMAIN map -> Nat] /\ l1[id] = b - q
       /\ \A m \in DOMAIN map \ {id} : l1[m] = l[m]
       /\ Without(l1, id) = Without(l, id)
  <2>. DEFINE D == DOMAIN map
              k == b - q
  <2>1. l \in [D -> Nat \ {0}] /\ id \in D /\ k \in Nat
    BY <1>4, <1>5, <1>8, <1>9
  <2>. HIDE DEF D, k
  <2>2. /\ With(l, id, k) \in [D -> Nat] /\ With(l, id, k)[id] = k
        /\ \A m \in D \ {id} : With(l, id, k)[m] = l[m]
    BY <2>1 DEF With
  <2>3. Without(With(l, id, k), id) = Without(l, id)
    <3>. DEFINE w == With(l, id, k)
    <3>1. DOMAIN w = D /\ DOMAIN l = D /\ \A m \in D \ {id} : w[m] = l[m]
      BY <2>1, <2>2
    <3>. HIDE DEF w
    <3>2. Without(w, id) = Without(l, id)
      BY <3>1 DEF Without
    <3>. QED  BY <3>2 DEF w
  <2>. QED  BY <2>2, <2>3 DEF D, k
<1>. HIDE DEF l1
<1>17. CASE b = q
  <2>1. /\ seq' = NextSeq(NextSeq(seq)) /\ sink' = FeedOnEvent(s1, NextSeq(NextSeq(seq)), e2)
        /\ DOMAIN map' = DOMAIN map \ {id} /\ Leaves(id)
    BY <1>1, <1>6, <1>17 DEF EmitBoth, FeedPlugged, s1
  <2>2. Unclosed(s1) = {id}
    <3>1. l1[id] = 0 /\ \A m \in DOMAIN map \ {id} : l1[m] # 0
      BY <1>4, <1>5, <1>9, <1>16, <1>17
    <3>. QED  BY <1>8, <1>15, <1>16, <3>1 DEF Unclosed
  <2>3. InOrder(s1, e2) /\ TakerAfter(s1, e2) = {taker.id}
    BY <1>7, <1>15, <2>2 DEF InOrder, TakerAfter, ClosesFilled
  <2>4. Consistent(s1.leaves, e2) /\ LeavesAfter(s1.leaves, e2) = Without(l1, id)
    BY <1>7, <1>15 DEF Consistent, LeavesAfter
  <2>5. /\ sink'.ok = TRUE /\ sink'.last = seq' /\ sink'.leaves = Without(l, id)
        /\ sink'.taker = {taker.id}
    <3>. DEFINE n == NextSeq(s1.last)
    <3>1. n = NextSeq(NextSeq(seq))
      BY <1>15
    <3>2. LET r == FeedOnEvent(s1, n, e2)
          IN  /\ r.ok = TRUE /\ r.last = n /\ r.leaves = LeavesAfter(s1.leaves, e2)
              /\ r.taker = TakerAfter(s1, e2)
      BY <1>15, <2>3, <2>4, OnEventIs
    <3>. HIDE DEF n
    <3>. QED  BY <1>16, <2>1, <2>3, <2>4, <3>1, <3>2
  <2>6. KnowsBook'
    BY <2>1, <2>5, KnowsWithout DEF FeedInv, PromiseInv, Leaves, l
  <2>. QED  BY <1>11, <2>5, <2>6 DEF FeedInv, InTouch, KnowsTaker
<1>18. CASE b # q
  <2>1. seq' = NextSeq(seq) /\ sink' = s1 /\ map' = map
    BY <1>1, <1>18 DEF Emit, FeedPlugged, s1
  <2>. DEFINE k == b - q
  <2>2. KeepsWith(id, k) /\ k \in Nat \ {0}
    BY <1>4, <1>5, <1>6, <1>18
  <2>3. sink'.leaves = With(l, id, k)
    BY <1>15, <2>1 DEF l1
  <2>. HIDE DEF k
  <2>4. KnowsBook'
    BY <1>8, <2>1, <2>2, <2>3, KnowsReduced DEF FeedInv, PromiseInv, l
  <2>. QED  BY <1>11, <1>15, <2>1, <2>4 DEF FeedInv, InTouch, KnowsTaker
<1>. QED  BY <1>17, <1>18

LEMMA FeedStep ==
  ASSUME FeedPlugged, PromiseInv, FeedInv, [Next]_vars
  PROVE  FeedInv'
<1>1. CASE RejectNew \/ RejectCancel \/ RejectReplace
  BY <1>1, RejectFeed, ReasonsTrue DEF RejectNew, RejectCancel, RejectReplace, PromiseInv
<1>2. ASSUME NEW c \in NewCommand, New(c)
      PROVE  FeedInv'
  BY <1>2, NewFeed DEF PromiseInv
<1>3. ASSUME NEW c \in CancelCommand, Cancel(c)
      PROVE  FeedInv'
  BY <1>3, CancelFeed
<1>4. ASSUME NEW c \in ReplaceCommand, ReplaceInPlace(c)
      PROVE  FeedInv'
  BY <1>4, ReplaceInPlaceFeed
<1>5. ASSUME NEW c \in ReplaceCommand, ReplaceAndCross(c)
      PROVE  FeedInv'
  BY <1>5, ReplaceAndCrossFeed
<1>6. ASSUME NEW p \in Price, Fill(p)
      PROVE  FeedInv'
  BY <1>6, FillFeed
<1>7. CASE CloseFilled \/ Expire \/ RestRemainder
  BY <1>7, CloseFilledFeed, ExpireFeed, RestFeed
<1>8. CASE UNCHANGED vars
  <2>1. UNCHANGED <<queue, map, taker, seq, sink>>
    BY <1>8 DEF vars
  <2>2. KnowsBook'
    BY <2>1, KnowsLess DEF FeedInv
  <2>. QED  BY <2>1, <2>2 DEF FeedInv, InTouch, KnowsTaker
<1>. QED  BY <1>1, <1>2, <1>3, <1>4, <1>5, <1>6, <1>7, <1>8 DEF Next, Submit, Continue

LEMMA FeedInit ==
  ASSUME FeedPlugged, Init
  PROVE  FeedInv
<1>1. /\ sink.leaves = << >> /\ sink.taker = {} /\ sink.last = 0 /\ sink.ok = TRUE
      /\ map = << >> /\ taker = Idle /\ seq = 0
  BY DEF Init, FeedPlugged, FeedSink0
<1>2. \A s \in Side, r \in Price : OrdersIn(queue[s][r]) = {}
  BY DEF Init, QueueInit, OrdersIn
<1>3. KnowsBook
  BY <1>1, <1>2 DEF KnowsBook
<1>. QED  BY <1>1, <1>3 DEF FeedInv, InTouch, KnowsTaker

LEMMA FeedInvariant ==
  ASSUME FeedPlugged
  PROVE  Spec => []FeedInv
<1>1. BookInv => RestingExact
  BY RestingIs
<1>2. Spec => []PromiseInv
  BY <1>1, QtyInvariant, PTL DEF PromiseInv
<1>3. Init => FeedInv
  BY FeedInit
<1>4. PromiseInv /\ FeedInv /\ [Next]_vars => FeedInv'
  BY FeedStep
<1>. QED  BY <1>2, <1>3, <1>4, PTL DEF Spec

\* Whatever the commands, no event the book emits contradicts those before
\* it: no gap in the sequence numbers (which wrap), a maker never gives more
\* than it has and is closed by the very next event when it has given all, a
\* reject names a reason that the stream confirms.
THEOREM FeedIsConsistent ==
  ASSUME FeedPlugged
  PROVE  Spec => []FeedNeverMisled
<1>1. FeedInv => FeedNeverMisled
  BY DEF FeedInv, InTouch, FeedNeverMisled
<1>. QED  BY <1>1, FeedInvariant, PTL

\* The stream determines the book: its consumer knows, after every event,
\* which ids are in the map and the open quantity of each resting order.
THEOREM FeedDeterminesBook ==
  ASSUME FeedPlugged
  PROVE  Spec => []FeedMatchesBook
<1>1. FeedInv => FeedMatchesBook
  <2>. SUFFICES ASSUME FeedInv
                PROVE  FeedMatchesBook
    OBVIOUS
  <2>1. DOMAIN sink.leaves = DOMAIN map
    BY DEF FeedInv, KnowsBook
  <2>2. ASSUME NEW s \in Side, NEW r \in Price, NEW i \in DOMAIN queue[s][r]
        PROVE  sink.leaves[queue[s][r][i].id] = queue[s][r][i].qty
    <3>1. queue[s][r][i] \in OrdersIn(queue[s][r])
      BY DEF OrdersIn
    <3>. QED  BY <3>1 DEF FeedInv, KnowsBook
  <2>. QED  BY <2>1, <2>2 DEF FeedMatchesBook
<1>. QED  BY <1>1, FeedInvariant, PTL

----------------------------------------------------------------------------
\* What the journal holds

\* What parse_command can make of a whole or a torn record.
Parsed == NewCommand \cup [cmd: {"cancel"}, id: Nat] \cup AnyReplace \cup {Unparsable}

LEMMA ParsedIs ==
  ASSUME NEW c \in Parsed
  PROVE  /\ c.cmd = "new" => c \in NewCommand
         /\ c.cmd = "replace" => c \in AnyReplace
BY DEF Parsed, AnyReplace, NewCommand, LimitCommand, MarketCommand, Unparsable

LEMMA ClientParsed == \A c \in Client : c \in Parsed /\ Torn(c) \subseteq Parsed
<1>. SUFFICES ASSUME NEW c \in Client
              PROVE  c \in Parsed /\ Torn(c) \subseteq Parsed
  OBVIOUS
<1>1. CASE c \in NewCommand
  <2>1. c.cmd = "new"
    BY <1>1 DEF NewCommand, LimitCommand, MarketCommand
  <2>. QED  BY <1>1, <2>1 DEF Torn, Parsed
<1>2. CASE c \in CancelCommand
  <2>1. c.cmd = "cancel" /\ c \in [cmd: {"cancel"}, id: Nat]
    BY <1>2, ClientAssumption DEF CancelCommand
  <2>2. \A id \in Cut(c.id) : [c EXCEPT !.id = id] \in [cmd: {"cancel"}, id: Nat]
    BY <2>1 DEF Cut
  <2>. QED  BY <2>1, <2>2 DEF Torn, Parsed
<1>3. CASE c \in ReplaceCommand
  <2>1. c.cmd = "replace" /\ c \in AnyReplace /\ c.qty \in Qty
    BY <1>3, ReplacesParsed DEF ReplaceCommand, AnyReplace
  <2>2. \A q \in Cut(c.qty) : q \in Qty
    BY <2>1, QtyAssumption DEF Cut, Qty
  <2>3. \A q \in Qty : [c EXCEPT !.qty = q] \in AnyReplace
    BY <2>1 DEF AnyReplace
  <2>. QED  BY <2>1, <2>2, <2>3 DEF Torn, Parsed
<1>. QED  BY <1>1, <1>2, <1>3, ClientAssumption

----------------------------------------------------------------------------
\* The snapshots

\* The book at work is sound whatever has happened to its process, and so is
\* the one that the latest snapshot gives back.
RecoveryInv ==
  /\ BookInv
  /\ LevelTotalsExact
  /\ mode = "down" => taker = Idle
  /\ journal \in Seq(Parsed)
  /\ pos \in Nat
  /\ snap.at \in Nat
  /\ Sound(Restored(snap.orders, snap.seq))

LEMMA RecoveryInvInit == RecoveryInit => RecoveryInv
<1>. SUFFICES ASSUME RecoveryInit PROVE RecoveryInv
  OBVIOUS
<1>1. Init /\ mode = "up" /\ journal = << >> /\ pos = 0 /\ snap = NoSnapshot
  BY DEF RecoveryInit
<1>2. snap.orders = << >> /\ snap.seq = 0 /\ snap.at = 0
  BY <1>1 DEF NoSnapshot
<1>3. journal \in Seq(Parsed)
  BY <1>1
<1>4. BookInv /\ LevelTotalsExact
  BY <1>1, InitInv, InitTotals
<1>5. Sound(Restored(snap.orders, snap.seq))
  BY <1>2, NothingIsSound
<1>. QED  BY <1>1, <1>2, <1>3, <1>4, <1>5 DEF RecoveryInv

\* What stays as it was stays sound.
LEMMA BookStays ==
  ASSUME BookInv, LevelTotalsExact, UNCHANGED bookVars
  PROVE  BookInv' /\ LevelTotalsExact'
<1>1. UNCHANGED vars
  BY DEF bookVars, vars
<1>2. UNCHANGED <<queue, total>>
  BY DEF bookVars
<1>. QED  BY <1>1, <1>2, StutterInv DEF LevelTotalsExact

LEMMA RecoveryInvNext == RecoveryInv /\ [RecoveryNext]_allVars => RecoveryInv'
<1>. SUFFICES ASSUME RecoveryInv, [RecoveryNext]_allVars PROVE RecoveryInv'
  OBVIOUS
<1>0. /\ BookInv /\ LevelTotalsExact /\ journal \in Seq(Parsed) /\ pos \in Nat /\ snap.at \in Nat
      /\ Sound(Restored(snap.orders, snap.seq))
  BY DEF RecoveryInv
<1>1. ASSUME NEW c \in Client, Record(c)
      PROVE  RecoveryInv'
  <2>1. UNCHANGED <<bookVars, mode, pos, snap>> /\ journal' = Append(journal, c)
    BY <1>1 DEF Record
  <2>2. journal' \in Seq(Parsed)
    BY <1>0, <2>1, ClientParsed
  <2>. QED  BY <1>0, <2>1, <2>2, BookStays DEF RecoveryInv, bookVars
<1>2. CASE Apply
  <2>1. /\ pos < Len(journal) /\ Handle(journal[pos + 1]) /\ pos' = pos + 1
        /\ UNCHANGED <<journal, snap, mode>> /\ mode # "down"
    BY <1>2 DEF Apply, diskVars, Running
  <2>2. journal[pos + 1] \in Parsed /\ pos + 1 \in Nat
    BY <1>0, <2>1
  <2>3. BookInv' /\ LevelTotalsExact'
    BY <1>0, <2>1, <2>2, ParsedIs, HandleInv
  <2>. QED  BY <1>0, <2>1, <2>2, <2>3 DEF RecoveryInv
<1>3. CASE Proceed
  <2>1. Continue /\ UNCHANGED <<journal, snap, mode, pos>> /\ mode # "down"
    BY <1>3 DEF Proceed, diskVars, Running
  <2>. QED  BY <1>0, <2>1, ContinueInv DEF RecoveryInv
<1>4. CASE WriteSnapshot
  <2>1. /\ taker = Idle /\ UNCHANGED <<bookVars, mode, journal, pos>>
        /\ snap' = [orders |-> RestingOrders(queue), seq |-> seq, at |-> pos, events |-> sink]
    BY <1>4 DEF WriteSnapshot, AllApplied
  <2>2. snap'.orders = RestingOrders(queue) /\ snap'.seq = seq /\ snap'.at = pos
    BY <2>1
  <2>3. Sound(Restored(snap'.orders, snap'.seq))
    BY <1>0, <2>1, <2>2, RoundTrip, SoundNow
  <2>. QED  BY <1>0, <2>1, <2>2, <2>3, BookStays DEF RecoveryInv, bookVars
<1>5. ASSUME LoseBook, journal' \in Seq(Parsed), UNCHANGED snap
      PROVE  RecoveryInv'
  <2>1. Load(Restored(<< >>, 0)) /\ taker' = Idle /\ pos' = 0
    BY <1>5 DEF LoseBook
  <2>2. BookInv' /\ LevelTotalsExact'
    BY <2>1, NothingIsSound, SoundLoaded
  <2>. QED  BY <1>0, <1>5, <2>1, <2>2 DEF RecoveryInv
<1>6. CASE Crash
  BY <1>0, <1>5, <1>6 DEF Crash
<1>7. ASSUME NEW c \in Client, CrashInRecord(c)
      PROVE  RecoveryInv'
  <2>1. PICK r \in Torn(c) : journal' = Append(journal, r)
    BY <1>7 DEF CrashInRecord
  <2>2. journal' \in Seq(Parsed)
    BY <1>0, <2>1, ClientParsed
  <2>. QED  BY <1>5, <1>7, <2>2 DEF CrashInRecord
<1>8. CASE Recover
  <2>1. /\ Load(Restored(snap.orders, snap.seq)) /\ UNCHANGED <<taker, journal, snap>>
        /\ mode = "down" /\ mode' = "replay" /\ pos' = snap.at
    BY <1>8 DEF Recover, diskVars
  <2>2. BookInv' /\ LevelTotalsExact'
    BY <1>0, <2>1, SoundLoaded DEF RecoveryInv
  <2>. QED  BY <1>0, <2>1, <2>2 DEF RecoveryInv
<1>9. CASE ReplayFails
  <2>1. UNCHANGED <<bookVars, journal, snap, pos>> /\ mode' # "down"
    BY <1>9 DEF ReplayFails, diskVars
  <2>. QED  BY <1>0, <2>1, BookStays DEF RecoveryInv
<1>10. CASE ReplayDone
  <2>1. UNCHANGED <<bookVars, journal, snap, pos>> /\ mode' # "down"
    BY <1>10 DEF ReplayDone, diskVars
  <2>. QED  BY <1>0, <2>1, BookStays DEF RecoveryInv
<1>11. CASE UNCHANGED allVars
  <2>1. UNCHANGED <<bookVars, journal, snap, pos, mode>>
    BY <1>11 DEF allVars, diskVars
  <2>. QED  BY <1>0, <2>1, BookStays DEF RecoveryInv, bookVars
<1>. QED  BY <1>1, <1>2, <1>3, <1>4, <1>6, <1>7, <1>8, <1>9, <1>10, <1>11 DEF RecoveryNext

\* Whatever was traded, crashed and recovered before, a snapshot taken
\* between two commands can be restored and gives back the same queues,
\* totals, map, count and sequence number.
THEOREM SnapshotsRestore == RecoverySpec => []SnapshotRoundTrip
<1>1. RecoveryInv => SnapshotRoundTrip
  BY RoundTrip DEF RecoveryInv, SnapshotRoundTrip, BookNow
<1>. QED  BY <1>1, RecoveryInvInit, RecoveryInvNext, PTL DEF RecoverySpec

----------------------------------------------------------------------------
\* The writer as a function
\*
\* What the writer does next is determined by its state and the journal.
\* That is said here with functions on states, because a theorem about two
\* runs over the same journal has to speak of both at once.

State(q, t, l, m, k, n, o) ==
  [queue |-> q, total |-> t, live |-> l, map |-> m, taker |-> k, seq |-> n, sink |-> o]

Now == State(queue, total, live, map, taker, seq, sink)

\* NewRejection and ReplaceRejection of the book in state s.
InReach(s, c) ==
  {p \in Price : s.queue[Opposite(c.side)][p] # << >> /\ Crosses(c.side, c.price, p)}

TifReason(s, c) ==
  IF c.otype = "limit" /\ c.tif = "post_only" /\ InReach(s, c) # {}
  THEN "post_only_would_cross"
  ELSE IF /\ c.otype = "limit" /\ c.tif = "fok"
          /\ SumFunctionOnSet(s.total[Opposite(c.side)], InReach(s, c)) % QtyWrap < c.qty
  THEN "fok_cannot_fill"
  ELSE "none"

NewReason(s, c) ==
  IF c.qty = 0 THEN "invalid_qty"
  ELSE IF c.otype = "limit" /\ ~PriceOk(c.price) THEN "invalid_price"
  ELSE IF c.id \in DOMAIN s.map THEN "duplicate_order_id"
  ELSE IF s.live >= MaxOrders THEN "book_full"
  ELSE TifReason(s, c)

CancelReason(s, c) == IF c.id \notin DOMAIN s.map THEN "unknown_order_id" ELSE "none"

ReplaceReason(s, c) ==
  IF c.id \notin DOMAIN s.map THEN "unknown_order_id"
  ELSE IF c.qty = 0 THEN "invalid_qty"
  ELSE IF ~PriceOk(c.price) THEN "invalid_price"
  ELSE "none"

\* The states after one event, and after two.
Said(q, t, l, m, k, s, e) ==
  State(q, t, l, m, k, NextSeq(s.seq), OnEvent(s.sink, NextSeq(s.seq), e))

SaidBoth(q, t, l, m, k, s, e, f) ==
  State(q, t, l, m, k, NextSeq(NextSeq(s.seq)),
        OnEvent(OnEvent(s.sink, NextSeq(s.seq), e), NextSeq(NextSeq(s.seq)), f))

Rejecting(s, id, reason) ==
  Said(s.queue, s.total, s.live, s.map, Idle, s, Rejected(id, reason))

AfterNew(s, c) ==
  IF NewReason(s, c) # "none" THEN Rejecting(s, c.id, NewReason(s, c))
  ELSE State(s.queue, s.total, s.live, s.map,
             [cmd |-> "new", id |-> c.id, side |-> c.side, bound |-> c.otype = "limit",
              price |-> c.price, tif |-> c.tif, qty |-> c.qty], s.seq, s.sink)

\* Where the order with this id rests in its level.
Position(s, id) ==
  CHOOSE i \in DOMAIN s.queue[s.map[id].side][s.map[id].price] :
    s.queue[s.map[id].side][s.map[id].price][i].id = id

AfterCancel(s, c) ==
  LET side == s.map[c.id].side
      p    == s.map[c.id].price
      i    == Position(s, c.id)
  IN  IF CancelReason(s, c) # "none" THEN Rejecting(s, c.id, CancelReason(s, c))
      ELSE Said([s.queue EXCEPT ![side][p] = RemoveAt(@, i)],
                [s.total EXCEPT ![side][p] = (@ - s.queue[side][p][i].qty) % QtyWrap],
                s.live - 1, Without(s.map, c.id), Idle, s, Closed(c.id, "cancelled"))

AfterReplace(s, c) ==
  LET side == s.map[c.id].side
      p    == s.map[c.id].price
      i    == Position(s, c.id)
  IN  IF ReplaceReason(s, c) # "none" THEN Rejecting(s, c.id, ReplaceReason(s, c))
      ELSE IF c.price = p /\ c.qty <= s.queue[side][p][i].qty
      THEN Said([s.queue EXCEPT ![side][p][i].qty = c.qty],
                [s.total EXCEPT ![side][p] = (@ - (s.queue[side][p][i].qty - c.qty)) % QtyWrap],
                s.live, s.map, Idle, s, Replaced(c.id, c.price, c.qty))
      ELSE State([s.queue EXCEPT ![side][p] = RemoveAt(@, i)],
                 [s.total EXCEPT ![side][p] = (@ - s.queue[side][p][i].qty) % QtyWrap],
                 s.live - 1, s.map,
                 [cmd |-> "replace", id |-> c.id, side |-> side, bound |-> TRUE,
                  price |-> c.price, tif |-> s.queue[side][p][i].tif, qty |-> c.qty],
                 s.seq, s.sink)

AfterCommand(s, c) ==
  IF c.cmd = "new" THEN AfterNew(s, c)
  ELSE IF c.cmd = "cancel" THEN AfterCancel(s, c)
  ELSE AfterReplace(s, c)

\* The price the working order trades at.
Trades(s, p) ==
  LET opp == Opposite(s.taker.side)
  IN  /\ p \in Price
      /\ s.queue[opp][p] # << >>
      /\ \A r \in Price : s.queue[opp][r] # << >> => ~Better(opp, r, p)
      /\ s.taker.bound => Crosses(s.taker.side, s.taker.price, p)

AfterFill(s, p) ==
  LET opp   == Opposite(s.taker.side)
      maker == Head(s.queue[opp][p])
      q     == MinQty(s.taker.qty, maker.qty)
      trade == Trade(maker.id, s.taker.id, p, q)
      t     == [s.total EXCEPT ![opp][p] = (@ - q) % QtyWrap]
      k     == [s.taker EXCEPT !.qty = @ - q]
  IN  IF maker.qty = q
      THEN SaidBoth([s.queue EXCEPT ![opp][p] = Tail(@)], t, s.live - 1,
                    Without(s.map, maker.id), k, s, trade, Closed(maker.id, "filled"))
      ELSE Said([s.queue EXCEPT ![opp][p][1].qty = @ - q], t, s.live, s.map, k, s, trade)

AfterRest(s) ==
  LET k == s.taker
  IN  Said([s.queue EXCEPT ![k.side][k.price] =
              Append(@, [id |-> k.id, qty |-> k.qty, tif |-> k.tif])],
           [s.total EXCEPT ![k.side][k.price] = (@ + k.qty) % QtyWrap], s.live + 1,
           [id \in DOMAIN s.map \cup {k.id} |->
              IF id = k.id THEN [side |-> k.side, price |-> k.price] ELSE s.map[id]],
           Idle, s,
           IF k.cmd = "new" THEN Accepted(k.id, k.qty) ELSE Replaced(k.id, k.price, k.qty))

AfterStep(s) ==
  LET k == s.taker
  IN  IF k.qty = 0
      THEN Said(s.queue, s.total, s.live, Without(s.map, k.id), Idle, s, Closed(k.id, "filled"))
      ELSE IF \E p \in Price : Trades(s, p) THEN AfterFill(s, CHOOSE p \in Price : Trades(s, p))
      ELSE IF k.cmd = "replace" \/ (k.bound /\ k.tif \in {"gtc", "post_only"}) THEN AfterRest(s)
      ELSE Said(s.queue, s.total, s.live, s.map, Idle, s, Closed(k.id, "expired"))

LEMMA NowIs ==
  /\ Now.queue = queue /\ Now.total = total /\ Now.live = live /\ Now.map = map
  /\ Now.taker = taker /\ Now.seq = seq /\ Now.sink = sink
BY DEF Now, State

LEMMA RejectIs ==
  ASSUME NEW id, NEW reason, Reject(id, reason)
  PROVE  Now' = Rejecting(Now, id, reason)
<1>1. /\ taker' = Idle /\ UNCHANGED <<queue, total, live, map>>
      /\ seq' = NextSeq(seq) /\ sink' = OnEvent(sink, NextSeq(seq), Rejected(id, reason))
  BY DEF Reject, Emit
<1>2. Rejecting(Now, id, reason) =
        State(queue, total, live, map, Idle, NextSeq(seq),
              OnEvent(sink, NextSeq(seq), Rejected(id, reason)))
  BY NowIs DEF Rejecting, Said
<1>. QED  BY <1>1, <1>2 DEF Now

LEMMA ReasonsAre ==
  /\ \A c \in NewCommand : NewReason(Now, c) = NewRejection(c)
  /\ \A c : CancelReason(Now, c) = CancelRejection(c)
  /\ \A c : ReplaceReason(Now, c) = ReplaceRejection(c)
<1>. HIDE DEF Now
<1>1. ASSUME NEW c \in NewCommand
      PROVE  NewReason(Now, c) = NewRejection(c)
  <2>1. InReach(Now, c) = {p \in Occupied(Opposite(c.side)) : Crosses(c.side, c.price, p)}
    BY NowIs DEF InReach, Occupied
  <2>2. InReach(Now, c) # {} <=> WouldCross(c.side, c.price)
    BY <2>1 DEF WouldCross
  <2>3. SumFunctionOnSet(Now.total[Opposite(c.side)], InReach(Now, c)) % QtyWrap
          = Fillable(c.side, c.price)
    BY <2>1, NowIs DEF Fillable
  <2>4. TifReason(Now, c) = TifRejection(c)
    BY <2>2, <2>3 DEF TifReason, TifRejection
  <2>. QED  BY <2>4, NowIs DEF NewReason, NewRejection, BookFull
<1>2. \A c : CancelReason(Now, c) = CancelRejection(c)
  BY NowIs DEF CancelReason, CancelRejection
<1>3. \A c : ReplaceReason(Now, c) = ReplaceRejection(c)
  BY NowIs DEF ReplaceReason, ReplaceRejection
<1>. QED  BY <1>1, <1>2, <1>3

LEMMA NewIs ==
  ASSUME NEW c \in NewCommand, New(c)
  PROVE  Now' = AfterNew(Now, c)
<1>1. NewReason(Now, c) = "none"
  BY ReasonsAre DEF New
<1>2. /\ UNCHANGED <<queue, total, live, map, seq, sink>>
      /\ taker' = [cmd |-> "new", id |-> c.id, side |-> c.side, bound |-> c.otype = "limit",
                   price |-> c.price, tif |-> c.tif, qty |-> c.qty]
  BY DEF New
<1>3. AfterNew(Now, c) = State(queue, total, live, map,
             [cmd |-> "new", id |-> c.id, side |-> c.side, bound |-> c.otype = "limit",
              price |-> c.price, tif |-> c.tif, qty |-> c.qty], seq, sink)
  BY <1>1, NowIs DEF AfterNew
<1>. QED  BY <1>2, <1>3 DEF Now

\* An id is at one position of its level only.
LEMMA PositionIs ==
  ASSUME BookInv, NEW id, NEW i, At(id, i)
  PROVE  Position(Now, id) = i
<1>. DEFINE side == map[id].side
            p    == map[id].price
<1>1. id \in DOMAIN map /\ i \in DOMAIN queue[side][p] /\ queue[side][p][i].id = id
  BY DEF At
<1>2. side \in Side /\ p \in Price
  BY <1>1, MapTyped DEF BookInv
<1>3. NoIdTwice(queue[side][p])
  BY <1>2, QueueTyped DEF BookInv, Typed
<1>4. \A j \in DOMAIN queue[side][p] : queue[side][p][j].id = id => j = i
  BY <1>1, <1>3 DEF NoIdTwice
<1>5. Position(Now, id) = CHOOSE j \in DOMAIN queue[side][p] : queue[side][p][j].id = id
  BY NowIs DEF Position
<1>. HIDE DEF side, p
<1>. QED  BY <1>1, <1>4, <1>5

LEMMA CancelIs ==
  ASSUME BookInv, NEW c, Cancel(c)
  PROVE  Now' = AfterCancel(Now, c)
<1>1. PICK side, p : side = map[c.id].side /\ p = map[c.id].price
  OBVIOUS
<1>2. PICK i \in DOMAIN queue[side][p] : At(c.id, i) /\ Unlink(side, p, i)
  BY <1>1 DEF Cancel
<1>3. Position(Now, c.id) = i /\ CancelReason(Now, c) = "none"
  BY <1>2, PositionIs, ReasonsAre DEF Cancel
<1>4. AfterCancel(Now, c) =
        State([queue EXCEPT ![side][p] = RemoveAt(@, i)],
              [total EXCEPT ![side][p] = (@ - queue[side][p][i].qty) % QtyWrap],
              live - 1, Without(map, c.id), Idle, NextSeq(seq),
              OnEvent(sink, NextSeq(seq), Closed(c.id, "cancelled")))
  BY <1>1, <1>3, NowIs DEF AfterCancel, Said
<1>5. /\ live' = live - 1
      /\ queue' = [queue EXCEPT ![side][p] = RemoveAt(@, i)]
      /\ total' = [total EXCEPT ![side][p] = (@ - queue[side][p][i].qty) % QtyWrap]
  BY <1>2 DEF Unlink
<1>6. /\ map' = Without(map, c.id) /\ taker' = Idle /\ seq' = NextSeq(seq)
      /\ sink' = OnEvent(sink, NextSeq(seq), Closed(c.id, "cancelled"))
  BY DEF Cancel, Emit, Without
<1>. QED  BY <1>4, <1>5, <1>6 DEF Now

LEMMA ReplaceIs ==
  ASSUME BookInv, NEW c, ReplaceInPlace(c) \/ ReplaceAndCross(c)
  PROVE  Now' = AfterReplace(Now, c)
<1>1. PICK side, p : side = map[c.id].side /\ p = map[c.id].price
  OBVIOUS
<1>2. ReplaceReason(Now, c) = "none"
  BY ReasonsAre DEF ReplaceInPlace, ReplaceAndCross
<1>3. CASE ReplaceInPlace(c)
  <2>1. PICK i \in DOMAIN queue[side][p] :
          At(c.id, i) /\ KeepsPriority(c, i) /\ Reduce(side, p, i, c.qty)
    BY <1>1, <1>3 DEF ReplaceInPlace
  <2>2. Position(Now, c.id) = i /\ c.price = p /\ c.qty <= queue[side][p][i].qty
    BY <1>1, <2>1, PositionIs DEF KeepsPriority
  <2>3. AfterReplace(Now, c) =
          State([queue EXCEPT ![side][p][i].qty = c.qty],
                [total EXCEPT ![side][p] = (@ - (queue[side][p][i].qty - c.qty)) % QtyWrap],
                live, map, Idle, NextSeq(seq),
                OnEvent(sink, NextSeq(seq), Replaced(c.id, c.price, c.qty)))
    BY <1>1, <1>2, <2>2, NowIs DEF AfterReplace, Said
  <2>4. /\ live' = live
        /\ queue' = [queue EXCEPT ![side][p][i].qty = c.qty]
        /\ total' = [total EXCEPT ![side][p] = (@ - (queue[side][p][i].qty - c.qty)) % QtyWrap]
    BY <2>1 DEF Reduce
  <2>5. /\ map' = map /\ taker' = Idle /\ seq' = NextSeq(seq)
        /\ sink' = OnEvent(sink, NextSeq(seq), Replaced(c.id, c.price, c.qty))
    BY <1>3 DEF ReplaceInPlace, Emit
  <2>. QED  BY <2>3, <2>4, <2>5 DEF Now
<1>4. CASE ReplaceAndCross(c)
  <2>1. PICK i \in DOMAIN queue[side][p] :
          /\ At(c.id, i) /\ ~KeepsPriority(c, i) /\ Unlink(side, p, i)
          /\ taker' = [cmd |-> "replace", id |-> c.id, side |-> side, bound |-> TRUE,
                       price |-> c.price, tif |-> queue[side][p][i].tif, qty |-> c.qty]
    BY <1>1, <1>4 DEF ReplaceAndCross
  <2>2. Position(Now, c.id) = i /\ ~(c.price = p /\ c.qty <= queue[side][p][i].qty)
    BY <1>1, <2>1, PositionIs DEF KeepsPriority
  <2>3. AfterReplace(Now, c) =
          State([queue EXCEPT ![side][p] = RemoveAt(@, i)],
                [total EXCEPT ![side][p] = (@ - queue[side][p][i].qty) % QtyWrap],
                live - 1, map,
                [cmd |-> "replace", id |-> c.id, side |-> side, bound |-> TRUE,
                 price |-> c.price, tif |-> queue[side][p][i].tif, qty |-> c.qty],
                seq, sink)
    BY <1>1, <1>2, <2>2, NowIs DEF AfterReplace
  <2>4. /\ live' = live - 1
        /\ queue' = [queue EXCEPT ![side][p] = RemoveAt(@, i)]
        /\ total' = [total EXCEPT ![side][p] = (@ - queue[side][p][i].qty) % QtyWrap]
    BY <2>1 DEF Unlink
  <2>5. map' = map /\ seq' = seq /\ sink' = sink
    BY <1>4 DEF ReplaceAndCross
  <2>. QED  BY <2>1, <2>3, <2>4, <2>5 DEF Now
<1>. QED  BY <1>3, <1>4

LEMMA CommandIs ==
  ASSUME BookInv, NEW c \in Parsed, Handle(c)
  PROVE  Now' = AfterCommand(Now, c)
<1>1. c.cmd = "new" => c \in NewCommand
  BY DEF Parsed, AnyReplace, Unparsable
<1>2. CASE c.cmd = "new" /\ (Reject(c.id, NewRejection(c)) \/ New(c))
  <2>1. c \in NewCommand /\ NewReason(Now, c) = NewRejection(c)
    BY <1>1, <1>2, ReasonsAre
  <2>2. Reject(c.id, NewRejection(c)) => Now' = AfterNew(Now, c)
    BY <2>1, RejectIs DEF AfterNew, Reject
  <2>. QED  BY <1>2, <2>1, <2>2, NewIs DEF AfterCommand
<1>3. CASE c.cmd = "cancel" /\ (Reject(c.id, CancelRejection(c)) \/ Cancel(c))
  <2>1. CancelReason(Now, c) = CancelRejection(c)
    BY ReasonsAre
  <2>2. Reject(c.id, CancelRejection(c)) => Now' = AfterCancel(Now, c)
    BY <2>1, RejectIs DEF AfterCancel, Reject
  <2>. QED  BY <1>3, <2>2, CancelIs DEF AfterCommand
<1>4. CASE /\ c.cmd = "replace"
           /\ Reject(c.id, ReplaceRejection(c)) \/ ReplaceInPlace(c) \/ ReplaceAndCross(c)
  <2>1. ReplaceReason(Now, c) = ReplaceRejection(c)
    BY ReasonsAre
  <2>2. Reject(c.id, ReplaceRejection(c)) => Now' = AfterReplace(Now, c)
    BY <2>1, RejectIs DEF AfterReplace, Reject
  <2>. QED  BY <1>4, <2>2, ReplaceIs DEF AfterCommand
<1>. QED  BY <1>2, <1>3, <1>4 DEF Handle

\* The best price is one price.
LEMMA TradesAtOne ==
  ASSUME NEW p \in Price, Trades(Now, p)
  PROVE  (CHOOSE r \in Price : Trades(Now, r)) = p
<1>. HIDE DEF Now
<1>1. \A r \in Price : Trades(Now, r) => r = p
  <2>. SUFFICES ASSUME NEW r \in Price, Trades(Now, r)
                PROVE  r = p
    OBVIOUS
  <2>1. PICK opp : opp = Opposite(Now.taker.side)
    OBVIOUS
  <2>2. ~Better(opp, r, p) /\ ~Better(opp, p, r)
    BY <2>1 DEF Trades
  <2>3. p \in Int /\ r \in Int
    BY PriceAssumption DEF Price
  <2>. QED  BY <2>2, <2>3 DEF Better
<1>. QED  BY <1>1

LEMMA FillIs ==
  ASSUME NEW p \in Price, Fill(p)
  PROVE  Now' = AfterStep(Now)
<1>. DEFINE opp   == Opposite(taker.side)
            maker == Head(queue[opp][p])
            q     == MinQty(taker.qty, maker.qty)
            trade == Trade(maker.id, taker.id, p, q)
            t     == [total EXCEPT ![opp][p] = (@ - q) % QtyWrap]
            k     == [taker EXCEPT !.qty = @ - q]
<1>1. /\ taker.qty > 0 /\ IsBest(opp, p) /\ Acceptable(p) /\ TakeFront(opp, p, q) /\ taker' = k
      /\ IF maker.qty = q
         THEN map' = [id \in DOMAIN map \ {maker.id} |-> map[id]]
                /\ EmitBoth(trade, Closed(maker.id, "filled"))
         ELSE map' = map /\ Emit(trade)
  BY DEF Fill, Unfilled
<1>2. Trades(Now, p)
  BY <1>1, NowIs DEF Trades, IsBest, Occupied, Acceptable
<1>3. AfterStep(Now) = AfterFill(Now, p)
  <2>1. Now.taker.qty # 0
    BY <1>1, NowIs
  <2>. HIDE DEF Now
  <2>. QED  BY <1>2, <2>1, TradesAtOne DEF AfterStep
<1>4. AfterFill(Now, p) =
        IF maker.qty = q
        THEN State([queue EXCEPT ![opp][p] = Tail(@)], t, live - 1, Without(map, maker.id), k,
                   NextSeq(NextSeq(seq)),
                   OnEvent(OnEvent(sink, NextSeq(seq), trade), NextSeq(NextSeq(seq)),
                           Closed(maker.id, "filled")))
        ELSE State([queue EXCEPT ![opp][p][1].qty = @ - q], t, live, map, k, NextSeq(seq),
                   OnEvent(sink, NextSeq(seq), trade))
  BY NowIs DEF AfterFill, Said, SaidBoth
<1>5. /\ total' = t
      /\ live' = IF maker.qty = q THEN live - 1 ELSE live
      /\ queue' = IF maker.qty = q THEN [queue EXCEPT ![opp][p] = Tail(@)]
                                   ELSE [queue EXCEPT ![opp][p][1].qty = @ - q]
  BY <1>1 DEF TakeFront
<1>6. IF maker.qty = q
      THEN /\ map' = Without(map, maker.id) /\ seq' = NextSeq(NextSeq(seq))
           /\ sink' = OnEvent(OnEvent(sink, NextSeq(seq), trade), NextSeq(NextSeq(seq)),
                              Closed(maker.id, "filled"))
      ELSE map' = map /\ seq' = NextSeq(seq) /\ sink' = OnEvent(sink, NextSeq(seq), trade)
  BY <1>1 DEF Emit, EmitBoth, Without
<1>. HIDE DEF opp, maker, q, trade, t, k
<1>7. CASE maker.qty = q
  BY <1>1, <1>3, <1>4, <1>5, <1>6, <1>7 DEF Now
<1>8. CASE maker.qty # q
  BY <1>1, <1>3, <1>4, <1>5, <1>6, <1>8 DEF Now
<1>. QED  BY <1>7, <1>8

\* With nothing to trade with.
LEMMA NoTrade ==
  ASSUME Exhausted
  PROVE  Now.taker.qty # 0 /\ ~\E p \in Price : Trades(Now, p)
<1>1. taker.qty > 0 /\ \A p \in Occupied(Opposite(taker.side)) : ~Acceptable(p)
  BY DEF Exhausted
<1>2. \A p \in Price : Trades(Now, p) => p \in Occupied(Opposite(taker.side)) /\ Acceptable(p)
  BY NowIs DEF Trades, Occupied, Acceptable
<1>. QED  BY <1>1, <1>2, NowIs

LEMMA RestIs ==
  ASSUME RestRemainder
  PROVE  Now' = AfterStep(Now)
<1>. DEFINE side == taker.side
            p    == taker.price
            e    == IF taker.cmd = "new" THEN Accepted(taker.id, taker.qty)
                                         ELSE Replaced(taker.id, taker.price, taker.qty)
<1>1. /\ Exhausted /\ RestsRemainder /\ taker' = Idle
      /\ Push(side, p, [id |-> taker.id, qty |-> taker.qty, tif |-> taker.tif])
      /\ map' = EntryWritten /\ Emit(e)
  BY DEF RestRemainder
<1>2. AfterStep(Now) = AfterRest(Now)
  <2>1. Now.taker.cmd = "replace" \/ (Now.taker.bound /\ Now.taker.tif \in {"gtc", "post_only"})
    BY <1>1, NowIs DEF RestsRemainder
  <2>. HIDE DEF Now
  <2>. QED  BY <1>1, <2>1, NoTrade DEF AfterStep
<1>3. AfterRest(Now) =
        State([queue EXCEPT ![side][p] =
                 Append(@, [id |-> taker.id, qty |-> taker.qty, tif |-> taker.tif])],
              [total EXCEPT ![side][p] = (@ + taker.qty) % QtyWrap], live + 1, EntryWritten, Idle,
              NextSeq(seq), OnEvent(sink, NextSeq(seq), e))
  BY NowIs DEF AfterRest, Said, EntryWritten
<1>4. /\ live' = live + 1
      /\ queue' = [queue EXCEPT ![side][p] =
                     Append(@, [id |-> taker.id, qty |-> taker.qty, tif |-> taker.tif])]
      /\ total' = [total EXCEPT ![side][p] = (@ + taker.qty) % QtyWrap]
  BY <1>1 DEF Push
<1>5. seq' = NextSeq(seq) /\ sink' = OnEvent(sink, NextSeq(seq), e)
  BY <1>1 DEF Emit
<1>. HIDE DEF side, p, e
<1>. QED  BY <1>1, <1>2, <1>3, <1>4, <1>5 DEF Now

LEMMA ContinueIs ==
  ASSUME Continue
  PROVE  Now' = AfterStep(Now) /\ taker # Idle
<1>1. taker # Idle
  BY DEF Continue, Fill, CloseFilled, RestRemainder, Expire, Exhausted, Working
<1>2. CASE \E p \in Price : Fill(p)
  BY <1>1, <1>2, FillIs
<1>3. CASE CloseFilled
  <2>1. /\ taker.qty = 0 /\ UNCHANGED <<queue, total, live>> /\ map' = Without(map, taker.id)
        /\ taker' = Idle /\ seq' = NextSeq(seq)
        /\ sink' = OnEvent(sink, NextSeq(seq), Closed(taker.id, "filled"))
    BY <1>3 DEF CloseFilled, Emit, Without
  <2>2. AfterStep(Now) =
          State(queue, total, live, Without(map, taker.id), Idle, NextSeq(seq),
                OnEvent(sink, NextSeq(seq), Closed(taker.id, "filled")))
    BY <2>1, NowIs DEF AfterStep, Said
  <2>. QED  BY <1>1, <2>1, <2>2 DEF Now
<1>4. CASE RestRemainder
  BY <1>1, <1>4, RestIs
<1>5. CASE Expire
  <2>1. /\ Exhausted /\ ~RestsRemainder /\ UNCHANGED <<queue, total, live, map>>
        /\ taker' = Idle /\ seq' = NextSeq(seq)
        /\ sink' = OnEvent(sink, NextSeq(seq), Closed(taker.id, "expired"))
    BY <1>5 DEF Expire, Emit
  <2>2. AfterStep(Now) =
          Said(Now.queue, Now.total, Now.live, Now.map, Idle, Now, Closed(Now.taker.id, "expired"))
    <3>1. ~(Now.taker.cmd = "replace" \/ (Now.taker.bound /\ Now.taker.tif \in {"gtc", "post_only"}))
      BY <2>1, NowIs DEF RestsRemainder
    <3>. HIDE DEF Now
    <3>. QED  BY <2>1, <3>1, NoTrade DEF AfterStep
  <2>3. AfterStep(Now) =
          State(queue, total, live, map, Idle, NextSeq(seq),
                OnEvent(sink, NextSeq(seq), Closed(taker.id, "expired")))
    BY <2>2, NowIs DEF Said
  <2>. QED  BY <1>1, <2>1, <2>3 DEF Now
<1>. QED  BY <1>2, <1>3, <1>4, <1>5 DEF Continue

----------------------------------------------------------------------------
\* The stream of events

\* The sink of the book is the event journal.
JournalPlugged ==
  /\ Sink0 = JournalSink0
  /\ \A s, n, e : OnEvent(s, n, e) = JournalOnEvent(s, n, e)

Stream(s) == \E T : s \in Seq(T)

LEMMA StreamGrows ==
  ASSUME NEW s, Stream(s), NEW e
  PROVE  Stream(Append(s, e)) /\ IsPrefix(s, Append(s, e))
<1>1. PICK T : s \in Seq(T)
  BY DEF Stream
<1>2. Append(s, e) \in Seq(T \cup {e})
  <2>1. s \in Seq(T \cup {e})
    BY <1>1
  <2>. QED  BY <2>1
<1>3. /\ Len(s) \in Nat /\ Len(Append(s, e)) = Len(s) + 1
      /\ \A i \in 1 .. Len(s) : Append(s, e)[i] = s[i]
  BY <1>1
<1>4. SubSeq(s, 1, Len(s)) = SubSeq(Append(s, e), 1, Len(s))
  BY <1>3 DEF SubSeq
<1>. QED  BY <1>2, <1>3, <1>4 DEF IsPrefix, Stream

\* A prefix, place by place.
LEMMA PrefixIs ==
  ASSUME NEW s, NEW t, Stream(s), Stream(t)
  PROVE  IsPrefix(s, t) <=> Len(s) <= Len(t) /\ \A i \in 1 .. Len(s) : s[i] = t[i]
<1>1. Len(s) \in Nat /\ Len(t) \in Nat
  BY DEF Stream
<1>2. SubSeq(s, 1, Len(s)) = [i \in 1 .. Len(s) |-> s[i]]
      /\ SubSeq(t, 1, Len(s)) = [i \in 1 .. Len(s) |-> t[i]]
  BY <1>1 DEF SubSeq
<1>. QED  BY <1>2 DEF IsPrefix

LEMMA PrefixOrder ==
  /\ \A s : Stream(s) => IsPrefix(s, s)
  /\ \A s, t, u : Stream(s) /\ Stream(t) /\ Stream(u) /\ IsPrefix(s, t) /\ IsPrefix(t, u)
                    => IsPrefix(s, u)
<1>1. ASSUME NEW s, Stream(s) PROVE IsPrefix(s, s)
  <2>1. Len(s) \in Nat
    BY <1>1 DEF Stream
  <2>. QED  BY <2>1 DEF IsPrefix
<1>2. ASSUME NEW s, NEW t, NEW u, Stream(s), Stream(t), Stream(u), IsPrefix(s, t), IsPrefix(t, u)
      PROVE  IsPrefix(s, u)
  <2>1. Len(s) \in Nat /\ Len(t) \in Nat /\ Len(u) \in Nat
    BY <1>2 DEF Stream
  <2>2. Len(s) <= Len(t) /\ \A i \in 1 .. Len(s) : s[i] = t[i]
    BY <1>2, PrefixIs
  <2>3. Len(t) <= Len(u) /\ \A i \in 1 .. Len(t) : t[i] = u[i]
    BY <1>2, PrefixIs
  <2>4. Len(s) <= Len(u) /\ \A i \in 1 .. Len(s) : s[i] = u[i]
    BY <2>1, <2>2, <2>3
  <2>. QED  BY <1>2, <2>4, PrefixIs
<1>. QED  BY <1>1, <1>2

\* Every step publishes no event, one or two.
LEMMA Publishes ==
  ASSUME NEW c, Handle(c) \/ Continue
  PROVE  \/ sink' = sink
         \/ \E e : sink' = OnEvent(sink, NextSeq(seq), e)
         \/ \E e, f : sink' = OnEvent(OnEvent(sink, NextSeq(seq), e), NextSeq(NextSeq(seq)), f)
BY DEF Handle, Continue, Reject, New, Cancel, ReplaceInPlace, ReplaceAndCross, Fill, CloseFilled,
       RestRemainder, Expire, Emit, EmitBoth

LEMMA StreamFollows ==
  ASSUME JournalPlugged, Stream(sink), NEW c, Handle(c) \/ Continue
  PROVE  Stream(sink') /\ IsPrefix(sink, sink')
<1>1. CASE sink' = sink
  BY <1>1, PrefixOrder
<1>2. CASE \E e : sink' = OnEvent(sink, NextSeq(seq), e)
  BY <1>2, StreamGrows DEF JournalPlugged, JournalOnEvent
<1>3. CASE \E e, f : sink' = OnEvent(OnEvent(sink, NextSeq(seq), e), NextSeq(NextSeq(seq)), f)
  <2>1. PICK e, f : sink' = Append(Append(sink, e), f)
    BY <1>3 DEF JournalPlugged, JournalOnEvent
  <2>2. Stream(Append(sink, e)) /\ IsPrefix(sink, Append(sink, e))
    BY StreamGrows
  <2>3. Stream(sink') /\ IsPrefix(Append(sink, e), sink')
    BY <2>1, <2>2, StreamGrows
  <2>. QED  BY <2>2, <2>3, PrefixOrder
<1>. QED  BY <1>1, <1>2, <1>3, Publishes

----------------------------------------------------------------------------
\* One run over the journal

\* The book and its place in the journal; the writer's next move, if it has
\* one.
Here == [book |-> Now, pos |-> pos]

MayMove(x, records) == x.book.taker # Idle \/ x.pos < Len(records)

Moved(x, records) ==
  IF x.book.taker # Idle THEN [book |-> AfterStep(x.book), pos |-> x.pos]
  ELSE [book |-> AfterCommand(x.book, records[x.pos + 1]), pos |-> x.pos + 1]

Blank == [book |-> State([side \in Side |-> [p \in Price |-> << >>]],
                         [side \in Side |-> [p \in Price |-> 0]],
                         0, << >>, Idle, 0, JournalSink0),
          pos |-> 0]

\* x is of this form, and its parts are all there is to it.
Whole(x) ==
  x = [book |-> State(x.book.queue, x.book.total, x.book.live, x.book.map, x.book.taker,
                      x.book.seq, x.book.sink),
       pos |-> x.pos]

\* h is what n moves over these records make of a new book, and the stream
\* of each state begins with those of the states before it.
Run(h, n, records) ==
  /\ DOMAIN h = 0 .. n
  /\ h[0] = Blank
  /\ \A k \in 0 .. n : Whole(h[k]) /\ h[k].pos \in Nat /\ Stream(h[k].book.sink)
  /\ \A k \in 0 .. n - 1 : MayMove(h[k], records) /\ h[k + 1] = Moved(h[k], records)
  /\ \A i, j \in 0 .. n : i <= j => IsPrefix(h[i].book.sink, h[j].book.sink)

\* The latest snapshot was taken in state x, and gives it back.
TakenAt(x) ==
  /\ x.book.taker = Idle
  /\ Restored(snap.orders, snap.seq) =
       [queue |-> x.book.queue, total |-> x.book.total, live |-> x.book.live,
        map |-> x.book.map, seq |-> x.book.seq]
  /\ snap.at = x.pos
  /\ snap.events = x.book.sink

\* There is one run over the journal, as long as it takes, such that all that
\* is there is a part of it: the book at work, which is at its end unless a
\* crash threw it back, the snapshot, and the stream a crash interrupted.
OnRun(h, n) ==
  /\ Run(h, n, journal)
  /\ \E i \in 0 .. n : Here = h[i] /\ (mode = "up" => i = n)
  /\ \E i \in 0 .. n : TakenAt(h[i])
  /\ \E i \in 0 .. n : before = h[i].book.sink

OneRun == \E n \in Nat : \E h : OnRun(h, n)

LEMMA HereIs ==
  Here.book = Now /\ Here.pos = pos /\ Here.book.taker = taker /\ Here.book.sink = sink
BY NowIs DEF Here

LEMMA HereWhole == Whole(Here) /\ Whole(Here)'
BY DEF Whole, Here, Now, State

\* The step taken is the move the state determines.
LEMMA MoveIs ==
  ASSUME RecoveryInv, Apply \/ Proceed
  PROVE  MayMove(Here, journal) /\ Here' = Moved(Here, journal)
<1>1. CASE Apply
  <2>1. /\ pos < Len(journal) /\ Handle(journal[pos + 1]) /\ pos' = pos + 1
        /\ pos + 1 \in 1 .. Len(journal)
    BY <1>1 DEF Apply, RecoveryInv
  <2>2. journal[pos + 1] \in Parsed
    BY <2>1 DEF RecoveryInv
  <2>3. Now' = AfterCommand(Now, journal[pos + 1])
    BY <2>1, <2>2, CommandIs DEF RecoveryInv
  <2>4. taker = Idle
    BY <2>1 DEF Handle, Reject, New, Cancel, ReplaceInPlace, ReplaceAndCross
  <2>5. MayMove(Here, journal)
    BY <2>1, HereIs DEF MayMove
  <2>6. Moved(Here, journal) = [book |-> AfterCommand(Now, journal[pos + 1]), pos |-> pos + 1]
    BY <2>4, HereIs DEF Moved
  <2>. QED  BY <2>1, <2>3, <2>5, <2>6 DEF Here
<1>2. CASE Proceed
  <2>1. Continue /\ pos' = pos
    BY <1>2 DEF Proceed
  <2>2. Now' = AfterStep(Now) /\ taker # Idle
    BY <2>1, ContinueIs
  <2>3. MayMove(Here, journal)
    BY <2>2, HereIs DEF MayMove
  <2>4. Moved(Here, journal) = [book |-> AfterStep(Now), pos |-> pos]
    BY <2>2, HereIs DEF Moved
  <2>. QED  BY <2>1, <2>2, <2>3, <2>4 DEF Here
<1>. QED  BY <1>1, <1>2

\* A new book is at the beginning of every run.
LEMMA BlankIs ==
  ASSUME Sink0 = JournalSink0
  PROVE  /\ Init /\ pos = 0 => Here = Blank
         /\ LoseBook => Here' = Blank
<1>1. Init /\ pos = 0 => Here = Blank
  BY DEF Init, QueueInit, Here, Now, Blank
<1>2. LoseBook => Here' = Blank
  <2>. SUFFICES ASSUME LoseBook PROVE Here' = Blank
    OBVIOUS
  <2>1. /\ queue' = [side \in Side |-> [p \in Price |-> << >>]]
        /\ total' = [side \in Side |-> [p \in Price |-> 0]]
        /\ live' = 0 /\ map' = << >> /\ seq' = 0
    BY NothingRestored DEF LoseBook, Load
  <2>2. taker' = Idle /\ sink' = JournalSink0 /\ pos' = 0
    BY DEF LoseBook
  <2>. QED  BY <2>1, <2>2 DEF Here, Now, Blank
<1>. QED  BY <1>1, <1>2

\* More records do not change the moves that were made.
LEMMA RunStays ==
  ASSUME NEW h, NEW n \in Nat, NEW T, NEW records \in Seq(T), NEW c, Run(h, n, records)
  PROVE  Run(h, n, Append(records, c))
<1>. DEFINE more == Append(records, c)
<1>1. /\ Len(records) \in Nat /\ Len(more) = Len(records) + 1
      /\ \A i \in 1 .. Len(records) : more[i] = records[i]
  OBVIOUS
<1>. HIDE DEF more
<1>2. ASSUME NEW k \in 0 .. n - 1
      PROVE  MayMove(h[k], more) /\ h[k + 1] = Moved(h[k], more)
  <2>1. h[k].pos \in Nat /\ MayMove(h[k], records) /\ h[k + 1] = Moved(h[k], records)
    BY DEF Run
  <2>2. MayMove(h[k], more)
    BY <1>1, <2>1 DEF MayMove
  <2>3. h[k].book.taker = Idle => more[h[k].pos + 1] = records[h[k].pos + 1]
    <3>1. h[k].book.taker = Idle => h[k].pos + 1 \in 1 .. Len(records)
      BY <1>1, <2>1 DEF MayMove
    <3>. QED  BY <1>1, <3>1
  <2>4. Moved(h[k], more) = Moved(h[k], records)
    BY <2>3 DEF Moved
  <2>. QED  BY <2>1, <2>2, <2>4
<1>. QED  BY <1>2 DEF Run, more

\* A run goes on with a move at its end.
LEMMA RunGrows ==
  ASSUME NEW h, NEW n \in Nat, NEW records, Run(h, n, records), MayMove(h[n], records),
         NEW x, x = Moved(h[n], records), Whole(x), x.pos \in Nat, Stream(x.book.sink),
         IsPrefix(h[n].book.sink, x.book.sink)
  PROVE  \E g : /\ Run(g, n + 1, records) /\ g[n + 1] = x
                /\ \A k \in 0 .. n : g[k] = h[k]
<1>1. PICK g : g = [k \in 0 .. n + 1 |-> IF k = n + 1 THEN x ELSE h[k]]
  OBVIOUS
<1>2. DOMAIN g = 0 .. n + 1 /\ g[n + 1] = x /\ \A k \in 0 .. n : k \in 0 .. n + 1 /\ g[k] = h[k]
  BY <1>1
<1>3. \A k \in 0 .. n + 1 : k \in 0 .. n \/ k = n + 1
  OBVIOUS
<1>4. g[0] = Blank
  BY <1>2 DEF Run
<1>5. \A k \in 0 .. n + 1 : Whole(g[k]) /\ g[k].pos \in Nat /\ Stream(g[k].book.sink)
  BY <1>2, <1>3 DEF Run
<1>6. ASSUME NEW k \in 0 .. (n + 1) - 1
      PROVE  MayMove(g[k], records) /\ g[k + 1] = Moved(g[k], records)
  <2>1. k \in 0 .. n
    OBVIOUS
  <2>2. CASE k = n
    BY <1>2, <2>1, <2>2
  <2>3. CASE k # n
    <3>1. k \in 0 .. n - 1 /\ k + 1 \in 0 .. n
      BY <2>1, <2>3
    <3>. QED  BY <1>2, <2>1, <3>1 DEF Run
  <2>. QED  BY <2>2, <2>3
<1>7. ASSUME NEW i \in 0 .. n + 1, NEW j \in 0 .. n + 1, i <= j
      PROVE  IsPrefix(g[i].book.sink, g[j].book.sink)
  <2>1. CASE i \in 0 .. n /\ j \in 0 .. n
    BY <1>2, <1>7, <2>1 DEF Run
  <2>2. CASE i \in 0 .. n /\ j = n + 1
    <3>1. IsPrefix(h[i].book.sink, h[n].book.sink)
          /\ Stream(h[i].book.sink) /\ Stream(h[n].book.sink)
      BY <2>2 DEF Run
    <3>2. IsPrefix(h[i].book.sink, x.book.sink)
      BY <3>1, PrefixOrder
    <3>. QED  BY <1>2, <2>2, <3>2
  <2>3. CASE i = n + 1 /\ j = n + 1
    BY <1>2, <2>3, PrefixOrder
  <2>. QED  BY <1>3, <1>7, <2>1, <2>2, <2>3
<1>8. Run(g, n + 1, records)
  BY <1>2, <1>4, <1>5, <1>6, <1>7 DEF Run
<1>. QED  BY <1>2, <1>8

\* The streams of a run are prefixes of each other.
LEMMA RunCompares ==
  ASSUME NEW h, NEW n \in Nat, NEW records, Run(h, n, records),
         NEW i \in 0 .. n, NEW j \in 0 .. n
  PROVE  IsPrefix(h[i].book.sink, h[j].book.sink) \/ IsPrefix(h[j].book.sink, h[i].book.sink)
<1>1. i <= j \/ j <= i
  OBVIOUS
<1>. QED  BY <1>1 DEF Run

----------------------------------------------------------------------------
\* Recovery continues the run

LEMMA OneRunInit ==
  ASSUME JournalPlugged, RecoveryInit
  PROVE  OneRun
<1>1. Here = Blank
  BY BlankIs DEF JournalPlugged, RecoveryInit
<1>2. PICK h : h = [k \in 0 .. 0 |-> Blank]
  OBVIOUS
<1>3. /\ h[0] = Blank /\ Blank.pos = 0 /\ Blank.book.sink = << >> /\ Blank.book.taker = Idle
      /\ \A k \in 0 .. 0 : k = 0
      /\ Whole(Blank)
  BY <1>2 DEF Blank, State, JournalSink0, Whole
<1>4. Stream(<< >>)
  <2>1. << >> \in Seq({})
    OBVIOUS
  <2>. QED  BY <2>1 DEF Stream
<1>5. Run(h, 0, journal)
  BY <1>2, <1>3, <1>4, PrefixOrder DEF Run
<1>6. TakenAt(Blank)
  <2>1. snap.orders = << >> /\ snap.seq = 0 /\ snap.at = 0 /\ snap.events = JournalSink0
    BY DEF RecoveryInit, NoSnapshot
  <2>. QED  BY <2>1, NothingRestored DEF TakenAt, Blank, State
<1>7. before = Blank.book.sink
  BY <1>3 DEF RecoveryInit, JournalSink0
<1>. QED  BY <1>1, <1>3, <1>5, <1>6, <1>7 DEF OneRun, OnRun

\* A move of the writer: the next one of the run, or a new one at its end.
LEMMA OneRunMoves ==
  ASSUME JournalPlugged, RecoveryInv, OneRun, Apply \/ Proceed
  PROVE  OneRun'
<1>n. PICK n \in Nat : \E h : OnRun(h, n)
  BY DEF OneRun
<1>1. PICK h : OnRun(h, n)
  BY <1>n
<1>2. PICK i \in 0 .. n : Here = h[i] /\ (mode = "up" => i = n)
  BY <1>1 DEF OnRun
<1>3. Run(h, n, journal) /\ Stream(sink) /\ pos \in Nat
  BY <1>1, <1>2, HereIs DEF OnRun, Run
<1>4. MayMove(Here, journal) /\ Here' = Moved(Here, journal)
  BY MoveIs
<1>5. UNCHANGED <<journal, snap, before, mode>>
  BY DEF Apply, Proceed, diskVars
<1>6. (\E k \in 0 .. n : TakenAt(h[k])') /\ (\E k \in 0 .. n : before' = h[k].book.sink)
  BY <1>1, <1>5 DEF OnRun, TakenAt
<1>7. CASE i # n
  <2>1. i \in 0 .. n - 1 /\ i + 1 \in 0 .. n /\ mode # "up"
    BY <1>2, <1>7
  <2>2. Here' = h[i + 1]
    BY <1>2, <1>3, <1>4, <2>1 DEF Run
  <2>3. OnRun(h, n)'
    BY <1>3, <1>5, <1>6, <2>1, <2>2 DEF OnRun
  <2>. QED  BY <2>3 DEF OneRun
<1>8. CASE i = n
  <2>1. Stream(sink') /\ IsPrefix(sink, sink')
    BY <1>3, StreamFollows DEF Apply, Proceed
  <2>2. Here'.book.sink = sink' /\ Here'.pos = pos' /\ pos' \in Nat
    <3>1. Here'.book.sink = sink' /\ Here'.pos = pos'
      BY DEF Here, Now, State
    <3>. QED  BY <1>3, <3>1 DEF Apply, Proceed
  <2>3. MayMove(h[n], journal) /\ Here' = Moved(h[n], journal) /\ h[n].book.sink = sink
    BY <1>2, <1>4, <1>8, HereIs
  <2>4. PICK g : /\ Run(g, n + 1, journal) /\ g[n + 1] = Here'
                 /\ \A k \in 0 .. n : g[k] = h[k]
    BY <1>3, <2>1, <2>2, <2>3, HereWhole, RunGrows
  <2>5. \A k \in 0 .. n : k \in 0 .. n + 1 /\ g[k] = h[k]
    BY <2>4
  <2>6. (\E k \in 0 .. n + 1 : TakenAt(g[k])') /\ (\E k \in 0 .. n + 1 : before' = g[k].book.sink)
    BY <1>6, <2>5
  <2>7. n + 1 \in 0 .. n + 1 /\ n + 1 \in Nat
    OBVIOUS
  <2>8. OnRun(g, n + 1)'
    BY <1>5, <2>4, <2>6, <2>7 DEF OnRun
  <2>. QED  BY <2>7, <2>8 DEF OneRun
<1>. QED  BY <1>7, <1>8

\* A crash leaves the run as it was; the torn record may be one more.
LEMMA OneRunCrashes ==
  ASSUME JournalPlugged, OneRun, LoseBook, UNCHANGED snap,
         NEW n \in Nat, NEW h, OnRun(h, n), Run(h, n, journal')
  PROVE  OneRun'
<1>1. Here' = Blank /\ mode' = "down"
  BY BlankIs DEF JournalPlugged, LoseBook
<1>2. 0 \in 0 .. n /\ h[0] = Blank
  BY DEF Run
<1>3. \E k \in 0 .. n : TakenAt(h[k])'
  BY DEF OnRun, TakenAt
<1>4. \E k \in 0 .. n : sink = h[k].book.sink
  BY HereIs DEF OnRun
<1>5. \E k \in 0 .. n : before' = h[k].book.sink
  BY <1>4 DEF LoseBook, OnRun
<1>6. OnRun(h, n)'
  BY <1>1, <1>2, <1>3, <1>5 DEF OnRun
<1>. QED  BY <1>6 DEF OneRun

LEMMA OneRunNext ==
  ASSUME JournalPlugged, RecoveryInv, OneRun, [RecoveryNext]_allVars
  PROVE  OneRun'
<1>n. PICK n \in Nat : \E h : OnRun(h, n)
  BY DEF OneRun
<1>0. PICK h : OnRun(h, n)
  BY <1>n
<1>a. Run(h, n, journal) /\ journal \in Seq(Parsed)
  BY <1>0 DEF OnRun, RecoveryInv
<1>b. UNCHANGED <<bookVars, pos>> => Here' = Here /\ sink' = sink
  BY DEF Here, Now, bookVars
<1>c. UNCHANGED snap => \A x : TakenAt(x)' <=> TakenAt(x)
  BY DEF TakenAt
<1>1. ASSUME NEW c \in Client, Record(c)
      PROVE  OneRun'
  <2>1. UNCHANGED <<bookVars, pos>> /\ UNCHANGED <<mode, snap, before>>
        /\ journal' = Append(journal, c)
    BY <1>1 DEF Record
  <2>2. Run(h, n, journal')
    BY <1>a, <2>1, RunStays
  <2>3. OnRun(h, n)'
    BY <1>0, <1>b, <1>c, <2>1, <2>2 DEF OnRun
  <2>. QED  BY <2>3 DEF OneRun
<1>2. CASE Apply \/ Proceed
  BY <1>2, OneRunMoves
<1>3. CASE WriteSnapshot
  <2>1. /\ UNCHANGED <<bookVars, pos>> /\ UNCHANGED <<mode, journal, before>> /\ taker = Idle
        /\ snap' = [orders |-> RestingOrders(queue), seq |-> seq, at |-> pos, events |-> sink]
    BY <1>3 DEF WriteSnapshot, AllApplied
  <2>2. /\ snap'.orders = RestingOrders(queue) /\ snap'.seq = seq /\ snap'.at = pos
        /\ snap'.events = sink
    BY <2>1
  <2>3. Restored(snap'.orders, snap'.seq) = BookNow
    BY <2>1, <2>2, RoundTrip DEF RecoveryInv
  <2>4. TakenAt(Here)'
    <3>1. /\ Here'.book.queue = queue /\ Here'.book.total = total /\ Here'.book.live = live
          /\ Here'.book.map = map /\ Here'.book.seq = seq /\ Here'.book.taker = taker
          /\ Here'.book.sink = sink /\ Here'.pos = pos
      BY <1>b, <2>1, HereIs, NowIs
    <3>. QED  BY <2>1, <2>2, <2>3, <3>1 DEF TakenAt, BookNow
  <2>5. \E i \in 0 .. n : Here' = h[i] /\ (mode' = "up" => i = n)
    BY <1>0, <1>b, <2>1 DEF OnRun
  <2>6. \E i \in 0 .. n : TakenAt(h[i])'
    BY <2>4, <2>5
  <2>7. OnRun(h, n)'
    BY <1>0, <2>1, <2>5, <2>6 DEF OnRun
  <2>. QED  BY <2>7 DEF OneRun
<1>4. CASE Crash
  <2>1. LoseBook /\ UNCHANGED snap /\ journal' = journal
    BY <1>4 DEF Crash
  <2>. QED  BY <1>0, <1>a, <2>1, OneRunCrashes
<1>5. ASSUME NEW c \in Client, CrashInRecord(c)
      PROVE  OneRun'
  <2>1. PICK r \in Torn(c) : journal' = Append(journal, r)
    BY <1>5 DEF CrashInRecord
  <2>2. Run(h, n, journal')
    BY <1>a, <2>1, RunStays
  <2>. QED  BY <1>0, <1>5, <2>2, OneRunCrashes DEF CrashInRecord
<1>6. CASE Recover
  <2>1. /\ Load(Restored(snap.orders, snap.seq)) /\ UNCHANGED <<taker, journal, snap, before>>
        /\ mode = "down" /\ mode' = "replay" /\ pos' = snap.at /\ sink' = snap.events
    BY <1>6 DEF Recover, diskVars
  <2>2. PICK i \in 0 .. n : TakenAt(h[i])
    BY <1>0 DEF OnRun
  <2>3. taker' = Idle
    BY <2>1 DEF RecoveryInv
  <2>4. /\ queue' = h[i].book.queue /\ total' = h[i].book.total /\ live' = h[i].book.live
        /\ map' = h[i].book.map /\ seq' = h[i].book.seq
    BY <2>1, <2>2 DEF Load, TakenAt
  <2>5. Here' = h[i]
    <3>1. taker' = h[i].book.taker /\ sink' = h[i].book.sink /\ pos' = h[i].pos
      BY <2>1, <2>2, <2>3 DEF TakenAt
    <3>2. h[i] = [book |-> State(queue', total', live', map', taker', seq', sink'), pos |-> pos']
      BY <1>a, <2>4, <3>1 DEF Run, Whole
    <3>. QED  BY <3>2 DEF Here, Now, State
  <2>6. OnRun(h, n)'
    BY <1>0, <1>c, <2>1, <2>5 DEF OnRun
  <2>. QED  BY <2>6 DEF OneRun
<1>7. CASE ReplayFails
  <2>1. /\ UNCHANGED <<bookVars, pos>> /\ UNCHANGED <<journal, snap, before>> /\ mode' = "failed"
    BY <1>7 DEF ReplayFails, diskVars
  <2>2. OnRun(h, n)'
    BY <1>0, <1>b, <1>c, <2>1 DEF OnRun
  <2>. QED  BY <2>2 DEF OneRun
<1>8. CASE ReplayDone
  <2>1. /\ UNCHANGED <<bookVars, pos>> /\ UNCHANGED <<journal, snap, before>>
        /\ taker = Idle /\ pos = Len(journal)
    BY <1>8 DEF ReplayDone, AllApplied, diskVars
  <2>2. PICK i \in 0 .. n : Here = h[i]
    BY <1>0 DEF OnRun
  <2>3. ~MayMove(h[i], journal)
    BY <1>a, <2>1, <2>2, HereIs DEF MayMove
  <2>4. i = n
    <3>1. i \notin 0 .. n - 1
      BY <1>a, <2>3 DEF Run
    <3>. QED  BY <3>1
  <2>5. OnRun(h, n)'
    BY <1>0, <1>b, <1>c, <2>1, <2>2, <2>4 DEF OnRun
  <2>. QED  BY <2>5 DEF OneRun
<1>9. CASE UNCHANGED allVars
  <2>1. UNCHANGED <<bookVars, pos>> /\ UNCHANGED <<journal, snap, before, mode>>
    BY <1>9 DEF allVars, diskVars
  <2>2. OnRun(h, n)'
    BY <1>0, <1>b, <1>c, <2>1 DEF OnRun
  <2>. QED  BY <2>2 DEF OneRun
<1>. QED  BY <1>1, <1>2, <1>3, <1>4, <1>5, <1>6, <1>7, <1>8, <1>9 DEF RecoveryNext

\* "A correct recovery produces a byte-identical event journal": wherever the
\* crash fell and however often, a recovery publishes the stream it
\* interrupted and goes on after it.
THEOREM RecoveryContinuesStream ==
  ASSUME JournalPlugged
  PROVE  RecoverySpec => []StreamContinues
<1>1. OneRun => StreamContinues
  <2>. SUFFICES ASSUME OneRun PROVE StreamContinues
    OBVIOUS
  <2>n. PICK n \in Nat : \E h : OnRun(h, n)
    BY DEF OneRun
  <2>1. PICK h : OnRun(h, n)
    BY <2>n
  <2>2. PICK i \in 0 .. n : Here = h[i] /\ (mode = "up" => i = n)
    BY <2>1 DEF OnRun
  <2>3. PICK j \in 0 .. n : before = h[j].book.sink
    BY <2>1 DEF OnRun
  <2>4. sink = h[i].book.sink /\ Run(h, n, journal)
    BY <2>1, <2>2, HereIs DEF OnRun
  <2>5. IsPrefix(sink, before) \/ IsPrefix(before, sink)
    BY <2>3, <2>4, RunCompares
  <2>6. mode = "up" => IsPrefix(before, sink)
    BY <2>2, <2>3, <2>4 DEF Run
  <2>. QED  BY <2>5, <2>6 DEF StreamContinues
<1>2. RecoveryInit => OneRun
  BY OneRunInit
<1>3. RecoveryInv /\ OneRun /\ [RecoveryNext]_allVars => OneRun'
  BY OneRunNext
<1>. QED  BY <1>1, <1>2, <1>3, RecoveryInvInit, RecoveryInvNext, PTL DEF RecoverySpec
=============================================================================
