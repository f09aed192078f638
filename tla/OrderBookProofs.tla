-------------------------- MODULE OrderBookProofs --------------------------
(***************************************************************************)
(* Theorems about the order book for all values of its constants and every *)
(* sink: type correctness, the book is never crossed, the order map finds  *)
(* every resting order, capacity holds, and post-only orders never take.   *)
(*                                                                         *)
(* The five are proved together, as parts of one inductive invariant: that *)
(* live never goes negative needs the map to agree with the queues, that a *)
(* remainder may rest needs what the validation let through.               *)
(*                                                                         *)
(* On top of it the quantities, for every width of the integers that hold  *)
(* them: a level's total is the sum of its orders, and fill-or-kill, which *)
(* is decided by those totals before anything is matched, never ends half  *)
(* filled and is refused only with reason.                                 *)
(*                                                                         *)
(* Last a book that is written out and restored, with the same             *)
(* configuration: restore accepts it and gives the same queues back.       *)
(***************************************************************************)
EXTENDS Snapshots, BasicFacts

----------------------------------------------------------------------------
\* Sequences of orders

\* Removing an order removes its id, and only that, from the ids of a queue.
LEMMA RemoveAtIds ==
  ASSUME NEW q \in Seq(Order), NoIdTwice(q), NEW i \in DOMAIN q
  PROVE  /\ RemoveAt(q, i) \in Seq(Order)
         /\ NoIdTwice(RemoveAt(q, i))
         /\ IdsOf(RemoveAt(q, i)) = IdsOf(q) \ {q[i].id}
         /\ RemoveAt(q, i) # << >> => q # << >>
<1>. DEFINE r == RemoveAt(q, i)
<1>0. i \in 1 .. Len(q) /\ DOMAIN q = 1 .. Len(q)
  OBVIOUS
<1>1. r \in Seq(Order) /\ Len(r) = Len(q) - 1
      /\ \A j \in 1 .. Len(q) - 1 : r[j] = IF j < i THEN q[j] ELSE q[j + 1]
  BY <1>0, RemoveAtElements
<1>. HIDE DEF r
<1>2. DOMAIN r = 1 .. Len(q) - 1
  BY <1>1
<1>3. NoIdTwice(r)
  <2>. SUFFICES ASSUME NEW j \in DOMAIN r, NEW k \in DOMAIN r, r[j].id = r[k].id
                PROVE  j = k
    BY DEF NoIdTwice
  <2>. DEFINE old(n) == IF n < i THEN n ELSE n + 1
  <2>1. old(j) \in DOMAIN q /\ r[j] = q[old(j)] /\ old(k) \in DOMAIN q /\ r[k] = q[old(k)]
    BY <1>0, <1>1, <1>2
  <2>2. old(j) = old(k)
    BY <2>1 DEF NoIdTwice
  <2>. QED  BY <2>2, <1>0, <1>2
<1>4. IdsOf(r) \subseteq IdsOf(q) \ {q[i].id}
  <2>. SUFFICES ASSUME NEW j \in DOMAIN r
                PROVE  r[j].id \in IdsOf(q) \ {q[i].id}
    BY DEF IdsOf
  <2>1. PICK k \in DOMAIN q : k # i /\ r[j] = q[k]
    BY <1>0, <1>1, <1>2
  <2>. QED  BY <2>1 DEF IdsOf, NoIdTwice
<1>5. IdsOf(q) \ {q[i].id} \subseteq IdsOf(r)
  <2>. SUFFICES ASSUME NEW k \in DOMAIN q, q[k].id # q[i].id
                PROVE  q[k].id \in IdsOf(r)
    BY DEF IdsOf
  <2>1. PICK j \in DOMAIN r : r[j] = q[k]
    <3>1. CASE k < i
      BY <3>1, <1>0, <1>1, <1>2, SMTT(30)
    <3>2. CASE k > i
      <4>1. k - 1 \in DOMAIN r /\ r[k - 1] = q[k]
        BY <3>2, <1>0, <1>1, <1>2
      <4>. QED  BY <4>1
    <3>. QED  BY <3>1, <3>2, <1>0
  <2>. QED  BY <2>1 DEF IdsOf
<1>6. r # << >> => q # << >>
  BY <1>0
<1>. QED  BY <1>1, <1>3, <1>4, <1>5, <1>6 DEF r

\* The same for the order in front.
LEMMA TailIds ==
  ASSUME NEW q \in Seq(Order), NoIdTwice(q), q # << >>
  PROVE  /\ Tail(q) \in Seq(Order)
         /\ NoIdTwice(Tail(q))
         /\ IdsOf(Tail(q)) = IdsOf(q) \ {Head(q).id}
<1>1. Len(q) \in Nat \ {0} /\ DOMAIN q = 1 .. Len(q) /\ Head(q) = q[1]
  OBVIOUS
<1>2. Tail(q) \in Seq(Order) /\ DOMAIN Tail(q) = 1 .. Len(q) - 1
      /\ \A j \in 1 .. Len(q) - 1 : Tail(q)[j] = q[j + 1]
  OBVIOUS
<1>3. NoIdTwice(Tail(q))
  BY <1>1, <1>2 DEF NoIdTwice
<1>4. IdsOf(Tail(q)) \subseteq IdsOf(q) \ {Head(q).id}
  <2>. SUFFICES ASSUME NEW j \in DOMAIN Tail(q)
                PROVE  Tail(q)[j].id \in IdsOf(q) \ {q[1].id}
    BY <1>1 DEF IdsOf
  <2>1. j + 1 \in DOMAIN q /\ 1 \in DOMAIN q /\ j + 1 # 1 /\ Tail(q)[j] = q[j + 1]
    BY <1>1, <1>2
  <2>. QED  BY <2>1 DEF IdsOf, NoIdTwice
<1>5. IdsOf(q) \ {Head(q).id} \subseteq IdsOf(Tail(q))
  <2>. SUFFICES ASSUME NEW k \in DOMAIN q, q[k].id # q[1].id
                PROVE  q[k].id \in IdsOf(Tail(q))
    BY <1>1 DEF IdsOf
  <2>1. k - 1 \in DOMAIN Tail(q) /\ Tail(q)[k - 1] = q[k]
    BY <1>1, <1>2
  <2>. QED  BY <2>1 DEF IdsOf
<1>. QED  BY <1>2, <1>3, <1>4, <1>5

\* Appending an order with a new id adds that id.
LEMMA AppendIds ==
  ASSUME NEW q \in Seq(Order), NoIdTwice(q), NEW order \in Order, order.id \notin IdsOf(q)
  PROVE  /\ Append(q, order) \in Seq(Order)
         /\ Append(q, order) # << >>
         /\ NoIdTwice(Append(q, order))
         /\ IdsOf(Append(q, order)) = IdsOf(q) \cup {order.id}
<1>. DEFINE a == Append(q, order)
<1>1. a \in Seq(Order) /\ DOMAIN a = 1 .. Len(q) + 1 /\ DOMAIN q = 1 .. Len(q)
      /\ a[Len(q) + 1] = order /\ \A j \in 1 .. Len(q) : a[j] = q[j]
  OBVIOUS
<1>2. Len(q) \in Nat /\ Len(q) + 1 \in DOMAIN a
  BY <1>1
<1>. HIDE DEF a
<1>3. a # << >>
  BY <1>2
<1>4. NoIdTwice(a)
  BY <1>1, <1>2 DEF NoIdTwice, IdsOf
<1>5. IdsOf(a) = IdsOf(q) \cup {order.id}
  BY <1>1, <1>2 DEF IdsOf
<1>. QED  BY <1>1, <1>3, <1>4, <1>5 DEF a

\* Changing a quantity changes no id.
LEMMA SetQtyIds ==
  ASSUME NEW q \in Seq(Order), NoIdTwice(q), NEW i \in DOMAIN q, NEW n \in Qty \ {0}
  PROVE  /\ [q EXCEPT ![i].qty = n] \in Seq(Order)
         /\ NoIdTwice([q EXCEPT ![i].qty = n])
         /\ IdsOf([q EXCEPT ![i].qty = n]) = IdsOf(q)
         /\ q # << >>
<1>. DEFINE e == [q EXCEPT ![i].qty = n]
<1>0. q[i] \in Order
  OBVIOUS
<1>1. [q[i] EXCEPT !.qty = n] \in Order /\ [q[i] EXCEPT !.qty = n].id = q[i].id
  BY <1>0 DEF Order
<1>2. e \in Seq(Order) /\ DOMAIN e = DOMAIN q
      /\ e[i] = [q[i] EXCEPT !.qty = n] /\ \A j \in DOMAIN q \ {i} : e[j] = q[j]
  BY <1>0, <1>1
<1>3. q # << >>
  OBVIOUS
<1>. HIDE DEF e
<1>4. \A j \in DOMAIN q : e[j].id = q[j].id
  BY <1>1, <1>2
<1>5. NoIdTwice(e) /\ IdsOf(e) = IdsOf(q)
  BY <1>2, <1>4 DEF NoIdTwice, IdsOf
<1>. QED  BY <1>2, <1>3, <1>5 DEF e

----------------------------------------------------------------------------
\* What one operation on the queues changes

\* The part of the type invariant the queue operations are about.
QueuesOK ==
  /\ queue \in [Side -> [Price -> Seq(Order)]]
  /\ total \in [Side -> [Price -> Qty]]
  /\ \A side \in Side, p \in Price : NoIdTwice(queue[side][p])

\* A step after which one level holds ids and the others hold what they held.
IdsBecome(side, p, ids) ==
  \A s \in Side, r \in Price :
    IdsAt(s, r)' = IF s = side /\ r = p THEN ids ELSE IdsAt(s, r)

\* A step that brings no order to an empty level.
NoLevelAppears == \A side \in Side : Occupied(side)' \subseteq Occupied(side)

\* A step that brings an order to no empty level but this one.
OnlyLevelAppears(side, p) ==
  \A s \in Side : \A r \in Occupied(s)' : r \in Occupied(s) \/ (s = side /\ r = p)

LEMMA ModInQty == \A x \in Int : x % QtyWrap \in Qty
BY QtyAssumption DEF Qty

LEMMA ModInSeq == \A x \in Int : x % SeqWrap \in 0 .. SeqWrap - 1
BY SeqAssumption

\* Every operation replaces one queue by another and one total by a residue.
LEMMA LevelChanged ==
  ASSUME QueuesOK, NEW side \in Side, NEW p \in Price,
         NEW q \in Seq(Order), NoIdTwice(q), queue' = [queue EXCEPT ![side][p] = q],
         NEW x \in Int, total' = [total EXCEPT ![side][p] = x % QtyWrap]
  PROVE  /\ QueuesOK'
         /\ IdsBecome(side, p, IdsOf(q))
         /\ OnlyLevelAppears(side, p)
         /\ (q # << >> => queue[side][p] # << >>) => NoLevelAppears
<1>1. \A s \in Side, r \in Price :
        queue'[s][r] = IF s = side /\ r = p THEN q ELSE queue[s][r]
  BY DEF QueuesOK
<1>2. queue' \in [Side -> [Price -> Seq(Order)]]
  BY DEF QueuesOK
<1>3. total' \in [Side -> [Price -> Qty]]
  BY ModInQty DEF QueuesOK
<1>4. \A s \in Side, r \in Price : NoIdTwice(queue'[s][r])
  BY <1>1 DEF QueuesOK
<1>5. QueuesOK'
  BY <1>2, <1>3, <1>4 DEF QueuesOK
<1>6. IdsBecome(side, p, IdsOf(q))
  BY <1>1 DEF IdsBecome, IdsAt
<1>7. OnlyLevelAppears(side, p)
  BY <1>1 DEF Occupied, OnlyLevelAppears
<1>8. (q # << >> => queue[side][p] # << >>) => NoLevelAppears
  BY <1>1 DEF Occupied, NoLevelAppears
<1>. QED  BY <1>5, <1>6, <1>7, <1>8

LEMMA QueueTyped ==
  ASSUME QueuesOK, NEW side \in Side, NEW p \in Price
  PROVE  /\ queue[side][p] \in Seq(Order)
         /\ NoIdTwice(queue[side][p])
         /\ total[side][p] \in Int
         /\ \A i \in DOMAIN queue[side][p] :
              queue[side][p][i] \in Order /\ queue[side][p][i].qty \in Int
<1>1. queue[side][p] \in Seq(Order) /\ NoIdTwice(queue[side][p])
  BY DEF QueuesOK
<1>2. total[side][p] \in Int
  BY QtyAssumption DEF QueuesOK, Qty
<1>3. \A order \in Order : order.qty \in Int
  BY QtyAssumption DEF Order, Qty
<1>4. \A i \in DOMAIN queue[side][p] : queue[side][p][i] \in Order
  BY <1>1
<1>. QED  BY <1>1, <1>2, <1>3, <1>4

LEMMA UnlinkEffect ==
  ASSUME QueuesOK, NEW side \in Side, NEW p \in Price,
         NEW i \in DOMAIN queue[side][p], Unlink(side, p, i)
  PROVE  /\ QueuesOK'
         /\ IdsBecome(side, p, IdsAt(side, p) \ {queue[side][p][i].id})
         /\ NoLevelAppears
         /\ live' = live - 1
<1>. DEFINE q == queue[side][p]
            r == RemoveAt(q, i)
<1>1. q \in Seq(Order) /\ NoIdTwice(q) /\ total[side][p] \in Int /\ q[i].qty \in Int
  BY QueueTyped
<1>2. /\ r \in Seq(Order) /\ NoIdTwice(r) /\ IdsOf(r) = IdsOf(q) \ {q[i].id}
      /\ r # << >> => q # << >>
  BY <1>1, RemoveAtIds
<1>3. queue' = [queue EXCEPT ![side][p] = r]
  BY DEF Unlink
<1>4. total' = [total EXCEPT ![side][p] = (total[side][p] - q[i].qty) % QtyWrap]
  BY DEF Unlink
<1>5. total[side][p] - q[i].qty \in Int
  BY <1>1
<1>6. IdsAt(side, p) = IdsOf(q)
  BY DEF IdsAt
<1>7. live' = live - 1
  BY DEF Unlink
<1>. HIDE DEF q, r
<1>. QED  BY <1>2, <1>3, <1>4, <1>5, <1>6, <1>7, LevelChanged DEF q

LEMMA ReduceEffect ==
  ASSUME QueuesOK, NEW side \in Side, NEW p \in Price,
         NEW i \in DOMAIN queue[side][p], NEW n \in Qty \ {0}, Reduce(side, p, i, n)
  PROVE  /\ QueuesOK'
         /\ IdsBecome(side, p, IdsAt(side, p))
         /\ NoLevelAppears
         /\ live' = live
<1>. DEFINE q == queue[side][p]
            r == [q EXCEPT ![i].qty = n]
<1>1. q \in Seq(Order) /\ NoIdTwice(q) /\ total[side][p] \in Int /\ q[i].qty \in Int
  BY QueueTyped
<1>2. r \in Seq(Order) /\ NoIdTwice(r) /\ IdsOf(r) = IdsOf(q) /\ q # << >>
  BY <1>1, SetQtyIds
<1>3. queue' = [queue EXCEPT ![side][p] = r]
  BY DEF Reduce
<1>4. total' = [total EXCEPT ![side][p] = (total[side][p] - (q[i].qty - n)) % QtyWrap]
  BY DEF Reduce
<1>5. total[side][p] - (q[i].qty - n) \in Int
  BY <1>1 DEF Qty
<1>6. IdsAt(side, p) = IdsOf(q) /\ live' = live
  BY DEF IdsAt, Reduce
<1>. HIDE DEF q, r
<1>. QED  BY <1>2, <1>3, <1>4, <1>5, <1>6, LevelChanged DEF q

LEMMA TakeFrontEffect ==
  ASSUME QueuesOK, NEW side \in Side, NEW p \in Occupied(side),
         NEW n \in Qty \ {0}, n <= Head(queue[side][p]).qty, TakeFront(side, p, n)
  PROVE  /\ QueuesOK'
         /\ NoLevelAppears
         /\ IF Head(queue[side][p]).qty = n
            THEN /\ IdsBecome(side, p, IdsAt(side, p) \ {Head(queue[side][p]).id})
                 /\ live' = live - 1
            ELSE /\ IdsBecome(side, p, IdsAt(side, p))
                 /\ live' = live
<1>. DEFINE q == queue[side][p]
            t == Tail(q)
            r == [q EXCEPT ![1].qty = Head(q).qty - n]
<1>0. p \in Price /\ q # << >>
  BY DEF Occupied
<1>1. q \in Seq(Order) /\ NoIdTwice(q) /\ total[side][p] \in Int
  BY <1>0, QueueTyped
<1>2. 1 \in DOMAIN q /\ Head(q) = q[1] /\ Head(q) \in Order
  BY <1>0, <1>1
<1>3. Head(q).qty \in Qty \ {0} /\ n \in Int
  BY <1>2 DEF Order, Qty
<1>4. total' = [total EXCEPT ![side][p] = (total[side][p] - n) % QtyWrap]
  BY DEF TakeFront
<1>5. total[side][p] - n \in Int
  BY <1>1, <1>3
<1>6. IdsAt(side, p) = IdsOf(q)
  BY DEF IdsAt
<1>7. CASE Head(q).qty = n
  <2>1. queue' = [queue EXCEPT ![side][p] = t] /\ live' = live - 1
    BY <1>7 DEF TakeFront
  <2>2. t \in Seq(Order) /\ NoIdTwice(t) /\ IdsOf(t) = IdsOf(q) \ {Head(q).id}
    BY <1>0, <1>1, TailIds
  <2>. HIDE DEF q, t
  <2>. QED  BY <1>0, <1>4, <1>5, <1>6, <1>7, <2>1, <2>2, LevelChanged DEF q
<1>8. CASE Head(q).qty # n
  <2>1. Head(q).qty - n \in Qty \ {0}
    BY <1>3, <1>8, QtyAssumption DEF Qty
  <2>2. r \in Seq(Order) /\ NoIdTwice(r) /\ IdsOf(r) = IdsOf(q)
    BY <1>1, <1>2, <2>1, SetQtyIds
  <2>3. queue' = [queue EXCEPT ![side][p] = r] /\ live' = live
    BY <1>2, <1>8 DEF TakeFront
  <2>4. q # << >>
    BY <1>0
  <2>. HIDE DEF q, r
  <2>5. QueuesOK' /\ IdsBecome(side, p, IdsOf(q)) /\ NoLevelAppears
    BY <1>0, <1>4, <1>5, <2>2, <2>3, <2>4, LevelChanged DEF q
  <2>. QED  BY <1>6, <1>8, <2>3, <2>5 DEF q
<1>. QED  BY <1>7, <1>8

LEMMA PushEffect ==
  ASSUME QueuesOK, NEW side \in Side, NEW p \in Price, NEW order \in Order,
         order.id \notin IdsAt(side, p), Push(side, p, order)
  PROVE  /\ QueuesOK'
         /\ IdsBecome(side, p, IdsAt(side, p) \cup {order.id})
         /\ OnlyLevelAppears(side, p)
         /\ live' = live + 1
<1>. DEFINE q == queue[side][p]
            a == Append(q, order)
<1>0. order.qty \in Int
  BY QtyAssumption DEF Order, Qty
<1>1. q \in Seq(Order) /\ NoIdTwice(q) /\ total[side][p] \in Int
  BY QueueTyped
<1>2. a \in Seq(Order) /\ NoIdTwice(a) /\ IdsOf(a) = IdsOf(q) \cup {order.id}
  BY <1>1, AppendIds DEF IdsAt
<1>3. queue' = [queue EXCEPT ![side][p] = a] /\ live' = live + 1
  BY DEF Push
<1>4. total' = [total EXCEPT ![side][p] = (total[side][p] + order.qty) % QtyWrap]
  BY DEF Push
<1>5. total[side][p] + order.qty \in Int
  BY <1>0, <1>1
<1>6. IdsAt(side, p) = IdsOf(q)
  BY DEF IdsAt
<1>. HIDE DEF q, a
<1>. QED  BY <1>2, <1>3, <1>4, <1>5, <1>6, LevelChanged DEF q

----------------------------------------------------------------------------
\* The inductive invariant

\* The ids of the orders that rest, as the map has them.
InBook == DOMAIN map \ OutOfBook

\* The map half of MapLocatesOrders.
Located ==
  /\ \A side \in Side, p \in Price : \A id \in IdsAt(side, p) :
       id \in InBook /\ map[id] = [side |-> side, price |-> p]
  /\ \A id \in InBook : \E side \in Side, p \in Price : id \in IdsAt(side, p)

\* What validation and replace establish of the order in flight: a remainder
\* that may rest has a valid price, a place in the store, and a map entry
\* only if it comes from there.
TakerOK ==
  taker # Idle =>
    /\ live < MaxOrders
    /\ taker.bound => taker.price \in Price
    /\ taker.cmd = "replace" => taker.bound /\ taker.tif \in {"gtc", "post_only"}
    /\ taker.id \in DOMAIN map <=> taker.cmd = "replace"

Typed ==
  /\ QueuesOK
  /\ DOMAIN map \subseteq OrderId
  /\ map \in [DOMAIN map -> Level]
  /\ taker \in Taker \cup {Idle}
  /\ seq \in 0 .. SeqWrap - 1

LiveExact == live \in 0 .. MaxOrders /\ live = Cardinality(InBook)

BookInv ==
  /\ Typed
  /\ LiveExact
  /\ TakerOK
  /\ Located
  /\ BookNeverCrossed
  /\ PostOnlyNeverTakes

LEMMA TakerNotIdle == Taker \cap {Idle} = {}
BY DEF Taker, Idle

LEMMA InBookFinite ==
  ASSUME Typed
  PROVE  IsFiniteSet(InBook) /\ Cardinality(InBook) \in Nat
<1>1. InBook \subseteq OrderId
  BY DEF Typed, InBook
<1>. QED  BY <1>1, IdAssumption, FS_Subset, FS_CardinalityType

\* An order leaves its level: cancel, a complete fill, the first half of a
\* replace.
LEMMA OrderLeaves ==
  ASSUME BookInv, Typed',
         NEW side \in Side, NEW p \in Price, NEW id \in IdsAt(side, p),
         IdsBecome(side, p, IdsAt(side, p) \ {id}), live' = live - 1,
         InBook' = InBook \ {id}, \A x \in InBook' : map'[x] = map[x]
  PROVE  Located' /\ LiveExact' /\ live' < MaxOrders
<1>1. id \in InBook /\ map[id] = [side |-> side, price |-> p]
  BY DEF BookInv, Located
<1>2. \A s \in Side, r \in Price : IdsAt(s, r)' = IdsAt(s, r) \ {id}
  <2>. SUFFICES ASSUME NEW s \in Side, NEW r \in Price, ~(s = side /\ r = p)
                PROVE  id \notin IdsAt(s, r)
    BY DEF IdsBecome
  <2>1. [side |-> side, price |-> p] # [side |-> s, price |-> r]
    OBVIOUS
  <2>. QED  BY <1>1, <2>1 DEF BookInv, Located
<1>3. \A s \in Side, r \in Price : \A x \in IdsAt(s, r)' :
        x \in InBook' /\ map'[x] = [side |-> s, price |-> r]
  <2>. SUFFICES ASSUME NEW s \in Side, NEW r \in Price, NEW x \in IdsAt(s, r)'
                PROVE  x \in InBook' /\ map'[x] = [side |-> s, price |-> r]
    OBVIOUS
  <2>1. x \in IdsAt(s, r) /\ x # id
    BY <1>2
  <2>2. x \in InBook /\ map[x] = [side |-> s, price |-> r]
    BY <2>1 DEF BookInv, Located
  <2>. QED  BY <2>1, <2>2
<1>4. \A x \in InBook' : \E s \in Side, r \in Price : x \in IdsAt(s, r)'
  <2>. SUFFICES ASSUME NEW x \in InBook'
                PROVE  \E s \in Side, r \in Price : x \in IdsAt(s, r)'
    OBVIOUS
  <2>1. x \in InBook /\ x # id
    OBVIOUS
  <2>2. PICK s \in Side, r \in Price : x \in IdsAt(s, r)
    BY <2>1 DEF BookInv, Located
  <2>. QED  BY <2>1, <2>2, <1>2
<1>5. Located'
  BY <1>3, <1>4 DEF Located
<1>6. Cardinality(InBook \ {id}) = Cardinality(InBook) - 1 /\ Cardinality(InBook') \in Nat
      /\ Cardinality(InBook) \in Nat
  BY <1>1, InBookFinite, FS_RemoveElement, FS_CardinalityType DEF BookInv
<1>7. LiveExact' /\ live' < MaxOrders
  BY <1>6, ConfigAssumption DEF LiveExact, BookInv
<1>. QED  BY <1>5, <1>7

\* No order enters or leaves a level, and the map says the same of them.
LEMMA OrdersStay ==
  ASSUME BookInv, Typed', \A s \in Side, r \in Price : IdsAt(s, r)' = IdsAt(s, r),
         live' = live, InBook' = InBook, \A x \in InBook' : map'[x] = map[x]
  PROVE  Located' /\ LiveExact'
<1>1. \A s \in Side, r \in Price : \A x \in IdsAt(s, r)' :
        x \in InBook' /\ map'[x] = [side |-> s, price |-> r]
  <2>. SUFFICES ASSUME NEW s \in Side, NEW r \in Price, NEW x \in IdsAt(s, r)'
                PROVE  x \in InBook' /\ map'[x] = [side |-> s, price |-> r]
    OBVIOUS
  <2>1. x \in InBook /\ map[x] = [side |-> s, price |-> r]
    BY DEF BookInv, Located
  <2>. QED  BY <2>1
<1>2. Located'
  BY <1>1 DEF BookInv, Located
<1>3. LiveExact'
  BY DEF BookInv, LiveExact
<1>. QED  BY <1>2, <1>3

\* As long as no level appears nothing becomes crossed.
LEMMA NothingCrosses ==
  ASSUME NoLevelAppears
  PROVE  /\ BookNeverCrossed => BookNeverCrossed'
         /\ \A side \in Side : \A price : ~WouldCross(side, price) => ~WouldCross(side, price)'
<1>1. Opposite("bid") = "ask" /\ Opposite("ask") = "bid" /\ Side = {"bid", "ask"}
  BY DEF Opposite, Side
<1>2. BookNeverCrossed => BookNeverCrossed'
  BY <1>1 DEF BookNeverCrossed, NoLevelAppears
<1>3. \A side \in Side : \A price : ~WouldCross(side, price) => ~WouldCross(side, price)'
  BY <1>1 DEF WouldCross, NoLevelAppears
<1>. QED  BY <1>2, <1>3

----------------------------------------------------------------------------
\* One lemma for each action

LEMMA EmitTyped ==
  ASSUME Typed
  PROVE  /\ \A e : Emit(e) => seq' \in 0 .. SeqWrap - 1
         /\ \A e, f : EmitBoth(e, f) => seq' \in 0 .. SeqWrap - 1
<1>1. seq \in Int /\ seq + 1 \in Int /\ \A n \in 0 .. SeqWrap - 1 : n \in Int /\ n + 1 \in Int
  BY SeqAssumption DEF Typed
<1>2. NextSeq(seq) \in 0 .. SeqWrap - 1
  BY <1>1, ModInSeq DEF NextSeq
<1>3. NextSeq(NextSeq(seq)) \in 0 .. SeqWrap - 1
  BY <1>1, <1>2, ModInSeq DEF NextSeq
<1>. QED  BY <1>2, <1>3 DEF Emit, EmitBoth

LEMMA QueuesUnchanged ==
  ASSUME QueuesOK, UNCHANGED <<queue, total>>
  PROVE  /\ QueuesOK'
         /\ \A s \in Side, r \in Price : IdsAt(s, r)' = IdsAt(s, r)
         /\ NoLevelAppears
BY DEF QueuesOK, IdsAt, NoLevelAppears, Occupied

\* What the early returns of new_order leave to be matched.
LEMMA NewAccepted ==
  ASSUME NEW c \in NewCommand, NewRejection(c) = "none"
  PROVE  /\ c.qty # 0
         /\ c.otype = "limit" => PriceOk(c.price)
         /\ c.id \notin DOMAIN map
         /\ ~(live >= MaxOrders)
         /\ c.otype = "limit" /\ c.tif = "post_only" => ~WouldCross(c.side, c.price)
BY DEF NewRejection, BookFull, TifRejection

\* A replace with whatever quantity: a torn journal record may carry one that
\* no client sent.
AnyReplace == [cmd: {"replace"}, id: OrderId, price: CmdPrices, qty: Qty]

LEMMA ReplacesParsed == ReplaceCommand \subseteq AnyReplace
BY QtyAssumption DEF ReplaceCommand, AnyReplace, Qty

LEMMA ReplaceAccepted ==
  ASSUME NEW c \in AnyReplace, ReplaceRejection(c) = "none"
  PROVE  c.id \in DOMAIN map /\ c.qty \in Qty \ {0} /\ c.price \in Price
<1>1. c.id \in DOMAIN map /\ c.qty # 0 /\ PriceOk(c.price)
  BY DEF ReplaceRejection
<1>2. c.qty \in Qty /\ c.price \in CmdPrices
  BY DEF AnyReplace
<1>. QED  BY <1>1, <1>2 DEF Price

LEMMA RejectInv ==
  ASSUME BookInv, NEW id, NEW reason, Reject(id, reason)
  PROVE  BookInv'
<1>1. UNCHANGED <<queue, total, live, map, taker>> /\ taker = Idle
  BY DEF Reject
<1>2. seq' \in 0 .. SeqWrap - 1
  BY EmitTyped DEF Reject, BookInv
<1>3. QueuesOK' /\ NoLevelAppears /\ \A s \in Side, r \in Price : IdsAt(s, r)' = IdsAt(s, r)
  BY <1>1, QueuesUnchanged DEF BookInv, Typed
<1>4. Typed'
  BY <1>1, <1>2, <1>3 DEF BookInv, Typed
<1>5. Located' /\ LiveExact'
  BY <1>1, <1>3, <1>4, OrdersStay DEF InBook, OutOfBook
<1>6. TakerOK' /\ PostOnlyNeverTakes'
  BY <1>1 DEF TakerOK, PostOnlyNeverTakes
<1>7. BookNeverCrossed'
  BY <1>3, NothingCrosses DEF BookInv
<1>. QED  BY <1>4, <1>5, <1>6, <1>7 DEF BookInv

LEMMA NewInv ==
  ASSUME BookInv, NEW c \in NewCommand, New(c)
  PROVE  BookInv'
<1>1. UNCHANGED <<queue, total, live, map, seq>> /\ taker = Idle
  BY DEF New
<1>2. taker' = [cmd |-> "new", id |-> c.id, side |-> c.side, bound |-> c.otype = "limit",
                price |-> c.price, tif |-> c.tif, qty |-> c.qty]
  BY DEF New
<1>3. /\ c.id \notin DOMAIN map /\ live < MaxOrders
      /\ c.otype = "limit" => PriceOk(c.price)
      /\ c.otype = "limit" /\ c.tif = "post_only" => ~WouldCross(c.side, c.price)
  BY NewAccepted, ConfigAssumption DEF New, BookInv, LiveExact
<1>4. /\ c.id \in OrderId /\ c.side \in Side /\ c.tif \in Tif /\ c.qty \in Qty
      /\ c.price \in CmdPrices \cup {0} /\ (c.otype = "limit") \in BOOLEAN
      /\ c.otype = "limit" => c.price \in CmdPrices
  BY QtyAssumption DEF NewCommand, LimitCommand, MarketCommand, Qty
<1>5. taker' \in Taker
  BY <1>2, <1>4 DEF Taker
<1>6. QueuesOK' /\ NoLevelAppears /\ \A s \in Side, r \in Price : IdsAt(s, r)' = IdsAt(s, r)
  BY <1>1, QueuesUnchanged DEF BookInv, Typed
<1>7. Typed'
  BY <1>1, <1>5, <1>6 DEF BookInv, Typed
<1>8. OutOfBook = {} /\ OutOfBook' = {}
  BY <1>1, <1>2 DEF OutOfBook
<1>9. Located' /\ LiveExact'
  BY <1>1, <1>6, <1>7, <1>8, OrdersStay DEF InBook
<1>10. TakerOK'
  BY <1>1, <1>2, <1>3, <1>4 DEF TakerOK, Price
<1>11. PostOnlyNeverTakes'
  <2>1. c.otype = "limit" /\ c.tif = "post_only" => ~WouldCross(c.side, c.price)'
    BY <1>1, <1>3 DEF WouldCross, Occupied
  <2>. QED  BY <1>2, <2>1 DEF PostOnlyNeverTakes, WouldCross
<1>12. BookNeverCrossed'
  BY <1>6, NothingCrosses DEF BookInv
<1>. QED  BY <1>7, <1>9, <1>10, <1>11, <1>12 DEF BookInv

\* Where the map sends an id there is a level.
LEMMA MapTyped ==
  ASSUME Typed, NEW id \in DOMAIN map
  PROVE  map[id].side \in Side /\ map[id].price \in Price
BY DEF Typed, Level

LEMMA CancelInv ==
  ASSUME BookInv, NEW c, Cancel(c)
  PROVE  BookInv'
<1>. DEFINE side == map[c.id].side
            p    == map[c.id].price
<1>1. PICK i \in DOMAIN queue[side][p] : At(c.id, i) /\ Unlink(side, p, i)
  BY DEF Cancel
<1>2. taker = Idle /\ taker' = Idle /\ map' = [id \in DOMAIN map \ {c.id} |-> map[id]]
  BY DEF Cancel
<1>3. c.id \in DOMAIN map /\ queue[side][p][i].id = c.id
  BY <1>1 DEF At
<1>4. side \in Side /\ p \in Price
  BY <1>3, MapTyped DEF BookInv
<1>5. c.id \in IdsAt(side, p)
  BY <1>3 DEF IdsAt, IdsOf
<1>6. seq' \in 0 .. SeqWrap - 1
  BY EmitTyped DEF Cancel, BookInv
<1>. HIDE DEF side, p
<1>7. /\ QueuesOK' /\ NoLevelAppears /\ live' = live - 1
      /\ IdsBecome(side, p, IdsAt(side, p) \ {c.id})
  BY <1>1, <1>3, <1>4, UnlinkEffect DEF BookInv, Typed
<1>8. Typed'
  BY <1>2, <1>6, <1>7 DEF BookInv, Typed
<1>9. InBook' = InBook \ {c.id} /\ \A x \in InBook' : map'[x] = map[x]
  BY <1>2 DEF InBook, OutOfBook
<1>10. Located' /\ LiveExact'
  BY <1>4, <1>5, <1>7, <1>8, <1>9, OrderLeaves
<1>11. TakerOK' /\ PostOnlyNeverTakes'
  BY <1>2 DEF TakerOK, PostOnlyNeverTakes
<1>12. BookNeverCrossed'
  BY <1>7, NothingCrosses DEF BookInv
<1>. QED  BY <1>8, <1>10, <1>11, <1>12 DEF BookInv

LEMMA ReplaceInPlaceInv ==
  ASSUME BookInv, NEW c \in AnyReplace, ReplaceInPlace(c)
  PROVE  BookInv'
<1>. DEFINE side == map[c.id].side
            p    == map[c.id].price
<1>1. PICK i \in DOMAIN queue[side][p] : At(c.id, i) /\ Reduce(side, p, i, c.qty)
  BY DEF ReplaceInPlace
<1>2. taker = Idle /\ taker' = Idle /\ map' = map
  BY DEF ReplaceInPlace
<1>3. c.id \in DOMAIN map /\ c.qty \in Qty \ {0}
  BY ReplaceAccepted DEF ReplaceInPlace
<1>4. side \in Side /\ p \in Price
  BY <1>3, MapTyped DEF BookInv
<1>5. seq' \in 0 .. SeqWrap - 1
  BY EmitTyped DEF ReplaceInPlace, BookInv
<1>. HIDE DEF side, p
<1>6. QueuesOK' /\ NoLevelAppears /\ live' = live /\ IdsBecome(side, p, IdsAt(side, p))
  BY <1>1, <1>3, <1>4, ReduceEffect DEF BookInv, Typed
<1>7. Typed'
  BY <1>2, <1>5, <1>6 DEF BookInv, Typed
<1>8. Located' /\ LiveExact'
  BY <1>2, <1>6, <1>7, OrdersStay DEF InBook, OutOfBook, IdsBecome
<1>9. TakerOK' /\ PostOnlyNeverTakes'
  BY <1>2 DEF TakerOK, PostOnlyNeverTakes
<1>10. BookNeverCrossed'
  BY <1>6, NothingCrosses DEF BookInv
<1>. QED  BY <1>7, <1>8, <1>9, <1>10 DEF BookInv

LEMMA ReplaceAndCrossInv ==
  ASSUME BookInv, NEW c \in AnyReplace, ReplaceAndCross(c)
  PROVE  BookInv'
<1>. DEFINE side == map[c.id].side
            p    == map[c.id].price
<1>1. PICK i \in DOMAIN queue[side][p] :
        /\ At(c.id, i)
        /\ Unlink(side, p, i)
        /\ taker' = [cmd |-> "replace", id |-> c.id, side |-> side, bound |-> TRUE,
                     price |-> c.price, tif |-> queue[side][p][i].tif, qty |-> c.qty]
  BY DEF ReplaceAndCross
<1>2. taker = Idle /\ map' = map /\ seq' = seq
  BY DEF ReplaceAndCross
<1>3. c.id \in DOMAIN map /\ queue[side][p][i].id = c.id
  BY <1>1 DEF At
<1>4. side \in Side /\ p \in Price
  BY <1>3, MapTyped DEF BookInv
<1>5. c.id \in IdsAt(side, p)
  BY <1>3 DEF IdsAt, IdsOf
<1>6. c.id \in OrderId /\ c.qty \in Qty /\ c.price \in CmdPrices /\ c.price \in Price
  BY ReplaceAccepted DEF ReplaceAndCross, AnyReplace, Price
<1>. HIDE DEF side, p
<1>7. queue[side][p][i].tif \in {"gtc", "post_only"}
  <2>1. queue[side][p][i] \in Order
    BY <1>4, QueueTyped DEF BookInv, Typed
  <2>. QED  BY <2>1 DEF Order
<1>8. /\ QueuesOK' /\ NoLevelAppears /\ live' = live - 1
      /\ IdsBecome(side, p, IdsAt(side, p) \ {c.id})
  BY <1>1, <1>3, <1>4, UnlinkEffect DEF BookInv, Typed
<1>9. taker' \in Taker
  BY <1>1, <1>4, <1>6, <1>7 DEF Taker, Tif
<1>10. Typed'
  BY <1>2, <1>8, <1>9 DEF BookInv, Typed
<1>11. OutOfBook = {} /\ OutOfBook' = {c.id}
  BY <1>1, <1>2, <1>9, TakerNotIdle DEF OutOfBook
<1>12. InBook' = InBook \ {c.id} /\ \A x \in InBook' : map'[x] = map[x]
  BY <1>2, <1>11 DEF InBook
<1>13. Located' /\ LiveExact' /\ live' < MaxOrders
  BY <1>4, <1>5, <1>8, <1>10, <1>12, OrderLeaves
<1>14. TakerOK' /\ PostOnlyNeverTakes'
  BY <1>1, <1>2, <1>3, <1>6, <1>7, <1>13 DEF TakerOK, PostOnlyNeverTakes
<1>15. BookNeverCrossed'
  BY <1>8, NothingCrosses DEF BookInv
<1>. QED  BY <1>10, <1>13, <1>14, <1>15 DEF BookInv

\* The facts about an order in flight the matching steps start from.
LEMMA WorkingFacts ==
  ASSUME BookInv, Working
  PROVE  /\ taker \in Taker
         /\ taker.side \in Side /\ Opposite(taker.side) \in Side /\ taker.qty \in Qty
         /\ taker.id \notin InBook
         /\ live < MaxOrders
         /\ taker.bound => taker.price \in Price
         /\ taker.cmd = "replace" => taker.bound /\ taker.tif \in {"gtc", "post_only"}
         /\ taker.id \in DOMAIN map <=> taker.cmd = "replace"
         /\ OutOfBook = IF taker.cmd = "replace" THEN {taker.id} ELSE {}
<1>1. taker \in Taker
  BY DEF BookInv, Typed, Working
<1>2. taker.side \in Side /\ Opposite(taker.side) \in Side /\ taker.qty \in Qty
  BY <1>1 DEF Taker, Opposite, Side
<1>3. OutOfBook = IF taker.cmd = "replace" THEN {taker.id} ELSE {}
  BY DEF OutOfBook, Working
<1>4. /\ live < MaxOrders
      /\ taker.bound => taker.price \in Price
      /\ taker.cmd = "replace" => taker.bound /\ taker.tif \in {"gtc", "post_only"}
      /\ taker.id \in DOMAIN map <=> taker.cmd = "replace"
  BY DEF BookInv, TakerOK, Working
<1>5. taker.id \notin InBook
  BY <1>3, <1>4 DEF InBook
<1>. QED  BY <1>1, <1>2, <1>3, <1>4, <1>5

LEMMA FillInv ==
  ASSUME BookInv, NEW p \in Price, Fill(p)
  PROVE  BookInv'
<1>. DEFINE opp   == Opposite(taker.side)
            maker == Head(queue[opp][p])
            q     == MinQty(taker.qty, maker.qty)
<1>1. /\ Working /\ taker.qty > 0 /\ p \in Occupied(opp)
      /\ TakeFront(opp, p, q)
      /\ taker' = [taker EXCEPT !.qty = taker.qty - q]
  BY DEF Fill, Unfilled, IsBest
<1>2. /\ taker \in Taker /\ opp \in Side /\ taker.side \in Side /\ taker.qty \in Qty
      /\ taker.id \notin InBook /\ live < MaxOrders
  BY <1>1, WorkingFacts
<1>3. maker \in Order /\ maker.id \in IdsAt(opp, p)
  <2>1. queue[opp][p] \in Seq(Order) /\ queue[opp][p] # << >>
    BY <1>1, <1>2, QueueTyped DEF BookInv, Typed, Occupied
  <2>2. 1 \in DOMAIN queue[opp][p] /\ maker = queue[opp][p][1]
    BY <2>1
  <2>. QED  BY <2>1, <2>2 DEF IdsAt, IdsOf
<1>4. q \in Qty \ {0} /\ q <= maker.qty /\ q <= taker.qty /\ taker.qty - q \in Qty
  <2>1. maker.qty \in Qty \ {0}
    BY <1>3 DEF Order
  <2>. HIDE DEF maker
  <2>. QED  BY <1>1, <1>2, <2>1, QtyAssumption DEF MinQty, Qty
<1>. HIDE DEF opp, q
<1>5. taker' \in Taker /\ taker' # Idle /\ taker # Idle
  BY <1>1, <1>2, <1>4, TakerNotIdle DEF Taker, Working
<1>6. /\ taker'.cmd = taker.cmd /\ taker'.id = taker.id /\ taker'.side = taker.side
      /\ taker'.bound = taker.bound /\ taker'.price = taker.price /\ taker'.tif = taker.tif
  BY <1>1, <1>2 DEF Taker
<1>7. OutOfBook' = OutOfBook
  BY <1>5, <1>6 DEF OutOfBook
<1>8. seq' \in 0 .. SeqWrap - 1
  BY EmitTyped DEF Fill, Unfilled, BookInv
<1>9. /\ QueuesOK' /\ NoLevelAppears
      /\ IF maker.qty = q
         THEN IdsBecome(opp, p, IdsAt(opp, p) \ {maker.id}) /\ live' = live - 1
         ELSE IdsBecome(opp, p, IdsAt(opp, p)) /\ live' = live
  BY <1>1, <1>2, <1>4, TakeFrontEffect DEF BookInv, Typed
<1>10. BookNeverCrossed' /\ PostOnlyNeverTakes'
  <2>1. BookNeverCrossed'
    BY <1>9, NothingCrosses DEF BookInv
  <2>2. ~WouldCross(taker.side, taker.price) => ~(WouldCross(taker.side, taker.price)')
    BY <1>2, <1>5, <1>6, <1>9 DEF NoLevelAppears, WouldCross, Opposite, Side
  <2>. QED  BY <1>5, <1>6, <2>1, <2>2 DEF BookInv, PostOnlyNeverTakes
<1>11. CASE maker.qty = q
  <2>1. map' = [id \in DOMAIN map \ {maker.id} |-> map[id]]
    BY <1>11 DEF Fill, opp, q
  <2>2. Typed'
    BY <1>5, <1>8, <1>9, <2>1 DEF BookInv, Typed
  <2>3. InBook' = InBook \ {maker.id} /\ \A x \in InBook' : map'[x] = map[x]
    BY <1>7, <2>1 DEF InBook
  <2>. HIDE DEF maker
  <2>4. Located' /\ LiveExact' /\ live' < MaxOrders
    BY <1>2, <1>3, <1>9, <1>11, <2>2, <2>3, OrderLeaves
  <2>5. maker.id # taker.id
    BY <1>2, <1>3 DEF BookInv, Located
  <2>6. TakerOK'
    BY <1>5, <1>6, <2>1, <2>4, <2>5 DEF BookInv, TakerOK
  <2>. QED  BY <1>10, <2>2, <2>4, <2>6 DEF BookInv
<1>12. CASE maker.qty # q
  <2>1. map' = map
    BY <1>12 DEF Fill, opp, q
  <2>2. Typed'
    BY <1>5, <1>8, <1>9, <2>1 DEF BookInv, Typed
  <2>3. InBook' = InBook
    BY <1>7, <2>1 DEF InBook
  <2>. HIDE DEF maker
  <2>4. Located' /\ LiveExact'
    BY <1>9, <1>12, <2>1, <2>2, <2>3, OrdersStay DEF IdsBecome
  <2>5. TakerOK'
    BY <1>2, <1>5, <1>6, <1>9, <1>12, <2>1 DEF BookInv, TakerOK
  <2>. QED  BY <1>10, <2>2, <2>4, <2>5 DEF BookInv
<1>. QED  BY <1>11, <1>12

LEMMA CloseFilledInv ==
  ASSUME BookInv, CloseFilled
  PROVE  BookInv'
<1>1. /\ UNCHANGED <<queue, total, live>> /\ Working /\ taker' = Idle
      /\ map' = [id \in DOMAIN map \ {taker.id} |-> map[id]]
  BY DEF CloseFilled
<1>2. /\ taker.id \notin InBook
      /\ taker.id \in DOMAIN map <=> taker.cmd = "replace"
      /\ OutOfBook = IF taker.cmd = "replace" THEN {taker.id} ELSE {}
  BY <1>1, WorkingFacts
<1>3. seq' \in 0 .. SeqWrap - 1
  BY EmitTyped DEF CloseFilled, BookInv
<1>4. QueuesOK' /\ NoLevelAppears /\ \A s \in Side, r \in Price : IdsAt(s, r)' = IdsAt(s, r)
  BY <1>1, QueuesUnchanged DEF BookInv, Typed
<1>5. Typed'
  BY <1>1, <1>3, <1>4 DEF BookInv, Typed
<1>6. OutOfBook' = {}
  BY <1>1 DEF OutOfBook
<1>7. InBook' = InBook /\ \A x \in InBook' : map'[x] = map[x]
  BY <1>1, <1>2, <1>6 DEF InBook
<1>8. Located' /\ LiveExact'
  BY <1>1, <1>4, <1>5, <1>7, OrdersStay
<1>9. TakerOK' /\ PostOnlyNeverTakes'
  BY <1>1 DEF TakerOK, PostOnlyNeverTakes
<1>10. BookNeverCrossed'
  BY <1>4, NothingCrosses DEF BookInv
<1>. QED  BY <1>5, <1>8, <1>9, <1>10 DEF BookInv

\* A remainder rests only after the walk found nothing it could trade with,
\* so it cannot cross what rests on the other side.
LEMMA RestNeverCrosses ==
  ASSUME BookInv, Exhausted, taker.bound, taker.price \in Price,
         OnlyLevelAppears(taker.side, taker.price)
  PROVE  BookNeverCrossed'
<1>1. taker.side \in Side
  BY WorkingFacts DEF Exhausted
<1>2. \A p \in Occupied(Opposite(taker.side)) : ~Crosses(taker.side, taker.price, p)
  BY DEF Exhausted, Acceptable
<1>3. \A s \in Side : \A p \in Occupied(s) \cup {taker.price} : p \in Int
  BY PriceAssumption DEF Occupied, Price
<1>. SUFFICES ASSUME NEW b \in Occupied("bid")', NEW a \in Occupied("ask")'
              PROVE  b < a
  BY DEF BookNeverCrossed
<1>4. CASE taker.side = "bid"
  <2>1. a \in Occupied("ask")
    BY <1>4 DEF OnlyLevelAppears, Side
  <2>2. taker.price < a
    BY <1>2, <1>3, <1>4, <2>1 DEF Crosses, Opposite, Side
  <2>3. b \in Occupied("bid") \/ b = taker.price
    BY <1>4 DEF OnlyLevelAppears, Side
  <2>. QED  BY <2>1, <2>2, <2>3 DEF BookInv, BookNeverCrossed
<1>5. CASE taker.side = "ask"
  <2>1. b \in Occupied("bid")
    BY <1>5 DEF OnlyLevelAppears, Side
  <2>2. b < taker.price
    BY <1>2, <1>3, <1>5, <2>1 DEF Crosses, Opposite, Side
  <2>3. a \in Occupied("ask") \/ a = taker.price
    BY <1>5 DEF OnlyLevelAppears, Side
  <2>. QED  BY <2>1, <2>2, <2>3 DEF BookInv, BookNeverCrossed
<1>. QED  BY <1>1, <1>4, <1>5 DEF Side

LEMMA RestRemainderInv ==
  ASSUME BookInv, RestRemainder
  PROVE  BookInv'
<1>. DEFINE order == [id |-> taker.id, qty |-> taker.qty, tif |-> taker.tif]
            level == [side |-> taker.side, price |-> taker.price]
<1>1. /\ Exhausted /\ RestsRemainder /\ Push(taker.side, taker.price, order)
      /\ map' = [id \in DOMAIN map \cup {taker.id} |-> IF id = taker.id THEN level ELSE map[id]]
      /\ taker' = Idle /\ Working /\ taker.qty > 0
  BY DEF RestRemainder, EntryWritten, Exhausted
<1>2. /\ taker \in Taker /\ taker.side \in Side /\ taker.qty \in Qty
      /\ taker.id \notin InBook /\ live < MaxOrders
      /\ OutOfBook = IF taker.cmd = "replace" THEN {taker.id} ELSE {}
      /\ taker.id \in DOMAIN map <=> taker.cmd = "replace"
  BY <1>1, WorkingFacts
<1>3. taker.bound /\ taker.price \in Price /\ taker.tif \in {"gtc", "post_only"}
  BY <1>1, WorkingFacts DEF RestsRemainder
<1>4. taker.id \in OrderId
  BY <1>2 DEF Taker
<1>5. order \in Order /\ order.id = taker.id
  BY <1>1, <1>2, <1>3, <1>4 DEF Order, Qty
<1>6. level \in Level
  BY <1>2, <1>3 DEF Level
<1>7. \A s \in Side, r \in Price : taker.id \notin IdsAt(s, r)
  BY <1>2 DEF BookInv, Located
<1>. HIDE DEF order
<1>8. /\ QueuesOK' /\ OnlyLevelAppears(taker.side, taker.price) /\ live' = live + 1
      /\ IdsBecome(taker.side, taker.price, IdsAt(taker.side, taker.price) \cup {taker.id})
  BY <1>1, <1>2, <1>3, <1>5, <1>7, PushEffect DEF BookInv, Typed
<1>9. seq' \in 0 .. SeqWrap - 1
  BY EmitTyped DEF RestRemainder, EntryWritten, BookInv
<1>10. DOMAIN map' = DOMAIN map \cup {taker.id} /\ map' \in [DOMAIN map' -> Level]
       /\ map'[taker.id] = level /\ \A x \in DOMAIN map \ {taker.id} : map'[x] = map[x]
  BY <1>1, <1>6 DEF BookInv, Typed
<1>11. Typed'
  BY <1>1, <1>4, <1>8, <1>9, <1>10 DEF BookInv, Typed
<1>12. InBook' = InBook \cup {taker.id}
  BY <1>1, <1>2, <1>10 DEF InBook, OutOfBook
<1>13. \A s \in Side, r \in Price : \A x \in IdsAt(s, r)' :
         x \in InBook' /\ map'[x] = [side |-> s, price |-> r]
  <2>. SUFFICES ASSUME NEW s \in Side, NEW r \in Price, NEW x \in IdsAt(s, r)'
                PROVE  x \in InBook' /\ map'[x] = [side |-> s, price |-> r]
    OBVIOUS
  <2>1. x \in IdsAt(s, r) \/ (x = taker.id /\ s = taker.side /\ r = taker.price)
    BY <1>8 DEF IdsBecome
  <2>2. CASE x \in IdsAt(s, r)
    <3>1. x \in InBook /\ map[x] = [side |-> s, price |-> r] /\ x # taker.id
      BY <2>2, <1>2 DEF BookInv, Located
    <3>. QED  BY <3>1, <1>10, <1>12 DEF InBook
  <2>3. CASE x = taker.id /\ s = taker.side /\ r = taker.price
    BY <2>3, <1>10, <1>12
  <2>. QED  BY <2>1, <2>2, <2>3
<1>14. \A x \in InBook' : \E s \in Side, r \in Price : x \in IdsAt(s, r)'
  <2>. SUFFICES ASSUME NEW x \in InBook'
                PROVE  \E s \in Side, r \in Price : x \in IdsAt(s, r)'
    OBVIOUS
  <2>1. CASE x = taker.id
    BY <2>1, <1>2, <1>3, <1>8 DEF IdsBecome
  <2>2. CASE x \in InBook
    <3>1. PICK s \in Side, r \in Price : x \in IdsAt(s, r)
      BY <2>2 DEF BookInv, Located
    <3>2. x \in IdsAt(s, r)'
      BY <3>1, <1>8 DEF IdsBecome
    <3>. QED  BY <3>2
  <2>. QED  BY <2>1, <2>2, <1>12
<1>15. Located'
  BY <1>13, <1>14 DEF Located
<1>16. LiveExact'
  <2>1. Cardinality(InBook \cup {taker.id}) = Cardinality(InBook) + 1
    BY <1>2, InBookFinite, FS_AddElement DEF BookInv
  <2>. QED  BY <2>1, <1>2, <1>8, <1>12, ConfigAssumption DEF BookInv, LiveExact
<1>17. TakerOK' /\ PostOnlyNeverTakes'
  BY <1>1 DEF TakerOK, PostOnlyNeverTakes
<1>18. BookNeverCrossed'
  BY <1>1, <1>3, <1>8, RestNeverCrosses
<1>. QED  BY <1>11, <1>15, <1>16, <1>17, <1>18 DEF BookInv

LEMMA ExpireInv ==
  ASSUME BookInv, Expire
  PROVE  BookInv'
<1>1. UNCHANGED <<queue, total, live, map>> /\ Working /\ taker' = Idle /\ ~RestsRemainder
  BY DEF Expire, Exhausted
<1>2. OutOfBook = {} /\ OutOfBook' = {}
  BY <1>1, WorkingFacts DEF RestsRemainder, OutOfBook
<1>3. seq' \in 0 .. SeqWrap - 1
  BY EmitTyped DEF Expire, BookInv
<1>4. QueuesOK' /\ NoLevelAppears /\ \A s \in Side, r \in Price : IdsAt(s, r)' = IdsAt(s, r)
  BY <1>1, QueuesUnchanged DEF BookInv, Typed
<1>5. Typed'
  BY <1>1, <1>3, <1>4 DEF BookInv, Typed
<1>6. Located' /\ LiveExact'
  BY <1>1, <1>2, <1>4, <1>5, OrdersStay DEF InBook
<1>7. TakerOK' /\ PostOnlyNeverTakes'
  BY <1>1 DEF TakerOK, PostOnlyNeverTakes
<1>8. BookNeverCrossed'
  BY <1>4, NothingCrosses DEF BookInv
<1>. QED  BY <1>5, <1>6, <1>7, <1>8 DEF BookInv

----------------------------------------------------------------------------
\* The theorems

LEMMA InitInv == Init => BookInv
<1>. SUFFICES ASSUME Init PROVE BookInv
  OBVIOUS
<1>1. /\ queue = [side \in Side |-> [p \in Price |-> << >>]]
      /\ total = [side \in Side |-> [p \in Price |-> 0]]
      /\ live = 0 /\ map = << >> /\ taker = Idle /\ seq = 0
  BY DEF Init, QueueInit
<1>2. QueuesOK
  BY <1>1, QtyAssumption DEF QueuesOK, Qty, NoIdTwice
<1>3. DOMAIN map = {} /\ map \in [DOMAIN map -> Level]
  BY <1>1
<1>4. Typed
  BY <1>1, <1>2, <1>3, SeqAssumption DEF Typed
<1>5. InBook = {}
  BY <1>3 DEF InBook
<1>6. LiveExact
  BY <1>1, <1>5, FS_EmptySet, ConfigAssumption DEF LiveExact
<1>7. \A side \in Side, p \in Price : IdsAt(side, p) = {}
  BY <1>1 DEF IdsAt, IdsOf
<1>8. Located
  BY <1>5, <1>7 DEF Located
<1>9. TakerOK /\ PostOnlyNeverTakes
  BY <1>1 DEF TakerOK, PostOnlyNeverTakes
<1>10. BookNeverCrossed
  BY <1>1 DEF BookNeverCrossed, Occupied, Side
<1>. QED  BY <1>4, <1>6, <1>8, <1>9, <1>10 DEF BookInv

LEMMA StutterInv ==
  ASSUME BookInv, UNCHANGED vars
  PROVE  BookInv'
BY DEF vars, BookInv, Typed, QueuesOK, LiveExact, TakerOK, Located, InBook, OutOfBook, IdsAt,
       BookNeverCrossed, Occupied, PostOnlyNeverTakes, WouldCross

LEMMA NextInv == BookInv /\ [Next]_vars => BookInv'
<1>. SUFFICES ASSUME BookInv, [Next]_vars PROVE BookInv'
  OBVIOUS
<1>1. CASE RejectNew
  BY <1>1, RejectInv DEF RejectNew
<1>2. CASE RejectCancel
  BY <1>2, RejectInv DEF RejectCancel
<1>3. CASE RejectReplace
  BY <1>3, RejectInv DEF RejectReplace
<1>4. CASE \E c \in NewCommand : New(c)
  BY <1>4, NewInv
<1>5. CASE \E c \in CancelCommand : Cancel(c)
  BY <1>5, CancelInv
<1>6. CASE \E c \in ReplaceCommand : ReplaceInPlace(c)
  BY <1>6, ReplaceInPlaceInv, ReplacesParsed
<1>7. CASE \E c \in ReplaceCommand : ReplaceAndCross(c)
  BY <1>7, ReplaceAndCrossInv, ReplacesParsed
<1>8. CASE \E p \in Price : Fill(p)
  BY <1>8, FillInv
<1>9. CASE CloseFilled
  BY <1>9, CloseFilledInv
<1>10. CASE RestRemainder
  BY <1>10, RestRemainderInv
<1>11. CASE Expire
  BY <1>11, ExpireInv
<1>12. CASE UNCHANGED vars
  BY <1>12, StutterInv
<1>. QED  BY <1>1, <1>2, <1>3, <1>4, <1>5, <1>6, <1>7, <1>8, <1>9, <1>10, <1>11, <1>12
          DEF Next, Submit, Continue

\* The invariant of the book's implementation: everything below follows
\* from it.
THEOREM BookInvariant == Spec => []BookInv
BY InitInv, NextInv, PTL DEF Spec

\* Type correctness of struct OrderBook and of its handlers' locals,
\* including that live stays between zero and max_orders.
THEOREM BookTyped == Spec => []TypeOK
<1>1. BookInv => TypeOK
  BY DEF BookInv, Typed, QueuesOK, LiveExact, TypeOK
<1>. QED  BY <1>1, BookInvariant, PTL

\* After every step of every command each resting bid is below each resting
\* ask (SPEC 2), also inside a walk and between the halves of a replace.
THEOREM NeverCrossed == Spec => []BookNeverCrossed
<1>1. BookInv => BookNeverCrossed
  BY DEF BookInv
<1>. QED  BY <1>1, BookInvariant, PTL

\* The order map finds each resting order at its level and nothing else,
\* apart from the entry of the one order a replace has in flight.
THEOREM MapExact == Spec => []MapLocatesOrders
<1>1. BookInv => MapLocatesOrders
  <2>. SUFFICES ASSUME BookInv PROVE MapLocatesOrders
    OBVIOUS
  <2>1. \A side \in Side, p \in Price : NoIdTwice(queue[side][p])
    BY DEF BookInv, Typed, QueuesOK
  <2>2. \A side \in Side, p \in Price : \A id \in IdsAt(side, p) :
          id \in DOMAIN map \ OutOfBook /\ map[id] = [side |-> side, price |-> p]
    BY DEF BookInv, Located, InBook
  <2>3. ASSUME NEW id \in DOMAIN map \ OutOfBook
        PROVE  id \in IdsAt(map[id].side, map[id].price)
    <3>1. PICK side \in Side, p \in Price : id \in IdsAt(side, p)
      BY <2>3 DEF BookInv, Located, InBook
    <3>2. map[id] = [side |-> side, price |-> p]
      BY <2>2, <3>1
    <3>3. map[id].side = side /\ map[id].price = p
      BY <3>2
    <3>. QED  BY <3>1, <3>3
  <2>4. taker # Idle => (taker.id \in DOMAIN map <=> taker.cmd = "replace")
    BY DEF BookInv, TakerOK
  <2>. QED  BY <2>1, <2>2, <2>3, <2>4 DEF MapLocatesOrders
<1>. QED  BY <1>1, BookInvariant, PTL

LEMMA CapacityNow == BookInv => CapacityRespected
<1>. SUFFICES ASSUME BookInv PROVE CapacityRespected
  OBVIOUS
<1>1. StoredIds = InBook
  <2>1. \A x : x \in StoredIds <=> \E side \in Side, p \in Price : x \in IdsAt(side, p)
    BY DEF StoredIds
  <2>2. \A x : x \in InBook <=> \E side \in Side, p \in Price : x \in IdsAt(side, p)
    BY DEF BookInv, Located
  <2>. QED  BY <2>1, <2>2
<1>2. live = Cardinality(InBook) /\ live <= MaxOrders /\ live \in Nat
  BY DEF BookInv, LiveExact
<1>3. CASE taker = Idle
  <2>1. DOMAIN map = InBook
    BY <1>3 DEF InBook, OutOfBook
  <2>. QED  BY <1>1, <1>2, <2>1 DEF CapacityRespected
<1>4. CASE taker # Idle /\ taker.cmd # "replace"
  <2>1. DOMAIN map = InBook
    BY <1>4 DEF InBook, OutOfBook
  <2>. QED  BY <1>1, <1>2, <2>1 DEF CapacityRespected
<1>5. CASE taker # Idle /\ taker.cmd = "replace"
  <2>1. taker.id \notin InBook /\ live < MaxOrders /\ taker.id \in DOMAIN map
    BY <1>5, WorkingFacts DEF Working
  <2>2. DOMAIN map = InBook \cup {taker.id}
    BY <1>5, <2>1 DEF InBook, OutOfBook
  <2>3. Cardinality(DOMAIN map) = Cardinality(InBook) + 1
    BY <2>1, <2>2, InBookFinite, FS_AddElement DEF BookInv
  <2>. QED  BY <1>1, <1>2, <2>1, <2>3, ConfigAssumption DEF CapacityRespected
<1>. QED  BY <1>3, <1>4, <1>5

\* live counts the orders in the queues, and neither the store nor the order
\* map outgrows max_orders: the arena and the table that are allocated once.
THEOREM CapacityHolds == Spec => []CapacityRespected
BY CapacityNow, BookInvariant, PTL

\* A post-only order that passed validation never finds a maker it may trade
\* with.
THEOREM PostOnlyRestsWhole == Spec => []PostOnlyNeverTakes
<1>1. BookInv => PostOnlyNeverTakes
  BY DEF BookInv
<1>. QED  BY <1>1, BookInvariant, PTL

----------------------------------------------------------------------------
\* The quantity of a queue

\* The quantities of a queue as a function, to sum over.
Qtys(q) == [i \in DOMAIN q |-> q[i].qty]

\* What a queue offers is the sum of a function on its positions.
LEMMA QueueQtyIs ==
  ASSUME NEW q \in Seq(Order)
  PROVE  /\ QueueQty(q) = SumFunctionOnSet(Qtys(q), 1 .. Len(q))
         /\ IsFiniteSet(1 .. Len(q))
         /\ Qtys(q) \in [1 .. Len(q) -> Nat] /\ Qtys(q) \in [1 .. Len(q) -> Int]
         /\ QueueQty(q) \in Nat
<1>1. Qtys(q) \in [1 .. Len(q) -> Nat]
  <2>1. \A i \in 1 .. Len(q) : q[i] \in Order
    OBVIOUS
  <2>2. \A order \in Order : order.qty \in Nat
    BY QtyAssumption DEF Order, Qty
  <2>. QED  BY <2>1, <2>2 DEF Qtys
<1>2. Qtys(q) \in [1 .. Len(q) -> Int]
  BY <1>1
<1>3. IsFiniteSet(1 .. Len(q))
  BY FS_Interval
<1>4. QueueQty(q) = SumFunctionOnSet(Qtys(q), 1 .. Len(q))
  BY <1>1 DEF QueueQty, SumFunction, Qtys
<1>5. QueueQty(q) \in Nat
  BY <1>1, <1>3, <1>4, SumParts
<1>. QED  BY <1>1, <1>2, <1>3, <1>4, <1>5

\* An empty queue has nothing for sale.
LEMMA EmptyQty == QueueQty(<< >>) = 0
<1>1. Qtys(<< >>) \in [{} -> Int] /\ IsFiniteSet({})
  BY FS_EmptySet DEF Qtys
<1>2. SumFunctionOnSet(Qtys(<< >>), {}) = 0
  BY <1>1, SumFacts
<1>. QED  BY <1>2 DEF QueueQty, SumFunction, Qtys

\* Appending an order adds its quantity.
LEMMA AppendQty ==
  ASSUME NEW q \in Seq(Order), NEW order \in Order
  PROVE  QueueQty(Append(q, order)) = QueueQty(q) + order.qty
<1>. DEFINE a == Append(q, order)
            n == Len(q) + 1
<1>1. a \in Seq(Order) /\ Len(a) = n /\ a[n] = order /\ \A i \in 1 .. Len(q) : a[i] = q[i]
  OBVIOUS
<1>2. n \in 1 .. n /\ 1 .. Len(q) = (1 .. n) \ {n} /\ 1 .. Len(q) \subseteq 1 .. n
  OBVIOUS
<1>. HIDE DEF a
<1>3. /\ QueueQty(a) = SumFunctionOnSet(Qtys(a), 1 .. n)
      /\ Qtys(a) \in [1 .. n -> Int] /\ IsFiniteSet(1 .. n)
  BY <1>1, QueueQtyIs
<1>4. SumFunctionOnSet(Qtys(a), 1 .. n) = Qtys(a)[n] + SumFunctionOnSet(Qtys(a), 1 .. Len(q))
  BY <1>2, <1>3, SumFacts
<1>5. /\ QueueQty(q) = SumFunctionOnSet(Qtys(q), 1 .. Len(q)) /\ QueueQty(q) \in Nat
      /\ Qtys(q) \in [1 .. Len(q) -> Int] /\ IsFiniteSet(1 .. Len(q))
  BY QueueQtyIs
<1>6. Qtys(a)[n] = order.qty /\ \A i \in 1 .. Len(q) : Qtys(a)[i] = Qtys(q)[i]
  BY <1>1, <1>2 DEF Qtys
<1>7. SumFunctionOnSet(Qtys(a), 1 .. Len(q)) = SumFunctionOnSet(Qtys(q), 1 .. Len(q))
  BY <1>2, <1>3, <1>5, <1>6, SumSame, SMTT(30)
<1>8. order.qty \in Int
  BY QtyAssumption DEF Order, Qty
<1>. QED  BY <1>3, <1>4, <1>5, <1>6, <1>7, <1>8 DEF a

\* Removing an order takes its quantity away.
LEMMA RemoveAtQty ==
  ASSUME NEW q \in Seq(Order), NEW i \in DOMAIN q
  PROVE  QueueQty(RemoveAt(q, i)) = QueueQty(q) - q[i].qty
<1>. DEFINE r == RemoveAt(q, i)
            I == 1 .. Len(q)
            J == 1 .. Len(q) - 1
            f == Qtys(q)
            h == [j \in J |-> IF j < i THEN j ELSE j + 1]
<1>1. i \in I /\ Len(q) \in Nat /\ Len(q) - 1 \in Nat /\ DOMAIN q = I
  OBVIOUS
<1>2. r \in Seq(Order) /\ Len(r) = Len(q) - 1
      /\ \A j \in J : r[j] = IF j < i THEN q[j] ELSE q[j + 1]
  BY <1>1, RemoveAtElements
<1>. HIDE DEF r
<1>3. /\ h \in [J -> I] /\ \A x, y \in J : h[x] = h[y] => x = y
      /\ \A j \in J : h[j] = IF j < i THEN j ELSE j + 1
  BY <1>1
<1>4. h \in [J -> I \ {i}] /\ \A y \in I \ {i} : \E x \in J : h[x] = y
  <2>1. ASSUME NEW y \in I \ {i}
        PROVE  \E x \in J : h[x] = y
    <3>1. CASE y < i
      BY <3>1, <1>1, <1>3
    <3>2. CASE y > i
      <4>1. y - 1 \in J /\ h[y - 1] = y
        BY <3>2, <1>1, <1>3
      <4>. QED  BY <4>1
    <3>. QED  BY <3>1, <3>2, <1>1
  <2>2. \A x \in J : h[x] \in I \ {i}
    BY <1>1, <1>3
  <2>. HIDE DEF h, I, J
  <2>. QED  BY <1>3, <2>1, <2>2
<1>5. /\ f \in [I -> Int] /\ IsFiniteSet(I)
      /\ QueueQty(q) = SumFunctionOnSet(f, I) /\ QueueQty(q) \in Nat
  BY QueueQtyIs
<1>6. QueueQty(r) = SumFunctionOnSet(Qtys(r), J) /\ IsFiniteSet(J)
  BY <1>1, <1>2, QueueQtyIs
<1>7. DOMAIN r = J /\ f[i] = q[i].qty
  BY <1>1, <1>2 DEF Qtys
<1>8. Qtys(r) \in [J -> Int] /\ \A x \in J : Qtys(r)[x] = f[h[x]]
  BY <1>1, <1>2, <1>3, <1>7, QueueQtyIs DEF Qtys
<1>. HIDE DEF h, f, I, J
<1>9. SumFunctionOnSet(Qtys(r), J) = SumFunctionOnSet(f, I \ {i})
  <2>. DEFINE g == Qtys(r)
              S == I \ {i}
  <2>1. S \in SUBSET I /\ h \in Bijection(J, S)
    BY <1>3, <1>4 DEF Bijection, Injection, Surjection, IsInjective
  <2>2. g \in [J -> Int] /\ \A x \in J : g[x] = f[h[x]]
    BY <1>8
  <2>. HIDE DEF g, S
  <2>3. IsFiniteSet(I) /\ IsFiniteSet(J) /\ f \in [I -> Int]
    BY <1>5, <1>6
  <2>4. SumFunctionOnSet(g, J) = SumFunctionOnSet(f, S)
    BY <2>1, <2>2, <2>3, SumRenamed
  <2>. QED  BY <2>4 DEF g, S
<1>10. SumFunctionOnSet(f, I) = f[i] + SumFunctionOnSet(f, I \ {i})
  BY <1>1, <1>5, SumFacts
<1>11. SumFunctionOnSet(f, I \ {i}) \in Int /\ f[i] \in Int
  BY <1>1, <1>5, SumFacts
<1>12. QueueQty(r) = QueueQty(q) - q[i].qty
  BY <1>5, <1>6, <1>7, <1>9, <1>10, <1>11
<1>. QED  BY <1>12 DEF r

\* Changing a quantity changes the sum by the difference.
LEMMA SetQtyQty ==
  ASSUME NEW q \in Seq(Order), NEW i \in DOMAIN q, NEW n \in Qty \ {0}
  PROVE  QueueQty([q EXCEPT ![i].qty = n]) = QueueQty(q) - q[i].qty + n
<1>. DEFINE e == [q EXCEPT ![i].qty = n]
            I == 1 .. Len(q)
            f == Qtys(q)
            g == Qtys(e)
<1>1. q[i] \in Order
  OBVIOUS
<1>2. [q[i] EXCEPT !.qty = n] \in Order /\ [q[i] EXCEPT !.qty = n].qty = n
  BY <1>1 DEF Order
<1>3. /\ e \in Seq(Order) /\ DOMAIN e = DOMAIN q
      /\ e[i] = [q[i] EXCEPT !.qty = n] /\ \A j \in DOMAIN q \ {i} : e[j] = q[j]
  BY <1>1, <1>2
<1>. HIDE DEF e
<1>4. Len(e) = Len(q) /\ DOMAIN q = I /\ i \in I
  BY <1>3
<1>5. f \in [I -> Int] /\ IsFiniteSet(I) /\ QueueQty(q) = SumFunctionOnSet(f, I)
  BY QueueQtyIs
<1>6. g \in [I -> Int] /\ QueueQty(e) = SumFunctionOnSet(g, I)
  BY <1>3, <1>4, QueueQtyIs
<1>7. g[i] = n /\ f[i] = q[i].qty /\ \A j \in I \ {i} : f[j] = g[j]
  BY <1>2, <1>3, <1>4 DEF Qtys
<1>. HIDE DEF I, f, g
<1>8. SumFunctionOnSet(g, I) = SumFunctionOnSet(f, I) - f[i] + g[i]
  <2>1. I \in SUBSET I
    OBVIOUS
  <2>. QED  BY <2>1, <1>4, <1>5, <1>6, <1>7, SumChanged, SMTT(30)
<1>. QED  BY <1>5, <1>6, <1>7, <1>8 DEF e

----------------------------------------------------------------------------
\* What one operation on the queues changes

QtyAt(side, p) == QueueQty(queue[side][p])

\* A step after which one level offers n more (or less) and the others what
\* they did.
QtyGrows(side, p, n) ==
  \A s \in Side, r \in Price :
    QtyAt(s, r)' = IF s = side /\ r = p THEN QtyAt(s, r) + n ELSE QtyAt(s, r)

\* Every operation changes a total by what it changes the queue by.
LEMMA TotalFollows ==
  ASSUME QueuesOK, LevelTotalsExact, NEW side \in Side, NEW p \in Price,
         NEW q \in Seq(Order), queue' = [queue EXCEPT ![side][p] = q],
         NEW n \in Int, QueueQty(q) = QtyAt(side, p) + n,
         total' = [total EXCEPT ![side][p] = (total[side][p] + n) % QtyWrap]
  PROVE  LevelTotalsExact' /\ QtyGrows(side, p, n)
<1>1. \A s \in Side, r \in Price :
        /\ queue'[s][r] = IF s = side /\ r = p THEN q ELSE queue[s][r]
        /\ total'[s][r] = IF s = side /\ r = p THEN (total[side][p] + n) % QtyWrap
                                               ELSE total[s][r]
  BY DEF QueuesOK
<1>2. QtyAt(side, p) \in Int /\ total[side][p] = QtyAt(side, p) % QtyWrap
  BY QueueTyped, QueueQtyIs DEF QtyAt, LevelTotalsExact
<1>3. (total[side][p] + n) % QtyWrap = QueueQty(q) % QtyWrap
  BY <1>2, ModSum, QtyAssumption
<1>4. LevelTotalsExact'
  BY <1>1, <1>3 DEF LevelTotalsExact
<1>5. QtyGrows(side, p, n)
  BY <1>1 DEF QtyGrows, QtyAt
<1>. QED  BY <1>4, <1>5

\* The level totals after each use of the store.
LEMMA UnlinkQty ==
  ASSUME QueuesOK, LevelTotalsExact, NEW side \in Side, NEW p \in Price,
         NEW i \in DOMAIN queue[side][p], Unlink(side, p, i)
  PROVE  LevelTotalsExact'
<1>. DEFINE q == queue[side][p]
            r == RemoveAt(q, i)
            n == 0 - q[i].qty
<1>1. q \in Seq(Order) /\ NoIdTwice(q) /\ total[side][p] \in Int /\ q[i].qty \in Int
  BY QueueTyped
<1>2. r \in Seq(Order) /\ QueueQty(r) = QueueQty(q) - q[i].qty
  BY <1>1, RemoveAtIds, RemoveAtQty
<1>3. queue' = [queue EXCEPT ![side][p] = r]
  BY DEF Unlink
<1>4. QueueQty(q) \in Int
  BY <1>1, QueueQtyIs
<1>5. total[side][p] - q[i].qty = total[side][p] + n /\ n \in Int
  BY <1>1
<1>6. total' = [total EXCEPT ![side][p] = (total[side][p] - q[i].qty) % QtyWrap]
  BY DEF Unlink
<1>7. QueueQty(r) = QtyAt(side, p) + n
  BY <1>1, <1>2, <1>4 DEF QtyAt
<1>. HIDE DEF q, r, n
<1>8. total' = [total EXCEPT ![side][p] = (total[side][p] + n) % QtyWrap]
  BY <1>5, <1>6
<1>. QED  BY <1>2, <1>3, <1>5, <1>7, <1>8, TotalFollows

LEMMA ReduceQty ==
  ASSUME QueuesOK, LevelTotalsExact, NEW side \in Side, NEW p \in Price,
         NEW i \in DOMAIN queue[side][p], NEW m \in Qty \ {0}, Reduce(side, p, i, m)
  PROVE  LevelTotalsExact'
<1>. DEFINE q == queue[side][p]
            r == [q EXCEPT ![i].qty = m]
            n == m - q[i].qty
<1>1. q \in Seq(Order) /\ NoIdTwice(q) /\ total[side][p] \in Int /\ q[i].qty \in Int /\ m \in Int
  BY QueueTyped DEF Qty
<1>2. r \in Seq(Order) /\ QueueQty(r) = QueueQty(q) - q[i].qty + m
  BY <1>1, SetQtyIds, SetQtyQty
<1>3. queue' = [queue EXCEPT ![side][p] = r]
  BY DEF Reduce
<1>4. QueueQty(q) \in Int
  BY <1>1, QueueQtyIs
<1>5. total[side][p] - (q[i].qty - m) = total[side][p] + n /\ n \in Int
  <2>1. PICK t, u : t = total[side][p] /\ u = q[i].qty
    OBVIOUS
  <2>2. t \in Int /\ u \in Int /\ m \in Int
    BY <1>1, <2>1
  <2>3. t - (u - m) = t + (m - u) /\ m - u \in Int
    BY ONLY <2>2
  <2>. QED  BY ONLY <2>1, <2>3
<1>6. total' = [total EXCEPT ![side][p] = (total[side][p] - (q[i].qty - m)) % QtyWrap]
  BY DEF Reduce
<1>7. QueueQty(r) = QtyAt(side, p) + n
  BY <1>1, <1>2, <1>4 DEF QtyAt
<1>. HIDE DEF q, r, n
<1>8. total' = [total EXCEPT ![side][p] = (total[side][p] + n) % QtyWrap]
  BY <1>5, <1>6
<1>. QED  BY <1>2, <1>3, <1>5, <1>7, <1>8, TotalFollows

LEMMA TakeFrontQty ==
  ASSUME QueuesOK, LevelTotalsExact, NEW side \in Side, NEW p \in Occupied(side),
         NEW m \in Qty \ {0}, m <= Head(queue[side][p]).qty, TakeFront(side, p, m)
  PROVE  LevelTotalsExact' /\ QtyGrows(side, p, 0 - m)
<1>. DEFINE q == queue[side][p]
            t == Tail(q)
            r == [q EXCEPT ![1].qty = Head(q).qty - m]
            n == 0 - m
<1>0. p \in Price /\ q # << >>
  BY DEF Occupied
<1>1. q \in Seq(Order) /\ NoIdTwice(q) /\ total[side][p] \in Int
  BY <1>0, QueueTyped
<1>2. 1 \in DOMAIN q /\ Head(q) = q[1] /\ Head(q) \in Order
  BY <1>0, <1>1
<1>3. Head(q).qty \in Qty \ {0} /\ Head(q).qty \in Int /\ m \in Int /\ n \in Int
  BY <1>2, QtyAssumption DEF Order, Qty
<1>4. total' = [total EXCEPT ![side][p] = (total[side][p] - m) % QtyWrap]
  BY DEF TakeFront
<1>5. total[side][p] - m = total[side][p] + n /\ QueueQty(q) \in Int
  BY <1>1, <1>3, QueueQtyIs
<1>6. total' = [total EXCEPT ![side][p] = (total[side][p] + n) % QtyWrap]
  BY <1>4, <1>5
<1>7. CASE Head(q).qty = m
  <2>1. queue' = [queue EXCEPT ![side][p] = t]
    BY <1>7 DEF TakeFront
  <2>2. t = RemoveAt(q, 1)
    BY <1>0, <1>1 DEF RemoveAt
  <2>3. t \in Seq(Order) /\ QueueQty(t) = QueueQty(q) - q[1].qty
    BY <1>1, <1>2, <2>2, RemoveAtIds, RemoveAtQty
  <2>4. QueueQty(t) = QtyAt(side, p) + n
    BY <1>2, <1>3, <1>5, <1>7, <2>3 DEF QtyAt
  <2>. HIDE DEF q, t, n
  <2>. QED  BY <1>0, <1>3, <1>6, <2>1, <2>3, <2>4, TotalFollows DEF n
<1>8. CASE Head(q).qty # m
  <2>1. Head(q).qty - m \in Qty \ {0}
    BY <1>3, <1>8, QtyAssumption DEF Qty
  <2>2. r \in Seq(Order) /\ QueueQty(r) = QueueQty(q) - q[1].qty + (Head(q).qty - m)
    BY <1>1, <1>2, <2>1, SetQtyIds, SetQtyQty
  <2>3. queue' = [queue EXCEPT ![side][p] = r]
    BY <1>2, <1>8 DEF TakeFront
  <2>4. QueueQty(r) = QtyAt(side, p) + n
    BY <1>2, <1>3, <1>5, <2>2 DEF QtyAt
  <2>. HIDE DEF q, r, n
  <2>. QED  BY <1>0, <1>3, <1>6, <2>2, <2>3, <2>4, TotalFollows DEF n
<1>. QED  BY <1>7, <1>8

LEMMA PushQty ==
  ASSUME QueuesOK, LevelTotalsExact, NEW side \in Side, NEW p \in Price, NEW order \in Order,
         Push(side, p, order)
  PROVE  LevelTotalsExact'
<1>. DEFINE q == queue[side][p]
            a == Append(q, order)
<1>1. order.qty \in Int
  BY QtyAssumption DEF Order, Qty
<1>2. q \in Seq(Order)
  BY QueueTyped
<1>3. a \in Seq(Order) /\ QueueQty(a) = QtyAt(side, p) + order.qty
  BY <1>2, AppendQty DEF QtyAt
<1>4. queue' = [queue EXCEPT ![side][p] = a]
  BY DEF Push
<1>5. total' = [total EXCEPT ![side][p] = (total[side][p] + order.qty) % QtyWrap]
  BY DEF Push
<1>. HIDE DEF q, a
<1>. QED  BY <1>1, <1>3, <1>4, <1>5, TotalFollows

\* One maker's fill takes as much off its level as off the order in flight.
LEMMA FillOffers ==
  ASSUME BookInv, LevelTotalsExact, NEW p \in Price, Fill(p)
  PROVE  LET opp == Opposite(taker.side)
             q   == MinQty(taker.qty, Head(queue[opp][p]).qty)
         IN  /\ taker \in Taker /\ taker # Idle
             /\ taker.side \in Side /\ opp \in Side /\ taker.qty \in Nat /\ q \in Nat
             /\ taker' = [taker EXCEPT !.qty = taker.qty - q]
             /\ Acceptable(p)
             /\ QueuesOK' /\ LevelTotalsExact' /\ QtyGrows(opp, p, 0 - q)
<1>. DEFINE opp   == Opposite(taker.side)
            maker == Head(queue[opp][p])
            q     == MinQty(taker.qty, maker.qty)
<1>1. /\ Working /\ taker.qty > 0 /\ p \in Occupied(opp) /\ Acceptable(p)
      /\ TakeFront(opp, p, q)
      /\ taker' = [taker EXCEPT !.qty = taker.qty - q]
  BY DEF Fill, Unfilled, IsBest
<1>2. taker \in Taker /\ taker.side \in Side /\ opp \in Side /\ taker.qty \in Qty
  BY <1>1, WorkingFacts
<1>3. maker.qty \in Qty \ {0}
  <2>1. queue[opp][p] \in Seq(Order) /\ queue[opp][p] # << >>
    BY <1>1, <1>2, QueueTyped DEF BookInv, Typed, Occupied
  <2>2. maker \in Order
    BY <2>1
  <2>. QED  BY <2>2 DEF Order
<1>4. q \in Qty \ {0} /\ q <= maker.qty /\ q \in Nat /\ taker.qty \in Nat
  <2>. HIDE DEF maker
  <2>. QED  BY <1>1, <1>2, <1>3, QtyAssumption DEF MinQty, Qty
<1>5. QueuesOK' /\ LevelTotalsExact' /\ QtyGrows(opp, p, 0 - q)
  <2>. HIDE DEF opp, q
  <2>. QED  BY <1>1, <1>2, <1>4, TakeFrontEffect, TakeFrontQty DEF BookInv, Typed
<1>. QED  BY <1>1, <1>2, <1>4, <1>5 DEF Working

----------------------------------------------------------------------------
\* The totals, action by action

\* A command that takes or shrinks a resting order adjusts its level's total.
LEMMA RemovalTotals ==
  ASSUME BookInv, LevelTotalsExact
  PROVE  /\ \A c : Cancel(c) => LevelTotalsExact'
         /\ \A c \in AnyReplace : ReplaceInPlace(c) \/ ReplaceAndCross(c) => LevelTotalsExact'
<1>0. QueuesOK
  BY DEF BookInv, Typed
<1>1. ASSUME NEW c, Cancel(c)
      PROVE  LevelTotalsExact'
  <2>1. c.id \in DOMAIN map
    BY <1>1 DEF Cancel, At
  <2>2. map[c.id].side \in Side /\ map[c.id].price \in Price
    BY <2>1, MapTyped DEF BookInv
  <2>. QED  BY <1>0, <1>1, <2>2, UnlinkQty DEF Cancel
<1>2. ASSUME NEW c \in AnyReplace, ReplaceInPlace(c)
      PROVE  LevelTotalsExact'
  <2>1. c.id \in DOMAIN map /\ c.qty \in Qty \ {0}
    BY <1>2, ReplaceAccepted DEF ReplaceInPlace
  <2>2. map[c.id].side \in Side /\ map[c.id].price \in Price
    BY <2>1, MapTyped DEF BookInv
  <2>. QED  BY <1>0, <1>2, <2>1, <2>2, ReduceQty DEF ReplaceInPlace
<1>3. ASSUME NEW c \in AnyReplace, ReplaceAndCross(c)
      PROVE  LevelTotalsExact'
  <2>1. c.id \in DOMAIN map
    BY <1>3, ReplaceAccepted DEF ReplaceAndCross
  <2>2. map[c.id].side \in Side /\ map[c.id].price \in Price
    BY <2>1, MapTyped DEF BookInv
  <2>. QED  BY <1>0, <1>3, <2>2, UnlinkQty DEF ReplaceAndCross
<1>. QED  BY <1>1, <1>2, <1>3

\* No step leaves a level total behind.
LEMMA TotalsStep ==
  ASSUME BookInv, LevelTotalsExact, [Next]_vars
  PROVE  LevelTotalsExact'
<1>0. QueuesOK
  BY DEF BookInv, Typed
<1>1. CASE UNCHANGED <<queue, total>>
  BY <1>1 DEF LevelTotalsExact
<1>2. ASSUME NEW p \in Price, Fill(p)
      PROVE  LevelTotalsExact'
  BY <1>2, FillOffers
<1>3. CASE RestRemainder
  <2>. DEFINE order == [id |-> taker.id, qty |-> taker.qty, tif |-> taker.tif]
  <2>1. Push(taker.side, taker.price, order) /\ Working /\ taker.qty > 0 /\ RestsRemainder
    BY <1>3 DEF RestRemainder, Exhausted
  <2>2. taker \in Taker /\ taker.side \in Side /\ taker.price \in Price
    BY <2>1, WorkingFacts DEF RestsRemainder
  <2>3. order \in Order
    BY <2>1, <2>2, WorkingFacts DEF RestsRemainder, Order, Taker
  <2>. QED  BY <1>0, <2>1, <2>2, <2>3, PushQty
<1>. QED  BY <1>1, <1>2, <1>3, RemovalTotals, ReplacesParsed
          DEF Next, Submit, Continue, RejectNew, RejectCancel, RejectReplace, Reject, New,
              CloseFilled, Expire, vars

----------------------------------------------------------------------------
\* Fill-or-kill

\* What a side offers at each price, and the prices an order may trade at.
Offer(side) == [p \in Price |-> QtyAt(side, p)]
Within(side, price) == {p \in Price : Crosses(side, price, p)}

LEMMA PriceFinite == IsFiniteSet(Price)
BY PriceAssumption, FS_Subset DEF Price

\* Empty levels offer nothing, so that the sum may as well run over them.
LEMMA AvailableIs ==
  ASSUME QueuesOK, NEW side \in Side, NEW price
  PROVE  /\ Offer(Opposite(side)) \in [Price -> Nat]
         /\ Available(side, price) = SumFunctionOnSet(Offer(Opposite(side)), Within(side, price))
         /\ Available(side, price) \in Nat
<1>. DEFINE opp == Opposite(side)
            inside == {p \in Occupied(opp) : Crosses(side, price, p)}
            W == Within(side, price)
            f == Offer(opp)
<1>1. opp \in Side
  BY DEF Opposite, Side
<1>. HIDE DEF opp
<1>2. f \in [Price -> Nat]
  BY <1>1, QueueTyped, QueueQtyIs DEF Offer, QtyAt
<1>3. \A p \in W \ inside : f[p] = 0
  BY <1>1, EmptyQty DEF Occupied, Within, Offer, QtyAt
<1>4. W \in SUBSET Price /\ inside \in SUBSET W
  BY DEF Within, Occupied
<1>5. Available(side, price) = SumFunctionOnSet(f, inside)
  BY DEF Available, Offer, QtyAt, opp
<1>. HIDE DEF f, inside, W
<1>6. SumFunctionOnSet(f, inside) = SumFunctionOnSet(f, W) /\ SumFunctionOnSet(f, inside) \in Nat
  BY <1>2, <1>3, <1>4, PriceFinite, SumParts
<1>. QED  BY <1>2, <1>5, <1>6 DEF f, W, opp

OffersExact ==
  \A side \in Side :
    /\ Offer(Opposite(side)) \in [Price -> Nat]
    /\ \A price : Available(side, price)
                     = SumFunctionOnSet(Offer(Opposite(side)), Within(side, price))

\* What is available is the sum over the prices in reach of what each offers.
LEMMA OffersAreExact == QueuesOK => OffersExact
BY AvailableIs DEF OffersExact

\* The pre-check never promises more than there is, and is exact while what
\* there is fits the integer.
LEMMA FillableIs ==
  ASSUME QueuesOK, LevelTotalsExact, NEW side \in Side, NEW price
  PROVE  /\ Fillable(side, price) <= Available(side, price)
         /\ Fillable(side, price) \in Nat
         /\ Available(side, price) < QtyWrap => Fillable(side, price) = Available(side, price)
<1>. DEFINE opp == Opposite(side)
            inside == {p \in Occupied(opp) : Crosses(side, price, p)}
            f == Offer(opp)
            g == total[opp]
            a == SumFunctionOnSet(f, inside)
            s == SumFunctionOnSet(g, inside)
<1>1. opp \in Side
  BY DEF Opposite, Side
<1>2. f \in [Price -> Nat] /\ f \in [Price -> Int]
  BY AvailableIs
<1>3. Available(side, price) = a /\ Fillable(side, price) = s % QtyWrap
  BY DEF Available, Fillable, Offer, QtyAt
<1>. HIDE DEF opp
<1>4. g \in [Price -> Nat] /\ g \in [Price -> Int]
  BY <1>1, QtyAssumption DEF QueuesOK, Qty
<1>5. \A p \in Price : g[p] = f[p] % QtyWrap /\ g[p] <= f[p]
  <2>1. \A p \in Price : g[p] = f[p] % QtyWrap
    BY <1>1 DEF LevelTotalsExact, Offer, QtyAt
  <2>2. \A n \in Nat : n % QtyWrap <= n
    BY QtyAssumption
  <2>. HIDE DEF f, g
  <2>. QED  BY <1>2, <2>1, <2>2
<1>6. inside \in SUBSET Price
  BY DEF Occupied
<1>. HIDE DEF inside, f, g
<1>7. s <= a
  BY <1>2, <1>4, <1>5, <1>6, PriceFinite, SumAtMost
<1>8. a \in Nat /\ s \in Nat
  BY <1>2, <1>4, <1>6, PriceFinite, SumParts
<1>9. ASSUME a < QtyWrap
      PROVE  s % QtyWrap = a
  <2>1. \A p \in inside : f[p] <= a /\ f[p] \in Nat
    BY <1>2, <1>6, PriceFinite, SumMember
  <2>2. \A p \in inside : g[p] = f[p]
    BY <1>5, <1>6, <1>8, <1>9, <2>1, QtyAssumption
  <2>3. s = a
    BY <1>2, <1>4, <1>6, <2>2, PriceFinite, SumSame
  <2>. HIDE DEF s, a
  <2>. QED  BY <1>8, <1>9, <2>3, QtyAssumption
<1>. HIDE DEF s, a
<1>10. s % QtyWrap <= s /\ s % QtyWrap \in Nat
  BY <1>8, QtyAssumption
<1>. QED  BY <1>3, <1>7, <1>8, <1>9, <1>10

\* A step that changes no queue changes no offer.
LEMMA OfferStays ==
  ASSUME queue' = queue, NEW side, NEW price
  PROVE  Available(side, price)' = Available(side, price)
BY DEF Available, Occupied

\* A fill within the limit takes its quantity from what is available.
LEMMA OfferFalls ==
  ASSUME QueuesOK, QueuesOK', NEW side \in Side, NEW price, NEW p \in Price, NEW n \in Nat,
         Crosses(side, price, p), QtyGrows(Opposite(side), p, 0 - n)
  PROVE  Available(side, price)' = Available(side, price) - n
<1>. DEFINE opp == Opposite(side)
            W == Within(side, price)
            f == Offer(opp)
            g == Offer(opp)'
<1>1. f \in [Price -> Nat] /\ Available(side, price) = SumFunctionOnSet(f, W)
  BY AvailableIs
<1>2. g \in [Price -> Nat] /\ Available(side, price)' = SumFunctionOnSet(g, W)
  <2>1. OffersExact'
    BY OffersAreExact, PTL
  <2>. QED  BY <2>1 DEF OffersExact
<1>3. p \in W /\ W \in SUBSET Price /\ opp \in Side
  BY DEF Within, Opposite, Side
<1>4. \A r \in Price : g[r] = IF r = p THEN f[r] - n ELSE f[r]
  <2>1. \A r \in Price : QtyAt(opp, r)' = IF r = p THEN QtyAt(opp, r) - n ELSE QtyAt(opp, r)
    <3>1. \A r \in Price : QtyAt(opp, r) \in Int
      BY <1>3, QueueTyped, QueueQtyIs DEF QtyAt
    <3>. QED  BY <1>3, <3>1 DEF QtyGrows
  <2>. QED  BY <2>1 DEF Offer
<1>. HIDE DEF f, g, W
<1>5. f \in [Price -> Int] /\ g \in [Price -> Int]
  BY <1>1, <1>2
<1>6. SumFunctionOnSet(g, W) = SumFunctionOnSet(f, W) - f[p] + g[p]
  BY <1>3, <1>4, <1>5, PriceFinite, SumChanged
<1>7. g[p] = f[p] - n /\ f[p] \in Int /\ SumFunctionOnSet(f, W) \in Int
  BY <1>3, <1>4, <1>5, PriceFinite, SumFacts
<1>. QED  BY <1>1, <1>2, <1>6, <1>7

\* While a fill-or-kill taker is at work its reach offers what it still wants.
LEMMA FokStep ==
  ASSUME BookInv, LevelTotalsExact, FokNeverPartial, [Next]_vars
  PROVE  FokNeverPartial'
<1>0. QueuesOK
  BY DEF BookInv, Typed
<1>1. CASE UNCHANGED <<queue, taker>>
  BY <1>1 DEF FokNeverPartial, Available, Occupied
<1>2. CASE taker' = Idle \/ taker'.cmd = "replace"
  BY <1>2 DEF FokNeverPartial
<1>3. ASSUME NEW c \in NewCommand, New(c)
      PROVE  FokNeverPartial'
  <2>1. /\ taker' = [cmd |-> "new", id |-> c.id, side |-> c.side, bound |-> c.otype = "limit",
                     price |-> c.price, tif |-> c.tif, qty |-> c.qty]
        /\ queue' = queue /\ NewRejection(c) = "none"
    BY <1>3 DEF New
  <2>. SUFFICES ASSUME c.otype = "limit", c.tif = "fok"
                PROVE  c.qty <= Available(c.side, c.price)'
    BY <2>1 DEF FokNeverPartial, Available
  <2>2. ~(Fillable(c.side, c.price) < c.qty)
    BY <2>1 DEF NewRejection, TifRejection
  <2>3. c.side \in Side /\ c.qty \in Nat
    <3>1. c.side \in Side /\ c.qty \in CmdQtys
      BY DEF NewCommand, LimitCommand, MarketCommand
    <3>2. \A n \in CmdQtys : n \in Nat
      BY QtyAssumption
    <3>. HIDE DEF NewCommand
    <3>. QED  BY <3>1, <3>2
  <2>4. /\ Fillable(c.side, c.price) <= Available(c.side, c.price)
        /\ Fillable(c.side, c.price) \in Nat /\ Available(c.side, c.price) \in Nat
    BY <1>0, <2>3, FillableIs, AvailableIs
  <2>. QED  BY <2>1, <2>2, <2>3, <2>4, OfferStays
<1>4. ASSUME NEW p \in Price, Fill(p)
      PROVE  FokNeverPartial'
  <2>. DEFINE opp == Opposite(taker.side)
              q   == MinQty(taker.qty, Head(queue[opp][p]).qty)
  <2>1. /\ taker \in Taker /\ taker.side \in Side /\ opp \in Side /\ taker.qty \in Nat
        /\ taker' = [taker EXCEPT !.qty = taker.qty - q] /\ q \in Nat
        /\ QueuesOK' /\ QtyGrows(opp, p, 0 - q) /\ Acceptable(p) /\ taker # Idle
    BY <1>4, FillOffers
  <2>2. /\ taker'.cmd = taker.cmd /\ taker'.side = taker.side /\ taker'.price = taker.price
        /\ taker'.bound = taker.bound /\ taker'.tif = taker.tif /\ taker'.qty = taker.qty - q
    BY <2>1 DEF Taker
  <2>. SUFFICES ASSUME taker.cmd = "new", taker.bound, taker.tif = "fok",
                       NEW s \in Side, s = taker.side, NEW x, x = taker.price
                PROVE  taker.qty - q <= Available(s, x)'
    BY <2>1, <2>2 DEF FokNeverPartial, Available
  <2>. HIDE DEF q
  <2>3. taker.qty <= Available(s, x) /\ Crosses(s, x, p)
    BY <2>1 DEF FokNeverPartial, Acceptable
  <2>4. Available(s, x)' = Available(s, x) - q /\ Available(s, x) \in Nat
    BY <1>0, <2>1, <2>3, OfferFalls, AvailableIs
  <2>. QED  BY <2>1, <2>3, <2>4
<1>5. ASSUME NEW c \in ReplaceCommand, ReplaceAndCross(c)
      PROVE  FokNeverPartial'
  <2>1. taker'.cmd = "replace"
    BY <1>5 DEF ReplaceAndCross
  <2>. QED  BY <1>2, <2>1
<1>6. CASE RejectNew \/ RejectCancel \/ RejectReplace \/ CloseFilled \/ RestRemainder \/ Expire
  BY <1>2, <1>6 DEF RejectNew, RejectCancel, RejectReplace, Reject, CloseFilled, RestRemainder,
                    Expire
<1>7. CASE \/ \E c \in CancelCommand : Cancel(c)
           \/ \E c \in ReplaceCommand : ReplaceInPlace(c)
  BY <1>2, <1>7 DEF Cancel, ReplaceInPlace
<1>8. CASE UNCHANGED vars
  BY <1>1, <1>8 DEF vars
<1>. QED  BY <1>3, <1>4, <1>5, <1>6, <1>7, <1>8 DEF Next, Submit, Continue

----------------------------------------------------------------------------
\* The theorems

\* The totals are exact in the empty book.
LEMMA InitTotals ==
  ASSUME Init
  PROVE  LevelTotalsExact
<1>1. 0 % QtyWrap = 0
  BY QtyAssumption
<1>. QED  BY <1>1, EmptyQty DEF Init, QueueInit, LevelTotalsExact

\* What is proved of the book's quantities, beside BookInv.
QtyInv == LevelTotalsExact /\ FokNeverPartial

LEMMA QtyInvariant == Spec => [](BookInv /\ QtyInv)
<1>1. Init => QtyInv
  BY InitTotals DEF QtyInv, Init, FokNeverPartial
<1>2. BookInv /\ QtyInv /\ [Next]_vars => QtyInv'
  BY TotalsStep, FokStep DEF QtyInv
<1>. QED  BY <1>1, <1>2, BookInvariant, PTL DEF Spec

\* Level.total, the number depth and fillable read without looking at an
\* order, is the sum of the level's quantities modulo 2^64 after every step.
THEOREM TotalsExact == Spec => []LevelTotalsExact
BY QtyInvariant, PTL DEF QtyInv

\* A fill-or-kill order that the pre-check lets through is filled whole, also
\* when the totals the check adds up have wrapped.
THEOREM FokAllOrNothing == Spec => []FokNeverPartial
BY QtyInvariant, PTL DEF QtyInv

\* A fill-or-kill order is refused only when the book is short of it, or
\* offers more than the sum can hold.
THEOREM FokRefusalsJustified == Spec => []FokRefusalJustified
<1>1. BookInv /\ QtyInv => FokRefusalJustified
  <2>. SUFFICES ASSUME BookInv, QtyInv, NEW c \in FokCommand,
                       NewRejection(c) = "fok_cannot_fill",
                       Available(c.side, c.price) < QtyWrap
                PROVE  Available(c.side, c.price) < c.qty
    <3>1. \A c \in FokCommand : c.side \in Side
      BY DEF FokCommand, LimitCommand
    <3>2. \A c \in FokCommand : BookInv => Available(c.side, c.price) \in Nat
      BY <3>1, AvailableIs DEF BookInv, Typed
    <3>. QED  BY <3>2, QtyAssumption DEF FokRefusalJustified
  <2>1. Fillable(c.side, c.price) < c.qty
    BY DEF NewRejection, TifRejection
  <2>2. c.side \in Side
    BY DEF FokCommand, LimitCommand
  <2>3. Fillable(c.side, c.price) = Available(c.side, c.price)
    BY <2>2, FillableIs DEF BookInv, Typed, QtyInv
  <2>. QED  BY <2>1, <2>3
<1>. QED  BY <1>1, QtyInvariant, PTL

----------------------------------------------------------------------------
\* Book order

Queues == [Side -> [Price -> Seq(Order)]]

\* A line of a snapshot.
Line == [side: Side, price: Price, order: Order]

LEMMA ResumesLine ==
  \A side \in Side, p \in Price, o \in Order : Resting(side, p, o) \in Line
BY DEF Resting, Line

Held(q, side) == {p \in Price : q[side][p] # << >>}

\* The prices of a side, by increasing rank.
LEMMA DepthIs ==
  ASSUME NEW q \in Queues, NEW side \in Side
  PROVE  /\ Depth(q, side) \in Seq(Held(q, side))
         /\ \A i, j \in DOMAIN Depth(q, side) : Depth(q, side)[i] = Depth(q, side)[j] => i = j
         /\ \A p \in Held(q, side) : \E k \in DOMAIN Depth(q, side) : Depth(q, side)[k] = p
<1>. DEFINE held == Held(q, side)
            d    == Depth(q, side)
            n    == Cardinality(held)
<1>0. held \in SUBSET Price /\ \A p \in held : p \in Int
  BY PriceAssumption DEF Held, Price
<1>1. IsFiniteSet(held) /\ n \in Nat
  BY <1>0, PriceFinite, FS_Subset, FS_CardinalityType
<1>. DEFINE key == [p \in held |-> IF side = "bid" THEN 0 - p ELSE p]
<1>2. key \in [held -> Int] /\ \A x, y \in held : key[x] = key[y] => x = y
  <2>1. \A p \in held : p \in Int /\ 0 - p \in Int
    BY <1>0
  <2>2. \A x, y \in held : (0 - x = 0 - y => x = y) /\ (0 - y <= 0 - x <=> x <= y)
    BY <2>1
  <2>. QED  BY <2>1, <2>2
<1>3. PICK f : Listing(f, n, held, key)
  BY <1>1, <1>2, ListingExists
<1>4. held = {p \in DOMAIN q[side] : q[side][p] # << >>}
  BY DEF Held, Queues
<1>5. d = [k \in 1 .. n |-> CHOOSE p \in held : Cardinality({r \in held : ~Better(side, p, r)}) = k]
  BY <1>4 DEF Depth
<1>6. \A p \in held : {r \in held : ~Better(side, p, r)} = {y \in held : key[y] <= key[p]}
  <2>1. \A p, r \in held : ~Better(side, p, r) <=> key[r] <= key[p]
    <3>1. \A p, r \in held : (~(p > r) <=> 0 - r <= 0 - p) /\ (~(p < r) <=> r <= p)
      BY <1>0
    <3>. QED  BY <3>1 DEF Better, Side
  <2>. HIDE DEF key, held
  <2>. QED  BY <2>1
<1>. HIDE DEF held, key, n
<1>7. ASSUME NEW k \in 1 .. n
      PROVE  d[k] = f[k]
  <2>1. AtRank(held, key, k) = f[k]
    <3>1. n \in Nat /\ key \in [held -> Int]
      BY <1>1, <1>2
    <3>. QED  BY ONLY <1>3, <1>7, <3>1, ListingIs
  <2>2. (CHOOSE p \in held : Cardinality({r \in held : ~Better(side, p, r)}) = k)
          = (CHOOSE p \in held : Cardinality({y \in held : key[y] <= key[p]}) = k)
    <3>1. \A p : p \in held /\ Cardinality({r \in held : ~Better(side, p, r)}) = k
                   <=> p \in held /\ Cardinality({y \in held : key[y] <= key[p]}) = k
      BY <1>6
    <3>. QED  BY <3>1, Zenon
  <2>3. d[k] = CHOOSE p \in held : Cardinality({r \in held : ~Better(side, p, r)}) = k
    BY <1>5, <1>7
  <2>. QED  BY <2>1, <2>2, <2>3 DEF AtRank
<1>8. f \in [1 .. n -> held] /\ DOMAIN d = 1 .. n
  BY <1>3, <1>5 DEF Listing
<1>9. d = f
  BY <1>5, <1>7, <1>8
<1>10. \A i, j \in 1 .. n : f[i] = f[j] => i = j
  <2>1. n \in Nat /\ key \in [held -> Int]
    BY <1>1, <1>2
  <2>. QED  BY ONLY <1>3, <2>1, ListingRank
<1>11. f \in Seq(held) /\ DOMAIN f = 1 .. n /\ \A p \in held : \E k \in 1 .. n : f[k] = p
  BY <1>1, <1>3 DEF Listing
<1>. QED  BY <1>9, <1>10, <1>11 DEF held, d

\* orders is a side of the book, price by price and each level oldest first;
\* at tells where each order rests.
SideOrder(orders, q, side, at) ==
  /\ orders \in Seq(Line)
  /\ at \in [1 .. Len(orders) -> Price \X Nat]
  /\ \A i \in 1 .. Len(orders) :
       /\ at[i][2] \in 1 .. Len(q[side][at[i][1]])
       /\ orders[i] = Resting(side, at[i][1], q[side][at[i][1]][at[i][2]])
  /\ \A p \in Price : \A n \in 1 .. Len(q[side][p]) : \E i \in 1 .. Len(orders) : at[i] = <<p, n>>
  /\ \A i, j \in 1 .. Len(orders) : i < j /\ at[i][1] = at[j][1] => at[i][2] < at[j][2]

OrdersOfSide(q, side) ==
  FlattenSeq([k \in DOMAIN Depth(q, side) |-> LevelOrders(q, side, Depth(q, side)[k])])

LEMMA SideInOrder ==
  ASSUME NEW q \in Queues, NEW side \in Side
  PROVE  \E at : SideOrder(OrdersOfSide(q, side), q, side, at)
<1>. DEFINE d    == Depth(q, side)
            ss   == [k \in DOMAIN d |-> LevelOrders(q, side, d[k])]
            flat == FlattenSeq(ss)
<1>0. /\ d \in Seq(Held(q, side))
      /\ \A i, j \in DOMAIN d : d[i] = d[j] => i = j
      /\ \A p \in Held(q, side) : \E k \in DOMAIN d : d[k] = p
  BY DepthIs
<1>. HIDE DEF d
<1>1. /\ Len(d) \in Nat /\ DOMAIN d = 1 .. Len(d)
      /\ \A k \in DOMAIN d : d[k] \in Price /\ q[side][d[k]] \in Seq(Order)
  BY <1>0 DEF Queues, Held
<1>2. ASSUME NEW k \in DOMAIN d
      PROVE  /\ LevelOrders(q, side, d[k]) \in Seq(Line)
             /\ Len(LevelOrders(q, side, d[k])) = Len(q[side][d[k]])
             /\ \A i \in 1 .. Len(q[side][d[k]]) :
                  LevelOrders(q, side, d[k])[i] = Resting(side, d[k], q[side][d[k]][i])
  <2>1. \A i \in DOMAIN q[side][d[k]] : Resting(side, d[k], q[side][d[k]][i]) \in Line
    BY <1>1, ResumesLine
  <2>2. DOMAIN q[side][d[k]] = 1 .. Len(q[side][d[k]]) /\ Len(q[side][d[k]]) \in Nat
    BY <1>1
  <2>. QED  BY <2>1, <2>2 DEF LevelOrders
<1>3. ss \in Seq(Seq(Line)) /\ Len(ss) = Len(d)
  BY <1>1, <1>2
<1>4. \A k \in DOMAIN d : ss[k] = LevelOrders(q, side, d[k])
  OBVIOUS
<1>. HIDE DEF ss
<1>5. flat \in Seq(Line) /\ \E from : FlatBy(flat, ss, Len(ss), from)
  BY <1>3, FlattenIs
<1>. HIDE DEF flat
<1>6. PICK from : FlatBy(flat, ss, Len(ss), from)
  BY <1>5
<1>7. PICK m \in Nat : m = Len(flat)
  BY <1>5
<1>8. /\ \A i \in 1 .. m : /\ from[i] \in (1 .. Len(d)) \X Nat
                           /\ from[i][2] \in 1 .. Len(ss[from[i][1]])
                           /\ flat[i] = ss[from[i][1]][from[i][2]]
      /\ \A i, j \in 1 .. m : i < j => Before(from[i], from[j])
      /\ \A c \in Cells(ss, Len(ss)) : \E i \in 1 .. m : from[i] = c
  BY <1>3, <1>6, <1>7 DEF FlatBy, Cells
<1>9. \A i \in 1 .. m : /\ from[i][1] \in DOMAIN d /\ from[i][2] \in Nat
                        /\ from[i][2] \in 1 .. Len(q[side][d[from[i][1]]])
                        /\ flat[i] = Resting(side, d[from[i][1]], q[side][d[from[i][1]]][from[i][2]])
  <2>. SUFFICES ASSUME NEW i \in 1 .. m
                PROVE  /\ from[i][1] \in DOMAIN d /\ from[i][2] \in Nat
                       /\ from[i][2] \in 1 .. Len(q[side][d[from[i][1]]])
                       /\ flat[i] = Resting(side, d[from[i][1]], q[side][d[from[i][1]]][from[i][2]])
    OBVIOUS
  <2>1. PICK k, n : k = from[i][1] /\ n = from[i][2]
    OBVIOUS
  <2>2. k \in DOMAIN d /\ n \in Nat /\ n \in 1 .. Len(ss[k]) /\ flat[i] = ss[k][n]
    BY <1>1, <1>8, <2>1
  <2>3. ss[k] = LevelOrders(q, side, d[k])
    BY <1>4, <2>2
  <2>4. n \in 1 .. Len(q[side][d[k]])
    BY <1>2, <2>2, <2>3
  <2>5. flat[i] = Resting(side, d[k], q[side][d[k]][n])
    BY <1>2, <2>2, <2>3, <2>4
  <2>. QED  BY <2>1, <2>2, <2>4, <2>5
<1>. DEFINE at == [i \in 1 .. m |-> <<d[from[i][1]], from[i][2]>>]
<1>10. \A i \in 1 .. m : at[i][1] = d[from[i][1]] /\ at[i][2] = from[i][2] /\ at[i] \in Price \X Nat
  BY <1>1, <1>9
<1>11. at \in [1 .. m -> Price \X Nat]
  BY <1>10
<1>12. ASSUME NEW p \in Price, NEW n \in 1 .. Len(q[side][p])
       PROVE  \E i \in 1 .. m : at[i] = <<p, n>>
  <2>1. q[side][p] \in Seq(Order)
    BY DEF Queues
  <2>2. p \in Held(q, side) /\ n \in Nat
    BY <2>1 DEF Held
  <2>3. PICK k \in DOMAIN d : d[k] = p
    BY <1>0, <2>2
  <2>4. <<k, n>> \in Cells(ss, Len(ss))
    BY <1>1, <1>2, <1>3, <1>4, <2>2, <2>3 DEF Cells
  <2>5. PICK i \in 1 .. m : from[i] = <<k, n>>
    BY <1>8, <2>4
  <2>. QED  BY <2>3, <2>5
<1>13. ASSUME NEW i \in 1 .. m, NEW j \in 1 .. m, i < j, at[i][1] = at[j][1]
       PROVE  at[i][2] < at[j][2]
  <2>1. from[i][1] = from[j][1]
    BY <1>0, <1>9, <1>10, <1>13
  <2>2. Before(from[i], from[j]) /\ from[i][1] \in Int
    BY <1>8, <1>13
  <2>3. from[i][2] < from[j][2]
    BY <2>1, <2>2 DEF Before
  <2>. QED  BY <1>10, <2>3
<1>14. \A i \in 1 .. m :
         /\ at[i][2] \in 1 .. Len(q[side][at[i][1]])
         /\ flat[i] = Resting(side, at[i][1], q[side][at[i][1]][at[i][2]])
  BY <1>9, <1>10
<1>. HIDE DEF at
<1>15. SideOrder(flat, q, side, at)
  BY <1>5, <1>7, <1>11, <1>12, <1>13, <1>14 DEF SideOrder
<1>16. OrdersOfSide(q, side) = flat
  BY DEF OrdersOfSide, flat, ss, d
<1>. QED  BY <1>15, <1>16

\* The same of both sides: an order rests at a side, a price and a position.
Place(q) == {x \in Side \X Price \X Nat : x[3] \in 1 .. Len(q[x[1]][x[2]])}

OrderAt(q, x) == q[x[1]][x[2]][x[3]]

BookOrder(orders, q, at) ==
  /\ orders \in Seq(Line)
  /\ at \in [1 .. Len(orders) -> Place(q)]
  /\ \A i \in 1 .. Len(orders) : orders[i] = Resting(at[i][1], at[i][2], OrderAt(q, at[i]))
  /\ \A x \in Place(q) : \E i \in 1 .. Len(orders) : at[i] = x
  /\ \A i, j \in 1 .. Len(orders) :
       i < j /\ at[i][1] = at[j][1] /\ at[i][2] = at[j][2] => at[i][3] < at[j][3]

LEMMA BookInOrder ==
  ASSUME NEW q \in Queues
  PROVE  \E at : BookOrder(RestingOrders(q), q, at)
<1>1. PICK b, bAt, a, aAt :
        /\ b = OrdersOfSide(q, "bid") /\ SideOrder(b, q, "bid", bAt)
        /\ a = OrdersOfSide(q, "ask") /\ SideOrder(a, q, "ask", aAt)
  BY SideInOrder DEF Side
<1>2. RestingOrders(q) = b \o a
  BY <1>1 DEF RestingOrders, OrdersOfSide
<1>3. PICK m, n : m = Len(b) /\ n = Len(a)
  OBVIOUS
<1>4. b \in Seq(Line) /\ a \in Seq(Line) /\ m \in Nat /\ n \in Nat
  BY <1>1, <1>3 DEF SideOrder
<1>5. /\ b \o a \in Seq(Line) /\ Len(b \o a) = m + n
      /\ \A i \in 1 .. m : (b \o a)[i] = b[i]
      /\ \A i \in m + 1 .. m + n : (b \o a)[i] = a[i - m]
  BY <1>3, <1>4
<1>6. PICK at : at = [i \in 1 .. m + n |-> IF i <= m THEN <<"bid", bAt[i][1], bAt[i][2]>>
                                                     ELSE <<"ask", aAt[i - m][1], aAt[i - m][2]>>]
  OBVIOUS
<1>7. \A i \in 1 .. m : i \in 1 .. m + n /\ at[i] = <<"bid", bAt[i][1], bAt[i][2]>>
  BY <1>4, <1>6
<1>8. \A i \in m + 1 .. m + n :
        i \in 1 .. m + n /\ i - m \in 1 .. n /\ at[i] = <<"ask", aAt[i - m][1], aAt[i - m][2]>>
  BY <1>4, <1>6
<1>9. \A i \in 1 .. m + n : i \in 1 .. m \/ i \in m + 1 .. m + n
  BY <1>4
<1>10. \A i \in 1 .. m : /\ bAt[i][1] \in Price /\ bAt[i][2] \in Nat
                         /\ bAt[i][2] \in 1 .. Len(q["bid"][bAt[i][1]])
                         /\ b[i] = Resting("bid", bAt[i][1], q["bid"][bAt[i][1]][bAt[i][2]])
  BY <1>1, <1>3 DEF SideOrder
<1>11. \A i \in 1 .. n : /\ aAt[i][1] \in Price /\ aAt[i][2] \in Nat
                         /\ aAt[i][2] \in 1 .. Len(q["ask"][aAt[i][1]])
                         /\ a[i] = Resting("ask", aAt[i][1], q["ask"][aAt[i][1]][aAt[i][2]])
  BY <1>1, <1>3 DEF SideOrder
<1>12. ASSUME NEW i \in 1 .. m + n
       PROVE  /\ at[i] \in Place(q)
              /\ (b \o a)[i] = Resting(at[i][1], at[i][2], OrderAt(q, at[i]))
  <2>1. CASE i \in 1 .. m
    <3>1. PICK p, k : p = bAt[i][1] /\ k = bAt[i][2]
      OBVIOUS
    <3>2. at[i] = <<"bid", p, k>> /\ (b \o a)[i] = Resting("bid", p, q["bid"][p][k])
      BY <1>5, <1>7, <1>10, <2>1, <3>1
    <3>3. p \in Price /\ k \in Nat /\ k \in 1 .. Len(q["bid"][p])
      BY <1>10, <2>1, <3>1
    <3>. QED  BY <3>2, <3>3 DEF Place, OrderAt, Side
  <2>2. CASE i \in m + 1 .. m + n
    <3>1. PICK p, k : p = aAt[i - m][1] /\ k = aAt[i - m][2]
      OBVIOUS
    <3>2. at[i] = <<"ask", p, k>> /\ (b \o a)[i] = Resting("ask", p, q["ask"][p][k])
      BY <1>5, <1>8, <1>11, <2>2, <3>1
    <3>3. p \in Price /\ k \in Nat /\ k \in 1 .. Len(q["ask"][p])
      BY <1>8, <1>11, <2>2, <3>1
    <3>. QED  BY <3>2, <3>3 DEF Place, OrderAt, Side
  <2>. QED  BY <1>9, <2>1, <2>2
<1>13. ASSUME NEW x \in Place(q)
       PROVE  \E i \in 1 .. m + n : at[i] = x
  <2>1. PICK side \in Side, p \in Price, k \in Nat : x = <<side, p, k>> /\ k \in 1 .. Len(q[side][p])
    BY DEF Place
  <2>2. CASE side = "bid"
    <3>1. PICK i \in 1 .. m : bAt[i] = <<p, k>>
      BY <1>1, <1>3, <2>1, <2>2 DEF SideOrder
    <3>. QED  BY <1>7, <2>1, <2>2, <3>1
  <2>3. CASE side = "ask"
    <3>1. PICK i \in 1 .. n : aAt[i] = <<p, k>>
      BY <1>1, <1>3, <2>1, <2>3 DEF SideOrder
    <3>2. m + i \in m + 1 .. m + n /\ (m + i) - m = i
      BY <1>4
    <3>. QED  BY <1>8, <2>1, <2>3, <3>1, <3>2
  <2>. QED  BY <2>2, <2>3 DEF Side
<1>14. ASSUME NEW i \in 1 .. m + n, NEW j \in 1 .. m + n, i < j,
              at[i][1] = at[j][1], at[i][2] = at[j][2]
       PROVE  at[i][3] < at[j][3]
  <2>1. CASE j \in 1 .. m
    <3>1. i \in 1 .. m
      BY <1>4, <1>14, <2>1
    <3>2. bAt[i][1] = bAt[j][1]
      BY <1>7, <1>14, <2>1, <3>1
    <3>3. bAt[i][2] < bAt[j][2]
      BY <1>1, <1>3, <1>14, <2>1, <3>1, <3>2 DEF SideOrder
    <3>. QED  BY <1>7, <2>1, <3>1, <3>3
  <2>2. CASE i \in m + 1 .. m + n
    <3>1. j \in m + 1 .. m + n
      BY <1>4, <1>14, <2>2
    <3>2. aAt[i - m][1] = aAt[j - m][1] /\ i - m < j - m
      BY <1>4, <1>8, <1>14, <2>2, <3>1
    <3>3. aAt[i - m][2] < aAt[j - m][2]
      BY <1>1, <1>3, <1>8, <2>2, <3>1, <3>2 DEF SideOrder
    <3>. QED  BY <1>8, <2>2, <3>1, <3>3
  <2>3. CASE i \in 1 .. m /\ j \in m + 1 .. m + n
    BY <1>7, <1>8, <1>14, <2>3
  <2>. QED  BY <1>9, <2>1, <2>2, <2>3
<1>15. at \in [1 .. m + n -> Place(q)]
  BY <1>6, <1>12
<1>16. BookOrder(b \o a, q, at)
  BY <1>5, <1>12, <1>13, <1>14, <1>15 DEF BookOrder
<1>. QED  BY <1>2, <1>16

\* Orders in book order, put back one at a time, make the same queues.
LEMMA QueuesRestored ==
  ASSUME NEW q \in Queues, NEW orders, NEW at, BookOrder(orders, q, at)
  PROVE  RestoredQueue(orders) = q
<1>. DEFINE here(side, p) == {i \in DOMAIN orders : orders[i].side = side /\ orders[i].price = p}
<1>0. PICK m \in Nat : m = Len(orders) /\ DOMAIN orders = 1 .. m
  BY DEF BookOrder
<1>1. \A i \in 1 .. m :
        /\ at[i] \in Place(q)
        /\ orders[i].side = at[i][1] /\ orders[i].price = at[i][2]
        /\ orders[i].order = OrderAt(q, at[i])
  <2>1. \A i \in 1 .. m : /\ at[i] \in Place(q)
                          /\ orders[i] = Resting(at[i][1], at[i][2], OrderAt(q, at[i]))
    BY <1>0 DEF BookOrder
  <2>2. \A x, y, z : Resting(x, y, z).side = x /\ Resting(x, y, z).price = y /\ Resting(x, y, z).order = z
    BY DEF Resting
  <2>. QED  BY <2>1, <2>2
<1>2. ASSUME NEW side \in Side, NEW p \in Price
      PROVE  [n \in 1 .. Cardinality(here(side, p)) |-> orders[Nth(here(side, p), n)].order]
               = q[side][p]
  <2>. DEFINE S   == here(side, p)
              L   == Len(q[side][p])
              key == [i \in S |-> i]
  <2>1. q[side][p] \in Seq(Order) /\ L \in Nat
    BY DEF Queues
  <2>2. \A n \in 1 .. L : \E i \in 1 .. m : at[i] = <<side, p, n>>
    <3>. SUFFICES ASSUME NEW n \in 1 .. L
                  PROVE  \E i \in 1 .. m : at[i] = <<side, p, n>>
      OBVIOUS
    <3>1. <<side, p, n>> \in Place(q)
      BY <2>1 DEF Place
    <3>. QED  BY <1>0, <3>1 DEF BookOrder
  <2>3. PICK f : f = [n \in 1 .. L |-> CHOOSE i \in 1 .. m : at[i] = <<side, p, n>>]
    OBVIOUS
  <2>4. \A n \in 1 .. L : f[n] \in 1 .. m /\ at[f[n]] = <<side, p, n>>
    BY <2>2, <2>3
  <2>5. \A n \in 1 .. L : f[n] \in S /\ orders[f[n]].order = q[side][p][n]
    <3>. SUFFICES ASSUME NEW n \in 1 .. L
                  PROVE  f[n] \in S /\ orders[f[n]].order = q[side][p][n]
      OBVIOUS
    <3>1. f[n] \in 1 .. m /\ at[f[n]] = <<side, p, n>>
      BY <2>4
    <3>2. /\ orders[f[n]].side = side /\ orders[f[n]].price = p
          /\ orders[f[n]].order = OrderAt(q, <<side, p, n>>)
      BY <1>1, <3>1
    <3>. QED  BY <1>0, <3>1, <3>2 DEF OrderAt
  <2>6. \A i \in S : \E n \in 1 .. L : f[n] = i
    <3>. SUFFICES ASSUME NEW i \in S
                  PROVE  \E n \in 1 .. L : f[n] = i
      OBVIOUS
    <3>1. i \in 1 .. m /\ at[i] \in Place(q) /\ at[i][1] = side /\ at[i][2] = p
      BY <1>0, <1>1
    <3>2. PICK n \in 1 .. L : at[i] = <<side, p, n>>
      BY <3>1 DEF Place
    <3>3. f[n] \in 1 .. m /\ at[f[n]] = at[i]
      BY <2>4, <3>2
    <3>4. ~(f[n] < i) /\ ~(i < f[n])
      <4>1. at[i][3] = n /\ ~(n < n)
        BY <2>1, <3>2
      <4>. QED  BY <1>0, <3>1, <3>3, <4>1 DEF BookOrder
    <3>. QED  BY <1>0, <3>1, <3>3, <3>4
  <2>7. \A i, j \in 1 .. L : i < j => f[i] < f[j]
    <3>. SUFFICES ASSUME NEW i \in 1 .. L, NEW j \in 1 .. L, i < j
                  PROVE  f[i] < f[j]
      OBVIOUS
    <3>1. f[i] \in 1 .. m /\ f[j] \in 1 .. m /\ at[f[i]] = <<side, p, i>> /\ at[f[j]] = <<side, p, j>>
      BY <2>4
    <3>2. ~(j < i) /\ i # j
      BY <2>1
    <3>3. ~(f[j] < f[i])
      BY <1>0, <3>1, <3>2 DEF BookOrder
    <3>4. f[i] # f[j]
      BY <3>1, <3>2
    <3>. QED  BY <1>0, <3>1, <3>3, <3>4
  <2>8. key \in [S -> Int] /\ \A i \in S : key[i] = i
    BY <1>0
  <2>. HIDE DEF S, L, key
  <2>9. Listing(f, L, S, key)
    <3>1. f \in [1 .. L -> S]
      BY <2>3, <2>5
    <3>2. \A i, j \in 1 .. L : i < j => key[f[i]] < key[f[j]]
      BY <2>5, <2>7, <2>8
    <3>. QED  BY <2>6, <3>1, <3>2 DEF Listing
  <2>10. ASSUME NEW n \in 1 .. L
         PROVE  Cardinality(S) = L /\ Nth(S, n) = f[n]
    <3>1. Cardinality(S) = L /\ AtRank(S, key, n) = f[n]
      BY ONLY <2>1, <2>8, <2>9, <2>10, ListingIs
    <3>2. \A x \in S : {y \in S : key[y] <= key[x]} = {y \in S : y <= x}
      BY <2>8
    <3>3. AtRank(S, key, n) = Nth(S, n)
      <4>1. \A x : x \in S /\ Cardinality({y \in S : key[y] <= key[x]}) = n
                     <=> x \in S /\ Cardinality({y \in S : y <= x}) = n
        BY <3>2
      <4>. QED  BY <4>1, Zenon DEF AtRank, Nth
    <3>. QED  BY <3>1, <3>3
  <2>11. Cardinality(S) = L
    <3>1. L \in Nat /\ key \in [S -> Int]
      BY <2>1, <2>8
    <3>. QED  BY ONLY <2>9, <3>1, ListingRank
  <2>12. \A n \in 1 .. L : orders[Nth(S, n)].order = q[side][p][n]
    BY <2>5, <2>10
  <2>13. [n \in 1 .. L |-> orders[Nth(S, n)].order] = q[side][p]
    BY <2>1, <2>12 DEF L
  <2>. QED  BY <2>11, <2>13 DEF S
<1>3. RestoredQueue(orders) =
        [side \in Side |-> [p \in Price |->
           [n \in 1 .. Cardinality(here(side, p)) |-> orders[Nth(here(side, p), n)].order]]]
  BY DEF RestoredQueue
<1>. HIDE DEF here
<1>4. RestoredQueue(orders) = [side \in Side |-> [p \in Price |-> q[side][p]]]
  BY <1>2, <1>3
<1>. QED  BY <1>4 DEF Queues

----------------------------------------------------------------------------
\* A book between two commands

\* The invariant of the book, said of a book between two commands that is
\* not the one at work.
Sound(b) ==
  /\ b.queue \in Queues
  /\ \A side \in Side, p \in Price :
       /\ NoIdTwice(b.queue[side][p])
       /\ \A id \in IdsOf(b.queue[side][p]) :
            id \in DOMAIN b.map /\ b.map[id] = [side |-> side, price |-> p]
       /\ b.total[side][p] = QueueQty(b.queue[side][p]) % QtyWrap
  /\ b.total \in [Side -> [Price -> Qty]]
  /\ b.live \in 0 .. MaxOrders
  /\ b.live = Cardinality(DOMAIN b.map)
  /\ DOMAIN b.map \subseteq OrderId
  /\ b.map \in [DOMAIN b.map -> Level]
  /\ b.seq \in 0 .. SeqWrap - 1
  /\ \A id \in DOMAIN b.map : \E side \in Side, p \in Price : id \in IdsOf(b.queue[side][p])
  /\ \A p, r \in Price : b.queue["bid"][p] # << >> /\ b.queue["ask"][r] # << >> => p < r

BookNow == [queue |-> queue, total |-> total, live |-> live, map |-> map, seq |-> seq]

LEMMA SoundNow ==
  ASSUME BookInv, LevelTotalsExact, taker = Idle
  PROVE  Sound(BookNow)
<1>1. /\ BookNow.queue = queue /\ BookNow.total = total /\ BookNow.live = live
      /\ BookNow.map = map /\ BookNow.seq = seq
  BY DEF BookNow
<1>2. InBook = DOMAIN map
  BY DEF InBook, OutOfBook
<1>3. /\ queue \in Queues /\ total \in [Side -> [Price -> Qty]]
      /\ DOMAIN map \subseteq OrderId /\ map \in [DOMAIN map -> Level] /\ seq \in 0 .. SeqWrap - 1
      /\ live \in 0 .. MaxOrders /\ live = Cardinality(DOMAIN map)
  BY <1>2 DEF BookInv, Typed, QueuesOK, LiveExact, Queues
<1>4. \A side \in Side, p \in Price :
        /\ NoIdTwice(queue[side][p])
        /\ \A id \in IdsOf(queue[side][p]) :
             id \in DOMAIN map /\ map[id] = [side |-> side, price |-> p]
        /\ total[side][p] = QueueQty(queue[side][p]) % QtyWrap
  BY <1>2 DEF BookInv, Typed, QueuesOK, Located, IdsAt, LevelTotalsExact
<1>5. \A id \in DOMAIN map : \E side \in Side, p \in Price : id \in IdsOf(queue[side][p])
  BY <1>2 DEF BookInv, Located, IdsAt
<1>6. \A p, r \in Price : queue["bid"][p] # << >> /\ queue["ask"][r] # << >> => p < r
  BY DEF BookInv, BookNeverCrossed, Occupied
<1>. HIDE DEF BookNow
<1>. QED  BY <1>1, <1>3, <1>4, <1>5, <1>6 DEF Sound

\* A snapshot of a sound book can be restored, and gives it back.
LEMMA SoundRoundTrip ==
  ASSUME NEW b, Sound(b)
  PROVE  /\ Restorable(RestingOrders(b.queue))
         /\ Restored(RestingOrders(b.queue), b.seq) =
              [queue |-> b.queue, total |-> b.total, live |-> b.live, map |-> b.map,
               seq |-> b.seq]
<1>1. b.queue \in Queues /\ \A side \in Side, p \in Price : NoIdTwice(b.queue[side][p])
  BY DEF Sound
<1>2. PICK orders, at : orders = RestingOrders(b.queue) /\ BookOrder(orders, b.queue, at)
  BY <1>1, BookInOrder
<1>3. PICK m \in Nat : m = Len(orders) /\ DOMAIN orders = 1 .. m
  BY <1>2 DEF BookOrder
<1>4. PICK ids : ids = DOMAIN b.map
  OBVIOUS
<1>5. ASSUME NEW i \in 1 .. m
      PROVE  /\ at[i] \in Place(b.queue)
             /\ orders[i] = Resting(at[i][1], at[i][2], OrderAt(b.queue, at[i]))
             /\ orders[i].side = at[i][1] /\ orders[i].price = at[i][2]
             /\ orders[i].order.id = OrderAt(b.queue, at[i]).id
  <2>1. at[i] \in Place(b.queue) /\ orders[i] = Resting(at[i][1], at[i][2], OrderAt(b.queue, at[i]))
    BY <1>2, <1>3 DEF BookOrder
  <2>2. \A x, y, z : Resting(x, y, z).side = x /\ Resting(x, y, z).price = y /\ Resting(x, y, z).order = z
    BY DEF Resting
  <2>. QED  BY <2>1, <2>2
<1>6. \A side \in Side, p \in Price, n \in Nat :
        /\ <<side, p, n>> \in Place(b.queue) <=> n \in DOMAIN b.queue[side][p]
        /\ n \in DOMAIN b.queue[side][p] <=> n \in 1 .. Len(b.queue[side][p])
        /\ OrderAt(b.queue, <<side, p, n>>) = b.queue[side][p][n]
  BY <1>1 DEF Place, OrderAt, Queues
<1>7. \A x \in Place(b.queue) : \E side \in Side, p \in Price, n \in Nat : x = <<side, p, n>>
  BY DEF Place
\* Every order is where the map has it.
<1>8. ASSUME NEW x \in Place(b.queue)
      PROVE  /\ OrderAt(b.queue, x).id \in DOMAIN b.map
             /\ b.map[OrderAt(b.queue, x).id] = [side |-> x[1], price |-> x[2]]
  <2>1. PICK side \in Side, p \in Price, n \in Nat : x = <<side, p, n>>
    BY <1>7
  <2>2. n \in DOMAIN b.queue[side][p] /\ OrderAt(b.queue, x) = b.queue[side][p][n]
    BY <1>6, <2>1
  <2>3. b.queue[side][p][n].id \in IdsOf(b.queue[side][p])
    BY <2>2 DEF IdsOf
  <2>4. /\ b.queue[side][p][n].id \in DOMAIN b.map
        /\ b.map[b.queue[side][p][n].id] = [side |-> side, price |-> p]
    BY <2>3 DEF Sound
  <2>. QED  BY <2>1, <2>2, <2>4
<1>9. ASSUME NEW x \in Place(b.queue), NEW y \in Place(b.queue),
             OrderAt(b.queue, x).id = OrderAt(b.queue, y).id
      PROVE  x = y
  <2>1. PICK side \in Side, p \in Price, n \in Nat : x = <<side, p, n>>
    BY <1>7
  <2>2. PICK s \in Side, r \in Price, k \in Nat : y = <<s, r, k>>
    BY <1>7
  <2>3. [side |-> side, price |-> p] = [side |-> s, price |-> r]
    BY <1>8, <1>9, <2>1, <2>2
  <2>4. side = s /\ p = r
    BY <2>3
  <2>5. n \in DOMAIN b.queue[side][p] /\ k \in DOMAIN b.queue[side][p]
        /\ b.queue[side][p][n].id = b.queue[side][p][k].id
    BY <1>6, <1>9, <2>1, <2>2, <2>4
  <2>6. n = k
    BY <1>1, <2>5 DEF NoIdTwice
  <2>. QED  BY <2>1, <2>2, <2>4, <2>6
<1>10. \A i, j \in 1 .. m : orders[i].order.id = orders[j].order.id => i = j
  <2>. SUFFICES ASSUME NEW i \in 1 .. m, NEW j \in 1 .. m, orders[i].order.id = orders[j].order.id
                PROVE  i = j
    OBVIOUS
  <2>1. at[i] = at[j] /\ at[i] \in Place(b.queue)
    BY <1>5, <1>9
  <2>2. at[i][3] \in Nat
    BY <2>1 DEF Place
  <2>3. ~(i < j) /\ ~(j < i)
    BY <1>2, <1>3, <2>1, <2>2 DEF BookOrder
  <2>. QED  BY <2>3
<1>11. \A id \in DOMAIN b.map : \E i \in 1 .. m : orders[i].order.id = id
  <2>. SUFFICES ASSUME NEW id \in DOMAIN b.map
                PROVE  \E i \in 1 .. m : orders[i].order.id = id
    OBVIOUS
  <2>1. PICK side \in Side, p \in Price : id \in IdsOf(b.queue[side][p])
    BY DEF Sound
  <2>2. PICK n \in DOMAIN b.queue[side][p] : b.queue[side][p][n].id = id
    BY <2>1 DEF IdsOf
  <2>3. n \in Nat
    BY <1>1 DEF Queues
  <2>4. <<side, p, n>> \in Place(b.queue) /\ OrderAt(b.queue, <<side, p, n>>).id = id
    BY <1>6, <2>2, <2>3
  <2>5. PICK i \in 1 .. m : at[i] = <<side, p, n>>
    BY <1>2, <1>3, <2>4 DEF BookOrder
  <2>. QED  BY <1>5, <2>4, <2>5
<1>12. {orders[i].order.id : i \in DOMAIN orders} = DOMAIN b.map
  <2>1. \A i \in 1 .. m : orders[i].order.id \in ids
    BY <1>4, <1>5, <1>8
  <2>2. \A id \in ids : \E i \in 1 .. m : orders[i].order.id = id
    BY <1>4, <1>11
  <2>3. {orders[i].order.id : i \in 1 .. m} = ids
    BY <2>1, <2>2
  <2>. QED  BY <1>3, <1>4, <2>3
<1>13. m = b.live
  <2>. DEFINE f == [i \in 1 .. m |-> orders[i].order.id]
  <2>1. f \in Bijection(1 .. m, DOMAIN b.map)
    <3>1. f \in [1 .. m -> DOMAIN b.map]
      BY <1>5, <1>8
    <3>2. \A i, j \in 1 .. m : f[i] = f[j] => i = j
      BY <1>10
    <3>3. \A id \in DOMAIN b.map : \E i \in 1 .. m : f[i] = id
      BY <1>11
    <3>. HIDE DEF f
    <3>. QED  BY <3>1, <3>2, <3>3 DEF Bijection, Injection, Surjection, IsInjective
  <2>2. IsFiniteSet(1 .. m) /\ Cardinality(1 .. m) = m
    BY FS_Interval
  <2>3. Cardinality(DOMAIN b.map) = m
    BY <2>1, <2>2, FS_Bijection DEF ExistsBijection
  <2>. QED  BY <2>3 DEF Sound
<1>14. Restorable(orders)
  <2>1. m <= MaxOrders
    BY <1>13, ConfigAssumption DEF Sound
  <2>2. \A i \in 1 .. m : PriceOk(orders[i].price)
    <3>1. \A i \in 1 .. m : orders[i].price \in Price
      BY <1>5 DEF Place
    <3>. QED  BY <3>1 DEF Price
  <2>. QED  BY <1>3, <1>10, <2>1, <2>2 DEF Restorable
<1>15. RestoredQueue(orders) = b.queue
  BY <1>1, <1>2, QueuesRestored
<1>16. RestoredTotal(orders) = b.total
  <2>1. \A side \in Side, p \in Price : QueueQty(RestoredQueue(orders)[side][p]) % QtyWrap = b.total[side][p]
    <3>1. PICK q, t : q = b.queue /\ t = b.total
      OBVIOUS
    <3>2. \A side \in Side, p \in Price : QueueQty(q[side][p]) % QtyWrap = t[side][p]
      BY <3>1, Zenon DEF Sound
    <3>. QED  BY <1>15, <3>1, <3>2
  <2>2. b.total \in [Side -> [Price -> Qty]]
    BY DEF Sound
  <2>. QED  BY <2>1, <2>2 DEF RestoredTotal
<1>17. RestoredMap(orders) = b.map
  <2>. DEFINE found(id) == CHOOSE i \in DOMAIN orders : orders[i].order.id = id
  <2>1. ASSUME NEW id \in DOMAIN b.map
        PROVE  [side |-> orders[found(id)].side, price |-> orders[found(id)].price] = b.map[id]
    <3>1. found(id) \in 1 .. m /\ orders[found(id)].order.id = id
      BY <1>3, <1>11
    <3>. HIDE DEF found
    <3>2. /\ at[found(id)] \in Place(b.queue) /\ OrderAt(b.queue, at[found(id)]).id = id
          /\ orders[found(id)].side = at[found(id)][1]
          /\ orders[found(id)].price = at[found(id)][2]
      BY <1>5, <3>1
    <3>. QED  BY <1>8, <3>2
  <2>2. RestoredMap(orders) = [id \in DOMAIN b.map |->
          [side |-> orders[found(id)].side, price |-> orders[found(id)].price]]
    BY <1>12 DEF RestoredMap
  <2>. HIDE DEF found
  <2>3. b.map = [id \in DOMAIN b.map |-> b.map[id]]
    BY DEF Sound
  <2>. QED  BY <2>1, <2>2, <2>3
<1>. QED  BY <1>2, <1>3, <1>13, <1>14, <1>15, <1>16, <1>17 DEF Restored

\* ... and so does one of the book at work, between two commands.
LEMMA RoundTrip ==
  ASSUME BookInv, LevelTotalsExact, taker = Idle
  PROVE  /\ Restorable(RestingOrders(queue))
         /\ Restored(RestingOrders(queue), seq) = BookNow
<1>1. /\ BookNow.queue = queue /\ BookNow.total = total /\ BookNow.live = live
      /\ BookNow.map = map /\ BookNow.seq = seq
  BY DEF BookNow
<1>. QED  BY <1>1, SoundNow, SoundRoundTrip DEF BookNow

\* And back: the writer goes on with a sound book.
LEMMA SoundLoaded ==
  ASSUME NEW b, Sound(b), Load(b), taker' = Idle
  PROVE  BookInv' /\ LevelTotalsExact'
<1>1. queue' = b.queue /\ total' = b.total /\ live' = b.live /\ map' = b.map /\ seq' = b.seq
  BY DEF Load
<1>2. InBook' = DOMAIN map'
  BY DEF InBook, OutOfBook
<1>3. Typed'
  BY <1>1 DEF Sound, Queues, Typed, QueuesOK
<1>4. LiveExact'
  BY <1>1, <1>2 DEF Sound, LiveExact
<1>5. Located'
  BY <1>1, <1>2 DEF Sound, Located, IdsAt
<1>6. TakerOK' /\ PostOnlyNeverTakes'
  BY DEF TakerOK, PostOnlyNeverTakes
<1>7. BookNeverCrossed'
  BY <1>1 DEF Sound, BookNeverCrossed, Occupied
<1>8. LevelTotalsExact'
  BY <1>1 DEF Sound, LevelTotalsExact
<1>. QED  BY <1>3, <1>4, <1>5, <1>6, <1>7, <1>8 DEF BookInv

\* The book no order was put back into is the new one.
LEMMA NothingRestored ==
  Restored(<< >>, 0) = [queue |-> [side \in Side |-> [p \in Price |-> << >>]],
                        total |-> [side \in Side |-> [p \in Price |-> 0]],
                        live |-> 0, map |-> << >>, seq |-> 0]
<1>1. Cardinality({}) = 0 /\ 0 % QtyWrap = 0 /\ Len(<< >>) = 0 /\ DOMAIN << >> = {}
  BY FS_EmptySet, QtyAssumption
<1>2. \A side \in Side, p \in Price :
        {i \in DOMAIN << >> : << >>[i].side = side /\ << >>[i].price = p} = {}
  BY <1>1
<1>3. RestoredQueue(<< >>) = [side \in Side |-> [p \in Price |-> << >>]]
  BY <1>1, <1>2 DEF RestoredQueue
<1>4. RestoredTotal(<< >>) = [side \in Side |-> [p \in Price |-> 0]]
  BY <1>1, <1>3, EmptyQty DEF RestoredTotal
<1>5. RestoredMap(<< >>) = << >>
  BY <1>1 DEF RestoredMap
<1>. QED  BY <1>1, <1>3, <1>4, <1>5 DEF Restored

LEMMA NothingIsSound == Sound(Restored(<< >>, 0))
<1>. DEFINE b == Restored(<< >>, 0)
<1>1. /\ b.queue = [side \in Side |-> [p \in Price |-> << >>]]
      /\ b.total = [side \in Side |-> [p \in Price |-> 0]]
      /\ b.live = 0 /\ b.map = << >> /\ b.seq = 0
  BY NothingRestored
<1>. HIDE DEF b
<1>2. b.queue \in Queues /\ b.total \in [Side -> [Price -> Qty]]
  BY <1>1, QtyAssumption DEF Queues, Qty
<1>3. \A side \in Side, p \in Price : b.queue[side][p] = << >> /\ b.total[side][p] = 0
  BY <1>1
<1>4. NoIdTwice(<< >>) /\ IdsOf(<< >>) = {} /\ QueueQty(<< >>) % QtyWrap = 0
  BY EmptyQty, QtyAssumption DEF NoIdTwice, IdsOf
<1>5. DOMAIN b.map = {} /\ b.map \in [DOMAIN b.map -> Level]
  BY <1>1
<1>6. b.live \in 0 .. MaxOrders /\ b.live = Cardinality(DOMAIN b.map) /\ b.seq \in 0 .. SeqWrap - 1
  BY <1>1, <1>5, FS_EmptySet, ConfigAssumption, SeqAssumption
<1>. QED  BY <1>2, <1>3, <1>4, <1>5, <1>6 DEF Sound, Side, b

----------------------------------------------------------------------------
\* apply, for a command of any origin

\* A record of a journal may name ids and quantities no client submitted.
LEMMA HandleInv ==
  ASSUME BookInv, LevelTotalsExact, NEW c, Handle(c),
         c.cmd = "new" => c \in NewCommand, c.cmd = "replace" => c \in AnyReplace
  PROVE  BookInv' /\ LevelTotalsExact'
<1>1. \A id, reason : Reject(id, reason) => BookInv' /\ LevelTotalsExact'
  BY RejectInv DEF Reject, LevelTotalsExact
<1>2. c \in NewCommand /\ New(c) => BookInv' /\ LevelTotalsExact'
  BY NewInv DEF New, LevelTotalsExact
<1>3. Cancel(c) => BookInv' /\ LevelTotalsExact'
  BY CancelInv, RemovalTotals
<1>4. c \in AnyReplace /\ (ReplaceInPlace(c) \/ ReplaceAndCross(c)) => BookInv' /\ LevelTotalsExact'
  BY ReplaceInPlaceInv, ReplaceAndCrossInv, RemovalTotals
<1>. QED  BY <1>1, <1>2, <1>3, <1>4 DEF Handle

LEMMA ContinueInv ==
  ASSUME BookInv, LevelTotalsExact, Continue
  PROVE  BookInv' /\ LevelTotalsExact'
<1>1. [Next]_vars
  BY DEF Next
<1>. QED  BY <1>1, NextInv, TotalsStep
=============================================================================
