---------------------------- MODULE EngineProofs ----------------------------
(***************************************************************************)
(* Theorems about the multi-symbol engine, for every set of symbols and    *)
(* any two configurations: each of its books stays sound, whichever is at  *)
(* work, an engine of default books can always be restored, and seen from  *)
(* one symbol the engine is a book of its own.                             *)
(*                                                                         *)
(* OwnProofs are the facts about the order book with the configuration     *)
(* add_symbol was given.                                                   *)
(***************************************************************************)
EXTENDS EngineRouting, OrderBookProofs

OwnProofs == INSTANCE OrderBookProofs
               WITH MaxOrders <- OwnMaxOrders, IndexKind <- OwnIndex,
                    PriceMin <- OwnPriceMin, PriceMax <- OwnPriceMax

----------------------------------------------------------------------------
\* The book with the other configuration

LEMMA OwnFinite == \A S : OwnProofs!IsFiniteSet(S) <=> IsFiniteSet(S)
BY DEF IsFiniteSet, OwnProofs!IsFiniteSet

LEMMA OwnCardinality == \A S : OwnProofs!Cardinality(S) = Cardinality(S)
BY DEF Cardinality, OwnProofs!Cardinality

\* Snapshots as Engine sees them and as they are proved about.
\* Engine says Own of what OwnProofs proves.
LEMMA OwnSums ==
  /\ \A f, S : Own!SumFunctionOnSet(f, S) = OwnProofs!SumFunctionOnSet(f, S)
  /\ \A f : Own!SumFunction(f) = OwnProofs!SumFunction(f)
BY DEF Own!SumFunction, OwnProofs!SumFunction, Own!SumFunctionOnSet, OwnProofs!SumFunctionOnSet,
       Own!FoldFunction, OwnProofs!FoldFunction,
       Own!FoldFunctionOnSet, OwnProofs!FoldFunctionOnSet,
       Own!MapThenFoldSet, OwnProofs!MapThenFoldSet

LEMMA OwnSame ==
  /\ Own!Price = OwnProofs!Price
  /\ \A orders, n : Own!Restored(orders, n) = OwnProofs!Restored(orders, n)
  /\ \A c : Own!Handle(c) <=> OwnProofs!Handle(c)
  /\ Own!Continue <=> OwnProofs!Continue
<1>. USE DEF Own!PriceOk, OwnProofs!PriceOk, Own!Price, OwnProofs!Price, Own!Side, OwnProofs!Side,
             Own!Opposite, OwnProofs!Opposite, Own!Crosses, OwnProofs!Crosses,
             Own!Better, OwnProofs!Better, Own!Occupied, OwnProofs!Occupied, Own!Idle, OwnProofs!Idle,
             Own!MinQty, OwnProofs!MinQty, Own!NextSeq, OwnProofs!NextSeq, Own!Emit, OwnProofs!Emit,
             Own!EmitBoth, OwnProofs!EmitBoth, Own!Rejected, OwnProofs!Rejected,
             Own!Closed, OwnProofs!Closed, Own!Replaced, OwnProofs!Replaced,
             Own!Accepted, OwnProofs!Accepted, Own!Trade, OwnProofs!Trade,
             Own!Working, OwnProofs!Working, Own!At, OwnProofs!At, Own!RemoveAt, OwnProofs!RemoveAt,
             Own!Unlink, OwnProofs!Unlink
<1>1. Own!Price = OwnProofs!Price
  OBVIOUS
<1>2. \A orders, n : Own!Restored(orders, n) = OwnProofs!Restored(orders, n)
  <2>1. /\ \A S : Own!Cardinality(S) = OwnProofs!Cardinality(S)
        /\ \A S, n : Own!Nth(S, n) = OwnProofs!Nth(S, n)
        /\ \A q : Own!QueueQty(q) = OwnProofs!QueueQty(q)
    BY OwnSums, Zenon DEF Own!Cardinality, OwnProofs!Cardinality, Own!Nth, OwnProofs!Nth,
                          Own!QueueQty, OwnProofs!QueueQty
  <2>2. ASSUME NEW orders
        PROVE  Own!RestoredQueue(orders) = OwnProofs!RestoredQueue(orders)
    BY <2>1, Zenon DEF Own!RestoredQueue, OwnProofs!RestoredQueue
  <2>3. \A orders : Own!RestoredTotal(orders) = OwnProofs!RestoredTotal(orders)
    BY <2>1, <2>2, Zenon DEF Own!RestoredTotal, OwnProofs!RestoredTotal
  <2>4. \A orders : Own!RestoredMap(orders) = OwnProofs!RestoredMap(orders)
    BY Zenon DEF Own!RestoredMap, OwnProofs!RestoredMap
  <2>. QED  BY <2>2, <2>3, <2>4, Zenon DEF Own!Restored, OwnProofs!Restored
<1>3. \A side, p : /\ Own!Fillable(side, p) = OwnProofs!Fillable(side, p)
                   /\ Own!WouldCross(side, p) = OwnProofs!WouldCross(side, p)
  BY OwnSums DEF Own!Fillable, OwnProofs!Fillable, Own!WouldCross, OwnProofs!WouldCross
<1>4. \A c : /\ Own!NewRejection(c) = OwnProofs!NewRejection(c)
             /\ Own!CancelRejection(c) = OwnProofs!CancelRejection(c)
             /\ Own!ReplaceRejection(c) = OwnProofs!ReplaceRejection(c)
  BY <1>3 DEF Own!NewRejection, OwnProofs!NewRejection, Own!TifRejection, OwnProofs!TifRejection,
              Own!BookFull, OwnProofs!BookFull, Own!CancelRejection, OwnProofs!CancelRejection,
              Own!ReplaceRejection, OwnProofs!ReplaceRejection
<1>5. \A id, reason : Own!Reject(id, reason) <=> OwnProofs!Reject(id, reason)
  BY DEF Own!Reject, OwnProofs!Reject
<1>6. \A c : Own!New(c) <=> OwnProofs!New(c)
  BY <1>4 DEF Own!New, OwnProofs!New
<1>7. \A c : Own!Cancel(c) <=> OwnProofs!Cancel(c)
  BY <1>4 DEF Own!Cancel, OwnProofs!Cancel
<1>8. \A c : Own!ReplaceInPlace(c) <=> OwnProofs!ReplaceInPlace(c)
  BY <1>4 DEF Own!ReplaceInPlace, OwnProofs!ReplaceInPlace, Own!KeepsPriority, OwnProofs!KeepsPriority,
              Own!Reduce, OwnProofs!Reduce
<1>9. \A c : Own!ReplaceAndCross(c) <=> OwnProofs!ReplaceAndCross(c)
  BY <1>4 DEF Own!ReplaceAndCross, OwnProofs!ReplaceAndCross,
              Own!KeepsPriority, OwnProofs!KeepsPriority
<1>10. \A c : Own!Handle(c) <=> OwnProofs!Handle(c)
  BY <1>4, <1>5, <1>6, <1>7, <1>8, <1>9 DEF Own!Handle, OwnProofs!Handle
<1>11. \A p : Own!Fill(p) <=> OwnProofs!Fill(p)
  BY DEF Own!Fill, OwnProofs!Fill, Own!Unfilled, OwnProofs!Unfilled, Own!IsBest, OwnProofs!IsBest,
         Own!Acceptable, OwnProofs!Acceptable, Own!TakeFront, OwnProofs!TakeFront
<1>12. Own!CloseFilled <=> OwnProofs!CloseFilled
  BY DEF Own!CloseFilled, OwnProofs!CloseFilled
<1>13. Own!Exhausted <=> OwnProofs!Exhausted
  BY DEF Own!Exhausted, OwnProofs!Exhausted, Own!Acceptable, OwnProofs!Acceptable
<1>14. Own!RestsRemainder <=> OwnProofs!RestsRemainder
  BY DEF Own!RestsRemainder, OwnProofs!RestsRemainder
<1>15. Own!RestRemainder <=> OwnProofs!RestRemainder
  BY <1>13, <1>14 DEF Own!RestRemainder, OwnProofs!RestRemainder, Own!EntryWritten, OwnProofs!EntryWritten,
         Own!Push, OwnProofs!Push
<1>16. Own!Expire <=> OwnProofs!Expire
  BY <1>13, <1>14 DEF Own!Expire, OwnProofs!Expire
<1>17. Own!Continue <=> OwnProofs!Continue
  BY <1>1, <1>11, <1>12, <1>15, <1>16 DEF Own!Continue, OwnProofs!Continue
<1>. QED  BY <1>1, <1>2, <1>10, <1>17

\* What is proved of any book holds for one with that configuration.
LEMMA OwnHandleInv ==
  ASSUME OwnProofs!BookInv, OwnProofs!LevelTotalsExact, NEW c \in Client, Own!Handle(c)
  PROVE  OwnProofs!BookInv' /\ OwnProofs!LevelTotalsExact'
<1>1. /\ c.cmd = "new" => c \in OwnProofs!NewCommand
      /\ c.cmd = "replace" => c \in OwnProofs!AnyReplace
  BY EngineAssumption, QtyAssumption
     DEF NewCommand, LimitCommand, MarketCommand, CancelCommand, ReplaceCommand, Qty,
         OwnProofs!NewCommand, OwnProofs!LimitCommand, OwnProofs!MarketCommand,
         OwnProofs!AnyReplace, Side, Tif, OwnProofs!Side, OwnProofs!Tif, OwnProofs!Qty
<1>2. OwnProofs!Handle(c)
  BY OwnSame
<1>. QED  BY <1>1, <1>2, IdAssumption, QtyAssumption, SeqAssumption, PriceAssumption,
             OwnAssumption, OwnFinite, OwnProofs!HandleInv DEF OwnProofs!HandleInv

LEMMA OwnContinueInv ==
  ASSUME OwnProofs!BookInv, OwnProofs!LevelTotalsExact, Own!Continue
  PROVE  OwnProofs!BookInv' /\ OwnProofs!LevelTotalsExact'
<1>1. OwnProofs!Continue
  BY OwnSame
<1>. QED  BY <1>1, IdAssumption, QtyAssumption, SeqAssumption, PriceAssumption, OwnAssumption,
             OwnFinite, OwnProofs!ContinueInv DEF OwnProofs!ContinueInv

LEMMA OwnSoundNow ==
  ASSUME OwnProofs!BookInv, OwnProofs!LevelTotalsExact, taker = Idle
  PROVE  OwnProofs!Sound(BookNow)
<1>1. taker = OwnProofs!Idle
  BY DEF Idle, OwnProofs!Idle
<1>2. OwnProofs!BookNow = BookNow
  BY DEF BookNow, OwnProofs!BookNow
<1>. QED  BY <1>1, <1>2, IdAssumption, QtyAssumption, SeqAssumption, PriceAssumption,
             OwnAssumption, OwnFinite, OwnProofs!SoundNow DEF OwnProofs!SoundNow

LEMMA OwnSoundLoaded ==
  ASSUME NEW b, OwnProofs!Sound(b), Load(b), taker' = Idle
  PROVE  OwnProofs!BookInv' /\ OwnProofs!LevelTotalsExact'
<1>1. OwnProofs!Load(b) /\ taker' = OwnProofs!Idle
  BY DEF Idle, OwnProofs!Idle, Load, OwnProofs!Load
<1>. QED  BY <1>1, IdAssumption, QtyAssumption, SeqAssumption, PriceAssumption, OwnAssumption,
             OwnFinite, OwnProofs!SoundLoaded DEF OwnProofs!SoundLoaded

LEMMA OwnNothingIsSound == OwnProofs!Sound(Own!Restored(<< >>, 0))
<1>1. OwnProofs!Sound(OwnProofs!Restored(<< >>, 0))
  BY IdAssumption, QtyAssumption, SeqAssumption, PriceAssumption, OwnAssumption, OwnFinite,
     OwnProofs!NothingIsSound DEF OwnProofs!NothingIsSound
<1>. QED  BY <1>1, OwnSame

----------------------------------------------------------------------------
\* A book of the other configuration, restored with the default one

\* The orders of q at the default configuration's prices.
Kept(q) ==
  [side \in Side |-> [p \in Price |-> IF p \in OwnProofs!Price THEN q[side][p] ELSE << >>]]

LEMMA OwnTypes ==
  /\ OwnProofs!Side = Side /\ OwnProofs!Qty = Qty /\ OwnProofs!Order = Order
  /\ OwnProofs!Queues = [Side -> [OwnProofs!Price -> Seq(Order)]]
  /\ OwnProofs!Price \subseteq CmdPrices /\ Price \subseteq CmdPrices
  /\ \A q : /\ OwnProofs!NoIdTwice(q) <=> NoIdTwice(q)
            /\ OwnProofs!IdsOf(q) = IdsOf(q)
            /\ OwnProofs!QueueQty(q) = QueueQty(q)
<1>1. OwnProofs!Side = Side /\ OwnProofs!Qty = Qty /\ OwnProofs!Order = Order
  BY DEF Side, Qty, Order, OwnProofs!Side, OwnProofs!Qty, OwnProofs!Order
<1>2. OwnProofs!Queues = [Side -> [OwnProofs!Price -> Seq(Order)]]
  BY <1>1 DEF OwnProofs!Queues
<1>3. OwnProofs!Price \subseteq CmdPrices /\ Price \subseteq CmdPrices
  BY DEF Price, OwnProofs!Price
<1>4. \A q : (OwnProofs!NoIdTwice(q) <=> NoIdTwice(q)) /\ OwnProofs!IdsOf(q) = IdsOf(q)
  BY DEF OwnProofs!NoIdTwice, NoIdTwice, OwnProofs!IdsOf, IdsOf
<1>5. \A q : OwnProofs!QueueQty(q) = QueueQty(q)
  BY Zenon DEF OwnProofs!QueueQty, QueueQty, OwnProofs!SumFunction, SumFunction,
               OwnProofs!SumFunctionOnSet, SumFunctionOnSet, OwnProofs!FoldFunctionOnSet,
               FoldFunctionOnSet, OwnProofs!MapThenFoldSet, MapThenFoldSet
<1>. QED  BY <1>1, <1>2, <1>3, <1>4, <1>5

\* A snapshot of it that can be restored names only prices of the default
\* configuration, and no more orders than that allows.
LEMMA OwnSnapshot ==
  ASSUME NEW b, OwnProofs!Sound(b), Restorable(RestingOrders(b.queue))
  PROVE  /\ \A side \in Side, p \in OwnProofs!Price : b.queue[side][p] # << >> => p \in Price
         /\ b.live <= MaxOrders
<1>1. OwnProofs!RestingOrders(b.queue) = RestingOrders(b.queue)
  BY Zenon DEF OwnProofs!RestingOrders, RestingOrders, OwnProofs!Depth, Depth,
               OwnProofs!LevelOrders, LevelOrders, OwnProofs!Resting, Resting,
               OwnProofs!Cardinality, Cardinality, OwnProofs!Better, Better,
               OwnProofs!FlattenSeq, FlattenSeq
<1>2. PICK q : q = b.queue /\ q \in [Side -> [OwnProofs!Price -> Seq(Order)]]
  BY OwnTypes DEF OwnProofs!Sound
<1>3. PICK orders : orders = RestingOrders(q)
  OBVIOUS
<1>4. PICK at0 : OwnProofs!BookOrder(orders, q, at0)
  BY <1>1, <1>2, <1>3, OwnTypes, IdAssumption, QtyAssumption, SeqAssumption, PriceAssumption,
     OwnAssumption, OwnFinite, OwnProofs!BookInOrder DEF OwnProofs!BookInOrder
<1>5. ASSUME NEW side \in Side, NEW p \in OwnProofs!Price, q[side][p] # << >>
      PROVE  p \in Price
  <2>1. q[side][p] \in Seq(Order) /\ 1 \in 1 .. Len(q[side][p])
    BY <1>2, <1>5
  <2>2. <<side, p, 1>> \in OwnProofs!Place(q)
    BY <2>1, OwnTypes DEF OwnProofs!Place
  <2>3. PICK i \in 1 .. Len(orders) : at0[i] = <<side, p, 1>>
    BY <1>4, <2>2 DEF OwnProofs!BookOrder
  <2>4. orders[i].price = p
    <3>1. orders[i] = OwnProofs!Resting(at0[i][1], at0[i][2], OwnProofs!OrderAt(q, at0[i]))
      BY <1>4, <2>3, Zenon DEF OwnProofs!BookOrder
    <3>2. orders[i] = [side |-> at0[i][1], price |-> at0[i][2],
                       order |-> OwnProofs!OrderAt(q, at0[i])]
      BY <3>1, Zenon DEF OwnProofs!Resting
    <3>3. at0[i][2] = p
      BY <2>3
    <3>. QED  BY <3>2, <3>3
  <2>5. i \in DOMAIN orders
    BY <1>4 DEF OwnProofs!BookOrder
  <2>6. PriceOk(p)
    BY <1>2, <1>3, <2>4, <2>5 DEF Restorable
  <2>. QED  BY <2>6, OwnTypes DEF Price
<1>6. b.live <= MaxOrders
  <2>0. OwnProofs!Restored(OwnProofs!RestingOrders(b.queue), b.seq) =
          [queue |-> b.queue, total |-> b.total, live |-> b.live, map |-> b.map, seq |-> b.seq]
    BY IdAssumption, QtyAssumption, SeqAssumption, PriceAssumption, OwnAssumption, OwnFinite,
       OwnProofs!SoundRoundTrip DEF OwnProofs!SoundRoundTrip
  <2>1. OwnProofs!Restored(OwnProofs!RestingOrders(b.queue), b.seq).live = b.live
    BY <2>0
  <2>2. Len(RestingOrders(b.queue)) = b.live
    BY <1>1, <2>1 DEF OwnProofs!Restored
  <2>. QED  BY <2>2 DEF Restorable
<1>. QED  BY <1>2, <1>5, <1>6

\* What rests at a price rests there still, and the snapshot is the same.
LEMMA KeptSnapshot ==
  ASSUME NEW q \in [Side -> [OwnProofs!Price -> Seq(Order)]],
         \A side \in Side, p \in OwnProofs!Price : q[side][p] # << >> => p \in Price
  PROVE  /\ Kept(q) \in Queues
         /\ \A side \in Side : Held(Kept(q), side) = {p \in OwnProofs!Price : q[side][p] # << >>}
         /\ \A side \in Side : \A p \in Held(Kept(q), side) : Kept(q)[side][p] = q[side][p]
         /\ RestingOrders(Kept(q)) = RestingOrders(q)
<1>. DEFINE k == Kept(q)
<1>1. \A side \in Side, p \in Price : k[side][p] = IF p \in OwnProofs!Price THEN q[side][p] ELSE << >>
  BY DEF Kept
<1>2. k \in Queues
  BY DEF Kept, Queues
<1>3. \A side \in Side : DOMAIN q[side] = OwnProofs!Price /\ DOMAIN k[side] = Price
  BY <1>2 DEF Queues
<1>. HIDE DEF k
<1>4. ASSUME NEW side \in Side
      PROVE  /\ Held(k, side) = {p \in OwnProofs!Price : q[side][p] # << >>}
             /\ \A p \in Held(k, side) : k[side][p] = q[side][p]
  BY <1>1, <1>4 DEF Held
<1>5. ASSUME NEW side \in Side
      PROVE  /\ {p \in DOMAIN k[side] : k[side][p] # << >>} = Held(k, side)
             /\ {p \in DOMAIN q[side] : q[side][p] # << >>} = Held(k, side)
  BY <1>3, <1>4 DEF Held
<1>6. ASSUME NEW side \in Side
      PROVE  Depth(k, side) = Depth(q, side)
  <2>1. {p \in DOMAIN k[side] : k[side][p] # << >>} = {p \in DOMAIN q[side] : q[side][p] # << >>}
    BY <1>5
  <2>. DEFINE ByRank(held) ==
                [n \in 1 .. Cardinality(held) |->
                   CHOOSE p \in held : Cardinality({r \in held : ~Better(side, p, r)}) = n]
  <2>2. Depth(k, side) = ByRank({p \in DOMAIN k[side] : k[side][p] # << >>})
    BY Zenon DEF Depth
  <2>3. Depth(q, side) = ByRank({p \in DOMAIN q[side] : q[side][p] # << >>})
    BY Zenon DEF Depth
  <2>. HIDE DEF ByRank
  <2>. QED  BY <2>1, <2>2, <2>3
<1>7. ASSUME NEW side \in Side
      PROVE  [n \in DOMAIN Depth(k, side) |-> LevelOrders(k, side, Depth(k, side)[n])] =
               [n \in DOMAIN Depth(q, side) |-> LevelOrders(q, side, Depth(q, side)[n])]
  <2>1. \A n \in DOMAIN Depth(k, side) : Depth(k, side)[n] \in Held(k, side)
    BY <1>2, DepthIs
  <2>2. \A n \in DOMAIN Depth(k, side) :
          LevelOrders(k, side, Depth(k, side)[n]) = LevelOrders(q, side, Depth(k, side)[n])
    BY <1>4, <2>1, Zenon DEF LevelOrders
  <2>. QED  BY <1>6, <2>2
<1>8. RestingOrders(k) = RestingOrders(q)
  BY <1>7, Zenon DEF RestingOrders, Side
<1>. QED  BY <1>2, <1>4, <1>8 DEF k
\* Such a book comes back as a sound book of the default configuration.
LEMMA OwnBookRestored ==
  ASSUME NEW b, OwnProofs!Sound(b), Restorable(RestingOrders(b.queue))
  PROVE  Sound(Restored(RestingOrders(b.queue), b.seq))
<1>1. PICK q, t, m : q = b.queue /\ t = b.total /\ m = b.map
  OBVIOUS
<1>. DEFINE k == Kept(q)
            kt == [side \in Side |->
                     [p \in Price |-> IF p \in OwnProofs!Price THEN t[side][p] ELSE 0]]
            c == [queue |-> k, total |-> kt, live |-> b.live, map |-> m, seq |-> b.seq]
<1>2. /\ q \in [Side -> [OwnProofs!Price -> Seq(Order)]]
      /\ t \in [Side -> [OwnProofs!Price -> Qty]]
  BY <1>1, OwnTypes, Zenon DEF OwnProofs!Sound
<1>3. \A side \in Side, p \in OwnProofs!Price :
        /\ NoIdTwice(q[side][p])
        /\ \A id \in IdsOf(q[side][p]) : id \in DOMAIN m /\ m[id] = [side |-> side, price |-> p]
        /\ t[side][p] = QueueQty(q[side][p]) % QtyWrap
  BY <1>1, OwnTypes, Zenon DEF OwnProofs!Sound
<1>4. /\ DOMAIN m \subseteq OrderId /\ m = [id \in DOMAIN m |-> m[id]]
      /\ \A id \in DOMAIN m : \E side \in Side, p \in OwnProofs!Price : id \in IdsOf(q[side][p])
      /\ \A p, r \in OwnProofs!Price : q["bid"][p] # << >> /\ q["ask"][r] # << >> => p < r
  <2>1. m \in [DOMAIN m -> OwnProofs!Level]
    BY <1>1, Zenon DEF OwnProofs!Sound
  <2>2. /\ DOMAIN m \subseteq OrderId
        /\ \A id \in DOMAIN m : \E side \in Side, p \in OwnProofs!Price : id \in IdsOf(q[side][p])
        /\ \A p, r \in OwnProofs!Price : q["bid"][p] # << >> /\ q["ask"][r] # << >> => p < r
    BY <1>1, OwnTypes, Zenon DEF OwnProofs!Sound
  <2>. QED  BY <2>1, <2>2
<1>5. /\ b.live \in Nat /\ b.live = Cardinality(DOMAIN m)
      /\ b.seq \in 0 .. SeqWrap - 1
  <2>1. b.live \in 0 .. OwnMaxOrders /\ b.live = OwnProofs!Cardinality(DOMAIN b.map)
        /\ b.seq \in 0 .. SeqWrap - 1
    BY Zenon DEF OwnProofs!Sound
  <2>. QED  BY <1>1, <2>1, OwnCardinality, OwnAssumption
<1>6. /\ \A side \in Side, p \in OwnProofs!Price : q[side][p] # << >> => p \in Price
      /\ b.live <= MaxOrders
  BY <1>1, OwnSnapshot
<1>7. /\ k \in Queues
      /\ \A side \in Side : Held(k, side) = {p \in OwnProofs!Price : q[side][p] # << >>}
      /\ \A side \in Side : \A p \in Held(k, side) : k[side][p] = q[side][p]
      /\ RestingOrders(k) = RestingOrders(q)
  BY <1>2, <1>6, KeptSnapshot
<1>8. \A side \in Side, p \in Price :
        k[side][p] = IF p \in OwnProofs!Price THEN q[side][p] ELSE << >>
  BY DEF Kept
<1>9. NoIdTwice(<< >>) /\ IdsOf(<< >>) = {} /\ QueueQty(<< >>) % QtyWrap = 0
  BY EmptyQty, QtyAssumption DEF NoIdTwice, IdsOf
<1>10. kt \in [Side -> [Price -> Qty]]
  BY <1>2, QtyAssumption DEF Qty
<1>11. \A side \in Side, p \in Price :
         kt[side][p] = IF p \in OwnProofs!Price THEN t[side][p] ELSE 0
  OBVIOUS
<1>. HIDE DEF k, kt
<1>12. ASSUME NEW side \in Side, NEW p \in Price
       PROVE  /\ NoIdTwice(k[side][p])
              /\ \A id \in IdsOf(k[side][p]) :
                   id \in DOMAIN m /\ m[id] = [side |-> side, price |-> p]
              /\ kt[side][p] = QueueQty(k[side][p]) % QtyWrap
  <2>1. CASE p \in OwnProofs!Price
    <3>1. k[side][p] = q[side][p] /\ kt[side][p] = t[side][p]
      BY <1>8, <1>11, <2>1
    <3>. QED  BY <1>3, <2>1, <3>1
  <2>2. CASE p \notin OwnProofs!Price
    <3>1. k[side][p] = << >> /\ kt[side][p] = 0
      BY <1>8, <1>11, <2>2
    <3>. QED  BY <1>9, <3>1
  <2>. QED  BY <2>1, <2>2
<1>13. ASSUME NEW id \in DOMAIN m
       PROVE  \E side \in Side, p \in Price :
                id \in IdsOf(k[side][p]) /\ m[id] = [side |-> side, price |-> p]
  <2>1. PICK side \in Side, p \in OwnProofs!Price : id \in IdsOf(q[side][p])
    BY <1>4
  <2>2. q[side][p] # << >>
    BY <1>9, <2>1
  <2>3. p \in Price /\ k[side][p] = q[side][p]
    BY <1>6, <1>8, <2>2
  <2>4. m[id] = [side |-> side, price |-> p]
    BY <1>3, <2>1
  <2>5. id \in IdsOf(k[side][p])
    BY <2>1, <2>3, Zenon
  <2>. QED  BY <2>3, <2>4, <2>5, Zenon
<1>14. m \in [DOMAIN m -> Level]
  <2>1. \A id \in DOMAIN m : m[id] \in Level
    BY <1>13 DEF Level
  <2>. QED  BY <1>4, <2>1
<1>15. ASSUME NEW p \in Price, NEW r \in Price, k["bid"][p] # << >>, k["ask"][r] # << >>
       PROVE  p < r
  BY <1>4, <1>8, <1>15 DEF Side
<1>16. /\ c.queue = k /\ c.total = kt /\ c.live = b.live /\ c.map = m /\ c.seq = b.seq
  OBVIOUS
<1>. HIDE DEF c
<1>17. b.live \in 0 .. MaxOrders
  BY <1>5, <1>6, ConfigAssumption
<1>18. Sound(c)
  BY <1>4, <1>5, <1>7, <1>10, <1>12, <1>13, <1>14, <1>15, <1>16, <1>17 DEF Sound
<1>19. Restored(RestingOrders(c.queue), c.seq) = c
  BY <1>16, <1>18, SoundRoundTrip DEF c
<1>. QED  BY <1>1, <1>7, <1>16, <1>18, <1>19
----------------------------------------------------------------------------
\* The books of the engine

\* A book that waits, with the configuration it was made with.
SoundIn(b) ==
  \/ b.config = "default" /\ Sound(b.book)
  \/ b.config = "own" /\ OwnProofs!Sound(b.book)

\* The book at work, wherever it is in a command.
WorkInv ==
  \/ config = "default" /\ BookInv /\ LevelTotalsExact
  \/ config = "own" /\ OwnProofs!BookInv /\ OwnProofs!LevelTotalsExact

EngineInv ==
  /\ at \in Symbol \cup {NoSymbol}
  /\ DOMAIN books \subseteq Symbol \ {at}
  /\ \A sym \in DOMAIN books : SoundIn(books[sym])
  /\ WorkInv
  /\ routed \in BOOLEAN /\ failed \in BOOLEAN
  /\ routed \/ failed => taker = Idle
  /\ failed => ~routed
  /\ DefaultBooksRestore

LEMMA WorkStays ==
  ASSUME WorkInv, UNCHANGED <<vars, config>>
  PROVE  WorkInv'
<1>1. CASE config = "default"
  <2>1. [Next]_vars
    OBVIOUS
  <2>2. BookInv' /\ LevelTotalsExact'
    BY <1>1, <2>1, NextInv, TotalsStep DEF WorkInv
  <2>. QED  BY <1>1, <2>2 DEF WorkInv
<1>2. CASE config = "own"
  <2>1. [OwnProofs!Next]_OwnProofs!vars
    BY DEF vars, OwnProofs!vars
  <2>2. OwnProofs!BookInv /\ OwnProofs!LevelTotalsExact
    BY <1>2 DEF WorkInv
  <2>3. OwnProofs!BookInv'
    BY <2>1, <2>2, IdAssumption, QtyAssumption, SeqAssumption, PriceAssumption, OwnAssumption,
       OwnFinite, OwnProofs!NextInv DEF OwnProofs!NextInv
  <2>4. OwnProofs!LevelTotalsExact'
    BY <2>1, <2>2, IdAssumption, QtyAssumption, SeqAssumption, PriceAssumption, OwnAssumption,
       OwnFinite, OwnProofs!TotalsStep DEF OwnProofs!TotalsStep
  <2>. QED  BY <1>2, <2>3, <2>4 DEF WorkInv
<1>. QED  BY <1>1, <1>2 DEF WorkInv

LEMMA NewIsSound ==
  ASSUME NEW kind \in {"default", "own"}
  PROVE  SoundIn(New0(kind))
<1>1. New0(kind).config = kind
  BY DEF New0, Made
<1>2. CASE kind = "default"
  <2>1. New0(kind).book = Restored(<< >>, 0)
    BY <1>2 DEF New0, Made
  <2>. QED  BY <1>1, <1>2, <2>1, NothingIsSound DEF SoundIn
<1>3. CASE kind = "own"
  <2>1. New0(kind).book = Own!Restored(<< >>, 0)
    BY <1>3 DEF New0, Made
  <2>. QED  BY <1>1, <1>3, <2>1, OwnNothingIsSound DEF SoundIn
<1>. QED  BY <1>2, <1>3

\* Between two commands all books are sound, the one at work like the others.
LEMMA AllSound ==
  ASSUME EngineInv, taker = Idle
  PROVE  /\ DOMAIN AllBooks \subseteq Symbol
         /\ \A sym \in DOMAIN AllBooks : SoundIn(AllBooks[sym])
<1>1. CASE at = NoSymbol
  <2>1. AllBooks = books
    BY <1>1 DEF AllBooks
  <2>. QED  BY <2>1 DEF EngineInv
<1>2. CASE at # NoSymbol
  <2>1. /\ DOMAIN AllBooks = DOMAIN books \cup {at}
        /\ \A sym \in DOMAIN AllBooks : AllBooks[sym] = IF sym = at THEN AtWork ELSE books[sym]
    BY <1>2 DEF AllBooks, Insert
  <2>2. AtWork.config = config /\ AtWork.book = BookNow
    BY DEF AtWork, BookNow
  <2>3. SoundIn(AtWork)
    <3>1. CASE config = "default"
      BY <2>2, <3>1, SoundNow DEF EngineInv, WorkInv, SoundIn
    <3>2. CASE config = "own"
      BY <2>2, <3>2, OwnSoundNow DEF EngineInv, WorkInv, SoundIn
    <3>. QED  BY <3>1, <3>2 DEF EngineInv, WorkInv
  <2>. QED  BY <1>2, <2>1, <2>3 DEF EngineInv
<1>. QED  BY <1>1, <1>2

\* The borrow of one of several sound books.
LEMMA Borrowed ==
  ASSUME NEW all, NEW sym \in DOMAIN all, DOMAIN all \subseteq Symbol,
         \A s \in DOMAIN all : SoundIn(all[s]),
         Borrow(all, sym), taker' = Idle
  PROVE  /\ at' \in Symbol \cup {NoSymbol}
         /\ DOMAIN books' \subseteq Symbol \ {at'}
         /\ \A s \in DOMAIN books' : SoundIn(books'[s])
         /\ WorkInv'
<1>1. at' = sym /\ books' = [s \in DOMAIN all \ {sym} |-> all[s]]
  BY DEF Borrow
<1>2. /\ DOMAIN books' = DOMAIN all \ {sym}
      /\ \A s \in DOMAIN books' : books'[s] = all[s]
  BY <1>1
<1>3. \A s \in DOMAIN books' : SoundIn(books'[s])
  <2>. SUFFICES ASSUME NEW s \in DOMAIN books'
                PROVE  SoundIn(books'[s])
    OBVIOUS
  <2>1. books'[s] = all[s] /\ s \in DOMAIN all
    BY <1>2
  <2>. QED  BY <2>1
<1>4. config' = all[sym].config /\ Load(all[sym].book)
  BY DEF Borrow
<1>5. SoundIn(all[sym])
  OBVIOUS
<1>6. CASE all[sym].config = "default" /\ Sound(all[sym].book)
  <2>1. BookInv' /\ LevelTotalsExact'
    BY <1>4, <1>6, SoundLoaded
  <2>. QED  BY <1>1, <1>2, <1>3, <1>4, <1>6, <2>1 DEF WorkInv
<1>7. CASE all[sym].config = "own" /\ OwnProofs!Sound(all[sym].book)
  <2>1. OwnProofs!BookInv' /\ OwnProofs!LevelTotalsExact'
    BY <1>4, <1>7, OwnSoundLoaded
  <2>. QED  BY <1>1, <1>2, <1>3, <1>4, <1>7, <2>1 DEF WorkInv
<1>. QED  BY <1>5, <1>6, <1>7 DEF SoundIn

\* ... of the engine's books and another sound one, which may take the place
\* of one of them.
LEMMA InsertedAndBorrowed ==
  ASSUME EngineInv, Quiet, NEW sym \in Symbol, NEW entry, SoundIn(entry),
         Borrow(Insert(AllBooks, sym, entry), sym), taker' = taker,
         routed' \in BOOLEAN, failed' = failed
  PROVE  EngineInv'
<1>. DEFINE all == Insert(AllBooks, sym, entry)
<1>1. DOMAIN AllBooks \subseteq Symbol /\ \A s \in DOMAIN AllBooks : SoundIn(AllBooks[s])
  BY AllSound DEF Quiet
<1>2. /\ DOMAIN all = DOMAIN AllBooks \cup {sym}
      /\ \A s \in DOMAIN all : all[s] = IF s = sym THEN entry ELSE AllBooks[s]
  BY DEF Insert
<1>. HIDE DEF all
<1>3. DOMAIN all \subseteq Symbol /\ sym \in DOMAIN all /\ \A s \in DOMAIN all : SoundIn(all[s])
  BY <1>1, <1>2
<1>4. taker' = Idle /\ ~failed'
  BY DEF Quiet
<1>5. Borrow(all, sym)
  BY DEF all
<1>6. /\ at' \in Symbol \cup {NoSymbol}
      /\ DOMAIN books' \subseteq Symbol \ {at'}
      /\ \A s \in DOMAIN books' : SoundIn(books'[s])
      /\ WorkInv'
  BY <1>3, <1>4, <1>5, Borrowed
<1>7. failed' \in BOOLEAN /\ DefaultBooksRestore'
  BY <1>4 DEF EngineInv, DefaultBooksRestore
<1>. QED  BY <1>4, <1>6, <1>7 DEF EngineInv

LEMMA RouteInv ==
  ASSUME EngineInv, NEW sym \in Symbol, Route(sym)
  PROVE  EngineInv'
<1>1. SoundIn(BookOf(sym))
  <2>1. CASE sym \in DOMAIN AllBooks
    <3>1. BookOf(sym) = AllBooks[sym]
      BY <2>1 DEF BookOf
    <3>. QED  BY <2>1, <3>1, AllSound DEF Route, Quiet
  <2>2. CASE sym \notin DOMAIN AllBooks
    <3>1. BookOf(sym) = New0("default")
      BY <2>2 DEF BookOf
    <3>. QED  BY <3>1, NewIsSound
  <2>. QED  BY <2>1, <2>2
<1>. QED  BY <1>1, InsertedAndBorrowed DEF Route

LEMMA AddSymbolInv ==
  ASSUME EngineInv, NEW sym \in Symbol, NEW kind \in {"default", "own"}, AddSymbol(sym, kind)
  PROVE  EngineInv'
<1>1. Quiet /\ routed' \in BOOLEAN /\ taker' = taker /\ failed' = failed
  BY DEF AddSymbol, EngineInv
<1>2. Borrow(Insert(AllBooks, sym, New0(kind)), sym)
  BY DEF AddSymbol
<1>. QED  BY <1>1, <1>2, NewIsSound, InsertedAndBorrowed

\* A snapshot that can be restored brings every book back sound.
LEMMA SnapshotSound ==
  ASSUME NEW b, SoundIn(b), Restorable(RestingOrders(b.book.queue))
  PROVE  SoundIn(Made("default", RestingOrders(b.book.queue), b.book.seq))
<1>. DEFINE made == Made("default", RestingOrders(b.book.queue), b.book.seq)
<1>1. made.config = "default" /\ made.book = Restored(RestingOrders(b.book.queue), b.book.seq)
  BY DEF Made
<1>2. CASE Sound(b.book)
  <2>1. PICK c : c = b.book /\ Sound(c)
    BY <1>2
  <2>2. Restored(RestingOrders(c.queue), c.seq) =
          [queue |-> c.queue, total |-> c.total, live |-> c.live, map |-> c.map, seq |-> c.seq]
    BY <2>1, SoundRoundTrip
  <2>3. PICK d : d = Restored(RestingOrders(c.queue), c.seq)
    OBVIOUS
  <2>4. d.queue = c.queue /\ d.total = c.total /\ d.live = c.live /\ d.map = c.map /\ d.seq = c.seq
    BY <2>2, <2>3
  <2>5. Sound(d)
    BY <2>1, <2>4 DEF Sound
  <2>. QED  BY <1>1, <2>1, <2>3, <2>5, Zenon DEF SoundIn
<1>3. CASE OwnProofs!Sound(b.book)
  <2>1. Sound(made.book)
    BY <1>1, <1>3, OwnBookRestored
  <2>. QED  BY <1>1, <2>1, Zenon DEF SoundIn
<1>. QED  BY <1>2, <1>3 DEF SoundIn

LEMMA RestartInv ==
  ASSUME EngineInv, Restart
  PROVE  EngineInv'
<1>. DEFINE all == [sym \in DOMAIN AllBooks |->
                      Made("default", Snapshot(sym), AllBooks[sym].book.seq)]
<1>1. DOMAIN AllBooks \subseteq Symbol /\ \A s \in DOMAIN AllBooks : SoundIn(AllBooks[s])
  BY AllSound DEF Restart, Quiet
<1>2. \A sym \in DOMAIN AllBooks : Restorable(Snapshot(sym))
  BY DEF Restart
<1>3. DOMAIN all = DOMAIN AllBooks /\ \A s \in DOMAIN all : SoundIn(all[s])
  <2>1. ASSUME NEW s \in DOMAIN AllBooks
        PROVE  SoundIn(Made("default", Snapshot(s), AllBooks[s].book.seq))
    BY <1>1, <1>2, SnapshotSound DEF Snapshot
  <2>. QED  BY <2>1
<1>4. at \in DOMAIN all
  BY DEF Restart, AllBooks, Insert
<1>5. Borrow(all, at) /\ taker' = Idle /\ ~failed' /\ routed' = routed
  BY DEF Restart, Quiet
<1>. HIDE DEF all
<1>6. /\ at' \in Symbol \cup {NoSymbol}
      /\ DOMAIN books' \subseteq Symbol \ {at'}
      /\ \A s \in DOMAIN books' : SoundIn(books'[s])
      /\ WorkInv'
  BY <1>1, <1>3, <1>4, <1>5, Borrowed
<1>7. DefaultBooksRestore' /\ routed' \in BOOLEAN /\ failed' \in BOOLEAN
  BY <1>5 DEF EngineInv, DefaultBooksRestore, Restart
<1>. QED  BY <1>5, <1>6, <1>7 DEF EngineInv

\* restore panics on account of a book with a configuration of its own.
LEMMA RestartPanicsInv ==
  ASSUME EngineInv, RestartPanics
  PROVE  EngineInv'
<1>1. PICK sym \in DOMAIN AllBooks : ~Restorable(Snapshot(sym))
  BY DEF RestartPanics
<1>2. SoundIn(AllBooks[sym])
  BY AllSound DEF RestartPanics, Quiet
<1>3. ~Sound(AllBooks[sym].book)
  BY <1>1, SoundRoundTrip DEF Snapshot
<1>4. AllBooks[sym].config = "own"
  BY <1>2, <1>3 DEF SoundIn
<1>5. /\ UNCHANGED <<queue, total, live, map, taker, seq, sink, books, at, config, routed>>
      /\ failed' = TRUE /\ taker = Idle /\ ~routed
  BY DEF RestartPanics, Quiet, vars
<1>6. AllBooks' = AllBooks
  BY <1>5 DEF AllBooks, AtWork
<1>7. DefaultBooksRestore'
  BY <1>4, <1>6 DEF DefaultBooksRestore
<1>8. WorkInv'
  <2>1. UNCHANGED vars
    BY <1>5 DEF vars
  <2>. QED  BY <1>5, <2>1, WorkStays DEF EngineInv
<1>. QED  BY <1>5, <1>7, <1>8 DEF EngineInv

LEMMA SubmitInv ==
  ASSUME EngineInv, NEW c \in Client, Submit1(c)
  PROVE  EngineInv'
<1>1. /\ UNCHANGED <<books, at, config, failed>> /\ routed' = FALSE
      /\ routed /\ ~failed
  BY DEF Submit1, EngineInv
<1>2. CASE config = "default"
  <2>1. Handle(c)
    BY <1>2 DEF Submit1
  <2>2. /\ c.cmd = "new" => c \in NewCommand
        /\ c.cmd = "replace" => c \in AnyReplace
    BY EngineAssumption, QtyAssumption
       DEF NewCommand, LimitCommand, MarketCommand, CancelCommand, ReplaceCommand, AnyReplace, Qty
  <2>3. BookInv' /\ LevelTotalsExact'
    BY <1>2, <2>1, <2>2, HandleInv DEF EngineInv, WorkInv
  <2>. QED  BY <1>1, <1>2, <2>3 DEF EngineInv, WorkInv, DefaultBooksRestore
<1>3. CASE config = "own"
  <2>1. Own!Handle(c)
    BY <1>3 DEF Submit1
  <2>2. OwnProofs!BookInv' /\ OwnProofs!LevelTotalsExact'
    BY <1>3, <2>1, OwnHandleInv DEF EngineInv, WorkInv
  <2>. QED  BY <1>1, <1>3, <2>2 DEF EngineInv, WorkInv, DefaultBooksRestore
<1>. QED  BY <1>2, <1>3 DEF EngineInv, WorkInv

LEMMA ContinueWorks ==
  ASSUME Proceed
  PROVE  taker # Idle
<1>1. Continue => taker # Idle
  BY DEF Continue, Fill, CloseFilled, RestRemainder, Expire, Exhausted, Working
<1>2. OwnProofs!Continue => taker # Idle
  BY DEF OwnProofs!Continue, OwnProofs!Fill, OwnProofs!CloseFilled, OwnProofs!RestRemainder,
         OwnProofs!Expire, OwnProofs!Exhausted, OwnProofs!Working, Idle, OwnProofs!Idle
<1>. QED  BY <1>1, <1>2, OwnSame DEF Proceed

LEMMA ProceedInv ==
  ASSUME EngineInv, Proceed
  PROVE  EngineInv'
<1>1. UNCHANGED <<books, at, config, routed, failed>>
  BY DEF Proceed, engineVars
<1>2. taker # Idle
  BY ContinueWorks
<1>3. ~routed /\ ~failed
  BY <1>2 DEF EngineInv
<1>4. CASE config = "default"
  <2>1. BookInv' /\ LevelTotalsExact'
    BY <1>4, ContinueInv DEF Proceed, EngineInv, WorkInv
  <2>. QED  BY <1>1, <1>3, <1>4, <2>1 DEF EngineInv, WorkInv, DefaultBooksRestore
<1>5. CASE config = "own"
  <2>1. OwnProofs!BookInv' /\ OwnProofs!LevelTotalsExact'
    BY <1>5, OwnContinueInv DEF Proceed, EngineInv, WorkInv
  <2>. QED  BY <1>1, <1>3, <1>5, <2>1 DEF EngineInv, WorkInv, DefaultBooksRestore
<1>. QED  BY <1>4, <1>5 DEF EngineInv, WorkInv

LEMMA EngineInitInv == EngineInit => EngineInv
<1>. SUFFICES ASSUME EngineInit PROVE EngineInv
  OBVIOUS
<1>1. BookInv /\ LevelTotalsExact
  BY InitInv, InitTotals DEF EngineInit
<1>2. DOMAIN books = {}
  BY DEF EngineInit
<1>. QED  BY <1>1, <1>2 DEF EngineInit, Init, EngineInv, WorkInv, DefaultBooksRestore

LEMMA EngineNextInv == EngineInv /\ [EngineNext]_allVars => EngineInv'
<1>. SUFFICES ASSUME EngineInv, [EngineNext]_allVars
              PROVE  EngineInv'
  OBVIOUS
<1>1. ASSUME NEW sym \in Symbol, Route(sym)
      PROVE  EngineInv'
  BY <1>1, RouteInv
<1>2. ASSUME NEW c \in Client, Submit1(c)
      PROVE  EngineInv'
  BY <1>2, SubmitInv
<1>3. CASE Proceed
  BY <1>3, ProceedInv
<1>4. ASSUME NEW sym \in Symbol, NEW kind \in {"default", "own"}, AddSymbol(sym, kind)
      PROVE  EngineInv'
  BY <1>4, AddSymbolInv
<1>5. CASE Restart
  BY <1>5, RestartInv
<1>6. CASE RestartPanics
  BY <1>6, RestartPanicsInv
<1>7. CASE UNCHANGED allVars
  <2>1. UNCHANGED <<vars, config>> /\ UNCHANGED <<books, at, config, routed, failed, taker>>
    BY <1>7 DEF allVars, engineVars, vars
  <2>2. WorkInv'
    BY <2>1, WorkStays DEF EngineInv
  <2>3. AllBooks' = AllBooks
    BY <1>7 DEF allVars, engineVars, vars, AllBooks, AtWork
  <2>. QED  BY <2>1, <2>2, <2>3 DEF EngineInv, DefaultBooksRestore
<1>. QED  BY <1>1, <1>2, <1>3, <1>4, <1>5, <1>6, <1>7 DEF EngineNext

----------------------------------------------------------------------------
\* The engine, for every set of symbols and any two configurations

\* Whatever is submitted to whichever symbol, registered and restarted, every
\* book of the engine satisfies the invariant of an order book with the
\* configuration it was made with.
THEOREM EngineInvariant == EngineSpec => []EngineInv
BY EngineInitInv, EngineNextInv, PTL DEF EngineSpec

\* Type correctness of struct Engine.
THEOREM EngineTyped == EngineSpec => []EngineTypeOK
<1>1. EngineInv => EngineTypeOK
  <2>. SUFFICES ASSUME EngineInv PROVE EngineTypeOK
    OBVIOUS
  <2>1. /\ config \in {"default", "own"}
        /\ seq \in 0 .. SeqWrap - 1
    BY DEF EngineInv, WorkInv, BookInv, Typed, OwnProofs!BookInv, OwnProofs!Typed
  <2>2. /\ AtWork.config \in {"default", "own"}
        /\ AtWork.book.seq \in 0 .. SeqWrap - 1
    BY <2>1 DEF AtWork
  <2>3. ASSUME NEW sym \in DOMAIN books
        PROVE  /\ books[sym].config \in {"default", "own"}
               /\ books[sym].book.seq \in 0 .. SeqWrap - 1
    <3>1. SoundIn(books[sym])
      BY DEF EngineInv
    <3>. QED  BY <3>1, Zenon DEF SoundIn, Sound, OwnProofs!Sound
  <2>4. ASSUME NEW sym \in DOMAIN AllBooks
        PROVE  /\ AllBooks[sym].config \in {"default", "own"}
               /\ AllBooks[sym].book.seq \in 0 .. SeqWrap - 1
    <3>1. \/ AllBooks[sym] = AtWork
          \/ sym \in DOMAIN books /\ AllBooks[sym] = books[sym]
      BY DEF AllBooks, Insert
    <3>. QED  BY <2>2, <2>3, <3>1
  <2>. QED  BY <2>4 DEF EngineInv, EngineTypeOK
<1>. QED  BY <1>1, EngineInvariant, PTL

\* restore panics only where a book had a configuration of its own: as long
\* as all have the engine's, the snapshot of every book fits, names no order
\* twice, and has only valid prices.
THEOREM DefaultsRestore == EngineSpec => []DefaultBooksRestore
<1>1. EngineInv => DefaultBooksRestore
  BY DEF EngineInv
<1>. QED  BY <1>1, EngineInvariant, PTL
----------------------------------------------------------------------------
\* One symbol, as if it were alone

\* The sink of the book at work is the adaptor of submit_tagged.
AdaptorPlugged ==
  /\ Sink0 = EngineSink0
  /\ \A adaptor, n, event : OnEvent(adaptor, n, event) = Tagged(adaptor, n, event)

Adaptor == [sym: Symbol \cup {NoSymbol}, last: [Symbol -> Int]]

\* It was made for the book at work.
AdaptorInv ==
  /\ sink \in Adaptor
  /\ routed \/ taker # Idle => at \in Symbol /\ sink.sym = at

\* The book at work is the watched one, before and after a step.
Watching ==
  /\ at = Watched /\ at' = Watched
  /\ config' = config

LEMMA WatchedBook ==
  ASSUME Watching
  PROVE  /\ BookOf(Watched).config = config /\ BookOf(Watched)'.config = config
         /\ BookOf(Watched).book.queue = queue /\ BookOf(Watched)'.book.queue = queue'
         /\ BookOf(Watched).book.total = total /\ BookOf(Watched)'.book.total = total'
         /\ BookOf(Watched).book.live = live /\ BookOf(Watched)'.book.live = live'
         /\ BookOf(Watched).book.map = map /\ BookOf(Watched)'.book.map = map'
         /\ BookOf(Watched).book.seq = seq /\ BookOf(Watched)'.book.seq = seq'
         /\ (IF at = Watched THEN taker ELSE Idle) = taker
         /\ (IF at' = Watched THEN taker' ELSE Idle) = taker'
<1>0. Watched # NoSymbol
  BY WatchedAssumption, EngineAssumption
<1>1. BookOf(Watched) = AtWork
  BY <1>0 DEF Watching, BookOf, AllBooks, Insert
<1>2. BookOf(Watched)' = AtWork'
  BY <1>0 DEF Watching, BookOf, AllBooks, Insert
<1>. QED  BY <1>1, <1>2 DEF Watching, AtWork

LEMMA AloneReads ==
  ASSUME Watching
  PROVE  /\ \A side : Alone!Occupied(side) = Occupied(side)
         /\ \A side, p : Alone!IsBest(side, p) <=> IsBest(side, p)
         /\ \A side, p : Alone!Fillable(side, p) = Fillable(side, p)
         /\ \A c : /\ Alone!NewRejection(c) = NewRejection(c)
                   /\ Alone!CancelRejection(c) = CancelRejection(c)
                   /\ Alone!ReplaceRejection(c) = ReplaceRejection(c)
<1>1. /\ BookOf(Watched).book.queue = queue /\ BookOf(Watched).book.total = total
      /\ BookOf(Watched).book.live = live /\ BookOf(Watched).book.map = map
  BY WatchedBook
<1>2. /\ Alone!Price = Price
      /\ \A side : Alone!Opposite(side) = Opposite(side)
      /\ \A side, a, b : /\ Alone!Crosses(side, a, b) <=> Crosses(side, a, b)
                         /\ Alone!Better(side, a, b) <=> Better(side, a, b)
      /\ \A p : Alone!PriceOk(p) <=> PriceOk(p)
  BY DEF Alone!Price, Price, Alone!PriceOk, PriceOk, Alone!Opposite, Opposite,
         Alone!Crosses, Crosses, Alone!Better, Better
<1>3. \A side : Alone!Occupied(side) = Occupied(side)
  BY <1>1, <1>2 DEF Alone!Occupied, Occupied
<1>4. \A side, p : Alone!IsBest(side, p) <=> IsBest(side, p)
  BY <1>2, <1>3 DEF Alone!IsBest, IsBest
<1>5. \A f, S : Alone!SumFunctionOnSet(f, S) = SumFunctionOnSet(f, S)
  BY Zenon DEF Alone!SumFunctionOnSet, SumFunctionOnSet, Alone!FoldFunctionOnSet,
               FoldFunctionOnSet, Alone!MapThenFoldSet, MapThenFoldSet
<1>6. ASSUME NEW side, NEW p
      PROVE  /\ Alone!Fillable(side, p) = Fillable(side, p)
             /\ Alone!WouldCross(side, p) <=> WouldCross(side, p)
  <2>1. {r \in Alone!Occupied(Alone!Opposite(side)) : Alone!Crosses(side, p, r)}
          = {r \in Occupied(Opposite(side)) : Crosses(side, p, r)}
    BY <1>2, <1>3
  <2>2. Alone!Fillable(side, p) = Fillable(side, p)
    BY <1>1, <1>2, <1>5, <2>1 DEF Alone!Fillable, Fillable
  <2>. QED  BY <1>2, <1>3, <2>2 DEF Alone!WouldCross, WouldCross
<1>7. \A c : Alone!NewRejection(c) = NewRejection(c)
  BY <1>1, <1>2, <1>6 DEF Alone!NewRejection, NewRejection, Alone!TifRejection, TifRejection,
                          Alone!BookFull, BookFull
<1>8. \A c : /\ Alone!CancelRejection(c) = CancelRejection(c)
             /\ Alone!ReplaceRejection(c) = ReplaceRejection(c)
  BY <1>1, <1>2 DEF Alone!CancelRejection, CancelRejection, Alone!ReplaceRejection, ReplaceRejection
<1>. QED  BY <1>3, <1>4, <1>6, <1>7, <1>8

LEMMA AdaptorTold ==
  ASSUME AdaptorPlugged, NEW s \in Adaptor, s.sym \in Symbol, NEW n \in Int, NEW e
  PROVE  /\ OnEvent(s, n, e) \in Adaptor
         /\ OnEvent(s, n, e).sym = s.sym
         /\ OnEvent(s, n, e).last[s.sym] = n
         /\ \A sym \in Symbol : sym # s.sym => OnEvent(s, n, e).last[sym] = s.last[sym]
<1>1. OnEvent(s, n, e) = [s EXCEPT !.last[s.sym] = n]
  BY DEF AdaptorPlugged, Tagged
<1>2. s.last \in [Symbol -> Int]
  BY DEF Adaptor
<1>. QED  BY <1>1, <1>2 DEF Adaptor

LEMMA AloneEmits ==
  ASSUME Watching, AdaptorPlugged, AdaptorInv, sink.sym = at, seq \in Int
  PROVE  /\ \A e : Emit(e) => Alone!Emit(e)
         /\ \A e, f : EmitBoth(e, f) => Alone!EmitBoth(e, f)
         /\ UNCHANGED <<seq, sink>> =>
              BookOf(Watched)'.book.seq = BookOf(Watched).book.seq
              /\ sink'.last[Watched] = sink.last[Watched]
<1>1. BookOf(Watched).book.seq = seq /\ BookOf(Watched)'.book.seq = seq'
  BY WatchedBook
<1>2. sink \in Adaptor /\ sink.sym = Watched /\ Watched \in Symbol
  BY WatchedAssumption DEF Watching, AdaptorInv
<1>3. NextSeq(seq) \in Int /\ NextSeq(NextSeq(seq)) \in Int
  BY SeqAssumption DEF NextSeq
<1>4. \A n : Alone!NextSeq(n) = NextSeq(n)
  BY DEF Alone!NextSeq, NextSeq
<1>5. ASSUME NEW e, Emit(e)
      PROVE  Alone!Emit(e)
  <2>1. seq' = NextSeq(seq) /\ sink'.last[Watched] = NextSeq(seq)
    BY <1>2, <1>3, <1>5, AdaptorTold DEF Emit
  <2>. QED  BY <1>1, <1>4, <2>1 DEF Alone!Emit, LastNumber
<1>6. ASSUME NEW e, NEW f, EmitBoth(e, f)
      PROVE  Alone!EmitBoth(e, f)
  <2>1. PICK s : s = OnEvent(sink, NextSeq(seq), e)
    OBVIOUS
  <2>2. s \in Adaptor /\ s.sym = Watched
    BY <1>2, <1>3, <2>1, AdaptorTold
  <2>3. sink' = OnEvent(s, NextSeq(NextSeq(seq)), f) /\ seq' = NextSeq(NextSeq(seq))
    BY <1>6, <2>1 DEF EmitBoth
  <2>4. sink'.last[Watched] = NextSeq(NextSeq(seq))
    BY <1>2, <1>3, <2>2, <2>3, AdaptorTold
  <2>. QED  BY <1>1, <1>4, <2>3, <2>4 DEF Alone!EmitBoth, LastNumber
<1>7. UNCHANGED <<seq, sink>> => BookOf(Watched)'.book.seq = BookOf(Watched).book.seq
                                 /\ sink'.last[Watched] = sink.last[Watched]
  BY <1>1
<1>. QED  BY <1>5, <1>6, <1>7

LEMMA AloneActs ==
  ASSUME Watching, AdaptorPlugged, AdaptorInv, sink.sym = at, seq \in Int
  PROVE  /\ \A c : Handle(c) => Alone!Handle(c)
         /\ Continue => Alone!Continue
<1>. USE DEF Alone!Side, Side, Alone!Opposite, Opposite, Alone!Crosses, Crosses,
             Alone!Idle, Idle, Alone!MinQty, MinQty, Alone!Rejected, Rejected,
             Alone!Closed, Closed, Alone!Replaced, Replaced,
             Alone!Accepted, Accepted, Alone!Trade, Trade,
             Alone!Working, Working
<1>1. /\ BookOf(Watched).book.queue = queue /\ BookOf(Watched)'.book.queue = queue'
      /\ BookOf(Watched).book.total = total /\ BookOf(Watched)'.book.total = total'
      /\ BookOf(Watched).book.live = live /\ BookOf(Watched)'.book.live = live'
      /\ BookOf(Watched).book.map = map /\ BookOf(Watched)'.book.map = map'
      /\ BookOf(Watched).book.seq = seq /\ BookOf(Watched)'.book.seq = seq'
      /\ (IF at = Watched THEN taker ELSE Idle) = taker
      /\ (IF at' = Watched THEN taker' ELSE Idle) = taker'
  BY WatchedBook
<1>2. /\ \A side : Alone!Occupied(side) = Occupied(side)
      /\ \A side, p : Alone!IsBest(side, p) <=> IsBest(side, p)
      /\ \A c : /\ Alone!NewRejection(c) = NewRejection(c)
                /\ Alone!CancelRejection(c) = CancelRejection(c)
                /\ Alone!ReplaceRejection(c) = ReplaceRejection(c)
  BY AloneReads
<1>3. /\ \A e : Emit(e) => Alone!Emit(e)
      /\ \A e, f : EmitBoth(e, f) => Alone!EmitBoth(e, f)
      /\ UNCHANGED <<seq, sink>> =>
           BookOf(Watched)'.book.seq = BookOf(Watched).book.seq
           /\ sink'.last[Watched] = sink.last[Watched]
  BY AloneEmits
<1>4. \A side, p, i : Unlink(side, p, i) => Alone!Unlink(side, p, i)
  BY <1>1 DEF Unlink, Alone!Unlink, RemoveAt, Alone!RemoveAt
<1>5. \A id, i : At(id, i) <=> Alone!At(id, i)
  BY <1>1 DEF At, Alone!At
<1>6. \A side, p, o : Push(side, p, o) => Alone!Push(side, p, o)
  BY <1>1 DEF Push, Alone!Push
<1>7. EntryWritten = Alone!EntryWritten
  BY <1>1 DEF EntryWritten, Alone!EntryWritten
<1>8. ASSUME NEW id, NEW reason, Reject(id, reason)
      PROVE  Alone!Reject(id, reason)
  BY <1>1, <1>3, <1>8 DEF Reject, Alone!Reject
<1>9. ASSUME NEW c, New(c)
      PROVE  Alone!New(c)
  BY <1>1, <1>2, <1>3, <1>9 DEF New, Alone!New
<1>10. ASSUME NEW c, Cancel(c)
      PROVE  Alone!Cancel(c)
  BY <1>1, <1>2, <1>3, <1>4, <1>5, <1>10 DEF Cancel, Alone!Cancel
<1>11. ASSUME NEW c, ReplaceInPlace(c)
      PROVE  Alone!ReplaceInPlace(c)
  BY <1>1, <1>2, <1>3, <1>5, <1>11 DEF ReplaceInPlace, Alone!ReplaceInPlace, KeepsPriority,
                                Alone!KeepsPriority, Reduce, Alone!Reduce
<1>12. ASSUME NEW c, ReplaceAndCross(c)
      PROVE  Alone!ReplaceAndCross(c)
  BY <1>1, <1>2, <1>3, <1>4, <1>5, <1>12 DEF ReplaceAndCross, Alone!ReplaceAndCross,
                                KeepsPriority, Alone!KeepsPriority
<1>13. ASSUME NEW p, Fill(p)
      PROVE  Alone!Fill(p)
  <2>1. (Alone!Unfilled <=> Unfilled) /\ (Alone!Acceptable(p) <=> Acceptable(p))
    BY <1>1 DEF Unfilled, Alone!Unfilled, Acceptable, Alone!Acceptable
  <2>2. ASSUME NEW side, NEW q, TakeFront(side, p, q)
        PROVE  Alone!TakeFront(side, p, q)
    BY <1>1, <2>2, Zenon DEF TakeFront, Alone!TakeFront
  <2>. QED  BY <1>1, <1>2, <1>3, <1>13, <2>1, <2>2, Zenon DEF Fill, Alone!Fill
<1>14. CloseFilled => Alone!CloseFilled
  BY <1>1, <1>3 DEF CloseFilled, Alone!CloseFilled
<1>15. Exhausted => Alone!Exhausted
  BY <1>1, <1>2 DEF Exhausted, Alone!Exhausted, Acceptable, Alone!Acceptable
<1>16. RestsRemainder <=> Alone!RestsRemainder
  BY <1>1 DEF RestsRemainder, Alone!RestsRemainder
<1>17. RestRemainder => Alone!RestRemainder
  BY <1>1, <1>3, <1>6, <1>7, <1>15, <1>16 DEF RestRemainder, Alone!RestRemainder
<1>18. Expire => Alone!Expire
  BY <1>1, <1>3, <1>15, <1>16 DEF Expire, Alone!Expire
<1>19. \A c : Handle(c) => Alone!Handle(c)
  BY <1>2, <1>8, <1>9, <1>10, <1>11, <1>12 DEF Handle, Alone!Handle
<1>20. Alone!Price = Price
  BY DEF Alone!Price, Price, Alone!PriceOk, PriceOk
<1>21. Continue => Alone!Continue
  BY <1>13, <1>14, <1>17, <1>18, <1>20 DEF Continue, Alone!Continue
<1>. QED  BY <1>19, <1>21

\* The same of a book with the other configuration.
LEMMA OwnAloneReads ==
  ASSUME Watching
  PROVE  /\ \A side : OwnAlone!Occupied(side) = Own!Occupied(side)
         /\ \A side, p : OwnAlone!IsBest(side, p) <=> Own!IsBest(side, p)
         /\ \A side, p : OwnAlone!Fillable(side, p) = Own!Fillable(side, p)
         /\ \A c : /\ OwnAlone!NewRejection(c) = Own!NewRejection(c)
                   /\ OwnAlone!CancelRejection(c) = Own!CancelRejection(c)
                   /\ OwnAlone!ReplaceRejection(c) = Own!ReplaceRejection(c)
<1>1. /\ BookOf(Watched).book.queue = queue /\ BookOf(Watched).book.total = total
      /\ BookOf(Watched).book.live = live /\ BookOf(Watched).book.map = map
  BY WatchedBook
<1>2. /\ OwnAlone!Price = Own!Price
      /\ \A side : OwnAlone!Opposite(side) = Own!Opposite(side)
      /\ \A side, a, b : /\ OwnAlone!Crosses(side, a, b) <=> Own!Crosses(side, a, b)
                         /\ OwnAlone!Better(side, a, b) <=> Own!Better(side, a, b)
      /\ \A p : OwnAlone!PriceOk(p) <=> Own!PriceOk(p)
  BY DEF OwnAlone!Price, Own!Price, OwnAlone!PriceOk, Own!PriceOk, OwnAlone!Opposite, Own!Opposite,
         OwnAlone!Crosses, Own!Crosses, OwnAlone!Better, Own!Better
<1>3. \A side : OwnAlone!Occupied(side) = Own!Occupied(side)
  BY <1>1, <1>2 DEF OwnAlone!Occupied, Own!Occupied
<1>4. \A side, p : OwnAlone!IsBest(side, p) <=> Own!IsBest(side, p)
  BY <1>2, <1>3 DEF OwnAlone!IsBest, Own!IsBest
<1>5. \A f, S : OwnAlone!SumFunctionOnSet(f, S) = Own!SumFunctionOnSet(f, S)
  BY Zenon DEF OwnAlone!SumFunctionOnSet, Own!SumFunctionOnSet, OwnAlone!FoldFunctionOnSet,
               Own!FoldFunctionOnSet, OwnAlone!MapThenFoldSet, Own!MapThenFoldSet
<1>6. ASSUME NEW side, NEW p
      PROVE  /\ OwnAlone!Fillable(side, p) = Own!Fillable(side, p)
             /\ OwnAlone!WouldCross(side, p) <=> Own!WouldCross(side, p)
  <2>1. {r \in OwnAlone!Occupied(OwnAlone!Opposite(side)) : OwnAlone!Crosses(side, p, r)}
          = {r \in Own!Occupied(Own!Opposite(side)) : Own!Crosses(side, p, r)}
    BY <1>2, <1>3
  <2>2. OwnAlone!Fillable(side, p) = Own!Fillable(side, p)
    BY <1>1, <1>2, <1>5, <2>1 DEF OwnAlone!Fillable, Own!Fillable
  <2>. QED  BY <1>2, <1>3, <2>2 DEF OwnAlone!WouldCross, Own!WouldCross
<1>7. \A c : OwnAlone!NewRejection(c) = Own!NewRejection(c)
  BY <1>1, <1>2, <1>6 DEF OwnAlone!NewRejection, Own!NewRejection, OwnAlone!TifRejection, Own!TifRejection,
                          OwnAlone!BookFull, Own!BookFull
<1>8. \A c : /\ OwnAlone!CancelRejection(c) = Own!CancelRejection(c)
             /\ OwnAlone!ReplaceRejection(c) = Own!ReplaceRejection(c)
  BY <1>1, <1>2 DEF OwnAlone!CancelRejection, Own!CancelRejection, OwnAlone!ReplaceRejection, Own!ReplaceRejection
<1>. QED  BY <1>3, <1>4, <1>6, <1>7, <1>8

LEMMA OwnAloneEmits ==
  ASSUME Watching, AdaptorPlugged, AdaptorInv, sink.sym = at, seq \in Int
  PROVE  /\ \A e : Own!Emit(e) => OwnAlone!Emit(e)
         /\ \A e, f : Own!EmitBoth(e, f) => OwnAlone!EmitBoth(e, f)
         /\ UNCHANGED <<seq, sink>> =>
              BookOf(Watched)'.book.seq = BookOf(Watched).book.seq
              /\ sink'.last[Watched] = sink.last[Watched]
<1>1. /\ \A e : Emit(e) => Alone!Emit(e)
      /\ \A e, f : EmitBoth(e, f) => Alone!EmitBoth(e, f)
      /\ UNCHANGED <<seq, sink>> =>
           BookOf(Watched)'.book.seq = BookOf(Watched).book.seq
           /\ sink'.last[Watched] = sink.last[Watched]
  BY AloneEmits
<1>2. \A e, f : (Own!Emit(e) <=> Emit(e)) /\ (Own!EmitBoth(e, f) <=> EmitBoth(e, f))
  BY DEF Own!Emit, Emit, Own!EmitBoth, EmitBoth, Own!NextSeq, NextSeq
<1>3. \A e, f : /\ OwnAlone!Emit(e) <=> Alone!Emit(e)
                /\ OwnAlone!EmitBoth(e, f) <=> Alone!EmitBoth(e, f)
  BY DEF OwnAlone!Emit, Alone!Emit, OwnAlone!EmitBoth, Alone!EmitBoth, OwnAlone!NextSeq, Alone!NextSeq
<1>. QED  BY <1>1, <1>2, <1>3

LEMMA OwnAloneActs ==
  ASSUME Watching, AdaptorPlugged, AdaptorInv, sink.sym = at, seq \in Int
  PROVE  /\ \A c : Own!Handle(c) => OwnAlone!Handle(c)
         /\ Own!Continue => OwnAlone!Continue
<1>. USE DEF OwnAlone!Side, Own!Side, OwnAlone!Opposite, Own!Opposite, OwnAlone!Crosses, Own!Crosses,
             OwnAlone!Idle, Own!Idle, Idle, OwnAlone!MinQty, Own!MinQty, OwnAlone!Rejected, Own!Rejected,
             OwnAlone!Closed, Own!Closed, OwnAlone!Replaced, Own!Replaced,
             OwnAlone!Accepted, Own!Accepted, OwnAlone!Trade, Own!Trade,
             OwnAlone!Working, Own!Working
<1>1. /\ BookOf(Watched).book.queue = queue /\ BookOf(Watched)'.book.queue = queue'
      /\ BookOf(Watched).book.total = total /\ BookOf(Watched)'.book.total = total'
      /\ BookOf(Watched).book.live = live /\ BookOf(Watched)'.book.live = live'
      /\ BookOf(Watched).book.map = map /\ BookOf(Watched)'.book.map = map'
      /\ BookOf(Watched).book.seq = seq /\ BookOf(Watched)'.book.seq = seq'
      /\ (IF at = Watched THEN taker ELSE Idle) = taker
      /\ (IF at' = Watched THEN taker' ELSE Idle) = taker'
  BY WatchedBook
<1>2. /\ \A side : OwnAlone!Occupied(side) = Own!Occupied(side)
      /\ \A side, p : OwnAlone!IsBest(side, p) <=> Own!IsBest(side, p)
      /\ \A c : /\ OwnAlone!NewRejection(c) = Own!NewRejection(c)
                /\ OwnAlone!CancelRejection(c) = Own!CancelRejection(c)
                /\ OwnAlone!ReplaceRejection(c) = Own!ReplaceRejection(c)
  BY OwnAloneReads
<1>3. /\ \A e : Own!Emit(e) => OwnAlone!Emit(e)
      /\ \A e, f : Own!EmitBoth(e, f) => OwnAlone!EmitBoth(e, f)
      /\ UNCHANGED <<seq, sink>> =>
           BookOf(Watched)'.book.seq = BookOf(Watched).book.seq
           /\ sink'.last[Watched] = sink.last[Watched]
  BY OwnAloneEmits
<1>4. \A side, p, i : Own!Unlink(side, p, i) => OwnAlone!Unlink(side, p, i)
  BY <1>1 DEF Own!Unlink, OwnAlone!Unlink, Own!RemoveAt, OwnAlone!RemoveAt
<1>5. \A id, i : Own!At(id, i) <=> OwnAlone!At(id, i)
  BY <1>1 DEF Own!At, OwnAlone!At
<1>6. \A side, p, o : Own!Push(side, p, o) => OwnAlone!Push(side, p, o)
  BY <1>1 DEF Own!Push, OwnAlone!Push
<1>7. Own!EntryWritten = OwnAlone!EntryWritten
  BY <1>1 DEF Own!EntryWritten, OwnAlone!EntryWritten
<1>8. ASSUME NEW id, NEW reason, Own!Reject(id, reason)
      PROVE  OwnAlone!Reject(id, reason)
  BY <1>1, <1>3, <1>8 DEF Own!Reject, OwnAlone!Reject
<1>9. ASSUME NEW c, Own!New(c)
      PROVE  OwnAlone!New(c)
  BY <1>1, <1>2, <1>3, <1>9 DEF Own!New, OwnAlone!New
<1>10. ASSUME NEW c, Own!Cancel(c)
      PROVE  OwnAlone!Cancel(c)
  BY <1>1, <1>2, <1>3, <1>4, <1>5, <1>10 DEF Own!Cancel, OwnAlone!Cancel
<1>11. ASSUME NEW c, Own!ReplaceInPlace(c)
      PROVE  OwnAlone!ReplaceInPlace(c)
  BY <1>1, <1>2, <1>3, <1>5, <1>11 DEF Own!ReplaceInPlace, OwnAlone!ReplaceInPlace, Own!KeepsPriority,
                                OwnAlone!KeepsPriority, Own!Reduce, OwnAlone!Reduce
<1>12. ASSUME NEW c, Own!ReplaceAndCross(c)
      PROVE  OwnAlone!ReplaceAndCross(c)
  BY <1>1, <1>2, <1>3, <1>4, <1>5, <1>12 DEF Own!ReplaceAndCross, OwnAlone!ReplaceAndCross,
                                Own!KeepsPriority, OwnAlone!KeepsPriority
<1>13. ASSUME NEW p, Own!Fill(p)
      PROVE  OwnAlone!Fill(p)
  <2>1. (OwnAlone!Unfilled <=> Own!Unfilled) /\ (OwnAlone!Acceptable(p) <=> Own!Acceptable(p))
    BY <1>1 DEF Own!Unfilled, OwnAlone!Unfilled, Own!Acceptable, OwnAlone!Acceptable
  <2>2. ASSUME NEW side, NEW q, Own!TakeFront(side, p, q)
        PROVE  OwnAlone!TakeFront(side, p, q)
    BY <1>1, <2>2, Zenon DEF Own!TakeFront, OwnAlone!TakeFront
  <2>. QED  BY <1>1, <1>2, <1>3, <1>13, <2>1, <2>2, Zenon DEF Own!Fill, OwnAlone!Fill
<1>14. Own!CloseFilled => OwnAlone!CloseFilled
  BY <1>1, <1>3 DEF Own!CloseFilled, OwnAlone!CloseFilled
<1>15. Own!Exhausted => OwnAlone!Exhausted
  BY <1>1, <1>2 DEF Own!Exhausted, OwnAlone!Exhausted, Own!Acceptable, OwnAlone!Acceptable
<1>16. Own!RestsRemainder <=> OwnAlone!RestsRemainder
  BY <1>1 DEF Own!RestsRemainder, OwnAlone!RestsRemainder
<1>17. Own!RestRemainder => OwnAlone!RestRemainder
  BY <1>1, <1>3, <1>6, <1>7, <1>15, <1>16 DEF Own!RestRemainder, OwnAlone!RestRemainder
<1>18. Own!Expire => OwnAlone!Expire
  BY <1>1, <1>3, <1>15, <1>16 DEF Own!Expire, OwnAlone!Expire
<1>19. \A c : Own!Handle(c) => OwnAlone!Handle(c)
  BY <1>2, <1>8, <1>9, <1>10, <1>11, <1>12 DEF Own!Handle, OwnAlone!Handle
<1>20. OwnAlone!Price = Own!Price
  BY DEF OwnAlone!Price, Own!Price, OwnAlone!PriceOk, Own!PriceOk
<1>21. Own!Continue => OwnAlone!Continue
  BY <1>13, <1>14, <1>17, <1>18, <1>20 DEF Own!Continue, OwnAlone!Continue
<1>. QED  BY <1>19, <1>21
----------------------------------------------------------------------------
\* Routing, step by step

\* What a step tells the sink.
Emitting ==
  \/ UNCHANGED <<seq, sink>>
  \/ \E e : Emit(e)
  \/ \E e, f : EmitBoth(e, f)

LEMMA StepsEmit ==
  /\ \A c : Handle(c) \/ Own!Handle(c) => Emitting
  /\ Continue \/ Own!Continue => Emitting
<1>1. \A c : Handle(c) => Emitting
  BY DEF Handle, Emitting, Reject, New, Cancel, ReplaceInPlace, ReplaceAndCross
<1>2. Continue => Emitting
  BY DEF Continue, Emitting, Fill, CloseFilled, RestRemainder, Expire
<1>3. \A e, f : (Own!Emit(e) <=> Emit(e)) /\ (Own!EmitBoth(e, f) <=> EmitBoth(e, f))
  BY DEF Own!Emit, Emit, Own!EmitBoth, EmitBoth, Own!NextSeq, NextSeq
<1>4. \A c : Own!Handle(c) => Emitting
  BY <1>3 DEF Own!Handle, Emitting, Own!Reject, Own!New, Own!Cancel, Own!ReplaceInPlace,
              Own!ReplaceAndCross
<1>5. Own!Continue => Emitting
  BY <1>3 DEF Own!Continue, Emitting, Own!Fill, Own!CloseFilled, Own!RestRemainder, Own!Expire
<1>. QED  BY <1>1, <1>2, <1>4, <1>5

\* Only the consumer of the adaptor's symbol hears of it.
LEMMA EmittingIs ==
  ASSUME AdaptorPlugged, sink \in Adaptor, sink.sym \in Symbol, seq \in Int, Emitting
  PROVE  /\ sink' \in Adaptor /\ sink'.sym = sink.sym
         /\ \A sym \in Symbol : sym # sink.sym => sink'.last[sym] = sink.last[sym]
<1>1. NextSeq(seq) \in Int /\ NextSeq(NextSeq(seq)) \in Int
  BY SeqAssumption DEF NextSeq
<1>2. CASE UNCHANGED <<seq, sink>>
  BY <1>2
<1>3. ASSUME NEW e, Emit(e)
      PROVE  /\ sink' \in Adaptor /\ sink'.sym = sink.sym
             /\ \A sym \in Symbol : sym # sink.sym => sink'.last[sym] = sink.last[sym]
  BY <1>1, <1>3, AdaptorTold DEF Emit
<1>4. ASSUME NEW e, NEW f, EmitBoth(e, f)
      PROVE  /\ sink' \in Adaptor /\ sink'.sym = sink.sym
             /\ \A sym \in Symbol : sym # sink.sym => sink'.last[sym] = sink.last[sym]
  <2>1. PICK s : s = OnEvent(sink, NextSeq(seq), e)
    OBVIOUS
  <2>2. /\ s \in Adaptor /\ s.sym = sink.sym
        /\ \A sym \in Symbol : sym # sink.sym => s.last[sym] = sink.last[sym]
    BY <1>1, <2>1, AdaptorTold
  <2>3. sink' = OnEvent(s, NextSeq(NextSeq(seq)), f)
    BY <1>4, <2>1 DEF EmitBoth
  <2>4. /\ sink' \in Adaptor /\ sink'.sym = s.sym
        /\ \A sym \in Symbol : sym # s.sym => sink'.last[sym] = s.last[sym]
    BY <1>1, <2>2, <2>3, AdaptorTold
  <2>. QED  BY <2>2, <2>4
<1>. QED  BY <1>2, <1>3, <1>4 DEF Emitting

LEMMA AdaptorInit ==
  ASSUME AdaptorPlugged, EngineInit
  PROVE  AdaptorInv
<1>1. sink = EngineSink0 /\ taker = Idle /\ ~routed
  BY DEF EngineInit, Init, AdaptorPlugged
<1>. QED  BY <1>1 DEF AdaptorInv, Adaptor, EngineSink0

LEMMA AdaptorNext ==
  ASSUME AdaptorPlugged, EngineInv, AdaptorInv, [EngineNext]_allVars
  PROVE  AdaptorInv'
<1>1. seq \in Int
  BY SeqAssumption DEF EngineInv, WorkInv, BookInv, Typed, OwnProofs!BookInv, OwnProofs!Typed
<1>2. ASSUME NEW sym \in Symbol, Route(sym)
      PROVE  AdaptorInv'
  BY <1>2 DEF Route, Borrow, AdaptorInv, Adaptor
<1>3. ASSUME Emitting, routed \/ taker # Idle, at' = at, ~routed'
      PROVE  AdaptorInv'
  <2>1. sink \in Adaptor /\ sink.sym \in Symbol /\ sink.sym = at
    BY <1>3 DEF AdaptorInv
  <2>2. sink' \in Adaptor /\ sink'.sym = sink.sym
    BY <1>1, <1>3, <2>1, EmittingIs
  <2>. QED  BY <1>3, <2>1, <2>2 DEF AdaptorInv
<1>4. ASSUME NEW c \in Client, Submit1(c)
      PROVE  AdaptorInv'
  <2>1. routed /\ ~routed' /\ at' = at /\ (Handle(c) \/ Own!Handle(c))
    BY <1>4 DEF Submit1
  <2>. QED  BY <1>3, <2>1, StepsEmit
<1>5. CASE Proceed
  <2>1. taker # Idle
    BY <1>5, ContinueWorks
  <2>2. at' = at /\ ~routed' /\ (Continue \/ Own!Continue)
    BY <1>5, <2>1 DEF Proceed, engineVars, EngineInv
  <2>. QED  BY <1>3, <2>1, <2>2, StepsEmit
<1>6. ASSUME sink' = sink, taker' = Idle, ~routed'
      PROVE  AdaptorInv'
  BY <1>6 DEF AdaptorInv
<1>7. ASSUME NEW sym \in Symbol, NEW kind \in {"default", "own"}, AddSymbol(sym, kind)
      PROVE  AdaptorInv'
  BY <1>6, <1>7 DEF AddSymbol, Quiet
<1>8. CASE Restart
  BY <1>6, <1>8 DEF Restart, Quiet
<1>9. CASE RestartPanics
  BY <1>6, <1>9 DEF RestartPanics, Quiet, vars
<1>10. CASE UNCHANGED allVars
  BY <1>10 DEF allVars, engineVars, vars, AdaptorInv
<1>. QED  BY <1>2, <1>4, <1>5, <1>7, <1>8, <1>9, <1>10 DEF EngineNext

\* What a symbol sees when one of several books is borrowed.
LEMMA BorrowedBookOf ==
  ASSUME NEW all, NEW sym \in Symbol, sym \in DOMAIN all, Borrow(all, sym), NEW s \in Symbol
  PROVE  /\ s \in DOMAIN all =>
              /\ BookOf(s)'.book.queue = all[s].book.queue
              /\ BookOf(s)'.book.total = all[s].book.total
              /\ BookOf(s)'.book.live = all[s].book.live
              /\ BookOf(s)'.book.map = all[s].book.map
              /\ BookOf(s)'.book.seq = all[s].book.seq
         /\ s \notin DOMAIN all => BookOf(s)' = New0("default")
<1>0. sym # NoSymbol
  BY EngineAssumption
<1>1. at' = sym /\ books' = [r \in DOMAIN all \ {sym} |-> all[r]] /\ Load(all[sym].book)
  BY DEF Borrow
<1>2. AllBooks' = [r \in DOMAIN books' \cup {sym} |-> IF r = sym THEN AtWork' ELSE books'[r]]
  BY <1>0, <1>1 DEF AllBooks, Insert
<1>3. /\ DOMAIN AllBooks' = DOMAIN all
      /\ \A r \in DOMAIN all : AllBooks'[r] = IF r = sym THEN AtWork' ELSE all[r]
  <2>1. DOMAIN books' = DOMAIN all \ {sym} /\ \A r \in DOMAIN all \ {sym} : books'[r] = all[r]
    BY <1>1
  <2>. QED  BY <1>2, <2>1
<1>4. CASE s \notin DOMAIN all
  <2>1. New0("default")' = New0("default")
    OBVIOUS
  <2>. QED  BY <1>3, <1>4, <2>1 DEF BookOf
<1>5. CASE s \in DOMAIN all
  <2>1. BookOf(s)' = IF s = sym THEN AtWork' ELSE all[s]
    BY <1>3, <1>5 DEF BookOf
  <2>. QED  BY <1>1, <1>5, <2>1 DEF AtWork, Load
<1>. QED  BY <1>4, <1>5

\* The watched book is what it was, and so is what its consumer knows.
SameBook ==
  /\ BookOf(Watched)'.book.queue = BookOf(Watched).book.queue
  /\ BookOf(Watched)'.book.total = BookOf(Watched).book.total
  /\ BookOf(Watched)'.book.live = BookOf(Watched).book.live
  /\ BookOf(Watched)'.book.map = BookOf(Watched).book.map
  /\ BookOf(Watched)'.book.seq = BookOf(Watched).book.seq

LEMMA SameStep ==
  ASSUME SameBook, sink'.last[Watched] = sink.last[Watched],
         (IF at' = Watched THEN taker' ELSE Idle) = (IF at = Watched THEN taker ELSE Idle)
  PROVE  BookStep
<1>1. UNCHANGED Alone!vars
  BY DEF SameBook, Alone!vars
<1>. QED  BY <1>1 DEF BookStep

\* A step of the book of another symbol.
LEMMA OtherBookSteps ==
  ASSUME AdaptorPlugged, EngineInv, AdaptorInv, at # Watched,
         UNCHANGED <<books, at>>, routed \/ taker # Idle, Emitting
  PROVE  BookStep
<1>1. Watched \in Symbol /\ Watched # NoSymbol
  BY WatchedAssumption, EngineAssumption
<1>2. BookOf(Watched)' = BookOf(Watched)
  BY <1>1 DEF BookOf, AllBooks, Insert, New0
<1>3. seq \in Int
  BY SeqAssumption DEF EngineInv, WorkInv, BookInv, Typed, OwnProofs!BookInv, OwnProofs!Typed
<1>4. sink'.last[Watched] = sink.last[Watched]
  BY <1>1, <1>3, EmittingIs DEF AdaptorInv
<1>5. SameBook
  BY <1>2 DEF SameBook
<1>. QED  BY <1>4, <1>5, SameStep

\* One of the watched book.
LEMMA WatchedBookSteps ==
  ASSUME AdaptorPlugged, EngineInv, AdaptorInv, at = Watched,
         UNCHANGED <<books, at, config>>, routed \/ taker # Idle,
         \/ config = "default" /\ (Continue \/ \E c \in Client : Handle(c))
         \/ config = "own" /\ (Own!Continue \/ \E c \in Client : Own!Handle(c))
  PROVE  BookStep
<1>1. Watching
  BY DEF Watching
<1>2. sink.sym = at /\ seq \in Int
  BY SeqAssumption DEF AdaptorInv, EngineInv, WorkInv, BookInv, Typed, OwnProofs!BookInv,
                       OwnProofs!Typed
<1>3. BookOf(Watched).config = config
  BY <1>1, WatchedBook
<1>4. CASE config = "default"
  BY <1>1, <1>2, <1>3, <1>4, AloneActs DEF BookStep
<1>5. CASE config = "own"
  BY <1>1, <1>2, <1>3, <1>5, OwnAloneActs DEF BookStep
<1>. QED  BY <1>4, <1>5

\* Routing looks the book up, or makes the one it would have been.
LEMMA RouteSame ==
  ASSUME NEW sym \in Symbol, Route(sym)
  PROVE  BookStep
<1>. DEFINE all == Insert(AllBooks, sym, BookOf(sym))
<1>1. Watched \in Symbol
  BY WatchedAssumption
<1>2. /\ DOMAIN all = DOMAIN AllBooks \cup {sym}
      /\ \A s \in DOMAIN all : all[s] = IF s = sym THEN BookOf(sym) ELSE AllBooks[s]
  BY DEF Insert
<1>3. /\ Watched \in DOMAIN all => all[Watched] = BookOf(Watched)
      /\ Watched \notin DOMAIN all => BookOf(Watched) = New0("default")
  BY <1>2 DEF BookOf
<1>4. Borrow(all, sym) /\ sym \in DOMAIN all
  BY <1>2 DEF Route
<1>. HIDE DEF all
<1>5. SameBook
  BY <1>1, <1>3, <1>4, BorrowedBookOf DEF SameBook
<1>6. sink'.last[Watched] = sink.last[Watched] /\ taker = Idle /\ taker' = Idle
  BY DEF Route, Quiet
<1>. QED  BY <1>5, <1>6, SameStep

LEMMA AddSymbolSame ==
  ASSUME NEW sym \in Symbol, NEW kind \in {"default", "own"}, AddSymbol(sym, kind)
  PROVE  BookStep \/ sym = Watched
<1>. SUFFICES ASSUME sym # Watched
              PROVE  BookStep
  OBVIOUS
<1>. DEFINE all == Insert(AllBooks, sym, New0(kind))
<1>1. Watched \in Symbol
  BY WatchedAssumption
<1>2. /\ DOMAIN all = DOMAIN AllBooks \cup {sym}
      /\ \A s \in DOMAIN all : all[s] = IF s = sym THEN New0(kind) ELSE AllBooks[s]
  BY DEF Insert
<1>3. /\ Watched \in DOMAIN all => all[Watched] = BookOf(Watched)
      /\ Watched \notin DOMAIN all => BookOf(Watched) = New0("default")
  BY <1>2 DEF BookOf
<1>4. Borrow(all, sym) /\ sym \in DOMAIN all
  BY <1>2 DEF AddSymbol
<1>. HIDE DEF all
<1>5. SameBook
  BY <1>1, <1>3, <1>4, BorrowedBookOf DEF SameBook
<1>6. sink' = sink /\ taker = Idle /\ taker' = Idle
  BY DEF AddSymbol, Quiet
<1>. QED  BY <1>5, <1>6, SameStep

\* A restart gives a default book back as it was.
LEMMA RestartSame ==
  ASSUME EngineInv, Restart
  PROVE  BookStep \/ BookOf(Watched).config = "own"
<1>. SUFFICES ASSUME BookOf(Watched).config # "own"
              PROVE  BookStep
  OBVIOUS
<1>. DEFINE all == [sym \in DOMAIN AllBooks |->
                      Made("default", Snapshot(sym), AllBooks[sym].book.seq)]
<1>1. Watched \in Symbol
  BY WatchedAssumption
<1>2. DOMAIN all = DOMAIN AllBooks /\ at \in DOMAIN all /\ at \in Symbol
  BY DEF Restart, AllBooks, Insert, EngineInv
<1>3. Borrow(all, at)
  BY DEF Restart
<1>4. ASSUME Watched \in DOMAIN AllBooks
      PROVE  /\ all[Watched].book.queue = BookOf(Watched).book.queue
             /\ all[Watched].book.total = BookOf(Watched).book.total
             /\ all[Watched].book.live = BookOf(Watched).book.live
             /\ all[Watched].book.map = BookOf(Watched).book.map
             /\ all[Watched].book.seq = BookOf(Watched).book.seq
  <2>1. BookOf(Watched) = AllBooks[Watched]
    BY <1>4 DEF BookOf
  <2>2. SoundIn(AllBooks[Watched])
    BY <1>4, AllSound DEF Restart, Quiet
  <2>3. Sound(AllBooks[Watched].book)
    BY <2>1, <2>2 DEF SoundIn
  <2>4. PICK b : b = AllBooks[Watched].book /\ Sound(b)
    BY <2>3
  <2>5. Restored(RestingOrders(b.queue), b.seq) =
          [queue |-> b.queue, total |-> b.total, live |-> b.live, map |-> b.map, seq |-> b.seq]
    BY <2>4, SoundRoundTrip
  <2>6. all[Watched] = Made("default", RestingOrders(b.queue), b.seq)
    BY <1>4, <2>4 DEF Snapshot
  <2>7. all[Watched].book =
          [queue |-> b.queue, total |-> b.total, live |-> b.live, map |-> b.map, seq |-> b.seq]
    BY <2>5, <2>6 DEF Made
  <2>. QED  BY <2>1, <2>4, <2>7
<1>5. Watched \notin DOMAIN AllBooks => BookOf(Watched) = New0("default")
  BY DEF BookOf
<1>. HIDE DEF all
<1>6. SameBook
  BY <1>1, <1>2, <1>3, <1>4, <1>5, BorrowedBookOf DEF SameBook
<1>7. sink' = sink /\ taker = Idle /\ taker' = Idle
  BY DEF Restart, Quiet
<1>. QED  BY <1>6, <1>7, SameStep

LEMMA RoutingStep ==
  ASSUME AdaptorPlugged, EngineInv, AdaptorInv, EngineNext
  PROVE  \/ BookStep
         \/ \E kind \in {"default", "own"} : AddSymbol(Watched, kind)
         \/ Restart /\ BookOf(Watched).config = "own"
<1>1. ASSUME NEW sym \in Symbol, Route(sym)
      PROVE  BookStep
  BY <1>1, RouteSame
<1>2. ASSUME NEW c \in Client, Submit1(c)
      PROVE  BookStep
  <2>1. routed /\ UNCHANGED <<books, at, config>>
    BY <1>2 DEF Submit1
  <2>2. CASE at # Watched
    BY <1>2, <2>1, <2>2, StepsEmit, OtherBookSteps DEF Submit1
  <2>3. CASE at = Watched
    <3>1. \/ config = "default" /\ Handle(c)
          \/ config = "own" /\ Own!Handle(c)
      BY <1>2 DEF Submit1, EngineInv, WorkInv
    <3>. QED  BY <2>1, <2>3, <3>1, WatchedBookSteps
  <2>. QED  BY <2>2, <2>3
<1>3. CASE Proceed
  <2>1. taker # Idle /\ UNCHANGED <<books, at, config>>
    BY <1>3, ContinueWorks DEF Proceed, engineVars
  <2>2. CASE at # Watched
    BY <1>3, <2>1, <2>2, StepsEmit, OtherBookSteps DEF Proceed
  <2>3. CASE at = Watched
    <3>1. \/ config = "default" /\ Continue
          \/ config = "own" /\ Own!Continue
      BY <1>3 DEF Proceed, EngineInv, WorkInv
    <3>. QED  BY <2>1, <2>3, <3>1, WatchedBookSteps
  <2>. QED  BY <2>2, <2>3
<1>4. ASSUME NEW sym \in Symbol, NEW kind \in {"default", "own"}, AddSymbol(sym, kind)
      PROVE  BookStep \/ \E k \in {"default", "own"} : AddSymbol(Watched, k)
  BY <1>4, AddSymbolSame
<1>5. CASE Restart
  BY <1>5, RestartSame
<1>6. CASE RestartPanics
  <2>1. UNCHANGED <<queue, total, live, map, taker, seq, sink, books, at, config>>
    BY <1>6 DEF RestartPanics, vars
  <2>2. BookOf(Watched)' = BookOf(Watched)
    BY <2>1 DEF BookOf, AllBooks, Insert, New0, AtWork
  <2>3. SameBook
    BY <2>2 DEF SameBook
  <2>. QED  BY <2>1, <2>3, SameStep
<1>. QED  BY <1>1, <1>2, <1>3, <1>4, <1>5, <1>6 DEF EngineNext

\* "Routing adds no semantics" (spec/SPEC.md:138): seen from any one symbol and
\* from the consumer of its events, every step of the engine is a step of that
\* symbol's book alone, or none; a book is lost only by registering its symbol
\* again and by a restart that forgets a configuration of its own.
THEOREM RoutingIsTransparent ==
  ASSUME AdaptorPlugged
  PROVE  EngineSpec => RoutingAddsNoSemantics
<1>1. EngineInit => EngineInv /\ AdaptorInv
  BY EngineInitInv, AdaptorInit
<1>2. EngineInv /\ AdaptorInv /\ [EngineNext]_allVars => (EngineInv /\ AdaptorInv)'
  BY EngineNextInv, AdaptorNext
<1>3. EngineInv /\ AdaptorInv /\ [EngineNext]_allVars =>
        [\/ BookStep
         \/ \E kind \in {"default", "own"} : AddSymbol(Watched, kind)
         \/ Restart /\ BookOf(Watched).config = "own"]_allVars
  BY RoutingStep
<1>. QED  BY <1>1, <1>2, <1>3, PTL DEF EngineSpec, RoutingAddsNoSemantics
=============================================================================
