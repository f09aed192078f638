-------------------------- MODULE StructuresProofs --------------------------
(***************************************************************************)
(* Theorems about the order book on its real structures, for every size of *)
(* the chunks, the store and the table and every hash function: it does    *)
(* what the book of OrderBook does, and between commands store and map     *)
(* agree.                                                                  *)
(*                                                                         *)
(* What was proved of the parts is put together.  MapFacts and StoreFacts  *)
(* are the table and the store, the store with the locations the table     *)
(* holds for the orders that rest.  The handlers keep both sound, because  *)
(* each uses them as their client should: what is looked up is there, what *)
(* is stowed is new, and the entry of an order being replaced stays until  *)
(* the handler is done with it.                                            *)
(***************************************************************************)
EXTENDS BookOnStructures, FiniteSetTheorems, TLAPS

----------------------------------------------------------------------------
\* What a handler sees of the book

LEMMA Sums ==
  \A f, S : Book!SumFunctionOnSet(f, S) = Abstract!SumFunctionOnSet(f, S)
BY DEF Book!SumFunctionOnSet, Abstract!SumFunctionOnSet,
       Book!FoldFunctionOnSet, Abstract!FoldFunctionOnSet,
       Book!MapThenFoldSet, Abstract!MapThenFoldSet

\* Reading the queues, by probing or not, is the same.
LEMMA BookSame ==
  /\ \A side, p : Book!IsBest(side, p) <=> Abstract!IsBest(side, p)
  /\ \A p : Book!Acceptable(p) <=> Abstract!Acceptable(p)
  /\ Book!Exhausted <=> Abstract!Exhausted
  /\ Book!RestsRemainder <=> Abstract!RestsRemainder
  /\ Book!BookFull <=> Abstract!BookFull
  /\ \A c : Book!TifRejection(c) = Abstract!TifRejection(c)
<1>. USE DEF Book!PriceOk, Abstract!PriceOk, Book!Price, Abstract!Price, Book!Side, Abstract!Side,
             Book!Opposite, Abstract!Opposite, Book!Crosses, Abstract!Crosses,
             Book!Better, Abstract!Better, Book!Occupied, Abstract!Occupied, Book!Idle, Abstract!Idle,
             Book!Working, Abstract!Working, Book!Acceptable, Abstract!Acceptable
<1>1. \A side, p : Book!IsBest(side, p) <=> Abstract!IsBest(side, p)
  BY DEF Book!IsBest, Abstract!IsBest
<1>2. \A p : Book!Acceptable(p) <=> Abstract!Acceptable(p)
  OBVIOUS
<1>3. Book!Exhausted <=> Abstract!Exhausted
  BY DEF Book!Exhausted, Abstract!Exhausted
<1>4. Book!RestsRemainder <=> Abstract!RestsRemainder
  BY DEF Book!RestsRemainder, Abstract!RestsRemainder
<1>5. Book!BookFull <=> Abstract!BookFull
  BY DEF Book!BookFull, Abstract!BookFull
<1>6. \A side, p : /\ Book!Fillable(side, p) = Abstract!Fillable(side, p)
                   /\ Book!WouldCross(side, p) <=> Abstract!WouldCross(side, p)
  BY Sums DEF Book!Fillable, Abstract!Fillable, Book!WouldCross, Abstract!WouldCross
<1>7. \A c : Book!TifRejection(c) = Abstract!TifRejection(c)
  BY <1>6 DEF Book!TifRejection, Abstract!TifRejection
<1>. QED  BY <1>1, <1>2, <1>3, <1>4, <1>5, <1>7

LEMMA Sizes ==
  /\ ChunkSlots \in Nat \ {0}
  /\ Cap \in Nat /\ MaxOrders \in Nat /\ MaxOrders < Cap
  /\ RemovesWrap \in Nat /\ MaxOrders < RemovesWrap
  /\ \A id \in OrderId : Home(id) \in 0 .. Cap - 1 /\ TagOf(id) \in Nat \ {0}
BY StructuresAssumption, ConfigAssumption

LEMMA AbstractTerms ==
  /\ Abstract!Side = Side /\ Abstract!Price = Price
  /\ Abstract!Idle = Idle
BY DEF Side, Abstract!Side, Price, Abstract!Price, PriceOk, Abstract!PriceOk, Idle, Abstract!Idle

LEMMA ClientTyped ==
  ASSUME NEW c \in Client
  PROVE  /\ c.id \in OrderId /\ c.cmd \in {"new", "cancel", "replace"}
         /\ c.cmd = "new" => /\ c.side \in Side /\ c.otype \in {"limit", "market"}
                             /\ c.otype = "limit" => c.price \in CmdPrices
                             /\ c.otype # "limit" => c.price = 0
                             /\ c.tif \in Tif /\ c.qty \in Qty
         /\ c.cmd = "replace" => c.price \in CmdPrices /\ c.qty \in Qty
BY StructuresAssumption, QtyAssumption
   DEF NewCommand, LimitCommand, MarketCommand, CancelCommand, ReplaceCommand, Qty

\* One event, or the two of a fill that ends its maker.
LEMMA Emitted ==
  ASSUME seq \in 0 .. SeqWrap - 1
  PROVE  /\ Tell(1) => seq' = Abstract!NextSeq(seq)
         /\ Tell(2) => seq' = Abstract!NextSeq(Abstract!NextSeq(seq))
         /\ \A n \in Nat : Tell(n) => seq' \in 0 .. SeqWrap - 1
<1>1. SeqWrap \in Nat \ {0} /\ seq \in Int
  BY SeqAssumption
<1>2. \A n \in Nat : (seq + n) % SeqWrap \in 0 .. SeqWrap - 1
  BY <1>1
<1>3. (((seq + 1) % SeqWrap) + 1) % SeqWrap = (seq + 2) % SeqWrap
  <2>1. CASE seq + 1 < SeqWrap
    <3>1. (seq + 1) % SeqWrap = seq + 1
      BY <1>1, <2>1
    <3>. QED  BY <3>1
  <2>2. CASE seq + 1 = SeqWrap
    <3>1. (seq + 1) % SeqWrap = 0 /\ seq + 2 = SeqWrap + 1
      BY <1>1, <2>2
    <3>2. (SeqWrap + 1) % SeqWrap = 1 % SeqWrap
      BY <1>1
    <3>. QED  BY <3>1, <3>2
  <2>. QED  BY <1>1, <2>1, <2>2
<1>. QED  BY <1>2, <1>3 DEF Tell, Abstract!NextSeq

LEMMA AbstractEmit ==
  ASSUME seq \in 0 .. SeqWrap - 1
  PROVE  /\ \A event : Tell(1) => Abstract!Emit(event)
         /\ \A first, second : Tell(2) => Abstract!EmitBoth(first, second)
BY Emitted DEF Abstract!Emit, Abstract!EmitBoth, Ignored

----------------------------------------------------------------------------
\* The table as the book names it and as it is proved about

Loc == (0 .. MaxOrders) \X (0 .. ChunkSlots - 1)

RestingOrder == [id: OrderId, qty: Qty \ {0}, tif: {"gtc", "post_only"}]

MapFacts == INSTANCE OrderMapProofs
              WITH Key <- OrderId, Val <- Loc, LiveMax <- MaxOrders

LEMMA MapSame ==
  /\ Map!Stored = MapFacts!Stored /\ Map!NoReplace = MapFacts!NoReplace
  /\ Map!Quiet <=> MapFacts!Quiet
  /\ \A k : Map!Found(k) <=> MapFacts!Found(k)
  /\ \A k, i : Map!FoundAt(k, i) <=> MapFacts!FoundAt(k, i)
  /\ Map!Init <=> MapFacts!Init
  /\ \A k, v : Map!Rest(k, v) <=> MapFacts!Rest(k, v)
  /\ \A k : Map!Leave(k) <=> MapFacts!Leave(k)
  /\ \A k : Map!BeginReplace(k) <=> MapFacts!BeginReplace(k)
  /\ \A v : Map!WriteThrough(v) <=> MapFacts!WriteThrough(v)
  /\ \A v : Map!WriteAgain(v) <=> MapFacts!WriteAgain(v)
  /\ Map!ReplaceFilled <=> MapFacts!ReplaceFilled
  /\ Map!Shift <=> MapFacts!Shift
<1>. USE DEF Map!Slot, MapFacts!Slot, Map!Occupied, MapFacts!Occupied, Map!Holds, MapFacts!Holds,
             Map!Probe, MapFacts!Probe, Map!NoShift, MapFacts!NoShift, Map!Gone, MapFacts!Gone,
             Map!NoReplace, MapFacts!NoReplace, Map!Quiet, MapFacts!Quiet
<1>1. \A k, i : Map!StopsAt(k, i) <=> MapFacts!StopsAt(k, i)
  BY DEF Map!StopsAt, MapFacts!StopsAt
<1>2. \A k, i : Map!FoundAt(k, i) <=> MapFacts!FoundAt(k, i)
  BY <1>1 DEF Map!FoundAt, MapFacts!FoundAt
<1>3. \A k : Map!Found(k) <=> MapFacts!Found(k)
  BY <1>2 DEF Map!Found, MapFacts!Found
<1>4. Map!Stored = MapFacts!Stored
  BY DEF Map!Stored, MapFacts!Stored
<1>5. Map!Init <=> MapFacts!Init
  BY DEF Map!Init, MapFacts!Init
<1>6. \A k, v : Map!Insert(k, v) <=> MapFacts!Insert(k, v)
  BY <1>1 DEF Map!Insert, MapFacts!Insert, Map!LenWith, MapFacts!LenWith
<1>7. \A k : Map!StartRemove(k) <=> MapFacts!StartRemove(k)
  BY <1>2 DEF Map!StartRemove, MapFacts!StartRemove, Map!Counted, MapFacts!Counted
<1>8. \A k, v : Map!Rest(k, v) <=> MapFacts!Rest(k, v)
  BY <1>3, <1>6, Zenon DEF Map!Rest, MapFacts!Rest
<1>9. \A k : Map!Leave(k) <=> MapFacts!Leave(k)
  BY <1>7, Zenon DEF Map!Leave, MapFacts!Leave
<1>10. \A k : Map!BeginReplace(k) <=> MapFacts!BeginReplace(k)
  BY <1>2, Zenon DEF Map!BeginReplace, MapFacts!BeginReplace
<1>11. \A v : Map!WriteThrough(v) <=> MapFacts!WriteThrough(v)
  BY DEF Map!WriteThrough, MapFacts!WriteThrough
<1>12. \A v : Map!WriteAgain(v) <=> MapFacts!WriteAgain(v)
  BY <1>6, Zenon DEF Map!WriteAgain, MapFacts!WriteAgain
<1>13. Map!ReplaceFilled <=> MapFacts!ReplaceFilled
  BY <1>7, Zenon DEF Map!ReplaceFilled, MapFacts!ReplaceFilled
<1>14. Map!Shift <=> MapFacts!Shift
  BY DEF Map!Shift, MapFacts!Shift, Map!StopShift, MapFacts!StopShift, Map!SkipEntry, MapFacts!SkipEntry,
         Map!MoveEntry, MapFacts!MoveEntry, Map!NextSlot, MapFacts!NextSlot,
         Map!Skipped, MapFacts!Skipped, Map!InInterval, MapFacts!InInterval
<1>. QED  BY <1>2, <1>3, <1>4, <1>5, <1>8, <1>9, <1>10, <1>11, <1>12, <1>13, <1>14

----------------------------------------------------------------------------
\* The facts about the table, in the words of the book

\* The orders that rest: all that the map holds but the one being replaced.
Away == IF held = MapFacts!NoReplace THEN {} ELSE {held.key}
Resting == MapFacts!Stored \ Away

\* The keys, their locations and what a handler finds of them.
Stored == MapFacts!Stored
LocAt(id) == MapFacts!Dict[id]
HeaderAt(loc) == [side |-> chunks[loc[1]].side, price |-> chunks[loc[1]].price]

LEMMA LocsTyped ==
  ASSUME MapFacts!MapInv
  PROVE  /\ MapFacts!Dict \in [Stored -> Loc] /\ Stored \subseteq OrderId
         /\ Cardinality(Stored) = len
<1>1. MapFacts!Cardinality(Stored) = Cardinality(Stored)
  BY DEF Cardinality, MapFacts!Cardinality, IsFiniteSet, MapFacts!IsFiniteSet
<1>. QED  BY <1>1, Sizes, MapFacts!DictTyped, MapFacts!StoredCount DEF Stored

LEMMA Lookup ==
  ASSUME MapFacts!MapInv, Map!Quiet, NEW id \in OrderId
  PROVE  /\ Known(id) <=> id \in Stored
         /\ Known(id) => LocOf(id) = LocAt(id)
<1>1. /\ MapFacts!Found(id) <=> id \in Stored
      /\ MapFacts!Found(id) =>
           entries[CHOOSE i \in MapFacts!Slot : MapFacts!FoundAt(id, i)].val = MapFacts!Dict[id]
  BY Sizes, MapSame, MapFacts!LookupSeen DEF Stored
<1>2. Known(id) <=> MapFacts!Found(id)
  BY MapSame DEF Known
<1>3. LocOf(id) = entries[CHOOSE i \in MapFacts!Slot : MapFacts!FoundAt(id, i)].val
  BY MapSame, Zenon DEF LocOf, Map!Slot, MapFacts!Slot
<1>. QED  BY <1>1, <1>2, <1>3 DEF LocAt

\* An order enters the map ...
LEMMA MapAdds ==
  ASSUME MapFacts!MapInv, NEW id \in OrderId, NEW loc \in Loc, Map!Rest(id, loc)
  PROVE  /\ MapFacts!MapInv' /\ Away = {} /\ Away' = {} /\ Map!Quiet /\ Map!Quiet'
         /\ held' = MapFacts!NoReplace
         /\ id \notin Stored /\ len < MaxOrders /\ Stored' = Stored \cup {id}
         /\ \A x \in Stored : LocAt(x)' = LocAt(x)
         /\ LocAt(id)' = loc
<1>1. /\ MapFacts!MapInv' /\ held = MapFacts!NoReplace /\ held' = MapFacts!NoReplace
      /\ MapFacts!Quiet /\ MapFacts!Quiet'
      /\ id \notin Stored /\ len < MaxOrders
      /\ MapFacts!Dict' = [x \in Stored \cup {id} |-> IF x = id THEN loc ELSE MapFacts!Dict[x]]
  BY Sizes, MapSame, MapFacts!RestSeen DEF Stored
<1>2. Stored' = DOMAIN MapFacts!Dict'
  BY DEF Stored, MapFacts!Dict
<1>. QED  BY <1>1, <1>2, MapSame DEF Away, LocAt, Map!Quiet, MapFacts!Quiet

\* ... leaves it ...
LEMMA MapDrops ==
  ASSUME MapFacts!MapInv, NEW id \in OrderId, Map!Leave(id)
  PROVE  /\ MapFacts!MapInv' /\ Map!Quiet /\ ~Map!Quiet'
         /\ id \in Stored /\ Stored' = Stored \ {id}
         /\ \A x \in Stored' : LocAt(x)' = LocAt(x)
         /\ id \notin Away /\ held' = held
<1>1. /\ MapFacts!MapInv' /\ MapFacts!Quiet /\ ~MapFacts!Quiet' /\ held' = held
      /\ id \in Stored /\ (held # MapFacts!NoReplace => held.key # id)
      /\ MapFacts!Dict' = [x \in Stored \ {id} |-> MapFacts!Dict[x]]
  BY Sizes, MapSame, MapFacts!LeaveSeen DEF Stored
<1>2. Stored' = DOMAIN MapFacts!Dict'
  BY DEF Stored, MapFacts!Dict
<1>. QED  BY <1>1, <1>2, MapSame DEF Away, LocAt, Map!Quiet, MapFacts!Quiet

\* ... as the order that was being replaced, too ...
LEMMA MapDropsHeld ==
  ASSUME MapFacts!MapInv, NEW id \in OrderId, held.key = id, Map!ReplaceFilled
  PROVE  /\ MapFacts!MapInv' /\ Map!Quiet /\ ~Map!Quiet'
         /\ Away = {id} /\ Away' = {} /\ held' = MapFacts!NoReplace
         /\ id \in Stored /\ Stored' = Stored \ {id}
         /\ \A x \in Stored' : LocAt(x)' = LocAt(x)
<1>1. /\ MapFacts!MapInv' /\ MapFacts!Quiet /\ ~MapFacts!Quiet'
      /\ held # MapFacts!NoReplace /\ held' = MapFacts!NoReplace
      /\ id \in Stored
      /\ MapFacts!Dict' = [x \in Stored \ {id} |-> MapFacts!Dict[x]]
  BY Sizes, MapSame, MapFacts!ReplaceFilledSeen DEF Stored
<1>2. Stored' = DOMAIN MapFacts!Dict'
  BY DEF Stored, MapFacts!Dict
<1>. QED  BY <1>1, <1>2, MapSame DEF Away, LocAt, Map!Quiet, MapFacts!Quiet, MapFacts!NoReplace

\* ... is held for a replace ...
LEMMA MapHolds ==
  ASSUME MapFacts!MapInv, NEW id \in OrderId, Map!BeginReplace(id)
  PROVE  /\ MapFacts!MapInv' /\ Map!Quiet /\ Map!Quiet'
         /\ Away = {} /\ Away' = {id} /\ held' # MapFacts!NoReplace /\ held'.key = id
         /\ id \in Stored /\ Stored' = Stored
         /\ \A x \in Stored : LocAt(x)' = LocAt(x)
<1>1. /\ MapFacts!MapInv' /\ held = MapFacts!NoReplace /\ held' # MapFacts!NoReplace
      /\ held'.key = id /\ MapFacts!Quiet /\ MapFacts!Quiet'
      /\ id \in Stored /\ MapFacts!Dict' = MapFacts!Dict
  BY Sizes, MapSame, MapFacts!BeginReplaceSeen DEF Stored
<1>2. Stored' = DOMAIN MapFacts!Dict' /\ Stored = DOMAIN MapFacts!Dict
  BY DEF Stored, MapFacts!Dict
<1>. QED  BY <1>1, <1>2, MapSame DEF Away, LocAt, Map!Quiet, MapFacts!Quiet, MapFacts!NoReplace

\* ... and gets its new location.
LEMMA MapRedirects ==
  ASSUME MapFacts!MapInv, NEW id, held.key = id, NEW loc \in Loc,
         Map!WriteThrough(loc) \/ Map!WriteAgain(loc)
  PROVE  /\ MapFacts!MapInv' /\ Map!Quiet /\ Map!Quiet'
         /\ Away = {id} /\ Away' = {} /\ held' = MapFacts!NoReplace
         /\ id \in Stored /\ Stored' = Stored
         /\ \A x \in Stored : LocAt(x)' = IF x = id THEN loc ELSE LocAt(x)
<1>1. /\ MapFacts!MapInv' /\ held # MapFacts!NoReplace /\ held' = MapFacts!NoReplace
      /\ MapFacts!Quiet /\ MapFacts!Quiet'
      /\ id \in Stored /\ MapFacts!Dict' = [MapFacts!Dict EXCEPT ![id] = loc]
  BY Sizes, MapSame, MapFacts!WriteSeen DEF Stored
<1>2. Stored' = DOMAIN MapFacts!Dict' /\ Stored = DOMAIN MapFacts!Dict
  BY DEF Stored, MapFacts!Dict
<1>. QED  BY <1>1, <1>2, MapSame DEF Away, LocAt, Map!Quiet, MapFacts!Quiet, MapFacts!NoReplace

\* The shift of a removal is not seen, and what leaves the map alone is not.
LEMMA MapTidies ==
  ASSUME MapFacts!MapInv, Map!Shift
  PROVE  /\ MapFacts!MapInv' /\ ~Map!Quiet /\ held' = held /\ Stored' = Stored
         /\ \A x \in Stored : LocAt(x)' = LocAt(x)
<1>1. MapFacts!MapInv' /\ held' = held /\ ~MapFacts!Quiet /\ MapFacts!Dict' = MapFacts!Dict
  BY Sizes, MapSame, MapFacts!ShiftSeen DEF Stored
<1>2. Stored' = DOMAIN MapFacts!Dict' /\ Stored = DOMAIN MapFacts!Dict
  BY DEF Stored, MapFacts!Dict
<1>. QED  BY <1>1, <1>2, MapSame DEF LocAt

LEMMA MapStays ==
  ASSUME MapFacts!MapInv, UNCHANGED mapVars
  PROVE  /\ MapFacts!MapInv' /\ held' = held /\ Stored' = Stored /\ (Map!Quiet' <=> Map!Quiet)
         /\ \A x \in Stored : LocAt(x)' = LocAt(x)
<1>1. MapFacts!MapInv'
  BY Sizes, MapFacts!StepInv DEF MapFacts!vars, mapVars
<1>2. MapFacts!Dict' = MapFacts!Dict
  BY DEF MapFacts!Dict, MapFacts!Stored, MapFacts!Holds, MapFacts!Occupied, mapVars
<1>3. Stored' = DOMAIN MapFacts!Dict' /\ Stored = DOMAIN MapFacts!Dict
  BY DEF Stored, MapFacts!Dict
<1>. QED  BY <1>1, <1>2, <1>3 DEF LocAt, mapVars, Map!Quiet, Map!NoShift

\* While no removal is under way, asking the table is as good as knowing it.
LEMMA RejectionsSeen ==
  ASSUME MapFacts!MapInv, Map!Quiet, NEW c, c.id \in OrderId
  PROVE  /\ Book!NewRejection(c) = Abstract!NewRejection(c)
         /\ Book!CancelRejection(c) = Abstract!CancelRejection(c)
         /\ Book!ReplaceRejection(c) = Abstract!ReplaceRejection(c)
<1>1. c.id \in DOMAIN KnownLevels <=> c.id \in DOMAIN StoredLevels
  BY Lookup, MapSame DEF KnownLevels, StoredLevels, Stored
<1>2. \A price : Book!PriceOk(price) <=> Abstract!PriceOk(price)
  BY DEF Book!PriceOk, Abstract!PriceOk
<1>3. Book!NewRejection(c) = Abstract!NewRejection(c)
  BY <1>1, <1>2, BookSame DEF Book!NewRejection, Abstract!NewRejection
<1>4. /\ Book!CancelRejection(c) = Abstract!CancelRejection(c)
      /\ Book!ReplaceRejection(c) = Abstract!ReplaceRejection(c)
  BY <1>1, <1>2 DEF Book!CancelRejection, Abstract!CancelRejection,
                    Book!ReplaceRejection, Abstract!ReplaceRejection
<1>. QED  BY <1>3, <1>4

----------------------------------------------------------------------------
\* The store as the book names it and as it is proved about

StoreFacts == INSTANCE ChunkStoreProofs
                WITH Offered <- RestingOrder,
                     locs <- [id \in Resting |-> MapFacts!Dict[id]]

LEMMA StoreSame ==
  /\ Store!Nil = StoreFacts!Nil
  /\ \A loc : Store!SlotAt(loc) = StoreFacts!SlotAt(loc)
  /\ \A side, p : /\ Store!PushLoc(side, p) = StoreFacts!PushLoc(side, p)
                  /\ Store!Oldest(side, p) = StoreFacts!Oldest(side, p)
                  /\ Store!Queue(side, p) = StoreFacts!Queue(side, p)
  /\ \A loc : Store!Kill(loc) <=> StoreFacts!Kill(loc)
  /\ \A loc, q : Store!Lower(loc, q) <=> StoreFacts!Lower(loc, q)
  /\ \A side, p, q : Store!Give(side, p, q) <=> StoreFacts!Give(side, p, q)
  /\ \A side, p, order : Store!Stow(side, p, order) <=> StoreFacts!Stow(side, p, order)
<1>. USE DEF Store!Nil, StoreFacts!Nil, Store!Dead, StoreFacts!Dead, Store!SlotAt, StoreFacts!SlotAt,
             Store!ChunkIndex, StoreFacts!ChunkIndex, Store!SlotIndex, StoreFacts!SlotIndex,
             Store!AllocChunk, StoreFacts!AllocChunk, Store!NeedsChunk, StoreFacts!NeedsChunk,
             Store!PushLoc, StoreFacts!PushLoc
<1>1. \A side, p : Store!Queue(side, p) = StoreFacts!Queue(side, p)
  <2>1. \A c : Store!ChainFrom(c) = StoreFacts!ChainFrom(c)
    BY Zenon DEF Store!ChainFrom, StoreFacts!ChainFrom
  <2>2. \A c : Store!OrdersOf(c) = StoreFacts!OrdersOf(c)
    BY Zenon DEF Store!OrdersOf, StoreFacts!OrdersOf, Store!LiveSlots, StoreFacts!LiveSlots,
           Store!Nth, StoreFacts!Nth, Store!Cardinality, StoreFacts!Cardinality
  <2>3. \A s : Store!FlattenSeq(s) = StoreFacts!FlattenSeq(s)
    BY Zenon DEF Store!FlattenSeq, StoreFacts!FlattenSeq
  <2>. QED  BY <2>1, <2>2, <2>3, Zenon DEF Store!Queue, StoreFacts!Queue
<1>2. \A c, level, q, after : Store!Bury(c, level, q, after) <=> StoreFacts!Bury(c, level, q, after)
  BY DEF Store!Bury, StoreFacts!Bury, Store!Spent, StoreFacts!Spent, Store!Spliced, StoreFacts!Spliced,
         Store!Shortened, StoreFacts!Shortened, Store!Freed, StoreFacts!Freed,
         Store!Relinked, StoreFacts!Relinked
<1>3. \A loc : Store!Kill(loc) <=> StoreFacts!Kill(loc)
  BY <1>2, Zenon DEF Store!Kill, StoreFacts!Kill
<1>4. \A loc, q : Store!Lower(loc, q) <=> StoreFacts!Lower(loc, q)
  BY DEF Store!Lower, StoreFacts!Lower
<1>5. \A c : Store!FrontSlot(c) = StoreFacts!FrontSlot(c)
  BY Zenon DEF Store!FrontSlot, StoreFacts!FrontSlot
<1>6. \A side, p : Store!Oldest(side, p) = StoreFacts!Oldest(side, p)
  BY <1>5, Zenon DEF Store!Oldest, StoreFacts!Oldest
<1>7. \A side, p, q : Store!Give(side, p, q) <=> StoreFacts!Give(side, p, q)
  <2>. SUFFICES ASSUME NEW side, NEW p, NEW q
                PROVE  Store!Give(side, p, q) <=> StoreFacts!Give(side, p, q)
    OBVIOUS
  <2>1. Store!Oldest(side, p) = StoreFacts!Oldest(side, p)
    BY <1>6
  <2>. QED  BY <1>2, <2>1, SMT DEF Store!Give, StoreFacts!Give
<1>8. \A side, p, order : Store!Stow(side, p, order) <=> StoreFacts!Stow(side, p, order)
  BY SMT DEF Store!Stow, StoreFacts!Stow, Store!Opened, StoreFacts!Opened
<1>9. \A side, p : Store!PushLoc(side, p) = StoreFacts!PushLoc(side, p)
  BY Zenon
<1>. QED  BY <1>1, <1>3, <1>4, <1>6, <1>7, <1>8, <1>9

LEMMA StoreTerms ==
  /\ StoreFacts!Side = Side /\ StoreFacts!Price = Price /\ StoreFacts!Qty = Qty
  /\ StoreFacts!Order = RestingOrder
  /\ \A S : StoreFacts!IsFiniteSet(S) <=> IsFiniteSet(S)
BY DEF Side, StoreFacts!Side, Price, StoreFacts!Price, PriceOk, StoreFacts!PriceOk, Qty, StoreFacts!Qty,
       RestingOrder, StoreFacts!Order, IsFiniteSet, StoreFacts!IsFiniteSet

QueuesAgree == Queues = StoreFacts!Queues /\ Totals = StoreFacts!Totals

LEMMA QueuesSame == QueuesAgree
BY StoreSame, StoreTerms DEF QueuesAgree, Queues, StoreFacts!Queues, Totals, StoreFacts!Totals

LEMMA QueuesSameNext == QueuesAgree'
BY QueuesSame, PTL

----------------------------------------------------------------------------
\* The steps of the store, at the locations the map holds

Level == [side: Side, price: Price]

\* An order that rests before and after a step stays at its level.
RestingStays ==
  \A x \in Resting : x \in Resting' => HeaderAt(LocAt(x))' = HeaderAt(LocAt(x))

Locs == [id \in Resting |-> MapFacts!Dict[id]]

LEMMA LocsAt ==
  /\ DOMAIN Locs = Resting /\ \A x \in Resting : Locs[x] = LocAt(x)
  /\ DOMAIN Locs' = Resting' /\ \A x \in Resting' : Locs'[x] = LocAt(x)'
BY DEF Locs, LocAt

LEMMA RestingSlot ==
  ASSUME StoreFacts!StoreInv, NEW id \in Resting
  PROVE  /\ LocAt(id) \in Loc
         /\ LocAt(id)[1] \in StoreFacts!Busy
         /\ HeaderAt(LocAt(id)) \in Level
         /\ Store!SlotAt(LocAt(id)) \in RestingOrder /\ Store!SlotAt(LocAt(id)).id = id
<1>1. PICK c, i :
        /\ c \in StoreFacts!ChunkIndex /\ i \in StoreFacts!LiveSlots(c)
        /\ Locs[id] = <<c, i>> /\ chunks[c].s[i].id = id /\ c \in StoreFacts!Busy
        /\ chunks[c].side \in Side /\ chunks[c].price \in Price
  BY LocsAt, Sizes, StoreTerms, IdAssumption, QtyAssumption, SeqAssumption, PriceAssumption,
     ConfigAssumption, StoreFacts!SlotOf DEF Locs
<1>2. i \in StoreFacts!SlotIndex /\ chunks[c].s[i] \in RestingOrder
  BY <1>1, StoreTerms, Sizes
     DEF StoreFacts!StoreInv, StoreFacts!TypeOK, StoreFacts!Chunk, StoreFacts!LiveSlots, StoreFacts!Dead
<1>3. LocAt(id) = <<c, i>> /\ LocAt(id)[1] = c /\ LocAt(id)[2] = i
  BY <1>1, LocsAt
<1>4. Store!SlotAt(LocAt(id)) = chunks[c].s[i]
  BY <1>3, StoreSame DEF StoreFacts!SlotAt
<1>5. LocAt(id) \in Loc
  BY <1>1, <1>2, <1>3 DEF StoreFacts!ChunkIndex, StoreFacts!SlotIndex, Loc
<1>6. HeaderAt(LocAt(id)) \in Level
  BY <1>1, <1>3 DEF Level, HeaderAt
<1>. QED  BY <1>1, <1>2, <1>3, <1>4, <1>5, <1>6

LEMMA PushLocTyped ==
  ASSUME StoreFacts!StoreInv, live < MaxOrders, NEW side \in Side, NEW p \in Price
  PROVE  Store!PushLoc(side, p) \in Loc
<1>1. \E c, i : /\ StoreFacts!PushLoc(side, p) = <<c, i>>
                /\ c \in StoreFacts!ChunkIndex /\ i \in StoreFacts!SlotIndex
  BY Sizes, StoreTerms, IdAssumption, QtyAssumption, SeqAssumption, PriceAssumption,
     ConfigAssumption, StoreFacts!PushLocFree
<1>. QED  BY <1>1, StoreSame DEF StoreFacts!ChunkIndex, StoreFacts!SlotIndex, Loc

LEMMA StorePushes ==
  ASSUME StoreFacts!StoreInv, NEW side \in Side, NEW p \in Price, NEW order \in RestingOrder,
         live < MaxOrders, order.id \notin Resting, Store!Stow(side, p, order),
         Resting' = Resting \cup {order.id},
         \A x \in Resting : LocAt(x)' = LocAt(x),
         LocAt(order.id)' = Store!PushLoc(side, p)
  PROVE  /\ StoreFacts!StoreInv' /\ RestingStays
         /\ HeaderAt(LocAt(order.id))' = [side |-> side, price |-> p]
         /\ Abstract!Push(side, p, order)
<1>1. Locs' = [x \in DOMAIN Locs \cup {order.id} |->
                 IF x = order.id THEN StoreFacts!PushLoc(side, p) ELSE Locs[x]]
  BY LocsAt, StoreSame DEF Locs, LocAt
<1>2. StoreFacts!Push(side, p, order)
  BY <1>1, LocsAt, StoreSame, Zenon DEF StoreFacts!Push, Locs
<1>3. /\ StoreFacts!StoreInv' /\ StoreFacts!Contract!Push(side, p, order)
      /\ \A k \in StoreFacts!Busy : chunks'[k].side = chunks[k].side /\ chunks'[k].price = chunks[k].price
      /\ chunks'[StoreFacts!PushLoc(side, p)[1]].side = side
      /\ chunks'[StoreFacts!PushLoc(side, p)[1]].price = p
  BY <1>2, Sizes, StoreTerms, IdAssumption, QtyAssumption, SeqAssumption, PriceAssumption,
     ConfigAssumption, StoreFacts!PushSeen
<1>4. RestingStays
  BY <1>3, RestingSlot DEF RestingStays, HeaderAt
<1>5. HeaderAt(LocAt(order.id))' = [side |-> side, price |-> p]
  BY <1>3, StoreSame DEF HeaderAt
<1>6. Abstract!Push(side, p, order)
  BY <1>3, QueuesSame, QueuesSameNext, Zenon
     DEF StoreFacts!Contract!Push, Abstract!Push, QueuesAgree, StoreFacts!Queues, StoreFacts!Totals
<1>. QED  BY <1>3, <1>4, <1>5, <1>6

LEMMA StoreUnlinks ==
  ASSUME StoreFacts!StoreInv, NEW id \in Resting, Store!Kill(LocAt(id)),
         Resting' = Resting \ {id}, \A x \in Resting' : LocAt(x)' = LocAt(x),
         NEW side, NEW p, HeaderAt(LocAt(id)) = [side |-> side, price |-> p]
  PROVE  /\ StoreFacts!StoreInv' /\ RestingStays
         /\ side \in Side /\ p \in Price
         /\ \E k \in DOMAIN Queues[side][p] :
              Queues[side][p][k] = Store!SlotAt(LocAt(id)) /\ Abstract!Unlink(side, p, k)
<1>1. Locs' = [x \in DOMAIN Locs \ {id} |-> Locs[x]]
  BY LocsAt DEF Locs, LocAt
<1>2. StoreFacts!Unlink(id)
  <2>1. StoreFacts!Kill(Locs[id])
    BY LocsAt, StoreSame
  <2>2. StoreFacts!Forget(id)
    BY <1>1, Zenon DEF StoreFacts!Forget, Locs
  <2>. QED  BY <2>1, <2>2, Zenon DEF StoreFacts!Unlink, Locs
<1>3. id \in DOMAIN Locs /\ side = chunks[Locs[id][1]].side /\ p = chunks[Locs[id][1]].price
  BY LocsAt DEF HeaderAt
<1>4. /\ StoreFacts!StoreInv' /\ StoreFacts!HeadersStay
      /\ side \in StoreFacts!Side /\ p \in StoreFacts!Price
      /\ \E k \in DOMAIN StoreFacts!Queues[side][p] :
           /\ StoreFacts!Queues[side][p][k] = StoreFacts!SlotAt(Locs[id])
           /\ StoreFacts!Contract!Unlink(side, p, k)
  BY <1>2, <1>3, Sizes, StoreTerms, IdAssumption, QtyAssumption, SeqAssumption, PriceAssumption,
     ConfigAssumption, StoreFacts!UnlinkSeen DEF Locs
<1>5. RestingStays
  BY <1>4, RestingSlot DEF RestingStays, HeaderAt, StoreFacts!HeadersStay, StoreFacts!Busy
<1>6. PICK k \in DOMAIN StoreFacts!Queues[side][p] :
        /\ StoreFacts!Queues[side][p][k] = StoreFacts!SlotAt(Locs[id])
        /\ StoreFacts!Contract!Unlink(side, p, k)
  BY <1>4
<1>7. Abstract!Unlink(side, p, k)
  BY <1>6, QueuesSame, QueuesSameNext, Zenon
     DEF StoreFacts!Contract!Unlink, Abstract!Unlink, StoreFacts!Contract!RemoveAt, Abstract!RemoveAt,
         QueuesAgree, StoreFacts!Queues, StoreFacts!Totals
<1>8. k \in DOMAIN Queues[side][p] /\ Queues[side][p][k] = Store!SlotAt(LocAt(id))
  BY <1>6, QueuesSame, LocsAt, StoreSame DEF QueuesAgree
<1>. QED  BY <1>4, <1>5, <1>7, <1>8, StoreTerms

LEMMA StoreReduces ==
  ASSUME StoreFacts!StoreInv, NEW id \in Resting, NEW q \in Qty, Store!Lower(LocAt(id), q),
         q \in 1 .. Store!SlotAt(LocAt(id)).qty,
         Resting' = Resting, \A x \in Resting' : LocAt(x)' = LocAt(x),
         NEW side, NEW p, HeaderAt(LocAt(id)) = [side |-> side, price |-> p]
  PROVE  /\ StoreFacts!StoreInv' /\ RestingStays
         /\ side \in Side /\ p \in Price
         /\ \E k \in DOMAIN Queues[side][p] :
              Queues[side][p][k] = Store!SlotAt(LocAt(id)) /\ Abstract!Reduce(side, p, k, q)
<1>1. Locs' = Locs
  BY LocsAt DEF Locs, LocAt
<1>2. StoreFacts!Reduce(id, q)
  <2>1. StoreFacts!Lower(Locs[id], q) /\ q \in 1 .. StoreFacts!SlotAt(Locs[id]).qty
    BY LocsAt, StoreSame
  <2>. QED  BY <1>1, <2>1, Zenon DEF StoreFacts!Reduce, Locs
<1>3. id \in DOMAIN Locs /\ side = chunks[Locs[id][1]].side /\ p = chunks[Locs[id][1]].price
  BY LocsAt DEF HeaderAt
<1>4. /\ StoreFacts!StoreInv' /\ StoreFacts!HeadersStay
      /\ side \in StoreFacts!Side /\ p \in StoreFacts!Price
      /\ \E k \in DOMAIN StoreFacts!Queues[side][p] :
           /\ StoreFacts!Queues[side][p][k] = StoreFacts!SlotAt(Locs[id])
           /\ StoreFacts!Contract!Reduce(side, p, k, q)
  BY <1>2, <1>3, Sizes, StoreTerms, IdAssumption, QtyAssumption, SeqAssumption, PriceAssumption,
     ConfigAssumption, StoreFacts!ReduceSeen DEF Locs
<1>5. RestingStays
  BY <1>4, RestingSlot DEF RestingStays, HeaderAt, StoreFacts!HeadersStay, StoreFacts!Busy
<1>6. PICK k \in DOMAIN StoreFacts!Queues[side][p] :
        /\ StoreFacts!Queues[side][p][k] = StoreFacts!SlotAt(Locs[id])
        /\ StoreFacts!Contract!Reduce(side, p, k, q)
  BY <1>4
<1>7. Abstract!Reduce(side, p, k, q)
  BY <1>6, QueuesSame, QueuesSameNext, Zenon
     DEF StoreFacts!Contract!Reduce, Abstract!Reduce, QueuesAgree, StoreFacts!Queues, StoreFacts!Totals
<1>8. k \in DOMAIN Queues[side][p] /\ Queues[side][p][k] = Store!SlotAt(LocAt(id))
  BY <1>6, QueuesSame, LocsAt, StoreSame DEF QueuesAgree
<1>. QED  BY <1>4, <1>5, <1>7, <1>8, StoreTerms

\* The order that gives is the one in front.
LEMMA FrontResting ==
  ASSUME StoreFacts!StoreInv, NEW side \in Side, NEW p \in Price, Queues[side][p] # << >>
  PROVE  /\ Store!SlotAt(Store!Oldest(side, p)) = Head(Queues[side][p])
         /\ Head(Queues[side][p]) \in RestingOrder /\ Head(Queues[side][p]).id \in Resting
         /\ levels[side][p].head # StoreFacts!Nil
<1>1. /\ levels[side][p].head # StoreFacts!Nil
      /\ StoreFacts!SlotAt(StoreFacts!Oldest(side, p)) = Head(StoreFacts!Queues[side][p])
      /\ Head(StoreFacts!Queues[side][p]) \in StoreFacts!Order
      /\ Head(StoreFacts!Queues[side][p]).id \in DOMAIN Locs
  BY QueuesSame, Sizes, StoreTerms, IdAssumption, QtyAssumption, SeqAssumption, PriceAssumption,
     ConfigAssumption, StoreFacts!FrontSeen DEF Locs, QueuesAgree
<1>. QED  BY <1>1, LocsAt, StoreSame, StoreTerms, QueuesSame DEF QueuesAgree

LEMMA StoreGives ==
  ASSUME StoreFacts!StoreInv, NEW side \in Side, NEW p \in Price, NEW q \in Qty,
         Queues[side][p] # << >>, q \in 1 .. Head(Queues[side][p]).qty,
         Store!Give(side, p, q),
         Resting' = IF Head(Queues[side][p]).qty = q THEN Resting \ {Head(Queues[side][p]).id}
                                                     ELSE Resting,
         \A x \in Resting' : LocAt(x)' = LocAt(x)
  PROVE  StoreFacts!StoreInv' /\ RestingStays /\ Abstract!TakeFront(side, p, q)
<1>1. PICK maker : maker = Head(Queues[side][p])
  OBVIOUS
<1>2. /\ maker = StoreFacts!SlotAt(StoreFacts!Oldest(side, p)) /\ maker.id \in Resting
      /\ levels[side][p].head # StoreFacts!Nil
  BY <1>1, FrontResting, StoreSame
<1>3. Locs' = IF maker.qty = q THEN [x \in DOMAIN Locs \ {maker.id} |-> Locs[x]] ELSE Locs
  BY <1>1, LocsAt DEF Locs, LocAt
<1>4. StoreFacts!TakeFront(side, p, q)
  <2>. DEFINE front == StoreFacts!SlotAt(StoreFacts!Oldest(side, p))
  <2>1. StoreFacts!Give(side, p, q) /\ q \in 1 .. front.qty
    BY <1>1, <1>2, StoreSame
  <2>2. front.qty = q => StoreFacts!Forget(front.id)
    BY <1>2, <1>3, Zenon DEF StoreFacts!Forget, Locs
  <2>3. front.qty # q => Locs' = Locs
    BY <1>2, <1>3
  <2>. QED  BY <1>2, <2>1, <2>2, <2>3, Zenon DEF StoreFacts!TakeFront, Locs
<1>5. /\ StoreFacts!StoreInv' /\ StoreFacts!HeadersStay
      /\ StoreFacts!Contract!TakeFront(side, p, q)
  BY <1>4, Sizes, StoreTerms, IdAssumption, QtyAssumption, SeqAssumption, PriceAssumption,
     ConfigAssumption, StoreFacts!TakeFrontSeen
<1>6. RestingStays
  BY <1>5, RestingSlot DEF RestingStays, HeaderAt, StoreFacts!HeadersStay, StoreFacts!Busy
<1>7. Abstract!TakeFront(side, p, q)
  BY <1>5, QueuesSame, QueuesSameNext, Zenon
     DEF StoreFacts!Contract!TakeFront, Abstract!TakeFront, QueuesAgree, StoreFacts!Queues,
         StoreFacts!Totals
<1>. QED  BY <1>5, <1>6, <1>7

LEMMA StoreStays ==
  ASSUME StoreFacts!StoreInv, UNCHANGED storeVars,
         Resting' = Resting, \A x \in Resting' : LocAt(x)' = LocAt(x)
  PROVE  /\ StoreFacts!StoreInv' /\ RestingStays
         /\ Queues' = Queues /\ Totals' = Totals /\ live' = live
<1>1. Locs' = Locs
  BY LocsAt DEF Locs, LocAt
<1>2. UNCHANGED StoreFacts!storeVars
  BY <1>1 DEF storeVars, StoreFacts!storeVars, Locs
<1>3. StoreFacts!StoreInv'
  BY <1>2, Sizes, StoreTerms, IdAssumption, QtyAssumption, SeqAssumption, PriceAssumption,
     ConfigAssumption, StoreFacts!StoreStutter
<1>4. UNCHANGED StoreFacts!Contract!queueVars
  BY <1>2, Sizes, StoreTerms, IdAssumption, QtyAssumption, SeqAssumption, PriceAssumption,
     ConfigAssumption, StoreFacts!QueuesStutter
<1>5. StoreFacts!Queues' = StoreFacts!Queues /\ StoreFacts!Totals' = StoreFacts!Totals
  BY <1>4, Zenon DEF StoreFacts!Contract!queueVars, StoreFacts!Queues, StoreFacts!Totals
<1>. QED  BY <1>3, <1>5, QueuesSame, QueuesSameNext DEF QueuesAgree, RestingStays, HeaderAt, storeVars

----------------------------------------------------------------------------
\* The inductive invariant

Working == taker # Idle
Replacing == Working /\ taker.cmd = "replace"

\* The handler in progress: the entry the map holds is the one of the order
\* being replaced, a new order is not stored yet, and what may come to rest
\* has a level to rest at.
TakerSound ==
  /\ Working => taker \in [cmd: {"new", "replace"}, id: OrderId, side: Side, bound: BOOLEAN,
                           price: CmdPrices \cup {0}, tif: Tif, qty: Qty]
  /\ Away = IF Replacing THEN {taker.id} ELSE {}
  /\ Replacing => taker.bound /\ taker.tif \in {"gtc", "post_only"} /\ from \in Level
  /\ Working /\ ~Replacing => taker.id \notin Stored
  /\ Working /\ taker.bound => taker.price \in Price

Inv ==
  /\ MapFacts!MapInv
  /\ StoreFacts!StoreInv
  /\ TakerSound
  /\ seq \in 0 .. SeqWrap - 1

\* Where OrderBook says the orders are.
LevelsExact ==
  /\ DOMAIN StoredLevels = Stored
  /\ TakerSound =>
       \A x \in Stored : StoredLevels[x] = IF x \in Away THEN from ELSE HeaderAt(LocAt(x))

LEMMA LevelsNow == LevelsExact
<1>1. \A x \in Stored : StoredLevels[x] = LevelOf(x, LocAt(x))
  BY MapSame DEF StoredLevels, LocAt, MapFacts!Dict, Stored, Map!Slot, MapFacts!Slot,
                 Map!Holds, MapFacts!Holds
<1>2. \A x, loc : TakerSound => LevelOf(x, loc) = IF x \in Away THEN from ELSE HeaderAt(loc)
  BY DEF TakerSound, LevelOf, HeaderAt, Replacing, Working
<1>3. DOMAIN StoredLevels = Stored
  BY MapSame DEF StoredLevels, Stored
<1>. QED  BY <1>1, <1>2, <1>3 DEF LevelsExact

LEMMA LevelsNext == LevelsExact'
BY LevelsNow, PTL

LEMMA LevelsKept ==
  ASSUME TakerSound, TakerSound', RestingStays, Stored' \subseteq Stored,
         Away \cap Stored' \subseteq Away',
         \A x \in Away' : from' = IF x \in Away THEN from ELSE HeaderAt(LocAt(x))
  PROVE  StoredLevels' = [x \in Stored' |-> StoredLevels[x]]
<1>1. ASSUME NEW x \in Stored'
      PROVE  StoredLevels'[x] = StoredLevels[x]
  <2>1. /\ StoredLevels'[x] = IF x \in Away' THEN from' ELSE HeaderAt(LocAt(x))'
        /\ StoredLevels[x] = IF x \in Away THEN from ELSE HeaderAt(LocAt(x))
    BY LevelsNow, LevelsNext DEF LevelsExact
  <2>2. CASE x \in Away'
    BY <2>1, <2>2
  <2>3. CASE x \notin Away'
    BY <2>1, <2>3 DEF RestingStays, Resting, Stored
  <2>. QED  BY <2>2, <2>3
<1>2. DOMAIN StoredLevels' = Stored'
  BY LevelsNext DEF LevelsExact
<1>3. StoredLevels' = [x \in DOMAIN StoredLevels' |-> StoredLevels'[x]]
  BY DEF StoredLevels
<1>. QED  BY <1>1, <1>2, <1>3

LEMMA LevelsSame ==
  ASSUME TakerSound, TakerSound', RestingStays, Stored' = Stored, Away' = Away, from' = from
  PROVE  StoredLevels' = StoredLevels
<1>1. StoredLevels' = [x \in Stored |-> StoredLevels[x]]
  BY LevelsKept
<1>2. StoredLevels = [x \in DOMAIN StoredLevels |-> StoredLevels[x]]
  BY DEF StoredLevels
<1>. QED  BY <1>1, <1>2, LevelsNow DEF LevelsExact

LEMMA Counts ==
  ASSUME Inv
  PROVE  /\ Stored \subseteq OrderId /\ Away \subseteq Stored
         /\ len \in 0 .. MaxOrders /\ len = Cardinality(Stored)
         /\ live = Cardinality(Resting)
         /\ Away = {} => live = len
         /\ Away # {} => live = len - 1
<1>1. /\ Stored \subseteq OrderId /\ len = Cardinality(Stored) /\ len \in 0 .. MaxOrders
      /\ IsFiniteSet(Stored)
  BY LocsTyped, IdAssumption, FS_Subset DEF Inv, MapFacts!MapInv, MapFacts!TypeOK
<1>2. Away \subseteq Stored
  BY DEF Inv, Away, MapFacts!MapInv, MapFacts!HeldSound, Stored
<1>3. live = Cardinality(Resting)
  <2>1. live = StoreFacts!Cardinality(DOMAIN Locs)
    BY Zenon DEF Inv, StoreFacts!StoreInv, Locs
  <2>2. StoreFacts!Cardinality(DOMAIN Locs) = Cardinality(DOMAIN Locs)
    BY DEF Cardinality, StoreFacts!Cardinality, IsFiniteSet, StoreFacts!IsFiniteSet
  <2>. QED  BY <2>1, <2>2, LocsAt
<1>4. Away = {} => live = len
  BY <1>1, <1>3 DEF Resting, Stored
<1>5. Away # {} => live = len - 1
  <2>. SUFFICES ASSUME Away # {} PROVE live = len - 1
    OBVIOUS
  <2>1. PICK x \in Stored : Away = {x}
    BY <1>2 DEF Away
  <2>2. Cardinality(Stored \ {x}) = Cardinality(Stored) - 1
    BY <1>1, <2>1, FS_RemoveElement
  <2>. QED  BY <1>1, <1>3, <2>1, <2>2 DEF Resting, Stored
<1>. QED  BY <1>1, <1>2, <1>3, <1>4, <1>5

LEMMA AtStart ==
  ASSUME Init
  PROVE  Inv /\ Abstract!Init
<1>1. MapFacts!MapInv /\ Stored = {} /\ held = MapFacts!NoReplace
  <2>1. MapFacts!Init
    BY MapSame DEF Init
  <2>2. MapFacts!MapInv
    BY <2>1, Sizes, MapFacts!InitInv
  <2>. QED  BY <2>1, <2>2 DEF MapFacts!Init, Stored, MapFacts!Stored, MapFacts!Occupied
<1>2. Resting = {} /\ Away = {} /\ Locs = << >>
  BY <1>1 DEF Resting, Away, Stored, Locs
<1>3. StoreFacts!Init
  <2>1. Store!Side = StoreFacts!Side /\ Store!Price = StoreFacts!Price
    BY DEF Store!Side, StoreFacts!Side, Store!Price, StoreFacts!Price, Store!PriceOk, StoreFacts!PriceOk
  <2>2. Store!EmptyChunk = StoreFacts!EmptyChunk /\ Store!EmptyLevel = StoreFacts!EmptyLevel
    BY Zenon DEF Store!EmptyChunk, StoreFacts!EmptyChunk, Store!EmptyLevel, StoreFacts!EmptyLevel,
             Store!Nil, StoreFacts!Nil, Store!Dead, StoreFacts!Dead, Store!SlotIndex, StoreFacts!SlotIndex
  <2>. QED  BY <1>2, <2>1, <2>2, StoreSame, Zenon
            DEF Init, Store!Init, StoreFacts!Init, Locs, Store!ChunkIndex, StoreFacts!ChunkIndex
<1>4. StoreFacts!StoreInv /\ StoreFacts!Contract!QueueInit
  BY <1>3, Sizes, StoreTerms, IdAssumption, QtyAssumption, SeqAssumption, PriceAssumption,
     ConfigAssumption, StoreFacts!StoreInit, StoreFacts!QueuesInit
<1>5. Abstract!QueueInit
  BY <1>4, QueuesSame, AbstractTerms, StoreTerms, Zenon
     DEF StoreFacts!Contract!QueueInit, Abstract!QueueInit, QueuesAgree, StoreFacts!Queues, StoreFacts!Totals,
         StoreFacts!Contract!Side, StoreFacts!Contract!Price, StoreFacts!Contract!PriceOk, 
         Abstract!Side, Abstract!Price, Abstract!PriceOk
<1>6. StoredLevels = << >>
  BY <1>1, MapSame DEF StoredLevels, Stored
<1>7. TakerSound /\ seq \in 0 .. SeqWrap - 1
  BY <1>2, SeqAssumption DEF Init, TakerSound, Working, Replacing
<1>. QED  BY <1>1, <1>4, <1>5, <1>6, <1>7, AbstractTerms DEF Inv, Abstract!Init, Init

----------------------------------------------------------------------------
\* One step of the structures is one step of the book

\* The map and the store are left alone.
LEMMA NothingMoves ==
  ASSUME Inv, UNCHANGED <<storeVars, mapVars>>
  PROVE  /\ MapFacts!MapInv' /\ StoreFacts!StoreInv' /\ RestingStays
         /\ Stored' = Stored /\ Away' = Away
         /\ Queues' = Queues /\ Totals' = Totals /\ live' = live
<1>1. /\ MapFacts!MapInv' /\ held' = held /\ Stored' = Stored
      /\ \A x \in Stored : LocAt(x)' = LocAt(x)
  BY MapStays DEF Inv
<1>2. Away' = Away /\ Resting' = Resting
  BY <1>1 DEF Away, Resting, Stored
<1>. QED  BY <1>1, <1>2, StoreStays DEF Inv, Resting, Stored

LEMMA RejectStep ==
  ASSUME Inv, NEW c \in Client, Reject(c)
  PROVE  Inv' /\ Abstract!Handle(c)
<1>1. /\ MapFacts!MapInv' /\ StoreFacts!StoreInv' /\ RestingStays
      /\ Stored' = Stored /\ Away' = Away
      /\ Queues' = Queues /\ Totals' = Totals /\ live' = live /\ taker' = taker /\ from' = from
      /\ taker = Idle /\ Map!Quiet /\ Tell(1)
  BY NothingMoves DEF Reject, Ready
<1>2. TakerSound'
  BY <1>1 DEF Inv, TakerSound, Working, Replacing
<1>3. StoredLevels' = StoredLevels
  BY <1>1, <1>2, LevelsSame DEF Inv
<1>4. \A id, reason : reason # "none" => Abstract!Reject(id, reason)
  BY <1>1, <1>3, AbstractEmit, AbstractTerms DEF Abstract!Reject, Inv
<1>5. Abstract!Handle(c)
  BY <1>1, <1>4, ClientTyped, RejectionsSeen DEF Reject, Rejection, Abstract!Handle, Inv
<1>6. seq' \in 0 .. SeqWrap - 1
  BY <1>1, Emitted DEF Inv
<1>. QED  BY <1>1, <1>2, <1>5, <1>6 DEF Inv

LEMMA NewStep ==
  ASSUME Inv, NEW c \in Client, New(c)
  PROVE  Inv' /\ Abstract!Handle(c)
<1>1. /\ MapFacts!MapInv' /\ StoreFacts!StoreInv' /\ RestingStays
      /\ Stored' = Stored /\ Away' = Away
      /\ Queues' = Queues /\ Totals' = Totals /\ live' = live /\ seq' = seq /\ from' = from
      /\ taker = Idle /\ Map!Quiet /\ c.cmd = "new" /\ Rejection(c) = "none"
  BY NothingMoves DEF New, Admitted, Ready
<1>2. /\ c.id \in OrderId /\ c.side \in Side /\ c.otype \in {"limit", "market"}
      /\ c.otype = "limit" => c.price \in CmdPrices
      /\ c.otype # "limit" => c.price = 0
      /\ c.tif \in Tif /\ c.qty \in Qty
  BY <1>1, ClientTyped
<1>3. Abstract!NewRejection(c) = "none"
  BY <1>1, <1>2, RejectionsSeen DEF Rejection, Inv
<1>4. c.id \notin Stored /\ (c.otype = "limit" => c.price \in Price)
  BY <1>2, <1>3, LevelsNow DEF Abstract!NewRejection, LevelsExact, Price, PriceOk, Abstract!PriceOk
<1>5. PICK limit \in BOOLEAN : limit <=> c.otype = "limit"
  OBVIOUS
<1>6. taker' = [cmd |-> "new", id |-> c.id, side |-> c.side, bound |-> c.otype = "limit",
                price |-> c.price, tif |-> c.tif, qty |-> c.qty]
  BY DEF New
<1>7. taker' = [cmd |-> "new", id |-> c.id, side |-> c.side, bound |-> limit,
                price |-> c.price, tif |-> c.tif, qty |-> c.qty]
  BY <1>5, <1>6, Zenon
<1>8. TakerSound'
  <2>1. taker' \in [cmd: {"new", "replace"}, id: OrderId, side: Side, bound: BOOLEAN,
                    price: CmdPrices \cup {0}, tif: Tif, qty: Qty]
    BY <1>2, <1>7
  <2>2. taker'.cmd = "new" /\ taker'.id = c.id /\ taker'.bound = limit /\ taker'.price = c.price
    BY <1>7
  <2>. QED  BY <1>1, <1>4, <1>5, <2>1, <2>2 DEF Inv, TakerSound, Working, Replacing
<1>9. StoredLevels' = StoredLevels
  BY <1>1, <1>8, LevelsSame DEF Inv
<1>10. Abstract!New(c)
  BY <1>1, <1>3, <1>6, <1>9, AbstractTerms, Zenon DEF Abstract!New
<1>. QED  BY <1>1, <1>8, <1>10 DEF Inv, Abstract!Handle

LEMMA CancelStep ==
  ASSUME Inv, NEW c \in Client, Cancel(c)
  PROVE  Inv' /\ Abstract!Handle(c)
<1>1. /\ taker = Idle /\ Map!Quiet /\ c.cmd = "cancel" /\ Rejection(c) = "none"
      /\ Store!Kill(LocOf(c.id)) /\ Map!Leave(c.id) /\ Tell(1)
      /\ taker' = taker /\ from' = from /\ c.id \in OrderId
  BY ClientTyped DEF Cancel, Admitted, Ready
<1>2. Abstract!CancelRejection(c) = "none" /\ c.id \in Stored /\ LocOf(c.id) = LocAt(c.id)
  BY <1>1, RejectionsSeen, LevelsNow, Lookup
     DEF Rejection, Inv, Abstract!CancelRejection, LevelsExact
<1>3. /\ MapFacts!MapInv' /\ Stored' = Stored \ {c.id} /\ held' = held /\ c.id \notin Away
      /\ \A x \in Stored' : LocAt(x)' = LocAt(x)
  BY <1>1, MapDrops DEF Inv
<1>4. Away' = Away /\ c.id \in Resting /\ Resting' = Resting \ {c.id}
  BY <1>2, <1>3 DEF Away, Resting, Stored
<1>5. Away = {}
  BY <1>1 DEF Inv, TakerSound, Replacing, Working
<1>6. PICK side, p : HeaderAt(LocAt(c.id)) = [side |-> side, price |-> p]
  BY DEF HeaderAt
<1>7. /\ StoreFacts!StoreInv' /\ RestingStays /\ side \in Side /\ p \in Price
      /\ \E k \in DOMAIN Queues[side][p] :
           Queues[side][p][k] = Store!SlotAt(LocAt(c.id)) /\ Abstract!Unlink(side, p, k)
  BY <1>1, <1>2, <1>3, <1>4, <1>6, StoreUnlinks DEF Inv, Resting, Stored
<1>8. TakerSound'
  BY <1>1, <1>3, <1>4, <1>5 DEF Inv, TakerSound, Working, Replacing
<1>9. StoredLevels' = [x \in DOMAIN StoredLevels \ {c.id} |-> StoredLevels[x]]
  BY <1>3, <1>4, <1>5, <1>7, <1>8, LevelsKept, LevelsNow DEF Inv, LevelsExact
<1>10. StoredLevels[c.id].side = side /\ StoredLevels[c.id].price = p /\ c.id \in DOMAIN StoredLevels
  BY <1>2, <1>5, <1>6, LevelsNow DEF Inv, LevelsExact
<1>11. Store!SlotAt(LocAt(c.id)).id = c.id
  BY <1>4, RestingSlot DEF Inv
<1>12. Abstract!Cancel(c)
  BY <1>1, <1>2, <1>7, <1>9, <1>10, <1>11, AbstractEmit, AbstractTerms, Zenon
     DEF Abstract!Cancel, Abstract!At, Inv
<1>13. seq' \in 0 .. SeqWrap - 1
  BY <1>1, Emitted DEF Inv
<1>. QED  BY <1>1, <1>3, <1>7, <1>8, <1>12, <1>13 DEF Inv, Abstract!Handle

\* What a replace finds when it is let in.
LEMMA ReplaceFinds ==
  ASSUME Inv, NEW c \in Client, Admitted(c, "replace")
  PROVE  /\ taker = Idle /\ Map!Quiet /\ c.id \in OrderId
         /\ Abstract!ReplaceRejection(c) = "none"
         /\ c.id \in Stored /\ c.id \in DOMAIN StoredLevels /\ Away = {} /\ c.id \in Resting
         /\ LocOf(c.id) = LocAt(c.id) /\ StoredLevels[c.id] = HeaderAt(LocAt(c.id))
         /\ c.qty \in Qty \ {0} /\ c.price \in Price
         /\ Store!SlotAt(LocAt(c.id)) \in RestingOrder /\ Store!SlotAt(LocAt(c.id)).id = c.id
         /\ HeaderAt(LocAt(c.id)) \in Level
<1>1. /\ taker = Idle /\ Map!Quiet /\ c.cmd = "replace" /\ Rejection(c) = "none"
      /\ c.id \in OrderId /\ c.price \in CmdPrices /\ c.qty \in Qty
  BY ClientTyped DEF Admitted, Ready
<1>2. Abstract!ReplaceRejection(c) = "none"
  BY <1>1, RejectionsSeen DEF Rejection, Inv
<1>3. c.id \in DOMAIN StoredLevels /\ c.qty # 0 /\ PriceOk(c.price)
  BY <1>2 DEF Abstract!ReplaceRejection, Abstract!PriceOk, PriceOk
<1>4. Away = {}
  BY <1>1 DEF Inv, TakerSound, Replacing, Working
<1>5. c.id \in Stored /\ c.id \in Resting /\ LocOf(c.id) = LocAt(c.id)
      /\ StoredLevels[c.id] = HeaderAt(LocAt(c.id))
  BY <1>1, <1>3, <1>4, LevelsNow, Lookup DEF LevelsExact, Inv, Resting, Stored
<1>. QED  BY <1>1, <1>2, <1>3, <1>4, <1>5, RestingSlot DEF Inv, Price

LEMMA ReplaceInPlaceStep ==
  ASSUME Inv, NEW c \in Client, ReplaceInPlace(c)
  PROVE  Inv' /\ Abstract!Handle(c)
<1>1. /\ taker = Idle /\ c.id \in OrderId
      /\ Abstract!ReplaceRejection(c) = "none"
      /\ c.id \in Stored /\ c.id \in DOMAIN StoredLevels /\ Away = {} /\ c.id \in Resting
      /\ LocOf(c.id) = LocAt(c.id) /\ StoredLevels[c.id] = HeaderAt(LocAt(c.id))
      /\ c.qty \in Qty \ {0}
      /\ Store!SlotAt(LocAt(c.id)) \in RestingOrder /\ Store!SlotAt(LocAt(c.id)).id = c.id
  BY ReplaceFinds DEF ReplaceInPlace
<1>2. /\ c.price = HeaderAt(LocAt(c.id)).price /\ c.qty <= Store!SlotAt(LocAt(c.id)).qty
      /\ Store!Lower(LocAt(c.id), c.qty) /\ Tell(1) /\ c.cmd = "replace"
      /\ UNCHANGED mapVars /\ taker' = taker /\ from' = from
  BY <1>1 DEF ReplaceInPlace, KeepsPriority, Admitted, HeaderAt
<1>3. /\ MapFacts!MapInv' /\ held' = held /\ Stored' = Stored
      /\ \A x \in Stored : LocAt(x)' = LocAt(x)
  BY <1>2, MapStays DEF Inv
<1>4. Away' = Away /\ Resting' = Resting
  BY <1>3 DEF Away, Resting, Stored
<1>5. c.qty \in 1 .. Store!SlotAt(LocAt(c.id)).qty /\ c.qty \in Qty
  BY <1>1, <1>2 DEF RestingOrder, Qty
<1>6. PICK side, p : HeaderAt(LocAt(c.id)) = [side |-> side, price |-> p]
  BY DEF HeaderAt
<1>7. /\ StoreFacts!StoreInv' /\ RestingStays /\ side \in Side /\ p \in Price
      /\ \E k \in DOMAIN Queues[side][p] :
           Queues[side][p][k] = Store!SlotAt(LocAt(c.id)) /\ Abstract!Reduce(side, p, k, c.qty)
  <2>1. \A x \in Resting' : LocAt(x)' = LocAt(x)
    BY <1>3, <1>4 DEF Resting, Stored
  <2>. QED  BY <1>1, <1>2, <1>4, <1>5, <1>6, <2>1, StoreReduces DEF Inv
<1>8. TakerSound'
  BY <1>1, <1>2, <1>3, <1>4 DEF Inv, TakerSound, Working, Replacing
<1>9. StoredLevels' = StoredLevels
  BY <1>2, <1>3, <1>4, <1>7, <1>8, LevelsSame DEF Inv
<1>10. StoredLevels[c.id].side = side /\ StoredLevels[c.id].price = p /\ c.price = p
  BY <1>1, <1>2, <1>6
<1>11. PICK k \in DOMAIN Queues[side][p] :
         /\ Queues[side][p][k] = Store!SlotAt(LocAt(c.id)) /\ Abstract!Reduce(side, p, k, c.qty)
  BY <1>7
<1>12. Queues[side][p][k].id = c.id /\ c.qty <= Queues[side][p][k].qty
  BY <1>1, <1>2, <1>11
<1>13. Abstract!ReplaceInPlace(c)
  BY <1>1, <1>2, <1>9, <1>10, <1>11, <1>12, AbstractEmit, AbstractTerms, Zenon
     DEF Abstract!ReplaceInPlace, Abstract!At, Abstract!KeepsPriority, Inv
<1>14. seq' \in 0 .. SeqWrap - 1
  BY <1>2, Emitted DEF Inv
<1>. QED  BY <1>2, <1>3, <1>7, <1>8, <1>13, <1>14 DEF Inv, Abstract!Handle

LEMMA ReplaceAndCrossStep ==
  ASSUME Inv, NEW c \in Client, ReplaceAndCross(c)
  PROVE  Inv' /\ Abstract!Handle(c)
<1>1. /\ taker = Idle /\ c.id \in OrderId
      /\ Abstract!ReplaceRejection(c) = "none"
      /\ c.id \in Stored /\ c.id \in DOMAIN StoredLevels /\ Away = {} /\ c.id \in Resting
      /\ LocOf(c.id) = LocAt(c.id) /\ StoredLevels[c.id] = HeaderAt(LocAt(c.id))
      /\ c.qty \in Qty \ {0} /\ c.price \in Price
      /\ Store!SlotAt(LocAt(c.id)) \in RestingOrder /\ Store!SlotAt(LocAt(c.id)).id = c.id
      /\ HeaderAt(LocAt(c.id)) \in Level
  BY ReplaceFinds DEF ReplaceAndCross
<1>2. PICK side, p, order : /\ HeaderAt(LocAt(c.id)) = [side |-> side, price |-> p]
                            /\ order = Store!SlotAt(LocAt(c.id))
  BY DEF HeaderAt
<1>3. /\ ~(c.price = p /\ c.qty <= order.qty)
      /\ Store!Kill(LocAt(c.id)) /\ c.cmd = "replace" /\ seq' = seq
      /\ Map!BeginReplace(c.id)
      /\ from' = [side |-> side, price |-> p]
      /\ taker' = [cmd |-> "replace", id |-> c.id, side |-> side, bound |-> TRUE,
                   price |-> c.price, tif |-> order.tif, qty |-> c.qty]
  <2>1. /\ ~KeepsPriority(c) /\ c.cmd = "replace" /\ seq' = seq
        /\ Map!BeginReplace(c.id) /\ Store!Kill(LocAt(c.id))
        /\ from' = HeaderAt(LocAt(c.id))
        /\ taker' = [cmd |-> "replace", id |-> c.id, side |-> chunks[LocAt(c.id)[1]].side,
                     bound |-> TRUE, price |-> c.price, tif |-> Store!SlotAt(LocAt(c.id)).tif,
                     qty |-> c.qty]
    BY <1>1 DEF ReplaceAndCross, Admitted, HeaderAt
  <2>2. chunks[LocAt(c.id)[1]].side = side /\ chunks[LocAt(c.id)[1]].price = p
    BY <1>2 DEF HeaderAt
  <2>. QED  BY <1>1, <1>2, <2>1, <2>2 DEF KeepsPriority
<1>4. /\ MapFacts!MapInv' /\ Away' = {c.id} /\ Stored' = Stored
      /\ \A x \in Stored : LocAt(x)' = LocAt(x)
  BY <1>1, <1>3, MapHolds DEF Inv
<1>5. Resting' = Resting \ {c.id} /\ \A x \in Resting' : LocAt(x)' = LocAt(x)
  BY <1>1, <1>4 DEF Resting, Stored
<1>6. /\ StoreFacts!StoreInv' /\ RestingStays /\ side \in Side /\ p \in Price
      /\ \E k \in DOMAIN Queues[side][p] :
           Queues[side][p][k] = Store!SlotAt(LocAt(c.id)) /\ Abstract!Unlink(side, p, k)
  BY <1>1, <1>2, <1>3, <1>5, StoreUnlinks DEF Inv
<1>7. TakerSound'
  <2>1. order.tif \in {"gtc", "post_only"} /\ order.tif \in Tif
    BY <1>1, <1>2 DEF RestingOrder, Tif
  <2>2. taker' \in [cmd: {"new", "replace"}, id: OrderId, side: Side, bound: BOOLEAN,
                    price: CmdPrices \cup {0}, tif: Tif, qty: Qty]
    BY <1>1, <1>3, <1>6, <2>1 DEF Price
  <2>3. /\ taker'.cmd = "replace" /\ taker'.id = c.id /\ taker'.bound /\ taker'.tif = order.tif
        /\ taker'.price = c.price /\ from' \in Level
    BY <1>1, <1>2, <1>3
  <2>4. taker' # Idle
    BY <2>3 DEF Idle
  <2>. QED  BY <1>1, <1>4, <2>1, <2>2, <2>3, <2>4 DEF TakerSound, Working, Replacing
<1>8. StoredLevels' = StoredLevels
  <2>1. StoredLevels' = [x \in Stored |-> StoredLevels[x]]
    BY <1>1, <1>2, <1>3, <1>4, <1>6, <1>7, LevelsKept DEF Inv
  <2>2. StoredLevels = [x \in DOMAIN StoredLevels |-> StoredLevels[x]]
    BY DEF StoredLevels
  <2>. QED  BY <2>1, <2>2, LevelsNow DEF LevelsExact
<1>9. StoredLevels[c.id].side = side /\ StoredLevels[c.id].price = p
  BY <1>1, <1>2
<1>10. PICK k \in DOMAIN Queues[side][p] : Queues[side][p][k] = order /\ Abstract!Unlink(side, p, k)
  BY <1>2, <1>6
<1>11. Abstract!ReplaceAndCross(c)
  BY <1>1, <1>2, <1>3, <1>8, <1>9, <1>10, AbstractTerms, Zenon
     DEF Abstract!ReplaceAndCross, Abstract!At, Abstract!KeepsPriority
<1>. QED  BY <1>3, <1>4, <1>6, <1>7, <1>11 DEF Inv, Abstract!Handle

LEMMA FillStep ==
  ASSUME Inv, NEW p \in Price, Fill(p)
  PROVE  Inv' /\ Abstract!Fill(p)
<1>1. PICK opp : opp = Opposite(taker.side)
  OBVIOUS
<1>2. PICK maker : maker = Store!SlotAt(Store!Oldest(opp, p))
  OBVIOUS
<1>3. PICK q : q = MinQty(taker.qty, maker.qty)
  OBVIOUS
<1>4. /\ Working /\ Map!Quiet /\ taker.qty > 0
      /\ Abstract!IsBest(opp, p) /\ Abstract!Acceptable(p)
      /\ Store!Give(opp, p, q) /\ taker' = [taker EXCEPT !.qty = @ - q]
      /\ from' = from
      /\ maker.qty = q => Map!Leave(maker.id) /\ Tell(2)
      /\ maker.qty # q => UNCHANGED mapVars /\ Tell(1)
  BY <1>1, <1>2, <1>3, BookSame, Zenon DEF Fill, Working
<1>5. taker \in [cmd: {"new", "replace"}, id: OrderId, side: Side, bound: BOOLEAN,
                 price: CmdPrices \cup {0}, tif: Tif, qty: Qty]
  BY <1>4 DEF Inv, TakerSound
<1>6. opp \in Side /\ p \in Price /\ Queues[opp][p] # << >>
  BY <1>1, <1>4, <1>5, AbstractTerms DEF Abstract!IsBest, Abstract!Occupied, Opposite, Side
<1>7. maker = Head(Queues[opp][p]) /\ maker \in RestingOrder /\ maker.id \in Resting
  BY <1>2, <1>6, FrontResting DEF Inv
<1>8. q \in 1 .. maker.qty /\ q \in Qty /\ taker.qty - q \in Qty /\ maker.id \in OrderId
  <2>1. taker.qty \in Qty \ {0} /\ maker.qty \in Qty \ {0} /\ QtyWrap \in Nat
    BY <1>4, <1>5, <1>7, QtyAssumption DEF RestingOrder, Qty
  <2>2. maker.id \in OrderId
    BY <1>7 DEF RestingOrder
  <2>. QED  BY <1>3, <2>1, <2>2 DEF MinQty, Qty
<1>9. /\ MapFacts!MapInv' /\ held' = held
      /\ Stored' = IF maker.qty = q THEN Stored \ {maker.id} ELSE Stored
      /\ \A x \in Stored' : LocAt(x)' = LocAt(x)
  BY <1>4, <1>8, MapDrops, MapStays DEF Inv
<1>10. /\ Away' = Away
       /\ Resting' = IF maker.qty = q THEN Resting \ {maker.id} ELSE Resting
       /\ \A x \in Resting' : LocAt(x)' = LocAt(x)
  BY <1>9 DEF Away, Resting, Stored
<1>11. StoreFacts!StoreInv' /\ RestingStays /\ Abstract!TakeFront(opp, p, q)
  BY <1>4, <1>6, <1>7, <1>8, <1>10, StoreGives DEF Inv
<1>12. TakerSound'
  <2>1. taker' \in [cmd: {"new", "replace"}, id: OrderId, side: Side, bound: BOOLEAN,
                    price: CmdPrices \cup {0}, tif: Tif, qty: Qty]
    BY <1>4, <1>5, <1>8
  <2>2. /\ taker'.cmd = taker.cmd /\ taker'.id = taker.id /\ taker'.bound = taker.bound
        /\ taker'.tif = taker.tif /\ taker'.price = taker.price
    BY <1>4, <1>5
  <2>3. taker' # Idle
    BY <2>1 DEF Idle
  <2>4. Stored' \subseteq Stored
    BY <1>9
  <2>. QED  BY <1>4, <1>10, <2>1, <2>2, <2>3, <2>4 DEF Inv, TakerSound, Working, Replacing
<1>13. StoredLevels' = [x \in Stored' |-> StoredLevels[x]]
  BY <1>4, <1>9, <1>10, <1>11, <1>12, LevelsKept DEF Inv
<1>14. /\ maker.qty = q => StoredLevels' = [x \in DOMAIN StoredLevels \ {maker.id} |-> StoredLevels[x]]
       /\ maker.qty # q => StoredLevels' = StoredLevels
  <2>1. StoredLevels = [x \in DOMAIN StoredLevels |-> StoredLevels[x]] /\ DOMAIN StoredLevels = Stored
    BY LevelsNow DEF LevelsExact, StoredLevels
  <2>. QED  BY <1>9, <1>13, <2>1
<1>15. Abstract!Fill(p)
  <2>1. /\ Abstract!Opposite(taker.side) = opp
        /\ Abstract!MinQty(taker.qty, Head(Queues[opp][p]).qty) = q
    BY <1>1, <1>3, <1>7 DEF Opposite, Abstract!Opposite, MinQty, Abstract!MinQty
  <2>2. /\ \A event : maker.qty # q => Abstract!Emit(event)
        /\ \A first, second : maker.qty = q => Abstract!EmitBoth(first, second)
    BY <1>4, AbstractEmit DEF Inv
  <2>3. \A a, b : Head(Queues[opp][p]).qty = q =>
            /\ StoredLevels' = [x \in DOMAIN StoredLevels \ {Head(Queues[opp][p]).id} |-> StoredLevels[x]]
            /\ Abstract!EmitBoth(a, b)
    BY <1>7, <1>14, <2>2
  <2>4. \A a : Head(Queues[opp][p]).qty # q => UNCHANGED StoredLevels /\ Abstract!Emit(a)
    BY <1>7, <1>14, <2>2
  <2>5. Abstract!Working /\ Abstract!Unfilled
    BY <1>4, AbstractTerms DEF Abstract!Working, Abstract!Unfilled, Working
  <2>. QED  BY <1>4, <1>11, <2>1, <2>3, <2>4, <2>5, Zenon DEF Abstract!Fill
<1>16. seq' \in 0 .. SeqWrap - 1
  BY <1>4, Emitted DEF Inv
<1>. QED  BY <1>9, <1>11, <1>12, <1>15, <1>16 DEF Inv

LEMMA CloseFilledStep ==
  ASSUME Inv, CloseFilled
  PROVE  Inv' /\ Abstract!CloseFilled
<1>1. /\ Working /\ Map!Quiet /\ taker.qty = 0
      /\ Replacing => Map!ReplaceFilled
      /\ ~Replacing => UNCHANGED mapVars
      /\ taker' = Idle /\ from' = Nowhere /\ Tell(1) /\ UNCHANGED storeVars
  BY DEF CloseFilled, Working, Replacing, CommandOver
<1>2. taker.id \in OrderId
  BY <1>1 DEF Inv, TakerSound
<1>3. Replacing => held.key = taker.id
  BY DEF Inv, TakerSound, Away
<1>4. /\ MapFacts!MapInv' /\ Away' = {}
      /\ Stored' = Stored \ {taker.id}
      /\ \A x \in Stored' : LocAt(x)' = LocAt(x)
      /\ Resting' = Resting
  <2>1. CASE Replacing
    BY <1>1, <1>2, <1>3, <2>1, MapDropsHeld DEF Inv, Resting, Stored
  <2>2. CASE ~Replacing
    <3>1. /\ MapFacts!MapInv' /\ held' = held /\ Stored' = Stored
          /\ \A x \in Stored : LocAt(x)' = LocAt(x)
      BY <1>1, <2>2, MapStays DEF Inv
    <3>2. taker.id \notin Stored /\ Away = {} /\ Away' = Away
      BY <1>1, <2>2, <3>1 DEF Inv, TakerSound, Away
    <3>. QED  BY <3>1, <3>2 DEF Resting, Stored
  <2>. QED  BY <2>1, <2>2
<1>5. /\ StoreFacts!StoreInv' /\ RestingStays
      /\ Queues' = Queues /\ Totals' = Totals /\ live' = live
  BY <1>1, <1>4, StoreStays DEF Inv, Resting, Stored
<1>6. TakerSound'
  BY <1>1, <1>4 DEF TakerSound, Working, Replacing
<1>7. Away \cap Stored' = {}
  BY <1>4 DEF Inv, TakerSound
<1>8. StoredLevels' = [x \in DOMAIN StoredLevels \ {taker.id} |-> StoredLevels[x]]
  BY <1>4, <1>5, <1>6, <1>7, LevelsKept, LevelsNow DEF Inv, LevelsExact
<1>9. Abstract!CloseFilled
  BY <1>1, <1>5, <1>8, AbstractEmit, AbstractTerms, Zenon
     DEF Abstract!CloseFilled, Abstract!Working, Working, Inv
<1>10. seq' \in 0 .. SeqWrap - 1
  BY <1>1, Emitted DEF Inv
<1>. QED  BY <1>4, <1>5, <1>6, <1>9, <1>10 DEF Inv

\* The map's part of resting the remainder.
LEMMA MapRests ==
  ASSUME Inv, Working, NEW id, id = taker.id, NEW loc \in Loc,
         IF taker.cmd = "new" THEN Map!Rest(id, loc)
                              ELSE Map!WriteThrough(loc) \/ Map!WriteAgain(loc)
  PROVE  /\ MapFacts!MapInv' /\ Away' = {} /\ id \notin Resting
         /\ Stored' = Stored \cup {id} /\ Resting' = Resting \cup {id}
         /\ \A x \in Resting : LocAt(x)' = LocAt(x)
         /\ LocAt(id)' = loc
<1>1. id \in OrderId /\ taker.cmd \in {"new", "replace"}
  BY DEF Inv, TakerSound
<1>2. CASE taker.cmd = "new"
  <2>1. /\ MapFacts!MapInv' /\ Away = {} /\ Away' = {} /\ id \notin Stored
        /\ Stored' = Stored \cup {id}
        /\ \A x \in Stored : LocAt(x)' = LocAt(x)
        /\ LocAt(id)' = loc
    BY <1>1, <1>2, MapAdds DEF Inv
  <2>. QED  BY <2>1 DEF Resting, Stored
<1>3. CASE taker.cmd = "replace"
  <2>1. held.key = id
    BY <1>3 DEF Inv, TakerSound, Replacing, Away
  <2>2. /\ MapFacts!MapInv' /\ Away = {id} /\ Away' = {}
        /\ id \in Stored /\ Stored' = Stored
        /\ \A x \in Stored : LocAt(x)' = IF x = id THEN loc ELSE LocAt(x)
    BY <1>3, <2>1, MapRedirects DEF Inv
  <2>. QED  BY <2>2 DEF Resting, Stored
<1>. QED  BY <1>1, <1>2, <1>3

LEMMA RestRemainderStep ==
  ASSUME Inv, RestRemainder
  PROVE  Inv' /\ Abstract!RestRemainder
<1>1. PICK loc, id, side, p, order :
        /\ loc = Store!PushLoc(taker.side, taker.price)
        /\ id = taker.id /\ side = taker.side /\ p = taker.price
        /\ order = [id |-> taker.id, qty |-> taker.qty, tif |-> taker.tif]
  OBVIOUS
<1>2. /\ Map!Quiet /\ Abstract!Exhausted /\ Abstract!RestsRemainder
      /\ Store!Stow(side, p, order)
      /\ IF taker.cmd = "new" THEN Map!Rest(id, loc)
                              ELSE Map!WriteThrough(loc) \/ Map!WriteAgain(loc)
      /\ taker' = Idle /\ from' = Nowhere /\ Tell(1)
  BY <1>1, BookSame, Zenon DEF RestRemainder, CommandOver
<1>3. Working /\ taker.qty > 0
  BY <1>2, AbstractTerms DEF Abstract!Exhausted, Abstract!Working, Working
<1>4. taker \in [cmd: {"new", "replace"}, id: OrderId, side: Side, bound: BOOLEAN,
                 price: CmdPrices \cup {0}, tif: Tif, qty: Qty]
  BY <1>3 DEF Inv, TakerSound
<1>5. taker.bound /\ taker.tif \in {"gtc", "post_only"}
  BY <1>2, <1>3 DEF Inv, TakerSound, Replacing, Abstract!RestsRemainder
<1>6. side \in Side /\ p \in Price /\ order \in RestingOrder /\ order.id = id
  BY <1>1, <1>3, <1>4, <1>5 DEF Inv, TakerSound, RestingOrder, Qty
<1>7. live < MaxOrders
  <2>1. CASE taker.cmd = "new"
    <3>1. len < MaxOrders
      BY <1>2, <2>1 DEF Map!Rest
    <3>2. Away = {}
      BY <2>1 DEF Inv, TakerSound, Replacing
    <3>. QED  BY <3>1, <3>2, Counts
  <2>2. CASE taker.cmd = "replace"
    <3>1. Away # {}
      BY <1>3, <2>2 DEF Inv, TakerSound, Replacing
    <3>. QED  BY <3>1, Counts, ConfigAssumption
  <2>. QED  BY <1>4, <2>1, <2>2
<1>8. loc = Store!PushLoc(side, p) /\ loc \in Loc
  BY <1>1, <1>6, <1>7, PushLocTyped DEF Inv
<1>9. /\ MapFacts!MapInv' /\ Away' = {} /\ id \notin Resting
      /\ Stored' = Stored \cup {id} /\ Resting' = Resting \cup {id}
      /\ \A x \in Resting : LocAt(x)' = LocAt(x)
      /\ LocAt(id)' = loc
  BY <1>1, <1>2, <1>3, <1>8, MapRests
<1>10. /\ StoreFacts!StoreInv' /\ RestingStays
       /\ HeaderAt(LocAt(id))' = [side |-> side, price |-> p]
       /\ Abstract!Push(side, p, order)
  <2>1. order.id = id
    BY <1>6
  <2>2. /\ order.id \notin Resting /\ Resting' = Resting \cup {order.id}
        /\ \A x \in Resting : LocAt(x)' = LocAt(x)
        /\ LocAt(order.id)' = Store!PushLoc(side, p)
    BY <1>8, <1>9, <2>1
  <2>3. /\ StoreFacts!StoreInv' /\ RestingStays
        /\ HeaderAt(LocAt(order.id))' = [side |-> side, price |-> p]
        /\ Abstract!Push(side, p, order)
    BY <1>2, <1>6, <1>7, <2>2, StorePushes DEF Inv
  <2>. QED  BY <2>1, <2>3
<1>11. TakerSound'
  BY <1>2, <1>9 DEF TakerSound, Working, Replacing
<1>12. StoredLevels' = Abstract!EntryWritten
  <2>1. ASSUME NEW x \in Stored'
        PROVE  StoredLevels'[x] = IF x = id THEN [side |-> side, price |-> p]
                                            ELSE StoredLevels[x]
    <3>1. StoredLevels'[x] = HeaderAt(LocAt(x))'
      BY <1>9, <1>11, LevelsNext DEF LevelsExact
    <3>2. CASE x = id
      BY <1>1, <1>10, <3>1, <3>2
    <3>3. CASE x # id
      <4>1. x \in Resting /\ x \in Resting' /\ x \in Stored /\ x \notin Away
        BY <1>9, <3>3 DEF Inv, TakerSound, Resting, Stored
      <4>2. HeaderAt(LocAt(x))' = HeaderAt(LocAt(x))
        BY <1>10, <4>1 DEF RestingStays
      <4>3. StoredLevels[x] = HeaderAt(LocAt(x))
        BY <4>1, LevelsNow DEF LevelsExact, Inv
      <4>. QED  BY <3>1, <3>3, <4>2, <4>3
    <3>. QED  BY <3>2, <3>3
  <2>2. StoredLevels' = [x \in DOMAIN StoredLevels' |-> StoredLevels'[x]]
    BY DEF StoredLevels
  <2>3. DOMAIN StoredLevels' = DOMAIN StoredLevels \cup {id} /\ DOMAIN StoredLevels' = Stored'
    BY <1>9, LevelsNow, LevelsNext DEF LevelsExact
  <2>. QED  BY <1>1, <2>1, <2>2, <2>3 DEF Abstract!EntryWritten
<1>13. Abstract!RestRemainder
  BY <1>1, <1>2, <1>10, <1>12, AbstractEmit, AbstractTerms, Zenon DEF Abstract!RestRemainder, Inv
<1>14. seq' \in 0 .. SeqWrap - 1
  BY <1>2, Emitted DEF Inv
<1>. QED  BY <1>9, <1>10, <1>11, <1>13, <1>14 DEF Inv

LEMMA ExpireStep ==
  ASSUME Inv, Expire
  PROVE  Inv' /\ Abstract!Expire
<1>1. /\ Abstract!Exhausted /\ ~Abstract!RestsRemainder
      /\ taker' = Idle /\ from' = Nowhere /\ Tell(1)
      /\ MapFacts!MapInv' /\ StoreFacts!StoreInv' /\ RestingStays
      /\ Stored' = Stored /\ Away' = Away
      /\ Queues' = Queues /\ Totals' = Totals /\ live' = live
  BY BookSame, NothingMoves DEF Expire, CommandOver
<1>2. Away = {}
  BY <1>1 DEF Inv, TakerSound, Replacing, Abstract!RestsRemainder
<1>3. TakerSound'
  BY <1>1, <1>2 DEF TakerSound, Working, Replacing
<1>4. StoredLevels' = StoredLevels
  <2>1. StoredLevels' = [x \in Stored |-> StoredLevels[x]]
    BY <1>1, <1>2, <1>3, LevelsKept DEF Inv
  <2>2. StoredLevels = [x \in DOMAIN StoredLevels |-> StoredLevels[x]]
    BY DEF StoredLevels
  <2>. QED  BY <2>1, <2>2, LevelsNow DEF LevelsExact
<1>5. Abstract!Expire
  BY <1>1, <1>4, AbstractEmit, AbstractTerms, Zenon DEF Abstract!Expire, Inv
<1>6. seq' \in 0 .. SeqWrap - 1
  BY <1>1, Emitted DEF Inv
<1>. QED  BY <1>1, <1>3, <1>5, <1>6 DEF Inv

LEMMA TidyStep ==
  ASSUME Inv, TidyMap
  PROVE  Inv' /\ UNCHANGED Abstract!vars
<1>1. /\ MapFacts!MapInv' /\ held' = held /\ Stored' = Stored
      /\ \A x \in Stored : LocAt(x)' = LocAt(x)
      /\ UNCHANGED <<storeVars, taker, seq, from>>
  BY MapTidies DEF Inv, TidyMap
<1>2. Away' = Away /\ Resting' = Resting
  BY <1>1 DEF Away, Resting, Stored
<1>3. /\ StoreFacts!StoreInv' /\ RestingStays
      /\ Queues' = Queues /\ Totals' = Totals /\ live' = live
  BY <1>1, <1>2, StoreStays DEF Inv, Resting, Stored
<1>4. TakerSound'
  BY <1>1, <1>2 DEF Inv, TakerSound, Working, Replacing
<1>5. StoredLevels' = StoredLevels
  BY <1>1, <1>2, <1>3, <1>4, LevelsSame DEF Inv
<1>. QED  BY <1>1, <1>3, <1>4, <1>5 DEF Inv, Abstract!vars

LEMMA IdleStep ==
  ASSUME Inv, UNCHANGED vars
  PROVE  Inv' /\ UNCHANGED Abstract!vars
<1>1. /\ MapFacts!MapInv' /\ StoreFacts!StoreInv' /\ RestingStays
      /\ Stored' = Stored /\ Away' = Away
      /\ Queues' = Queues /\ Totals' = Totals /\ live' = live
      /\ taker' = taker /\ seq' = seq /\ from' = from
  BY NothingMoves DEF vars
<1>2. TakerSound'
  BY <1>1 DEF Inv, TakerSound, Working, Replacing
<1>3. StoredLevels' = StoredLevels
  BY <1>1, <1>2, LevelsSame DEF Inv
<1>. QED  BY <1>1, <1>2, <1>3 DEF Inv, Abstract!vars

AbstractNext == Abstract!Continue \/ \E c \in Client : Abstract!Handle(c)

LEMMA StepImplements ==
  ASSUME Inv, [Next]_vars
  PROVE  Inv' /\ (AbstractNext \/ UNCHANGED Abstract!vars)
<1>1. ASSUME NEW p \in Price, Fill(p)
      PROVE  Inv' /\ Abstract!Continue
  BY <1>1, FillStep, AbstractTerms DEF Abstract!Continue
<1>2. CASE \E c \in Client : Reject(c) \/ New(c) \/ Cancel(c) \/ ReplaceInPlace(c) \/ ReplaceAndCross(c)
  BY <1>2, RejectStep, NewStep, CancelStep, ReplaceInPlaceStep, ReplaceAndCrossStep DEF AbstractNext
<1>3. CASE CloseFilled \/ RestRemainder \/ Expire
  BY <1>3, CloseFilledStep, RestRemainderStep, ExpireStep DEF AbstractNext, Abstract!Continue
<1>4. CASE TidyMap
  BY <1>4, TidyStep
<1>5. CASE UNCHANGED vars
  BY <1>5, IdleStep
<1>. QED  BY <1>1, <1>2, <1>3, <1>4, <1>5 DEF Next, Continue, AbstractNext

\* The map, the store and the handler in progress fit together.
THEOREM StructuresInvariant == Spec => []Inv
BY AtStart, StepImplements, PTL DEF Spec

\* The chunk lists and the table are the queues and the function the book is
\* specified with: whatever moves underneath, every handler does one step of
\* OrderBook, on the order it means.
THEOREM StructuresImplementBook == Spec => ImplementsOrderBook
<1>1. Inv /\ [Next]_vars => [AbstractNext]_<<Abstract!vars>>
  BY StepImplements
<1>. QED  BY <1>1, AtStart, StructuresInvariant, PTL DEF Spec, ImplementsOrderBook, AbstractNext

----------------------------------------------------------------------------
\* What was proved of the book holds for the book on its structures

BookFacts == INSTANCE OrderBookProofs
               WITH queue <- Queues, total <- Totals, map <- StoredLevels,
                    sink <- 0, Sink0 <- 0, OnEvent <- Ignored

LEMMA FactsSums ==
  \A f, S : Abstract!SumFunctionOnSet(f, S) = BookFacts!SumFunctionOnSet(f, S)
BY DEF Abstract!SumFunctionOnSet, BookFacts!SumFunctionOnSet,
       Abstract!FoldFunctionOnSet, BookFacts!FoldFunctionOnSet,
       Abstract!MapThenFoldSet, BookFacts!MapThenFoldSet

LEMMA FactsSame ==
  /\ Abstract!Price = BookFacts!Price
  /\ Abstract!Init <=> BookFacts!Init
  /\ \A c : Abstract!Handle(c) <=> BookFacts!Handle(c)
  /\ Abstract!Continue <=> BookFacts!Continue
<1>. USE DEF Abstract!PriceOk, BookFacts!PriceOk, Abstract!Price, BookFacts!Price, Abstract!Side,
             BookFacts!Side,
             Abstract!Opposite, BookFacts!Opposite, Abstract!Crosses, BookFacts!Crosses,
             Abstract!Better, BookFacts!Better, Abstract!Occupied, BookFacts!Occupied,
             Abstract!Idle, BookFacts!Idle,
             Abstract!MinQty, BookFacts!MinQty, Abstract!NextSeq, BookFacts!NextSeq,
             Abstract!Emit, BookFacts!Emit,
             Abstract!EmitBoth, BookFacts!EmitBoth, Abstract!Rejected, BookFacts!Rejected,
             Abstract!Closed, BookFacts!Closed, Abstract!Replaced, BookFacts!Replaced,
             Abstract!Accepted, BookFacts!Accepted, Abstract!Trade, BookFacts!Trade,
             Abstract!Working, BookFacts!Working, Abstract!At, BookFacts!At, Abstract!RemoveAt,
             BookFacts!RemoveAt,
             Abstract!Unlink, BookFacts!Unlink
<1>1. Abstract!Price = BookFacts!Price
  OBVIOUS
<1>2. Abstract!Init <=> BookFacts!Init
  BY DEF Abstract!Init, BookFacts!Init, Abstract!QueueInit, BookFacts!QueueInit
<1>3. \A side, p : /\ Abstract!Fillable(side, p) = BookFacts!Fillable(side, p)
                   /\ Abstract!WouldCross(side, p) = BookFacts!WouldCross(side, p)
  BY FactsSums DEF Abstract!Fillable, BookFacts!Fillable, Abstract!WouldCross,
                   BookFacts!WouldCross
<1>4. \A c : /\ Abstract!NewRejection(c) = BookFacts!NewRejection(c)
             /\ Abstract!CancelRejection(c) = BookFacts!CancelRejection(c)
             /\ Abstract!ReplaceRejection(c) = BookFacts!ReplaceRejection(c)
  BY <1>3 DEF Abstract!NewRejection, BookFacts!NewRejection, Abstract!TifRejection,
              BookFacts!TifRejection,
              Abstract!BookFull, BookFacts!BookFull, Abstract!CancelRejection,
              BookFacts!CancelRejection,
              Abstract!ReplaceRejection, BookFacts!ReplaceRejection
<1>5. \A id, reason : Abstract!Reject(id, reason) <=> BookFacts!Reject(id, reason)
  BY DEF Abstract!Reject, BookFacts!Reject
<1>6. \A c : Abstract!New(c) <=> BookFacts!New(c)
  BY <1>4 DEF Abstract!New, BookFacts!New
<1>7. \A c : Abstract!Cancel(c) <=> BookFacts!Cancel(c)
  BY <1>4 DEF Abstract!Cancel, BookFacts!Cancel
<1>8. \A c : Abstract!ReplaceInPlace(c) <=> BookFacts!ReplaceInPlace(c)
  BY <1>4 DEF Abstract!ReplaceInPlace, BookFacts!ReplaceInPlace, Abstract!KeepsPriority,
              BookFacts!KeepsPriority,
              Abstract!Reduce, BookFacts!Reduce
<1>9. \A c : Abstract!ReplaceAndCross(c) <=> BookFacts!ReplaceAndCross(c)
  BY <1>4 DEF Abstract!ReplaceAndCross, BookFacts!ReplaceAndCross,
              Abstract!KeepsPriority, BookFacts!KeepsPriority
<1>10. \A c : Abstract!Handle(c) <=> BookFacts!Handle(c)
  BY <1>4, <1>5, <1>6, <1>7, <1>8, <1>9 DEF Abstract!Handle, BookFacts!Handle
<1>11. \A p : Abstract!Fill(p) <=> BookFacts!Fill(p)
  BY DEF Abstract!Fill, BookFacts!Fill, Abstract!Unfilled, BookFacts!Unfilled, Abstract!IsBest,
         BookFacts!IsBest,
         Abstract!Acceptable, BookFacts!Acceptable, Abstract!TakeFront, BookFacts!TakeFront
<1>12. Abstract!CloseFilled <=> BookFacts!CloseFilled
  BY DEF Abstract!CloseFilled, BookFacts!CloseFilled
<1>13. Abstract!Exhausted <=> BookFacts!Exhausted
  BY DEF Abstract!Exhausted, BookFacts!Exhausted, Abstract!Acceptable, BookFacts!Acceptable
<1>14. Abstract!RestsRemainder <=> BookFacts!RestsRemainder
  BY DEF Abstract!RestsRemainder, BookFacts!RestsRemainder
<1>15. Abstract!RestRemainder <=> BookFacts!RestRemainder
  BY <1>13, <1>14 DEF Abstract!RestRemainder, BookFacts!RestRemainder, Abstract!EntryWritten,
                      BookFacts!EntryWritten,
         Abstract!Push, BookFacts!Push
<1>16. Abstract!Expire <=> BookFacts!Expire
  BY <1>13, <1>14 DEF Abstract!Expire, BookFacts!Expire
<1>17. Abstract!Continue <=> BookFacts!Continue
  BY <1>1, <1>11, <1>12, <1>15, <1>16 DEF Abstract!Continue, BookFacts!Continue
<1>. QED  BY <1>1, <1>2, <1>10, <1>17

BookSound == BookFacts!BookInv /\ BookFacts!LevelTotalsExact

LEMMA FactsTerms ==
  /\ \A S : BookFacts!IsFiniteSet(S) <=> IsFiniteSet(S)
  /\ \A S : BookFacts!Cardinality(S) = Cardinality(S)
BY DEF IsFiniteSet, BookFacts!IsFiniteSet, Cardinality, BookFacts!Cardinality

LEMMA SoundAtStart ==
  ASSUME Init
  PROVE  BookSound
<1>1. BookFacts!Init
  BY AtStart, FactsSame
<1>. QED  BY <1>1, FactsTerms, IdAssumption, QtyAssumption, SeqAssumption, PriceAssumption,
             ConfigAssumption, BookFacts!InitInv, BookFacts!InitTotals DEF BookSound

LEMMA SoundStep ==
  ASSUME BookSound, AbstractNext \/ UNCHANGED Abstract!vars
  PROVE  BookSound'
<1>1. ASSUME NEW c \in Client, Abstract!Handle(c)
      PROVE  BookSound'
  <2>1. /\ c.cmd = "new" => c \in BookFacts!NewCommand
        /\ c.cmd = "replace" => c \in BookFacts!AnyReplace
    BY StructuresAssumption, QtyAssumption
       DEF NewCommand, LimitCommand, MarketCommand, CancelCommand, ReplaceCommand, Qty,
           BookFacts!NewCommand, BookFacts!LimitCommand, BookFacts!MarketCommand,
           BookFacts!AnyReplace, Side, Tif, BookFacts!Side, BookFacts!Tif, BookFacts!Qty
  <2>2. BookFacts!Handle(c)
    BY <1>1, FactsSame
  <2>. QED  BY <2>1, <2>2, FactsTerms, IdAssumption, QtyAssumption, SeqAssumption, PriceAssumption,
               ConfigAssumption, BookFacts!HandleInv DEF BookSound
<1>2. CASE Abstract!Continue
  <2>1. BookFacts!Continue
    BY <1>2, FactsSame
  <2>. QED  BY <2>1, FactsTerms, IdAssumption, QtyAssumption, SeqAssumption, PriceAssumption,
               ConfigAssumption, BookFacts!ContinueInv DEF BookSound
<1>3. CASE UNCHANGED Abstract!vars
  <2>1. UNCHANGED BookFacts!vars
    BY <1>3 DEF Abstract!vars, BookFacts!vars
  <2>2. BookFacts!BookInv'
    BY <2>1, FactsTerms, IdAssumption, QtyAssumption, SeqAssumption, PriceAssumption,
       ConfigAssumption, BookFacts!StutterInv DEF BookSound
  <2>3. BookFacts!LevelTotalsExact'
    BY <2>1 DEF BookSound, BookFacts!vars, BookFacts!LevelTotalsExact
  <2>. QED  BY <2>2, <2>3 DEF BookSound
<1>. QED  BY <1>1, <1>2, <1>3 DEF AbstractNext

LEMMA SoundAlways == Spec => []BookSound
<1>1. Init => Inv /\ BookSound
  BY AtStart, SoundAtStart
<1>2. Inv /\ BookSound /\ [Next]_vars => (Inv /\ BookSound)'
  BY StepImplements, SoundStep
<1>. QED  BY <1>1, <1>2, PTL DEF Spec

----------------------------------------------------------------------------
\* Store and map between commands

\* A state predicate is a mere atom to PTL, which makes it the prover for an
\* equivalence whose sides are the same text once a definition is expanded.
LEMMA StoreChecksSame ==
  /\ Store!ListsSound <=> StoreFacts!ListsSound
  /\ Store!NoChunkLost <=> StoreFacts!NoChunkLost
<1>. USE DEF Store!ChainFrom, StoreFacts!ChainFrom, Store!ChunkIndex, StoreFacts!ChunkIndex,
             Store!Nil, StoreFacts!Nil, Store!Dead, StoreFacts!Dead,
             Store!LiveSlots, StoreFacts!LiveSlots, Store!SlotIndex, StoreFacts!SlotIndex,
             Store!Side, StoreFacts!Side, Store!Price, StoreFacts!Price,
             Store!PriceOk, StoreFacts!PriceOk, Store!Last, StoreFacts!Last,
             Store!ToSet, StoreFacts!ToSet, Store!Cardinality, StoreFacts!Cardinality
<1>1. Store!ListsSound <=> StoreFacts!ListsSound
  BY Zenon DEF Store!ListsSound, StoreFacts!ListsSound
<1>2. /\ \A c : Store!ChainFrom(c) = StoreFacts!ChainFrom(c)
      /\ \A s : Store!ToSet(s) = StoreFacts!ToSet(s)
      /\ \A S : Store!Cardinality(S) = StoreFacts!Cardinality(S)
      /\ Store!Side = StoreFacts!Side /\ Store!Price = StoreFacts!Price
  BY Zenon
<1>. HIDE DEF Store!ChainFrom, StoreFacts!ChainFrom, Store!ToSet, StoreFacts!ToSet,
              Store!Cardinality, StoreFacts!Cardinality, Store!Side, StoreFacts!Side,
              Store!Price, StoreFacts!Price
<1>. DEFINE Chains == {Store!ChainFrom(levels[s][p].head) : s \in Store!Side, p \in Store!Price}
            Facts  == {StoreFacts!ChainFrom(levels[s][p].head) :
                         s \in StoreFacts!Side, p \in StoreFacts!Price}
<1>3. Chains = Facts
  BY <1>2
<1>4. Store!NoChunkLost
        <=> LET inUse == UNION {Store!ToSet(chain) : chain \in Chains}
                freed == Store!ToSet(Store!ChainFrom(free))
            IN  /\ inUse \cup freed = 0 .. used - 1
                /\ inUse \cap freed = {}
                /\ Store!Cardinality(inUse) <= live
                /\ \A a, b \in Chains : a # b => Store!ToSet(a) \cap Store!ToSet(b) = {}
  BY PTL DEF Store!NoChunkLost
<1>5. StoreFacts!NoChunkLost
        <=> LET inUse == UNION {StoreFacts!ToSet(chain) : chain \in Facts}
                freed == StoreFacts!ToSet(StoreFacts!ChainFrom(free))
            IN  /\ inUse \cup freed = 0 .. used - 1
                /\ inUse \cap freed = {}
                /\ StoreFacts!Cardinality(inUse) <= live
                /\ \A a, b \in Facts : a # b => StoreFacts!ToSet(a) \cap StoreFacts!ToSet(b) = {}
  BY PTL DEF StoreFacts!NoChunkLost
<1>. HIDE DEF Chains, Facts
<1>6. UNION {Store!ToSet(chain) : chain \in Chains} = UNION {StoreFacts!ToSet(chain) : chain \in Facts}
  BY <1>2, <1>3
<1>7. Store!NoChunkLost <=> StoreFacts!NoChunkLost
  BY <1>2, <1>3, <1>4, <1>5, <1>6
<1>. QED  BY <1>1, <1>7

LEMMA BookChecksSame ==
  /\ Book!LevelTotalsExact <=> BookFacts!LevelTotalsExact
  /\ Book!StoredIds = BookFacts!StoredIds
<1>1. Book!Side = BookFacts!Side /\ Book!Price = BookFacts!Price
  BY DEF Book!Side, BookFacts!Side, Book!Price, BookFacts!Price, Book!PriceOk, BookFacts!PriceOk
<1>2. \A f : Book!SumFunction(f) = BookFacts!SumFunction(f)
  BY DEF Book!SumFunction, BookFacts!SumFunction, Book!FoldFunction, BookFacts!FoldFunction,
         Book!SumFunctionOnSet, BookFacts!SumFunctionOnSet,
         Book!FoldFunctionOnSet, BookFacts!FoldFunctionOnSet, Book!MapThenFoldSet, BookFacts!MapThenFoldSet
<1>3. \A q : Book!QueueQty(q) = BookFacts!QueueQty(q)
  BY <1>2, Zenon DEF Book!QueueQty, BookFacts!QueueQty
<1>4. Book!LevelTotalsExact <=> BookFacts!LevelTotalsExact
  BY <1>1, <1>3 DEF Book!LevelTotalsExact, BookFacts!LevelTotalsExact
<1>5. Book!StoredIds = BookFacts!StoredIds
  <2>1. \A side, p : Book!IdsAt(side, p) = BookFacts!IdsAt(side, p)
    BY Zenon DEF Book!IdsAt, BookFacts!IdsAt, Book!IdsOf, BookFacts!IdsOf
  <2>2. \A x : x \in Book!StoredIds <=> x \in BookFacts!StoredIds
    BY <1>1, <2>1 DEF Book!StoredIds, BookFacts!StoredIds
  <2>. QED  BY <2>2
<1>. QED  BY <1>4, <1>5

\* Between commands the locations a lookup finds are all there are.
LEMMA LocationsExact ==
  ASSUME Inv, Ready
  PROVE  Store!LocsExact
<1>1. Away = {} /\ Map!Quiet
  BY DEF Inv, TakerSound, Replacing, Working, Ready
<1>2. \A k : k \in {x \in OrderId : Known(x)} <=> k \in Resting
  BY <1>1, Lookup, Counts DEF Inv, Resting, Stored
<1>3. {x \in OrderId : Known(x)} = Resting
  BY <1>2
<1>4. \A k \in Resting : LocOf(k) = MapFacts!Dict[k]
  BY <1>1, <1>2, Lookup DEF Inv, LocAt
<1>5. [id \in {k \in OrderId : Known(k)} |-> LocOf(id)] = Locs
  BY <1>3, <1>4 DEF Locs
<1>6. \A c : Store!LiveSlots(c) = StoreFacts!LiveSlots(c)
  BY Zenon DEF Store!LiveSlots, StoreFacts!LiveSlots, Store!SlotIndex, StoreFacts!SlotIndex,
               Store!Dead, StoreFacts!Dead
<1>7. StoreFacts!LocsExact
  BY DEF Inv, StoreFacts!StoreInv
<1>. QED  BY <1>5, <1>6, <1>7, Zenon
          DEF Store!LocsExact, StoreFacts!LocsExact, Locs, Store!ChunkIndex, StoreFacts!ChunkIndex,
              Store!Dead, StoreFacts!Dead

\* Between two commands, whatever the commands before did to chunks, slots
\* and table, the lists are well linked with true headers, the totals right
\* modulo the width, every live slot is found where it is, and nothing is lost
\* or left over: what check_invariants asserts of store and map.
THEOREM StructuresAgree == Spec => []StoreAndMapAgree
<1>1. Inv /\ BookSound => StoreAndMapAgree
  <2>. SUFFICES ASSUME Inv, BookSound, Ready
                PROVE  /\ live = len /\ live <= MaxOrders
                       /\ Store!ListsSound
                       /\ Store!LocsExact
                       /\ Book!LevelTotalsExact
                       /\ live = Cardinality(Book!StoredIds)
                       /\ Store!NoChunkLost
    BY DEF StoreAndMapAgree
  <2>1. live = len /\ live <= MaxOrders
    BY Counts, ConfigAssumption DEF Inv, TakerSound, Replacing, Working, Ready
  <2>2. StoreFacts!ListsSound /\ StoreFacts!NoChunkLost
    BY Sizes, StoreTerms, IdAssumption, QtyAssumption, SeqAssumption, PriceAssumption,
       ConfigAssumption, StoreFacts!ListsSoundNow, StoreFacts!NoChunkLostNow DEF Inv
  <2>3. BookFacts!CapacityRespected
    BY FactsTerms, IdAssumption, QtyAssumption, SeqAssumption, PriceAssumption,
       ConfigAssumption, BookFacts!CapacityNow DEF BookSound
  <2>4. live = Cardinality(Book!StoredIds)
    BY <2>3, BookChecksSame, FactsTerms DEF BookFacts!CapacityRespected
  <2>. QED  BY <2>1, <2>2, <2>4, StoreChecksSame, BookChecksSame, LocationsExact DEF BookSound
<1>. QED  BY <1>1, StructuresInvariant, SoundAlways, PTL
=============================================================================
