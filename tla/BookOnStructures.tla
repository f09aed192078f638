-------------------------- MODULE BookOnStructures --------------------------
(***************************************************************************)
(* The order book on its real structures: the handlers of src/book.rs over *)
(* the chunk lists of src/store.rs and the open-addressed map of           *)
(* src/ordermap.rs.  Orders are reached through the locations the map      *)
(* holds, a removal shifts entries one slot at a time before the handler   *)
(* goes on, and a replace keeps its map slot across the fills in between.  *)
(*                                                                         *)
(* Store and Map are the two structures.  Book is OrderBook with its       *)
(* queues, totals and map read off them, the map by probing: what a        *)
(* handler that asks the book gets to see.  This module is checked to      *)
(* implement OrderBook.                                                    *)
(***************************************************************************)
EXTENDS BookTypes, SequencesExt, FiniteSetsExt

CONSTANTS
  ChunkSlots,                      \* of ChunkStore
  Cap, Home(_), TagOf(_), RemovesWrap,  \* of OrderMap
  Client                           \* the commands that may be submitted

\* The constructor sizes the map to at least twice max_orders, never full;
\* a location is a chunk and a slot.
ASSUME StructuresAssumption ==
  /\ ChunkSlots \in Nat \ {0}
  /\ Cap \in Nat /\ MaxOrders < Cap
  /\ RemovesWrap \in Nat /\ MaxOrders < RemovesWrap
  /\ \A id \in OrderId : Home(id) \in 0 .. Cap - 1 /\ TagOf(id) \in Nat \ {0}
  /\ Client \subseteq NewCommand \cup CancelCommand \cup ReplaceCommand

VARIABLES
  chunks, used, free, live, levels,          \* OrderBook.store, bids and asks
  tags, entries, len, removes, shift, held,  \* OrderBook.map
  taker, seq,                                \* as in OrderBook
  from                                       \* where the order being replaced rested

storeVars == <<chunks, used, free, live, levels>>
mapVars   == <<tags, entries, len, removes, shift, held>>
vars      == <<storeVars, mapVars, taker, seq, from>>

Idle    == [cmd |-> "none"]
Nowhere == [side |-> "none"]

Map == INSTANCE OrderMap
         WITH Key <- OrderId, Val <- (0 .. MaxOrders) \X (0 .. ChunkSlots - 1),
              LiveMax <- MaxOrders

\* OrderMap::get
Known(id) == Map!Found(id)
LocOf(id) == entries[CHOOSE i \in Map!Slot : Map!FoundAt(id, i)].val

Store == INSTANCE ChunkStore
           WITH Offered <- {},
                locs <- [id \in {k \in OrderId : Known(k)} |-> LocOf(id)]

\* The level a location belongs to; the chunk of an order out of the book may
\* belong to another level by now.
LevelOf(id, loc) ==
  IF taker # Idle /\ taker.cmd = "replace" /\ taker.id = id THEN from
  ELSE [side |-> chunks[loc[1]].side, price |-> chunks[loc[1]].price]

Queues == [side \in Side |-> [p \in Price |-> Store!Queue(side, p)]]
Totals == [side \in Side |-> [p \in Price |-> levels[side][p].total]]

Ignored(s, n, event) == s

KnownLevels == [id \in {k \in OrderId : Known(k)} |-> LevelOf(id, LocOf(id))]

Book == INSTANCE OrderBook
          WITH queue <- Queues, total <- Totals, map <- KnownLevels,
               sink <- 0, Sink0 <- 0, OnEvent <- Ignored

----------------------------------------------------------------------------
\* Handlers.  The writer begins or goes on only when the loop of a removal
\* has ended.

Ready == taker = Idle /\ Map!Quiet

Tell(n) == seq' = (seq + n) % SeqWrap

Rejection(c) ==
  CASE c.cmd = "new" -> Book!NewRejection(c)
    [] c.cmd = "cancel" -> Book!CancelRejection(c)
    [] c.cmd = "replace" -> Book!ReplaceRejection(c)

Reject(c) ==
  /\ Ready
  /\ Rejection(c) # "none"
  /\ Tell(1)
  /\ UNCHANGED <<storeVars, mapVars, taker, from>>

Admitted(c, cmd) == Ready /\ c.cmd = cmd /\ Rejection(c) = "none"

New(c) ==
  /\ Admitted(c, "new")
  /\ taker' = [cmd |-> "new", id |-> c.id, side |-> c.side, bound |-> c.otype = "limit",
               price |-> c.price, tif |-> c.tif, qty |-> c.qty]
  /\ UNCHANGED <<storeVars, mapVars, seq, from>>

Cancel(c) ==
  /\ Admitted(c, "cancel")
  /\ Store!Kill(LocOf(c.id))
  /\ Map!Leave(c.id)
  /\ Tell(1)
  /\ UNCHANGED <<taker, from>>

\* old_price and old_qty are read at the location.
KeepsPriority(c) ==
  LET loc == LocOf(c.id)
  IN  c.price = chunks[loc[1]].price /\ c.qty <= Store!SlotAt(loc).qty

ReplaceInPlace(c) ==
  /\ Admitted(c, "replace")
  /\ KeepsPriority(c)
  /\ Store!Lower(LocOf(c.id), c.qty)
  /\ Tell(1)
  /\ UNCHANGED <<mapVars, taker, from>>

ReplaceAndCross(c) ==
  LET loc == LocOf(c.id)
  IN  /\ Admitted(c, "replace")
      /\ ~KeepsPriority(c)
      /\ Map!BeginReplace(c.id)
      /\ Store!Kill(loc)
      /\ from' = [side |-> chunks[loc[1]].side, price |-> chunks[loc[1]].price]
      /\ taker' = [cmd |-> "replace", id |-> c.id, side |-> chunks[loc[1]].side,
                   bound |-> TRUE, price |-> c.price, tif |-> Store!SlotAt(loc).tif,
                   qty |-> c.qty]
      /\ UNCHANGED seq

\* One maker of cross.
Fill(p) ==
  LET opp == Opposite(taker.side)
  IN  /\ taker # Idle
      /\ Map!Quiet
      /\ taker.qty > 0
      /\ Book!IsBest(opp, p)
      /\ Book!Acceptable(p)
      /\ LET maker == Store!SlotAt(Store!Oldest(opp, p))
             q     == MinQty(taker.qty, maker.qty)
         IN  /\ Store!Give(opp, p, q)
             /\ taker' = [taker EXCEPT !.qty = @ - q]
             /\ IF maker.qty = q
                THEN Map!Leave(maker.id) /\ Tell(2)
                ELSE UNCHANGED mapVars /\ Tell(1)
      /\ UNCHANGED from

CommandOver == taker' = Idle /\ from' = Nowhere /\ Tell(1)

CloseFilled ==
  /\ taker # Idle
  /\ Map!Quiet
  /\ taker.qty = 0
  /\ IF taker.cmd = "replace" THEN Map!ReplaceFilled ELSE UNCHANGED mapVars
  /\ CommandOver
  /\ UNCHANGED storeVars

\* Mutant: the slot found before the fills is written to whatever happened.
RestRemainderHeld ==
  LET loc == Store!PushLoc(taker.side, taker.price)
  IN  /\ Map!Quiet
      /\ Book!Exhausted
      /\ Book!RestsRemainder
      /\ Store!Stow(taker.side, taker.price,
                    [id |-> taker.id, qty |-> taker.qty, tif |-> taker.tif])
      /\ IF taker.cmd = "new" THEN Map!Rest(taker.id, loc)
         ELSE /\ entries' = [entries EXCEPT ![held.slot].val = loc]
              /\ held' = Map!NoReplace
              /\ UNCHANGED <<tags, len, removes, shift>>
      /\ CommandOver

\* The map gets the new location: as a new key, or in one of replace's two
\* ways.
RestRemainder ==
  LET loc == Store!PushLoc(taker.side, taker.price)
  IN  /\ Map!Quiet
      /\ Book!Exhausted
      /\ Book!RestsRemainder
      /\ Store!Stow(taker.side, taker.price,
                    [id |-> taker.id, qty |-> taker.qty, tif |-> taker.tif])
      /\ IF taker.cmd = "new" THEN Map!Rest(taker.id, loc)
                              ELSE Map!WriteThrough(loc) \/ Map!WriteAgain(loc)
      /\ CommandOver

Expire ==
  /\ Map!Quiet
  /\ Book!Exhausted
  /\ ~Book!RestsRemainder
  /\ CommandOver
  /\ UNCHANGED <<storeVars, mapVars>>

\* The loop of OrderMap::remove, inside the handler that called it.
TidyMap ==
  /\ Map!Shift
  /\ UNCHANGED <<storeVars, taker, seq, from>>

----------------------------------------------------------------------------
\* The specification

Init ==
  /\ Map!Init
  /\ Store!Init
  /\ taker = Idle
  /\ seq = 0
  /\ from = Nowhere

Continue ==
  \/ \E p \in Price : Fill(p)
  \/ CloseFilled
  \/ RestRemainder
  \/ Expire
  \/ TidyMap

Next ==
  \/ \E c \in Client : Reject(c)
  \/ \E c \in Client : New(c)
  \/ \E c \in Client : Cancel(c)
  \/ \E c \in Client : ReplaceInPlace(c)
  \/ \E c \in Client : ReplaceAndCross(c)
  \/ Continue

Spec == Init /\ [][Next]_vars

----------------------------------------------------------------------------
\* Properties

\* Between commands store and map agree: every list is well linked with its
\* headers right, every level's total is the sum of its orders modulo the
\* width, every live slot is found by the map exactly where it is, and no
\* chunk or entry is over.  It is what OrderBook::check_invariants, which the
\* tests and the fuzzer call, asserts of these two structures.  Two things are
\* not in it: the ladder's bits and level count (BitmapExact of LadderIndex),
\* and that the plain u64 sum of that function does not overflow, which no
\* handler sees to.
StoreAndMapAgree ==
  Ready =>
    /\ live = len /\ live <= MaxOrders
    /\ Store!ListsSound
    /\ Store!LocsExact
    /\ Book!LevelTotalsExact
    /\ live = Cardinality(Book!StoredIds)
    /\ Store!NoChunkLost

\* What the map holds in the middle of a removal, too.
StoredLevels ==
  [id \in Map!Stored |-> LevelOf(id, entries[CHOOSE i \in Map!Slot : Map!Holds(i, id)].val)]

Abstract == INSTANCE OrderBook
              WITH queue <- Queues, total <- Totals, map <- StoredLevels,
                   sink <- 0, Sink0 <- 0, OnEvent <- Ignored

\* The structures together are the book that is specified and proved on
\* queues and a function: each handler does one step of OrderBook and the
\* loop of a removal is not seen.
ImplementsOrderBook ==
  /\ Abstract!Init
  /\ [][Abstract!Continue \/ \E c \in Client : Abstract!Handle(c)]_<<Abstract!vars>>
=============================================================================
