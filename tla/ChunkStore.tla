----------------------------- MODULE ChunkStore -----------------------------
(***************************************************************************)
(* The order store (src/store.rs and the slot walk of OrderBook::cross):   *)
(* every price level is a doubly linked list of chunks, every chunk holds  *)
(* ChunkSlots slots filled from the front, a dead slot has quantity zero,  *)
(* and a chunk whose last live slot dies goes to the free list.  A         *)
(* location <<chunk, slot>> never changes while the order rests: the order *)
(* map keeps it, and cancel and replace reach the order through it.        *)
(*                                                                         *)
(* The actions are the uses the book makes of the store.  Inserting and    *)
(* dropping price levels (PriceIndex) is abstracted: a level exists iff    *)
(* its list is not empty.  A dead slot keeps its old id in the code; it is *)
(* forgotten here, so any use of it would be an error.                     *)
(***************************************************************************)
EXTENDS BookTypes, SequencesExt

CONSTANTS
  ChunkSlots,  \* CHUNK_SLOTS
  Offered      \* the orders the book may push

Order == [id: OrderId, qty: Qty \ {0}, tif: {"gtc", "post_only"}]

ASSUME StoreAssumption == ChunkSlots \in Nat \ {0} /\ Offered \subseteq Order

VARIABLES
  chunks,  \* Store.chunks
  used,    \* Store.used: chunks[0 .. used-1] have been handed out
  free,    \* Store.free_chunk: head of the free list, linked by next
  live,    \* Store.live
  levels,  \* levels[side][price]: the Level, empty iff its head is Nil
  locs     \* id -> location: what the order map keeps of the returned locs

storeVars == <<chunks, used, free, live, levels, locs>>

Nil == -1

\* One chunk more than max_orders, so that running out would be seen.
ChunkIndex == 0 .. MaxOrders
SlotIndex  == 0 .. ChunkSlots - 1

Dead == [qty |-> 0]

Chunk == [price: Price \cup {0}, side: Side, prev: ChunkIndex \cup {Nil},
          next: ChunkIndex \cup {Nil}, head: 0 .. ChunkSlots, tail: 0 .. ChunkSlots,
          live: 0 .. ChunkSlots, s: [SlotIndex -> Order \cup {Dead}]]

EmptyChunk == [price |-> 0, side |-> "bid", prev |-> Nil, next |-> Nil, head |-> 0,
               tail |-> 0, live |-> 0, s |-> [i \in SlotIndex |-> Dead]]

EmptyLevel == [head |-> Nil, tail |-> Nil, total |-> 0]

Init ==
  /\ chunks = [c \in ChunkIndex |-> EmptyChunk]
  /\ used = 0
  /\ free = Nil
  /\ live = 0
  /\ levels = [side \in Side |-> [p \in Price |-> EmptyLevel]]
  /\ locs = << >>

----------------------------------------------------------------------------
\* Mutant: freed chunks are never used again.
AllocFresh == used

\* Store::alloc_chunk: the free list first.  Header reset, slots not.
AllocChunk == IF free # Nil THEN free ELSE used

Opened(c, side, p, prev) ==
  [chunks[c] EXCEPT !.price = p, !.side = side, !.prev = prev, !.next = Nil,
                    !.head = 0, !.tail = 0, !.live = 0]

NeedsChunk(level) == level.tail = Nil \/ chunks[level.tail].tail = ChunkSlots

\* Mutant: the slot is chosen by the number of live slots, not by tail.
PushLocAtLive(side, p) ==
  LET level == levels[side][p]
  IN  IF NeedsChunk(level) THEN <<AllocChunk, 0>> ELSE <<level.tail, chunks[level.tail].live>>

\* Where the next order of a level goes: behind the last one.
PushLoc(side, p) ==
  LET level == levels[side][p]
  IN  IF NeedsChunk(level) THEN <<AllocChunk, 0>> ELSE <<level.tail, chunks[level.tail].tail>>

\* Store::push
Stow(side, p, order) ==
  LET level  == levels[side][p]
      fresh  == NeedsChunk(level)
      c      == PushLoc(side, p)[1]
      slot   == PushLoc(side, p)[2]
      linked == IF ~fresh THEN chunks
                ELSE [k \in ChunkIndex |->
                        IF k = c THEN Opened(c, side, p, level.tail)
                        ELSE IF k = level.tail THEN [chunks[k] EXCEPT !.next = c]
                        ELSE chunks[k]]
  IN  /\ chunks' = [linked EXCEPT ![c].tail = @ + 1, ![c].live = @ + 1, ![c].s[slot] = order]
      /\ free' = IF fresh /\ free # Nil THEN chunks[free].next ELSE free
      /\ used' = IF fresh /\ free = Nil THEN used + 1 ELSE used
      /\ levels' = [levels EXCEPT
                      ![side][p] = [head  |-> IF level.tail = Nil THEN c ELSE level.head,
                                    tail  |-> c,
                                    total |-> (level.total + order.qty) % QtyWrap]]
      /\ live' = live + 1

\* A push as the book does it, behind the checks of new_order.
Push(side, p, order) ==
  /\ live < MaxOrders
  /\ order.id \notin DOMAIN locs
  /\ Stow(side, p, order)
  /\ locs' = [id \in DOMAIN locs \cup {order.id} |->
                IF id = order.id THEN PushLoc(side, p) ELSE locs[id]]

\* Mutant: the dropped chunk is not linked to the rest of the free list.
FreedAlone(chunk) == [chunk EXCEPT !.next = Nil]

Freed(chunk) == [chunk EXCEPT !.next = free]

\* Mutant: the next chunk still points back at the dropped one.
NotRelinked(chunk, prev) == chunk

Relinked(chunk, prev) == [chunk EXCEPT !.prev = prev]

\* Store::drop_chunk: chunk c leaves the list of its level for the free list.
Spliced(c, after) ==
  LET prev == after[c].prev
      next == after[c].next
  IN  [k \in ChunkIndex |->
         IF k = c THEN Freed(after[c])
         ELSE IF k = prev THEN [after[k] EXCEPT !.next = next]
         ELSE IF k = next THEN Relinked(after[k], prev)
         ELSE after[k]]

Shortened(level, c, after) ==
  [level EXCEPT !.head = IF after[c].prev = Nil THEN after[c].next ELSE @,
                !.tail = IF after[c].next = Nil THEN after[c].prev ELSE @]

\* Mutant: the chunk is dropped with one live slot left.
NearlySpent(chunk) == chunk.live <= 1

Spent(chunk) == chunk.live = 0

\* An order of chunk c is gone and q is off the level total;
\* after is the store with the slot already marked dead.
Bury(c, level, q, after) ==
  LET side == after[c].side
      p    == after[c].price
      rest == [level EXCEPT !.total = (@ - q) % QtyWrap]
      dead == Spent(after[c])
  IN  /\ chunks' = IF dead THEN Spliced(c, after) ELSE after
      /\ levels' = [levels EXCEPT ![side][p] = IF dead THEN Shortened(rest, c, after) ELSE rest]
      /\ free' = IF dead THEN c ELSE free
      /\ live' = live - 1
      /\ UNCHANGED used

Forget(id) == locs' = [other \in DOMAIN locs \ {id} |-> locs[other]]

SlotAt(loc) == chunks[loc[1]].s[loc[2]]

\* Store::unlink
Kill(loc) ==
  LET c == loc[1]
  IN  Bury(c, levels[chunks[c].side][chunks[c].price], SlotAt(loc).qty,
           [chunks EXCEPT ![c].s[loc[2]] = Dead, ![c].live = @ - 1])

\* Reached from cancel and replace through the order map.
Unlink(id) == Kill(locs[id]) /\ Forget(id)

\* Mutant: the newest order of the chunk is hit.
BackSlot(c) ==
  CHOOSE h \in chunks[c].head .. ChunkSlots - 1 :
    /\ chunks[c].s[h] # Dead
    /\ \A i \in h + 1 .. ChunkSlots - 1 : chunks[c].s[i] = Dead

\* The slot cross stops at: the first live one of the head chunk.
FrontSlot(c) ==
  CHOOSE h \in chunks[c].head .. ChunkSlots - 1 :
    /\ chunks[c].s[h] # Dead
    /\ \A i \in chunks[c].head .. h - 1 : chunks[c].s[i] = Dead

\* The oldest order of a level.
Oldest(side, p) == <<levels[side][p].head, FrontSlot(levels[side][p].head)>>

\* One maker of OrderBook::cross gives up q to the taker.
Give(side, p, q) ==
  LET c == Oldest(side, p)[1]
      h == Oldest(side, p)[2]
  IN  IF SlotAt(<<c, h>>).qty = q
      THEN Bury(c, levels[side][p], q,
                [chunks EXCEPT ![c].head = h, ![c].s[h] = Dead, ![c].live = @ - 1])
      ELSE /\ chunks' = [chunks EXCEPT ![c].head = h, ![c].s[h].qty = @ - q]
           /\ levels' = [levels EXCEPT ![side][p].total = (@ - q) % QtyWrap]
           /\ UNCHANGED <<used, free, live>>

TakeFront(side, p, q) ==
  /\ levels[side][p].head # Nil
  /\ LET maker == SlotAt(Oldest(side, p))
     IN  /\ q \in 1 .. maker.qty
         /\ Give(side, p, q)
         /\ IF maker.qty = q THEN Forget(maker.id) ELSE UNCHANGED locs

\* Mutant: the level total is not adjusted.
LowerKeepsTotal(loc, q) ==
  /\ chunks' = [chunks EXCEPT ![loc[1]].s[loc[2]].qty = q]
  /\ UNCHANGED <<used, free, live, levels>>

\* OrderBook::replace, the branch that keeps priority.
Lower(loc, q) ==
  LET c == loc[1]
  IN  /\ chunks' = [chunks EXCEPT ![c].s[loc[2]].qty = q]
      /\ levels' = [levels EXCEPT ![chunks[c].side][chunks[c].price].total =
                      (@ - (SlotAt(loc).qty - q)) % QtyWrap]
      /\ UNCHANGED <<used, free, live>>

Reduce(id, q) ==
  /\ q \in 1 .. SlotAt(locs[id]).qty
  /\ Lower(locs[id], q)
  /\ UNCHANGED locs

Next ==
  \/ \E side \in Side, p \in Price, order \in Offered : Push(side, p, order)
  \/ \E id \in DOMAIN locs : Unlink(id)
  \/ \E side \in Side, p \in Price, q \in Qty : TakeFront(side, p, q)
  \/ \E id \in DOMAIN locs, q \in Qty : Reduce(id, q)

Spec == Init /\ [][Next]_storeVars

----------------------------------------------------------------------------
\* Properties

TypeOK ==
  /\ chunks \in [ChunkIndex -> Chunk]
  /\ used \in 0 .. MaxOrders
  /\ free \in ChunkIndex \cup {Nil}
  /\ live \in 0 .. MaxOrders
  /\ levels \in [Side -> [Price -> [head: ChunkIndex \cup {Nil}, tail: ChunkIndex \cup {Nil},
                                    total: Qty]]]
  /\ DOMAIN locs \subseteq OrderId
  /\ locs \in [DOMAIN locs -> ChunkIndex \X SlotIndex]

\* The chunks reached from c by next links, in order.
ChainFrom(c) ==
  LET chain[k \in ChunkIndex \cup {Nil}] ==
        IF k = Nil THEN << >> ELSE <<k>> \o chain[chunks[k].next]
  IN  chain[c]

LiveSlots(c) == {i \in SlotIndex : chunks[c].s[i] # Dead}

\* The list of every level is well formed (the debug check of the book): it
\* is linked both ways, ends at tail, and each of its chunks belongs to that
\* side and price, has a live slot, counts them right and holds them between
\* head and tail.
ListsSound ==
  \A side \in Side, p \in Price :
    LET level == levels[side][p]
        chain == ChainFrom(level.head)
    IN  /\ level.tail = IF chain = << >> THEN Nil ELSE Last(chain)
        /\ \A n \in DOMAIN chain :
             LET c == chunks[chain[n]]
             IN  /\ c.side = side /\ c.price = p
                 /\ c.prev = IF n = 1 THEN Nil ELSE chain[n - 1]
                 /\ c.live = Cardinality(LiveSlots(chain[n]))
                 /\ c.live > 0
                 /\ LiveSlots(chain[n]) \subseteq c.head .. c.tail - 1

\* A location handed out stays good: it leads to the order it was given for
\* until that order leaves, whatever happens to its neighbours and chunks.
LocsExact ==
  /\ \A id \in DOMAIN locs :
       LET slot == chunks[locs[id][1]].s[locs[id][2]]
       IN  slot # Dead /\ slot.id = id
  /\ \A c \in ChunkIndex : \A i \in LiveSlots(c) : locs[chunks[c].s[i].id] = <<c, i>>

\* Every chunk ever handed out is in exactly one level or in the free list,
\* none is lost or shared, and those in use are no more than the live
\* orders: alloc_chunk cannot run past max_orders chunks.
NoChunkLost ==
  LET chains == {ChainFrom(levels[s][p].head) : s \in Side, p \in Price}
      freed  == ChainFrom(free)
      inUse  == UNION {ToSet(chain) : chain \in chains}
  IN  /\ inUse \cup ToSet(freed) = 0 .. used - 1
      /\ inUse \cap ToSet(freed) = {}
      /\ Cardinality(inUse) <= live
      /\ \A a, b \in chains : a # b => ToSet(a) \cap ToSet(b) = {}

\* A chunk is reused without clearing its slots: every chunk on the free
\* list, or never used, holds only dead ones.
FreeChunksDead ==
  \A c \in ToSet(ChainFrom(free)) \cup (used .. MaxOrders) : LiveSlots(c) = {}

\* The orders of a level, oldest first: Store::iter_level.
OrdersOf(c) ==
  [n \in 1 .. Cardinality(LiveSlots(c)) |-> chunks[c].s[Nth(LiveSlots(c), n)]]

Queue(side, p) ==
  LET chain == ChainFrom(levels[side][p].head)
  IN  FlattenSeq([n \in DOMAIN chain |-> OrdersOf(chain[n])])

Contract == INSTANCE LevelQueues
              WITH queue <- [side \in Side |-> [p \in Price |-> Queue(side, p)]],
                   total <- [side \in Side |-> [p \in Price |-> levels[side][p].total]],
                   live  <- live

\* The store is the queues the book is written against: a push goes to the
\* back, one order at a time leaves or shrinks, and nothing else moves.
ImplementsLevelQueues == Contract!QueueSpec

\* And a fill hits the order that has waited longest at its price, through
\* dead slots and chunks freed around it, for as much as the book asked.
FillsHitOldest ==
  [][\A side \in Side, p \in Price, q \in Qty :
       TakeFront(side, p, q) => Contract!TakeFront(side, p, q)]_storeVars
=============================================================================
