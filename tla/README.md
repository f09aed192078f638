# TLA+ models of the matching engine

This directory holds TLA+ models of the limit-order-book matching engine in
`src/`, the TLC configurations that check them on small instances, and proofs
checked by TLAPS. The reference is the Rust code; `spec/SPEC.md` and the
comments of the code are used only as statements the code can be held to.

    tlc -config Book.cfg MCBook                # check one run
    tlapm OrderBookProofs.tla                  # check one module of proofs

`PROJECT.json` lists the runs, the lines each definition stands for, the
hazards each property is aimed at, and a mutation of the model for each
property that makes TLC find it violated.

## 1. The system

One process, one writer per book. A client hands commands (new, cancel,
replace) to a book, directly or through the multi-symbol engine; the book
changes its state and calls a sink once per event. There is no internal
concurrency outside the benchmark: what makes the program hard is that one command is a long chain
of mutations of four linked structures, with a call out to the sink between
them, and that three of the structures keep positions into one another.

| component | state | operations | talks to |
|---|---|---|---|
| order book, `src/book.rs` | store, two price indexes, order map, `seq` | `new_order`, `cancel`, `replace`, `cross`, `restore`, queries | calls the other four and the sink |
| order store, `src/store.rs` | chunks of 6 slots in doubly linked lists per level, free list, `live`, level totals | `push`, `unlink`, `drop_chunk`, `alloc_chunk`, the slot walk of `cross` | returns locations the map keeps |
| order map, `src/ordermap.rs` | open-addressed table, linear probing, backward-shift deletion, removal counter | `insert`, `find`, `remove`, `set_val_at` | `replace` keeps a slot of it across `cross` |
| ladder index, `src/index.rs` | levels by price, bitmap, summary, count, cursor | `level_insert`, `unlink_level`, `rescan`, `sum_range`, `depth` | the book's best price, sums |
| tree index, `src/index.rs` | `BTreeMap` of levels | the same interface | the same |
| sinks, `src/sink.rs` | what each keeps of the stream | `on_event` | called inside commands |
| commands and events, `src/types.rs` | none | data, canonical text | everywhere |
| engine, `src/engine.rs` | symbol to book, default configuration | `submit`, `add_symbol` | creates books lazily |
| journals, `src/journal.rs` | two append-only files | `record` before apply, `JournalSink` in the sink | file system |
| snapshot, `src/snapshot.rs` | none | `write_book`, `write_engine`, `parse`, `restore_engine` | `OrderBook::restore` |
| line reader, `src/jsonflat.rs` | none | field lookup, `parse_command` | recovery |
| benchmark, `src/bin/matcher_bench.rs` | `ready`, `go`, a book per thread | `scale_mode` and two sequential modes | books, worker threads |
| vector generator, `tools/vectorgen/` | next id, ids believed to rest | five workloads | the command files the benchmark replays |
| tools, `src/bin/` | none | run, snapshot, recover, fuzz | all of the above |

What is hard in it, and the property that answers to it:

- **A replace is out of the book and in the map.** Between leaving its queue
  and resting again the order trades, maker entries are removed from the map
  around its own, and its location points at a dead slot, of a chunk that may be
  freed and reopened by then (`book.rs:258-302`). `MapLocatesOrders`,
  `CapacityRespected`, `HeldSlotValid`, `FeedMatchesBook`, `ImplementsOrderBook`.
- **Checks before matching, effects after.** post-only and fill-or-kill are
  decided on the state before the walk (`book.rs:147-157`), book-full while the
  taker holds no slot. `PostOnlyNeverTakes`, `FokNeverPartial`,
  `FokRefusalJustified`, `CapacityRespected`.
- **Resting without looking.** A remainder rests because `cross` ended, and
  `restore` inserts without matching. `BookNeverCrossed`.
- **Order of events.** The fill before its consequence, no gap in `seq`, for
  several makers in one command. `FeedNeverMisled`, `FeedMatchesBook`.
- **Time priority** through in-place reductions, dead slots and several
  chunks. `ImplementsPriceTimePriority`, `FillsHitOldest`.
- **Loops without a bound of their own**: `cross`, a probe, the backward
  shift. `CommandEnds`, `ProbesEnd`, `ShiftEnds`.
- **Structures that point at each other**: chunk lists and free list
  (`ListsSound`, `NoChunkLost`, `FreeChunksDead`, `LocsExact`), hash chains
  (`LookupFindsStored`), bitmap, summary and cursor (`BitmapExact`,
  `BestExact`, `SumRangeExact`).
- **u64 sums that wrap**: `LevelTotalsExact` and the fill-or-kill properties.
- **Crash and recovery**: command journal before apply, events as they are
  emitted, snapshots between commands, a torn last line. `StreamContinues`,
  `SnapshotRoundTrip`, `ReplaysWhatWasSubmitted`.
- **Many books, one writer, one configuration in the snapshot**: the same ids
  live on several books, books come into being on the way, and a restart puts
  every book under the default configuration. `RoutingAddsNoSemantics`,
  `DefaultBooksRestore`.
- **Threads that wait for each other**: `TimedTogether`,
  `RepOutlivesItsWorkers`, `BenchmarkEnds`.
- **A generator that does not simulate the book it feeds**: `LiveIdsExact`.

## 2. The modules

    BookTypes                     the vocabulary: types.rs, BookConfig
      +- LevelQueues              the store's promise: FIFO queues and totals
      |    +- OrderBook           the book: every handler, the walk, the events
      |         +- PTPRefinement  ... implements PriceTimePriority
      |         +- BookWithFeed   ... with FeedSink plugged into its sink
      |         +- Generator      ... fed by the corpus generator
      |         +- Snapshots      ... written out and restored
      |         |    +- Recovery  ... with journals and crashes
      |         |    +- Engine    ... one book per symbol, restarts
      |         |         +- EngineRouting  ... seen from one of the symbols
      |         +- OrderBookProofs        the book alone, and a restored one
      |              +- BookPromisesProofs  client, consumer, Recovery
      |              +- EngineProofs        Engine and EngineRouting
      +- ChunkStore               the chunk lists, implement LevelQueues
      |    +- ChunkStoreProofs
      +- BookOnStructures         the book on ChunkStore and OrderMap,
      |    |                      implements OrderBook
      |    +- StructuresProofs    from the three proof modules of the parts
      +- PriceTimePriority        what a client is promised
      +- FeedSink                 a consumer of the event stream
    Dictionary                    the map's promise
      <- OrderMap                 the hash table, implements Dictionary
           +- OrderMapProofs
    LadderIndex                   bitmap, summary and cursor
    ScaleBarrier                  the benchmark's threads
      <- LadderAndBenchProofs     both, which share no state with the rest
    BasicFacts                    lemmas on numbers, sets and sums for the proofs

The book is modelled on the *promises* of the store (`LevelQueues`), the map (a
function) and the index (the best occupied level, a sum over a range); the
structures that keep those promises have modules of their own. For the store
and the map the promise is a specification and the structure is checked to
implement it; for the ladder the promise is stated directly, as `BestExact`,
`BitmapExact` and `SumRangeExact`. `BookOnStructures` puts the handlers on the
two structures at once and is checked to implement the book.

**OrderBook** (`src/book.rs`). `queue`, `total`, `live` are the store, `map`
the order map with the level a location lies in, `seq` the event counter,
`sink` the state of whatever sink is plugged in. `taker` is the writer's
position inside a command that matches: `Idle`, or the order being worked.
Each action is what the code does between two calls of the sink that can have
more work after them:

| action | code |
|---|---|
| `RejectNew`, `RejectCancel`, `RejectReplace` | the early returns, in their order, `reject` |
| `New(c)` | `new_order` up to `cross` |
| `Cancel(c)` | `cancel` whole |
| `ReplaceInPlace(c)` | `replace`, same price and no larger quantity |
| `ReplaceAndCross(c)` | `replace` up to `cross`: unlinks, keeps the map entry |
| `Fill(p)` | one maker of `cross`: the trade, and when the maker is exhausted its removal and close |
| `CloseFilled` | the taker is filled: removes the map entry a replaced order has |
| `RestRemainder` | `rest`, and the tail of `replace` |
| `Expire` | market, ioc and what else may not rest |

A market order's price and time-in-force are carried and ignored, as in the
code. The order of an early return matters (a duplicate id at a bad price is
`invalid_price`), so the rejections are a chain of conditions. Both kinds of
index are covered: they differ in which prices are valid.

**LevelQueues** states the four uses the book makes of the store: append,
remove anywhere, fill in front, lower in place. Totals are sums modulo
`QtyWrap`, as in a release build. As a state machine it cannot tell a fill
from a cancel or a reduction of the same order, so that a fill comes from the
front is a property of its own, `FillsHitOldest`.

**ChunkStore** (`src/store.rs`) has the chunks with their headers and slots,
the free list through `next`, and the levels. Slots are not cleared when a
chunk is reused, as in the code. `Unlink` and `Reduce` reach an order through
the location handed out by `Push`; `TakeFront` is the slot walk in `cross`.
The array has one chunk more than `max_orders`, so that running out of chunks
is a state, not an error of evaluation. A dead slot forgets its id; in the
code the id stays behind and is never read.

**OrderMap** (`src/ordermap.rs`) is the table with tags and entries. `find` and
`insert` are single steps, the loop of `remove` is one step per slot
(`StopShift`, `SkipEntry`, `MoveEntry`), which makes its termination a
property. `held` is the slot and removal count that `replace` remembers over a
cross; `WriteThrough` and `WriteAgain` are its two ways to write back. The
callers' discipline is part of the module: an id is inserted after `contains`
said no, a replace in flight is not itself removed by a cancel. `Dictionary`
is what the book relies on: a function from ids to locations, one entry that
may be held for a replace, and removals whose tidying up changes nothing.

**LadderIndex** (`src/index.rs`) has one side's levels, the bitmap, its
summary, the count and the cursor, with `rescan` as the code does it: the rest
of the word, then the words the summary shows, one summary word after
another. `SumRange` masks word by word; `Depth` looks at `n` only after a push.

**BookOnStructures** (`src/book.rs` over `src/store.rs` and
`src/ordermap.rs`) has the variables of both structures and none of the
abstract ones. A handler reads an order through the location it finds by
probing the map (`LocOf`), kills a slot (`Store!Kill`), fills the first live
slot of the head chunk (`Store!Give`), stores a remainder (`Store!Stow`) and
enters, removes or rewrites the key with the actions of `OrderMap`; `replace`
writes back through the held slot or by inserting again, as `removes` decides.
The loop of a removal runs step by step (`TidyMap`) before the handler goes on.
Validation and the best level are those of `OrderBook`, read off the
structures. Under the refinement mapping, queues are the live slots along a
chunk list and the map is what the table stores; each handler is one step of
`OrderBook` and the removal loop is invisible. `from` remembers where the order
being replaced rested, which the code keeps in locals.

**PriceTimePriority** knows no queues: a set of resting orders, the relation
"is ahead of", one order in flight. An order trades only with the best priced
maker it accepts that nobody is ahead of, rests only when nothing acceptable
is left, is taken on as fill-or-kill only when the book can fill it, and keeps
its place only when it gives up quantity. `PTPRefinement` maps the book to it.

**FeedSink** is a consumer that sees the event stream and nothing else. The
book is generic in its sink, like the code, so the consumer is plugged in by
the configuration (`Sink0`, `OnEvent`).

**Snapshots** (`resting_orders`, `restore`, `write_book`): the orders of a
book in book order, what `restore` accepts without a panic (`Restorable`:
capacity, no id twice, a price the index has a level for), and the book it
builds by insertion. The operators take the queues as an argument so that an
engine can write books that are not at work.

**Engine** (`src/engine.rs`, `write_engine`, `restore_engine`). The variables
of `OrderBook` are the book a `submit` holds the mutable borrow of; the others
wait in `books` as records. `Route` is `entry(sym).or_insert_with(new)`,
`Submit1` the handler of that book with that book's configuration, `AddSymbol`
replaces a book whatever was in it, `Restart` writes all books and restores
them with the engine's default configuration, `RestartPanics` is the case in
which one of them is refused. The configuration is the module's own constants,
a second configuration for registered books is an instance of the same
module. The sink is the adaptor of `submit_tagged`.

**EngineRouting** is the engine seen from one symbol, `Watched`, and from the
consumer of its events: the book of that symbol, wherever it is at the moment,
under the variables of `OrderBook`. Nothing is known of `Watched` but that it
is a symbol, so what holds of it holds of each; the run takes one of the two,
which the engine treats alike.

**Generator** (`tools/vectorgen/src/main.rs`): the five workloads with random
choices made nondeterministically, `known` for the ids the generator believes
to rest, and the book that is given the commands.

**ScaleBarrier** (`scale_mode` of `matcher_bench.rs`): the main thread spawns,
spins on `ready`, stores `go`, joins in order; each worker sets up, announces
itself, spins on `go`, runs. The atomics are new in each repetition. A panic in
a worker is left out: a release build aborts, one that unwinds would leave
everybody spinning if it happened in the set-up.

**Recovery** (`src/journal.rs`, `src/snapshot.rs`, `matcherrecover.rs`,
`jsonflat.rs`) puts the book, unchanged, between its two journals. The event
journal is the sink. `Record` appends a command, `Apply` gives the next record
to the book (the same handlers, in service and in a replay), `Proceed` is the
book's `Continue`. `WriteSnapshot` writes the resting orders in book order,
with `seq` and the point where the journal tail begins, which in the program
is in the operator's hands. `Crash` may fall between any two steps, also in
the middle of a command or of a replay; `CrashInRecord` tears the line being
written, and `Torn` says what `parse_command` makes of the rest: nothing it
knows, the whole command (only the brace is missing), or one with a shorter
last number. `Recover` restores by insertion, then the tail is replayed until
`ReplayDone`, or `ReplayFails` at a malformed line. The event stream a crash
interrupted is kept in `before`. Assumed: what was appended is on disk
(`journal.rs` leaves flushing to the caller), a snapshot is whole, and the
tail starts where the snapshot was taken.

## 3. The runs

| run | module, cfg | shows | states |
|---|---|---|---|
| `book` | MCBook, Book | types, never crossed, map, queues, totals and capacity agree at every step, time-in-force checks hold up, the stream never contradicts itself and determines the book, the book implements PriceTimePriority | 63 thousand |
| `fok_wrap` | MCOrderBook, FokWrap | finding 1, a counterexample | |
| `store` | MCChunkStore, Store | lists sound, no chunk lost, locations stable, free chunks dead, the store implements LevelQueues, a fill hits the oldest order | 19 thousand |
| `order_map` | MCOrderMap, Map | no key lost, probes and the shift end, the held slot valid, the table implements Dictionary | 96 thousand |
| `structures` | MCBookOnStructures, Structures | store and map agree between commands; the handlers on both structures implement OrderBook | 35 thousand |
| `ladder_safety` | MCLadderIndex, LadderSafety | cursor, bitmap, summary, count and range sums exact | 39 thousand |
| `engine` | MCEngine, Engine | each symbol sees a book of its own, also across restarts; a snapshot of default books always restores; every command ends | 51 thousand |
| `recovery` | MCRecovery, Recovery | the recovered stream continues the interrupted one, a snapshot gives the book back | 697 thousand |
| `torn_record` | MCRecovery, TornRecord | finding 3, a counterexample | |
| `ladder_depth` | MCLadderIndex, LadderDepth | finding 2, a counterexample | |
| `barrier` | ScaleBarrier, Barrier | timed runs overlap no set-up, a repetition outlives its workers, the benchmark ends | 727 |
| `generator` | MCGenerator, Generator | finding 4, a counterexample | |

**Bounds, and why they are enough.**

- *Ids and capacity.* One id more than `MaxOrders` finds the book full. Three
  resting orders give two levels a side, queues of three, takers that sweep
  several makers and levels, and a replace while the book is full. (The proofs
  hold for every number of ids and every capacity.)
- *Prices* 1 and 2 are valid and 0 is not (tree); in the engine and the
  structures a range is valid, as for a ladder (the structure itself is only in
  the `ladder` runs). Crossing, touching and missing the other side all occur with two
  prices.
- *Quantities* 0, 1 and 3 with `QtyWrap` = 4, which stands for 2^64: invalid,
  partial, exact and excess fills, and two orders that make a level total wrap, as
  a release build lets it (a debug build panics).
  `FokRefusalJustified` therefore says that a refusal is justified by a short
  book *or* a sum no 64 bits hold; `fok_wrap` shows that the second case is
  real.
- *`SeqWrap`* stands for 2^64 as well. 1 removes the counter from a run that
  does not look at it, 3 lets the consumer notice a gap or a repetition, 2
  lets a book's number be told from its neighbour's in the engine.
- *`ChunkSlots`* is 3 instead of 6: the smallest chunk that can have a dead slot
  before a live one and still room behind it. With three orders lists grow to
  three chunks; first, middle and last ones die in every order, with and without
  reuse.
- *The table* has four slots. A key is a pair of a home slot and a number, so
  every hash function on the keys in use is covered at once, and up to three
  keys share a home. With three live keys the only empty slot is the one the
  loops rely on: fuller than the code ever is, which doubles the capacity.
  Tags collide on purpose. `RemovesWrap` is above the number of live keys: a
  replace cannot see a full turn of a 2^64 counter.
- *The ladder* has words of two bits. Nine levels are five words and three
  summary words, so a rescan runs within a word, to the next word, to the next
  summary word, and past an empty one. `LevelMax` bounds the orders of a level.
- *Recovery* runs up to `MaxCommands` = 4 commands out of seven that reach every
  handler and every way a taker ends: enough for two orders in one level, a
  snapshot, a trade against the older one, and a crash anywhere in between.
  Crashes are not bounded. `MaxOrders` = 2, so that a full book is snapshotted.
- *The structures* run together with chunks of two slots, a map of four and
  three ids of which two share the last home slot: a chain that wraps, chunks
  freed by one level and opened by another, and a shift that moves the entry of
  the order being replaced. The commands are a few new orders that rest, take
  or cross, and every cancel and every replace of two of the ids.
- *The engine* has two symbols, which is enough for one to disturb the other,
  and seven commands both are sent. Its two configurations differ in kind,
  range and capacity, so that a snapshot can be refused for a price as well as
  for the number of orders.
- *The barrier* has four workers and three repetitions of which one is the
  warm-up: what is left over from one reaches the next twice.
- *The generator* makes two adds and two commands of the churn workload; the
  counterexample needs no more.

**Reductions.** Ids are interchangeable, so `book`, `fok_wrap` and `store` use
symmetry; the runs with a liveness property do not. `MCView` of the
store leaves out the header of a chunk that is in no list, which `alloc_chunk`
overwrites before anything reads it (`next`, the free list link, is kept). That
of the structures does the same and shows the removal counter only by its
distance from the one `replace` remembers, which is all the code compares.

**Fairness.** `EngineSpec` has weak fairness of `Proceed`: `apply` is a plain
call on the writer's thread, and once entered its loop keeps running. Nothing
obliges a client to submit a command. `FairSpec` of the map is weak fairness
of the loop of `remove`, for the same reason. `ScaleBarrier` has weak fairness
of each thread: the operating system lets every thread run, and a spinning one
does not keep the others from it. No run needs strong fairness.

Deadlock is checked but in five runs: in `recovery` and `torn_record` a run
ends after `MaxCommands` and a failed recovery is final, in `engine` a restore
that panicked is final, `barrier` and `generator` come to their end. (The book
always takes another command.)

## 4. The proofs

TLAPS checks the theorems for every value of the constants: every number of
ids, prices, workers, every capacity, width, chunk size, word size and hash
function, both kinds of index. They rest only on the named assumptions of the
modules: finitely many ids and prices, integer prices, positive widths, and
what the constructors of the code assert. What is left to TLC is listed at the
end of the section.

| module | theorem | states, always |
|---|---|---|
| `OrderBookProofs` | `BookTyped` | `TypeOK` |
| | `NeverCrossed` | `BookNeverCrossed` |
| | `MapExact` | `MapLocatesOrders` |
| | `CapacityHolds` | `CapacityRespected` |
| | `PostOnlyRestsWhole` | `PostOnlyNeverTakes` |
| | `TotalsExact` | `LevelTotalsExact` |
| | `FokAllOrNothing` | `FokNeverPartial` |
| | `FokRefusalsJustified` | `FokRefusalJustified` |
| `BookPromisesProofs` | `BookKeepsItsPromises` | `ImplementsPriceTimePriority` |
| | `FeedIsConsistent`, `FeedDeterminesBook` | `FeedNeverMisled`, `FeedMatchesBook` |
| | `SnapshotsRestore` | `SnapshotRoundTrip` |
| | `RecoveryContinuesStream` | `StreamContinues` |
| `EngineProofs` | `EngineInvariant`, `EngineTyped` | `EngineInv`, `EngineTypeOK` |
| | `DefaultsRestore` | `DefaultBooksRestore` |
| | `RoutingIsTransparent` | `RoutingAddsNoSemantics` |
| `OrderMapProofs` | `MapTypeOK`, `MapLookupFindsStored` | `TypeOK`, `LookupFindsStored` |
| | `MapProbesEnd`, `MapHeldSlotValid` | `ProbesEnd`, `HeldSlotValid` |
| | `MapImplementsDictionary` | `ImplementsDictionary` |
| `ChunkStoreProofs` | `StoreTypeOK`, `StoreListsSound` | `TypeOK`, `ListsSound` |
| | `StoreLocsExact`, `StoreNoChunkLost` | `LocsExact`, `NoChunkLost` |
| | `StoreFreeChunksDead` | `FreeChunksDead` |
| | `StoreImplementsQueues` | `ImplementsLevelQueues` |
| | `StoreFillsHitOldest` | `FillsHitOldest` |
| `StructuresProofs` | `StructuresInvariant` | `Inv` |
| | `StructuresImplementBook` | `ImplementsOrderBook` |
| | `StructuresAgree` | `StoreAndMapAgree` |
| `LadderAndBenchProofs` | `LadderTyped`, `LadderBitmapExact` | `TypeOK`, `BitmapExact` |
| | `LadderBestExact`, `LadderSumExact` | `BestExact`, `SumRangeExact` |
| | `BarrierTyped`, `TimedRunsTogether` | `BenchTypeOK`, `TimedTogether` |
| | `RepEndsLast` | `RepOutlivesItsWorkers` |

**The book** (`BookInv`). None of the five properties is inductive alone. That
`live` stays non-negative needs `live` to be the number of ids the map has in
the book (`LiveExact`), which needs map and queues to agree (`Located`); that a
remainder may be pushed needs what validation let through, a valid price and a
free place (`TakerOK`), which has to survive every `Fill`; that map and queues
agree after a removal needs no id to rest twice in a queue. `BookInv` is the
conjunction of these with the two price properties.

The argument goes in three layers. Lemmas on sequences say what removing,
taking the head, appending and changing a quantity do to the ids of a queue.
One lemma per store operation lifts that to the whole book: the level's ids
become so and so, the others stay, no level appears (or only this one).
`OrderLeaves`, `OrdersStay` and `NothingCrosses` turn such an effect into the
parts of the invariant, and there is one lemma per action. The heart is
`RestNeverCrosses`: a remainder rests only when every occupied level on the
other side is out of its reach.

**Quantities** (`QtyInv`, on top of `BookInv`). A level's total is the sum of
its orders modulo the width: each use of the store changes one term of the sum
and the total alike. Fill-or-kill is decided by the sum over the prices in
reach; while such an order is at work, a fill takes as much off the sum as off
the order, so that what it still wants is always there. The decision is made on
wrapped numbers, and what wrapped cannot be more than what is there
(`FokAllOrNothing`); a refusal means too little on offer, or a sum beyond the
width (`FokRefusalsJustified`).

**Promises** (`PromiseInv` is `BookInv`, `QtyInv` and `RestingExact`, which
says that the abstract variables are read off the queues). What a step does to
the queues is stated order by order: one leaves (`Leaves`), one keeps its place
with another quantity (`KeepsWith`), one joins at the back (`Joins`). Three
lemmas turn these into changes of `resting` and `ahead`, and each action of the
book is then shown to be one action of `PriceTimePriority`, or invisible. The
fill-or-kill clause of the promise is the one that needs `QtyInv`. The consumer
of the stream (`FeedInv`) is in touch with `seq`, knows the open quantity of
every id in the map, and knows that an order is being matched as soon as that
one has traded. These two theorems assume `FeedPlugged`: the sink the book is
given is the one of `FeedSink`, which is what the configuration `Book.cfg` does
and what `OrderBook::new(.., sink)` leaves to the caller.

**Snapshots** (`SnapshotRoundTrip`). `restore` inserts the orders of a listing one
by one; `Restored` says what comes of it: the orders at a price are those at
the places of the listing that name the price, in their order. A listing of a
book is the queues one after another, price by price, so these places are one
run of it, and what is read off them is the queue that was written
(`SoundRoundTrip`). `Sound` is what is needed of the book: it is between two
commands and satisfies `BookInv` and the totals. That is the invariant carried
through crashes (`RecoveryInv`): a restored book is `Sound` because the one
written was.

**Recovery** (`StreamContinues`). The writer is deterministic: `Apply` and
`Proceed` are functions of the book, the next record and the stream so far, so
that a command journal has one run. The invariant (`OneRun`) says that there is
one: a sequence of books and streams, the first of them new and each step a
function of the one before and the journal, such that the book at work is on it,
the snapshot was taken on it, between two commands and at the record it names,
and the stream a crash interrupted is one of its streams. A restore goes back to
the snapshot's place on the run (by the round trip), and a stream at an earlier
place of one run is a prefix of that at a later one. The theorem assumes
`JournalPlugged`: the sink of the book is the event journal, as in
`Recovery.cfg` and in the tools.

**The engine** (`EngineInv`). The proofs about a book are used twice, as they
are for the default configuration and as an instance for the other one
(`OwnProofs`). Books that wait are `Sound` under their configuration; the one at
work satisfies `BookInv` and the totals wherever it is in a command. A `Route`
saves one `Sound` book and loads another. `DefaultBooksRestore` follows from
capacity, from ids being on a book once, and from prices being valid; it speaks
of the state a refused restore leaves behind, and so is a part of `EngineInv`.
For `RoutingAddsNoSemantics` each action is taken from the watched symbol's
side: its own book at work, another one at work, saved or loaded, created on the
way, written and restored (the round trip again). It assumes `AdaptorPlugged`:
the sink is the adaptor of `submit_tagged`, which delivers under the symbol it
was made for; that this is the symbol of the book at work is the invariant
`AdaptorInv`.

**The order map** (`MapInv`). Slots are compared by how far a probe walks to
reach them (`Dist`), so that nothing is said modulo the capacity. In the middle
of a removal the hole lies on the probe path only of entries the shift has not
come to yet (`PathsFull`); this is what makes the table, with the hole closed,
find every key, and what `LookupFindsStored` alone cannot carry through the
loop. `len` is the number of occupied slots, so that a probe meets an empty one.
That the removal counter does not come round unnoticed under a held slot is
because no key enters meanwhile: the removals since then and the keys left are
never more than there were keys (`Since + len <= LiveMax`). The refinement of
`Dictionary` follows step by step; the shift is invisible.

**The order store** (`StoreInv`). A list is described by ranks instead of
positions: there is a rank for every chunk such that each next link leads to
the chunk of the next higher rank in the same list (`Ordered`), and the prev
links lead back (`Linked`). A push, a drop and a reuse change the rank of one
chunk, where positions in a sequence would all move; since only the existence
of ranks is claimed, no variable of the model has to carry them. The rest of
the invariant counts the live slots of each chunk, puts them between head and
tail, and lets the map and the live slots name each other. From a rank follows
that `ChainFrom`, a recursive function over next links, is defined, and what it
returns (`ChainOfList`); `ListsSound` and `NoChunkLost` are read off that. That
`alloc_chunk` never runs past `max_orders` chunks is `AllocIdle`: with the free
list empty every chunk handed out is busy, and there are fewer busy chunks than
places.

The queue of a level concatenates, along its list, the live slots of each
chunk. It is shown to be the listing of the level's places (chunk and slot) by
rank and slot (`QueueListed`), and there is only one such listing. A step keeps
the rank of every chunk that holds orders before and after it (`RanksKept`), so
the places it keeps stay in order, and a queue does what its set of places
does: it loses the one element whose place is given up (`QueueLoses`), keeps
its length when an order shrinks (`QueueChanges`), and grows at the back when
the new place is behind all others, which a slot past `tail` of the last chunk
is (`QueueGrows`). The first live slot of the head chunk comes before all
others, hence a fill hits the head of the queue.

**The book on its structures** (`Inv` of `StructuresProofs`). The proofs of the
parts are used as they are: `MapFacts` is the table with locations for values,
`StoreFacts` the store with the locations the table holds for the orders that
rest (`Resting`, all stored keys but that of an order being replaced). `Inv` is
`MapInv` and `StoreInv` of these two, and of the handler in progress what the
parts cannot know (`TakerSound`): the one entry in the map without an order in
the store is the one of the order being replaced, a new order's id is not in the
map yet, and what may come to rest has a level. Each part assumes a client that
behaves, and a handler is shown to be one: it gives the store only locations it
has just looked up, stows a remainder only under an id that does not rest, and
finds the maker it fills by the id in its slot. One lemma per handler
(`NewStep`, `FillStep`, ...) then takes the step of the map and the step of the
store together as one step of `OrderBook`; the loop of a removal is none. Hence
everything proved of `OrderBook` holds of the book on its structures
(`BookSound`). With the invariants of the two parts this gives
`StoreAndMapAgree`, what the code's `check_invariants` asserts of store and map.
That function asserts two more things. A ladder's bits and its level count
match the levels: this is `BitmapExact`, proved of the ladder alone. And it adds
up each level in plain `u64` with the overflow checks of a debug build, which
panics for a level that holds more than the width; no handler prevents such a
level, and the theorem compares modulo the width.

**The ladder** (`LadderInv`). Bitmap, summary and count say which levels are
occupied, and the cursor is on the best. The rescan's loops are recursive
functions on words: a lemma shows that the function exists, another, by
induction on the words left, that it returns the least (greatest) marked level
from there on, since a word or summary word that is skipped holds nothing.
`sum_range` is such a walk, too, and is shown equal to the sum over the levels.

**The barrier** (`BarrierInv`). `ready` is the number of workers past their
announcement. So main releases only when all of them are, and joins only what
it has released.

**Induction.** `BasicFacts` derives induction over the naturals and over the
subsets of a finite set from the library's facts about finite sets, stated
over a set instead of a predicate so that the provers can instantiate it. With
it the folds (`SumFunctionOnSet`) and the recursive functions of the model can
be reasoned about: the definition is a `CHOOSE` of a solution of an equation; a
lemma shows that a solution exists, another what any solution is.

**Model-checked only.**

- Liveness (`CommandEnds`, `ShiftEnds`, `BenchmarkEnds`): fairness and
  `ENABLED` are out of the proof system's reach.
- What the violation runs show is a counterexample, which is proof enough.

## 5. Findings

1. **Fill-or-kill sum wraps** (`fok_wrap`; `src/index.rs:281`,
   `src/store.rs:214`). Level totals and their sum are u64 and wrap in a
   release build. With 2^64 or more on offer the sum is a small remainder, and
   an order the book could fill is refused, where SPEC 5 says it is matched.
   `FokNeverPartial` shows the opposite error does not happen: what is let
   through is filled.
2. **`depth(0)` of a ladder returns everything** (`ladder_depth`;
   `src/index.rs:309`). The length is compared with `n` after a push, so 0 is
   never met. The tree returns nothing, and the comment of `PriceIndex::depth`
   says up to `n` pairs.

3. **A torn journal line can be replayed as another command** (`torn_record`;
   `src/jsonflat.rs:16`). `get_str` accepts a value that runs into the end of
   the line, so a cancel or replace cut off inside its last number parses, with
   a shorter id or quantity, and recovery applies it. `matcherrecover.rs:9`
   says it exits nonzero on a truncated tail write. The event stream up to the
   crash is still reproduced (`StreamContinues` holds in these runs, too).
4. **The generator's live ids are not exact** (`generator`;
   `tools/vectorgen/src/main.rs:194`). Its comment says every resting add is
   non-crossing and "so live-id tracking for cancel/replace is exact". A
   replace draws a side for its price without looking at the side of the order,
   so it may cross; the immediate-or-cancel orders of w4 and w5 fill resting
   orders as well. Ids that are gone stay in the list and later cancels and
   replaces of them are rejected. With `Workload` = "w1" the same
   property holds.

## 6. What is left out of the models

- Text: canonical lines, the content hash, the text of a snapshot. What a cut
  does to a line is modelled in `Recovery`; the rest no property depends on.
- Prefetch, prefault, memory layout, timing statistics.
- The fuzzer: a source of random inputs, which the models enumerate.
  `apply_batch` is a loop over `apply` with prefetch hints.
- The tree index is a standard ordered map and is modelled by the set of its
  levels. The ladder has a module of its own; the book and its structures use
  the best occupied level and range sums as `BestExact` and `SumRangeExact`
  state them.
- Crashes with a journal tail are modelled for one book. In an engine each
  record carries its symbol in front of the id, so a cut that reaches it does
  not parse, and a book is given the records of its symbol in order;
  `RoutingAddsNoSemantics` says that the others do not matter to it.
- The snapshot is whole or absent: `snapshot.rs` declares it a trusted file and
  no code replaces one that recovery depends on.
- A worker of the benchmark that panics.
- A fill that ends its maker tells the sink twice, the trade and the close; the
  model does both in one step, so a crash exactly between the two writes is not
  a state. What is on disk then is a prefix of what is on disk after both, and
  `StreamContinues` is about prefixes.
- Hazards no property catches, because the code leaves them to its caller: a
  journal tail that does not begin at the snapshot (`Recovery` assumes that it
  does), `add_symbol` on a symbol that has orders, and the restart of a book
  that has a configuration of its own (`RoutingAddsNoSemantics` exempts both
  for the symbol it watches).

## 7. Plan

The models cover the parts of the system that keep state, every safety property
the runs check is proved, and each structure implements its contract, alone and
put together. What could be added is breadth: the ladder under the book, in
place of the best level the book's model reads off its queues, and the query
API as an action.
