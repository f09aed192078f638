------------------------------- MODULE Engine -------------------------------
(***************************************************************************)
(* The multi-symbol engine (src/engine.rs) and its restart from a snapshot *)
(* (write_engine, restore_engine of src/snapshot.rs): one book per symbol, *)
(* created on the first command for it, or registered with a configuration *)
(* of its own.                                                             *)
(*                                                                         *)
(* The variables of OrderBook are the book a submit holds the mutable      *)
(* borrow of; the books of the other symbols wait in books.  Its constants *)
(* are the engine's default configuration; Own is the same book with the   *)
(* one other configuration add_symbol is given here.                       *)
(*                                                                         *)
(* The sink is the adaptor of submit_tagged: the symbol it was made for,   *)
(* and the number last delivered under each symbol.  Sink0 <- EngineSink0  *)
(* and OnEvent <- Tagged in the configuration.                             *)
(***************************************************************************)
EXTENDS Snapshots

CONSTANTS
  Symbol, NoSymbol,
  Client,        \* the commands that may be submitted, to any symbol
  OwnMaxOrders, OwnIndex, OwnPriceMin, OwnPriceMax

ASSUME EngineAssumption ==
  /\ NoSymbol \notin Symbol
  /\ Client \subseteq NewCommand \cup CancelCommand \cup ReplaceCommand

\* OrderBook::new asserts of its configuration what it asserts of the default.
ASSUME OwnAssumption ==
  /\ OwnMaxOrders \in Nat
  /\ OwnPriceMin \in Int /\ OwnPriceMax \in Int
  /\ OwnIndex \in {"ladder", "tree"}
  /\ OwnIndex = "ladder" => OwnPriceMax > OwnPriceMin

\* A tree takes any price it is restored with; PriceOk stands for it only
\* where prices are positive.
ASSUME TreeAssumption == "tree" \in {IndexKind, OwnIndex} => \A p \in CmdPrices : p > 0

VARIABLES
  books,   \* Engine.books without the one at work: symbol -> book
  at,      \* the symbol whose book is at work, NoSymbol at first
  config,  \* "default" or "own": what that book was made with
  routed,  \* submit has found its book, apply has not begun
  failed   \* restore panicked

engineVars == <<books, at, config, routed, failed>>
allVars    == <<vars, engineVars>>

Own == INSTANCE Snapshots
         WITH MaxOrders <- OwnMaxOrders, IndexKind <- OwnIndex,
              PriceMin <- OwnPriceMin, PriceMax <- OwnPriceMax

\* Adaptor::on_event of submit_tagged.
EngineSink0 == [sym |-> NoSymbol, last |-> [s \in Symbol |-> 0]]
Tagged(adaptor, n, event) == [adaptor EXCEPT !.last[adaptor.sym] = n]

----------------------------------------------------------------------------
\* The books

\* OrderBook::new and OrderBook::restore with one of the configurations.
Made(kind, orders, n) ==
  [config |-> kind,
   book   |-> IF kind = "default" THEN Restored(orders, n) ELSE Own!Restored(orders, n)]

New0(kind) == Made(kind, << >>, 0)

AtWork ==
  [config |-> config,
   book   |-> [queue |-> queue, total |-> total, live |-> live, map |-> map, seq |-> seq]]

\* HashMap::insert: an entry that was there is overwritten.
Insert(all, sym, entry) ==
  [s \in DOMAIN all \cup {sym} |-> IF s = sym THEN entry ELSE all[s]]

AllBooks == IF at = NoSymbol THEN books ELSE Insert(books, at, AtWork)

\* The book a command for sym goes to: the one there is, or a new one.
BookOf(sym) == IF sym \in DOMAIN AllBooks THEN AllBooks[sym] ELSE New0("default")

\* The mutable borrow of the book of sym, out of all.
Borrow(all, sym) ==
  /\ at' = sym
  /\ config' = all[sym].config
  /\ Load(all[sym].book)
  /\ books' = [s \in DOMAIN all \ {sym} |-> all[s]]

\* Between two calls.
Quiet == ~failed /\ taker = Idle /\ ~routed

----------------------------------------------------------------------------
\* Calls

\* Mutant: the entry is overwritten instead of being looked up.
RouteAnew(sym) ==
  /\ Quiet
  /\ Borrow(Insert(AllBooks, sym, New0("default")), sym)
  /\ sink' = [sink EXCEPT !.sym = sym]
  /\ routed' = TRUE
  /\ UNCHANGED <<taker, failed>>

\* Engine::submit_tagged up to apply: entry(sym).or_insert_with(new book).
Route(sym) ==
  /\ Quiet
  /\ Borrow(Insert(AllBooks, sym, BookOf(sym)), sym)
  /\ sink' = [sink EXCEPT !.sym = sym]
  /\ routed' = TRUE
  /\ UNCHANGED <<taker, failed>>

Submit1(c) ==
  /\ routed
  /\ IF config = "default" THEN Handle(c) ELSE Own!Handle(c)
  /\ routed' = FALSE
  /\ UNCHANGED <<books, at, config, failed>>

Proceed ==
  /\ IF config = "default" THEN Continue ELSE Own!Continue
  /\ UNCHANGED engineVars

\* Engine::add_symbol: books.insert, whatever was there before.
AddSymbol(sym, kind) ==
  /\ Quiet
  /\ Borrow(Insert(AllBooks, sym, New0(kind)), sym)
  /\ UNCHANGED <<taker, sink, routed, failed>>

\* write_engine, and restore_engine in a new process: every book comes back
\* with the default configuration, or the process ends in a panic.
Snapshot(sym) == RestingOrders(AllBooks[sym].book.queue)

Restart ==
  /\ Quiet
  /\ at # NoSymbol
  /\ \A sym \in DOMAIN AllBooks : Restorable(Snapshot(sym))
  /\ Borrow([sym \in DOMAIN AllBooks |->
               Made("default", Snapshot(sym), AllBooks[sym].book.seq)], at)
  /\ UNCHANGED <<taker, sink, routed, failed>>

RestartPanics ==
  /\ Quiet
  /\ \E sym \in DOMAIN AllBooks : ~Restorable(Snapshot(sym))
  /\ failed' = TRUE
  /\ UNCHANGED <<vars, books, at, config, routed>>

----------------------------------------------------------------------------
\* The specification

EngineInit ==
  /\ Init
  /\ books = << >>
  /\ at = NoSymbol
  /\ config = "default"
  /\ routed = FALSE
  /\ failed = FALSE

EngineNext ==
  \/ \E sym \in Symbol : Route(sym)
  \/ \E c \in Client : Submit1(c)
  \/ Proceed
  \/ \E sym \in Symbol, kind \in {"default", "own"} : AddSymbol(sym, kind)
  \/ Restart
  \/ RestartPanics

\* submit is a plain call on the writer's thread, for whichever book.
EngineSpec == EngineInit /\ [][EngineNext]_allVars /\ WF_allVars(Proceed)

----------------------------------------------------------------------------
\* Properties

EngineTypeOK ==
  /\ at \in Symbol \cup {NoSymbol}
  /\ DOMAIN books \subseteq Symbol \ {at}
  /\ \A sym \in DOMAIN AllBooks :
       /\ AllBooks[sym].config \in {"default", "own"}
       /\ AllBooks[sym].book.seq \in 0 .. SeqWrap - 1
  /\ routed \in BOOLEAN /\ failed \in BOOLEAN

\* An engine whose books all have its default configuration can always be
\* restored: the snapshot of no reachable book makes restore panic.
DefaultBooksRestore ==
  failed => \E sym \in DOMAIN AllBooks : AllBooks[sym].config = "own"

\* Whichever book it was routed to, a command ends.
CommandEnds == taker # Idle ~> taker = Idle
=============================================================================
