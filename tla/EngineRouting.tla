--------------------------- MODULE EngineRouting ---------------------------
(***************************************************************************)
(* "Routing adds no semantics" (spec/SPEC.md): what the engine does to     *)
(* the book of one symbol, whichever it is, and to the consumer of that    *)
(* symbol's events.                                                        *)
(***************************************************************************)
EXTENDS Engine

CONSTANT Watched

ASSUME WatchedAssumption == Watched \in Symbol

\* The book of that symbol as if it were alone: before it exists, a new one.
\* Its sink is the number last delivered under the symbol.
LastNumber(s, n, event) == n

Alone == INSTANCE OrderBook
  WITH queue <- BookOf(Watched).book.queue, total <- BookOf(Watched).book.total,
       live <- BookOf(Watched).book.live, map <- BookOf(Watched).book.map,
       seq <- BookOf(Watched).book.seq, taker <- IF at = Watched THEN taker ELSE Idle,
       sink <- sink.last[Watched], Sink0 <- 0, OnEvent <- LastNumber

OwnAlone == INSTANCE OrderBook
  WITH queue <- BookOf(Watched).book.queue, total <- BookOf(Watched).book.total,
       live <- BookOf(Watched).book.live, map <- BookOf(Watched).book.map,
       seq <- BookOf(Watched).book.seq, taker <- IF at = Watched THEN taker ELSE Idle,
       sink <- sink.last[Watched], Sink0 <- 0, OnEvent <- LastNumber,
       MaxOrders <- OwnMaxOrders, IndexKind <- OwnIndex,
       PriceMin <- OwnPriceMin, PriceMax <- OwnPriceMax

BookStep ==
  \/ UNCHANGED Alone!vars
  \/ /\ BookOf(Watched).config = "default"
     /\ \/ Alone!Continue
        \/ \E c \in Client : Alone!Handle(c)
  \/ /\ BookOf(Watched).config = "own"
     /\ \/ OwnAlone!Continue
        \/ \E c \in Client : OwnAlone!Handle(c)

\* "Routing adds no semantics": seen from one symbol, and from what its
\* consumer is delivered, the engine is a book of its own, whatever happens
\* to the other symbols, whenever it was created, and across a restart.  The
\* two ways a book is lost are registering the symbol again and restarting
\* with a configuration of its own.
RoutingAddsNoSemantics ==
  [][\/ BookStep
     \/ \E kind \in {"default", "own"} : AddSymbol(Watched, kind)
     \/ Restart /\ BookOf(Watched).config = "own"]_allVars
=============================================================================
