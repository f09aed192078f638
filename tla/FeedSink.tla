------------------------------ MODULE FeedSink ------------------------------
(***************************************************************************)
(* A downstream consumer of the event stream (an implementation of trait   *)
(* Sink, src/sink.rs): it sees the events of a book and nothing else, and  *)
(* keeps what they let it know, the open quantity of every resting order.  *)
(* ok turns FALSE at the first event that contradicts what came before.    *)
(***************************************************************************)
EXTENDS BookTypes

\* taker: the order whose trades are being reported, as a set of at most one
\* id; its own event ends the report.
FeedSink0 == [leaves |-> << >>, taker |-> {}, last |-> 0, ok |-> TRUE]

\* Makers with nothing left that have not been closed yet.
Unclosed(feed) == {m \in DOMAIN feed.leaves : feed.leaves[m] = 0}

\* What an event has to look like to a consumer that knows leaves.
Known(leaves, event) == event.id \in DOMAIN leaves

Consistent(leaves, event) ==
  \/ event.ev = "accepted" /\ ~Known(leaves, event) /\ event.leaves > 0
  \/ event.ev = "replaced" /\ Known(leaves, event) /\ event.qty > 0
  \/ event.ev = "trade" /\ event.maker # event.taker
                        /\ event.maker \in DOMAIN leaves
                        /\ event.qty \in 1 .. leaves[event.maker]
  \/ /\ event.ev = "closed"
     /\ event.reason = "cancelled" => Known(leaves, event)
     /\ event.reason = "expired" => ~Known(leaves, event)
  \/ /\ event.ev = "rejected"
     /\ event.reason = "unknown_order_id" => ~Known(leaves, event)
     /\ event.reason = "duplicate_order_id" => Known(leaves, event)
     /\ event.reason = "book_full" => Cardinality(DOMAIN leaves) = MaxOrders

\* Events of one command come together and in order: an exhausted maker is
\* closed by the very next event, nobody else is closed as filled, and
\* between two trades of a taker nothing else is reported.
ClosesFilled(event) == event.ev = "closed" /\ event.reason = "filled"

InOrder(feed, event) ==
  IF Unclosed(feed) # {}
  THEN ClosesFilled(event) /\ Unclosed(feed) = {event.id}
  ELSE IF event.ev = "trade" THEN feed.taker \subseteq {event.taker}
  ELSE /\ feed.taker \subseteq {event.id}
       /\ ClosesFilled(event) => feed.taker = {event.id}

Without(leaves, id) == [m \in DOMAIN leaves \ {id} |-> leaves[m]]
With(leaves, id, q) == [m \in DOMAIN leaves \cup {id} |-> IF m = id THEN q ELSE leaves[m]]

LeavesAfter(leaves, event) ==
  CASE event.ev = "accepted" -> With(leaves, event.id, event.leaves)
    [] event.ev = "replaced" -> With(leaves, event.id, event.qty)
    [] event.ev = "trade"    -> With(leaves, event.maker, leaves[event.maker] - event.qty)
    [] event.ev = "closed"   -> Without(leaves, event.id)
    [] event.ev = "rejected" -> leaves

TakerAfter(feed, event) ==
  IF event.ev = "trade" THEN {event.taker}
  ELSE IF Unclosed(feed) # {} THEN feed.taker
  ELSE {}

\* Sink::on_event of the consumer; seq must have no gap.
FeedOnEvent(feed, n, event) ==
  IF /\ feed.ok
     /\ n = (feed.last + 1) % SeqWrap
     /\ InOrder(feed, event)
     /\ Consistent(feed.leaves, event)
  THEN [leaves |-> LeavesAfter(feed.leaves, event), taker |-> TakerAfter(feed, event),
        last |-> n, ok |-> TRUE]
  ELSE [feed EXCEPT !.ok = FALSE]
=============================================================================
