---------------------------- MODULE BookWithFeed ----------------------------
(***************************************************************************)
(* The order book with a consumer of its event stream plugged into its     *)
(* sink: Sink0 <- FeedSink0 and OnEvent <- FeedOnEvent in the              *)
(* configuration.  The properties relate what the consumer believes to the *)
(* book it cannot see.                                                     *)
(***************************************************************************)
EXTENDS OrderBook, FeedSink

\* No event ever contradicts the events before it: the sequence has no gap,
\* the fill comes before its consequence, a maker gives no more than it has,
\* a reject names a reason the stream confirms (emit, reject, cross).
FeedNeverMisled == sink.ok

\* The stream determines the book: at any moment the consumer knows exactly
\* the ids the order map holds and the open quantity of every resting order.
FeedMatchesBook ==
  /\ DOMAIN sink.leaves = DOMAIN map
  /\ \A side \in Side, p \in Price : \A i \in DOMAIN queue[side][p] :
       sink.leaves[queue[side][p][i].id] = queue[side][p][i].qty
=============================================================================
