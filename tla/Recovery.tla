------------------------------ MODULE Recovery ------------------------------
(***************************************************************************)
(* The order book with its persistence (src/journal.rs, src/snapshot.rs,   *)
(* src/bin/matcherrecover.rs): every command is appended to a command      *)
(* journal before it is applied, every event to an event journal as the    *)
(* book emits it, and now and then the resting orders are written to a     *)
(* snapshot.  A crash loses the book; recovery restores the snapshot and   *)
(* replays the rest of the command journal.                                *)
(*                                                                         *)
(* The event journal is the book's sink: Sink0 <- JournalSink0 and         *)
(* OnEvent <- JournalOnEvent in the configuration.  Ids and quantities are *)
(* numbers here, because a line that is cut off ends in fewer digits.      *)
(***************************************************************************)
EXTENDS Snapshots

CONSTANTS
  Client,       \* the commands that may be submitted
  MaxCommands   \* bound: how many are, in one run

ASSUME ClientAssumption ==
  /\ OrderId \subseteq Nat
  /\ Client \subseteq NewCommand \cup CancelCommand \cup ReplaceCommand
  /\ MaxCommands \in Nat

VARIABLES
  mode,     \* "up", "down", "replay", or "failed" at a malformed record
  journal,  \* the records of the command journal, as parse_command reads them
  pos,      \* how many records the book has been given
  snap,     \* the latest snapshot, where its journal tail begins, and the
            \* events published before it
  before,   \* the longest event stream a crash has interrupted
  asked     \* ghost: the commands whose records were (partly) written

bookVars == <<queue, total, live, map, taker, seq, sink>>
diskVars == <<journal, snap, before, asked>>
allVars  == <<bookVars, diskVars, mode, pos>>

\* JournalSink: the canonical line of the event, appended.
JournalSink0 == << >>
JournalOnEvent(s, n, event) == Append(s, <<n, event>>)

NoSnapshot == [orders |-> << >>, seq |-> 0, at |-> 0, events |-> JournalSink0]

----------------------------------------------------------------------------
\* Torn records

Unparsable == [cmd |-> "unparsable"]

\* What is left of a number whose last digits are cut off.
Cut(n) == {k \in {n \div 10, n \div 100} : k > 0}

\* parse_command of a record cut off by a crash.  get_str takes a value that
\* runs into the end of the line, so a cut inside the last number, or just
\* before the closing brace, still parses; the last field of a new order is
\* a quoted string, which does not.
Torn(c) ==
  {Unparsable, c} \cup
    CASE c.cmd = "cancel"  -> {[c EXCEPT !.id = id] : id \in Cut(c.id)}
      [] c.cmd = "replace" -> {[c EXCEPT !.qty = q] : q \in Cut(c.qty)}
      [] c.cmd = "new"     -> {}

----------------------------------------------------------------------------
\* The writer

Running == mode \in {"up", "replay"}

AllApplied == taker = Idle /\ pos = Len(journal)

\* The next command is submitted, and CmdJournal::record appends it.  journal
\* is the records of all journal files: nothing in the code reopens one, so
\* no record is appended to a torn line.
Record(c) ==
  /\ mode = "up"
  /\ AllApplied
  /\ Len(journal) < MaxCommands
  /\ journal' = Append(journal, c)
  /\ asked' = Append(asked, c)
  /\ UNCHANGED <<bookVars, mode, pos, snap, before>>

\* The next record is given to the book, when it is new or in a replay.
Apply ==
  /\ Running
  /\ pos < Len(journal)
  /\ Handle(journal[pos + 1])
  /\ pos' = pos + 1
  /\ UNCHANGED <<diskVars, mode>>

Proceed ==
  /\ Running
  /\ Continue
  /\ UNCHANGED <<diskVars, mode, pos>>

\* Mutant: the tail is said to begin after a record not yet applied.
WriteSnapshotAhead ==
  /\ mode = "up"
  /\ taker = Idle
  /\ snap' = [orders |-> RestingOrders(queue), seq |-> seq, at |-> Len(journal), events |-> sink]
  /\ UNCHANGED <<bookVars, mode, journal, pos, before, asked>>

\* write_book, between two commands.
WriteSnapshot ==
  /\ mode = "up"
  /\ AllApplied
  /\ snap' = [orders |-> RestingOrders(queue), seq |-> seq, at |-> pos, events |-> sink]
  /\ UNCHANGED <<bookVars, mode, journal, pos, before, asked>>

----------------------------------------------------------------------------
\* Crash and recovery

\* The memory of the process is gone; what it published is not.
LoseBook ==
  /\ mode' = "down"
  /\ before' = IF Len(sink) > Len(before) THEN sink ELSE before
  /\ Load(Restored(<< >>, 0))
  /\ taker' = Idle
  /\ sink' = JournalSink0
  /\ pos' = 0

\* Between any two steps, those of a replay included.
Crash ==
  /\ Running
  /\ LoseBook
  /\ UNCHANGED <<journal, snap, asked>>

\* While the record of c is being written; a record that left no byte is a
\* crash before the command.
CrashInRecord(c) ==
  /\ mode = "up"
  /\ AllApplied
  /\ Len(journal) < MaxCommands
  /\ \E r \in Torn(c) : journal' = Append(journal, r)
  /\ asked' = Append(asked, c)
  /\ LoseBook
  /\ UNCHANGED snap

\* matcherrecover: restore_engine, then the journal tail.
Recover ==
  /\ mode = "down"
  /\ Restorable(snap.orders)
  /\ mode' = "replay"
  /\ Load(Restored(snap.orders, snap.seq))
  /\ sink' = snap.events
  /\ pos' = snap.at
  /\ UNCHANGED <<taker, diskVars>>

\* "malformed journal line": exit(2), without a flush of the event output.
ReplayFails ==
  /\ mode = "replay"
  /\ taker = Idle
  /\ pos < Len(journal)
  /\ journal[pos + 1] = Unparsable
  /\ mode' = "failed"
  /\ UNCHANGED <<bookVars, diskVars, pos>>

ReplayDone ==
  /\ mode = "replay"
  /\ AllApplied
  /\ mode' = "up"
  /\ UNCHANGED <<bookVars, diskVars, pos>>

----------------------------------------------------------------------------
\* The specification

RecoveryInit ==
  /\ Init
  /\ mode = "up"
  /\ journal = << >>
  /\ pos = 0
  /\ snap = NoSnapshot
  /\ before = JournalSink0
  /\ asked = << >>

RecoveryNext ==
  \/ \E c \in Client : Record(c)
  \/ Apply
  \/ Proceed
  \/ WriteSnapshot
  \/ Crash
  \/ \E c \in Client : CrashInRecord(c)
  \/ Recover
  \/ ReplayFails
  \/ ReplayDone

RecoverySpec == RecoveryInit /\ [][RecoveryNext]_allVars

----------------------------------------------------------------------------
\* Properties

\* "A correct recovery produces a byte-identical event journal": wherever
\* the crash fell, in a command, between record and apply, in a replay, the
\* recovered book publishes the stream the crash interrupted, event for
\* event and number for number, and goes on after it.  (Output still in a
\* buffer when the crash or the exit comes only shortens what is compared.)
StreamContinues ==
  /\ mode \in {"replay", "failed"} => IsPrefix(sink, before) \/ IsPrefix(before, sink)
  /\ mode = "up" => IsPrefix(before, sink)

\* "snap -> restore -> snap must be byte-identical", and more: between two
\* commands, a snapshot taken now can be restored (restore panics on one
\* that is too large), and gives back the same queues, totals and map.
SnapshotRoundTrip ==
  Running /\ taker = Idle =>
    /\ Restorable(RestingOrders(queue))
    /\ Restored(RestingOrders(queue), seq) =
         [queue |-> queue, total |-> total, live |-> live, map |-> map, seq |-> seq]

\* matcherrecover "exits nonzero on a malformed journal line (truncated tail
\* write)": no record is replayed as another command than was submitted.
ReplaysWhatWasSubmitted ==
  mode = "up" => journal = asked
=============================================================================
