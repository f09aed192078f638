---------------------------- MODULE ScaleBarrier ----------------------------
(***************************************************************************)
(* scale_mode of src/bin/matcher_bench.rs: every repetition spawns Threads *)
(* workers that build a book each, meet the main thread at two atomics     *)
(* (ready and go) and then run the same commands, timed.  The figure it    *)
(* reports is the commands of all workers over the slowest time, which     *)
(* means something only if all of them ran at once.                        *)
(*                                                                         *)
(* The atomics are new in every repetition and used with sequentially      *)
(* consistent and release/acquire accesses: a store is seen by a load that *)
(* takes place late enough, so plain shared variables model them.  Time    *)
(* itself is left out; work inside a worker is one step.                   *)
(***************************************************************************)
EXTENDS Integers, FiniteSets

CONSTANTS
  Threads,  \* the worker threads of a repetition; main makes it at least 1
  Reps      \* the repetitions that count; repetition 0 is a warm-up

ASSUME BarrierAssumption == Threads \in Nat \ {0} /\ Reps \in Nat \ {0}

VARIABLES
  rep,      \* the repetition running
  spawned,  \* how many workers main has spawned in it
  joined,   \* how many of them main has joined
  ready,    \* AtomicUsize: workers that say they are set up
  go,       \* AtomicBool: main's signal to start
  pc,       \* where each worker is
  agg       \* the repetitions whose figure was recorded

benchVars == <<rep, spawned, joined, ready, go, pc, agg>>

Worker == 1 .. Threads

BenchInit ==
  /\ rep = 0 /\ spawned = 0 /\ joined = 0
  /\ ready = 0 /\ go = FALSE
  /\ pc = [w \in Worker |-> "unborn"]
  /\ agg = {}

----------------------------------------------------------------------------
\* The worker threads

Move(w, from, to) == pc[w] = from /\ pc' = [pc EXCEPT ![w] = to]

\* The book is built, and filled with the set-up commands.
SetUp(w) ==
  /\ Move(w, "born", "set_up")
  /\ UNCHANGED <<rep, spawned, joined, ready, go, agg>>

\* Mutant: ready is a flag, not a count.
AnnounceOnce(w) ==
  /\ Move(w, "set_up", "spinning")
  /\ ready' = IF ready = 0 THEN 1 ELSE ready
  /\ UNCHANGED <<rep, spawned, joined, go, agg>>

\* ready.fetch_add(1)
Announce(w) ==
  /\ Move(w, "set_up", "spinning")
  /\ ready' = ready + 1
  /\ UNCHANGED <<rep, spawned, joined, go, agg>>

\* The spin loop on go ends and the clock starts.
StartTimed(w) ==
  /\ go
  /\ Move(w, "spinning", "timed")
  /\ UNCHANGED <<rep, spawned, joined, ready, go, agg>>

Finish(w) ==
  /\ Move(w, "timed", "done")
  /\ UNCHANGED <<rep, spawned, joined, ready, go, agg>>

WorkerStep(w) == SetUp(w) \/ Announce(w) \/ StartTimed(w) \/ Finish(w)

----------------------------------------------------------------------------
\* The main thread, in the order of its code

Spawn ==
  /\ rep <= Reps
  /\ spawned < Threads
  /\ spawned' = spawned + 1
  /\ Move(spawned + 1, "unborn", "born")
  /\ UNCHANGED <<rep, joined, ready, go, agg>>

\* Mutant: main does not wait for the last worker.
AllButOneReady == ready >= Threads - 1

AllReady == ready >= Threads

\* The spin loop on ready ends: go.store(true).
Release ==
  /\ spawned = Threads /\ ~go
  /\ AllReady
  /\ go' = TRUE
  /\ UNCHANGED <<rep, spawned, joined, ready, pc, agg>>

\* Handles are joined in the order they were spawned.
Join ==
  /\ go
  /\ joined < Threads
  /\ pc[joined + 1] = "done"
  /\ joined' = joined + 1
  /\ UNCHANGED <<rep, spawned, ready, go, pc, agg>>

\* Mutant: the repetition ends with its first worker.
SomeJoined == joined > 0

AllJoined == joined = Threads

\* Mutant: the atomics outlive the repetition.
OldFlags == UNCHANGED <<ready, go>>

NewFlags == ready' = 0 /\ go' = FALSE

\* All joined: the figure is recorded unless this was the warm-up, and the
\* next repetition has workers and atomics of its own.
EndRep ==
  /\ AllJoined
  /\ agg' = IF rep > 0 THEN agg \cup {rep} ELSE agg
  /\ rep' = rep + 1
  /\ spawned' = 0 /\ joined' = 0
  /\ pc' = [w \in Worker |-> "unborn"]
  /\ NewFlags

MainStep == Spawn \/ Release \/ Join \/ EndRep

BenchNext == MainStep \/ \E w \in Worker : WorkerStep(w)

\* Threads of the operating system: each that can go on eventually does.  A
\* spinning thread may spin for any time without stopping another.
BenchSpec == BenchInit /\ [][BenchNext]_benchVars /\ WF_benchVars(MainStep) /\ \A w \in Worker : WF_benchVars(WorkerStep(w))

----------------------------------------------------------------------------
\* Properties

\* Type invariant; ready never counts more workers than there are.
BenchTypeOK ==
  /\ rep \in 0 .. Reps + 1
  /\ spawned \in 0 .. Threads /\ joined \in 0 .. Threads /\ ready \in 0 .. Threads
  /\ go \in BOOLEAN
  /\ pc \in [Worker -> {"unborn", "born", "set_up", "spinning", "timed", "done"}]
  /\ agg \subseteq 1 .. Reps

\* No worker's clock runs while another is still being spawned or building
\* its book: nothing untimed disturbs a timed run.
TimedTogether ==
  \A v, w \in Worker :
    pc[v] \in {"timed", "done"} => pc[w] \in {"spinning", "timed", "done"}

\* A repetition, and the atomics its workers borrow, end only when each of
\* its workers has finished its timed run.
RepOutlivesItsWorkers ==
  [][rep' # rep => \A w \in Worker : pc[w] = "done"]_benchVars

\* Nobody spins for ever: the benchmark comes to its end with a figure for
\* every repetition but the warm-up.  (The model has no panics: a release
\* build aborts on one; a build that unwinds would leave everybody spinning if
\* a worker panicked before it announced itself.)
BenchmarkEnds == <>(rep > Reps /\ agg = 1 .. Reps)
=============================================================================
