\* Four workers, so that some can be ahead of and some behind another; a
\* warm-up and two repetitions.  The benchmark ends, hence no deadlock check.
CONSTANTS
  Threads = 4
  Reps = 2
SPECIFICATION BenchSpec
CHECK_DEADLOCK FALSE
INVARIANTS
  BenchTypeOK
  TimedTogether
PROPERTIES
  RepOutlivesItsWorkers
  BenchmarkEnds
