\* Two clients over a map that is purged when it holds both, windows of two ticks.
CONSTANTS
  Keys = {k1, k2}
  Requests = {r1, r2, r3, r4, r5}
  Limit = 1
  Window = 2
  MaxBuckets = 2
  MaxTime = 4
SYMMETRY Symmetry
SPECIFICATION LimitSpec
PROPERTIES
  RefusedUntilWindowEnds
\* The requests are one-shot and the clock is bounded, so the instance ends.
CHECK_DEADLOCK FALSE
