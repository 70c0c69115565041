----------------------------- MODULE MetricsBase -----------------------------
(* What the parts of the metrics share: the threads and the clock.         *)
EXTENDS Integers, FiniteSets

CONSTANTS
  Threads,      \* the threads and tasks that record
  MaxTime       \* when the clock stops (bounds the model)

ASSUME ThreadsAssumption == IsFiniteSet(Threads)
ASSUME BoundsAssumption == MaxTime \in Nat

VARIABLE clock  \* SystemTime::now(), which is taken not to run backwards

Times == 0..MaxTime

\* saturating_sub: a thread's own time may be older than one that it loads.
Since(n, t) == IF n > t THEN n - t ELSE 0

TimePasses ==
  /\ clock < MaxTime
  /\ clock' = clock + 1
=============================================================================
