----------------------------- MODULE MCMetrics ------------------------------
(* Both parts of the metrics, one at a time: they have only the clock in   *)
(* common, and no step of one looks at the other.                          *)
EXTENDS EventWindows, ProcessingTimes, TLC

CONSTANTS t1, t2, tx, account

VARIABLE part   \* the part whose steps a behaviour takes

\* Two steps of the clock are enough for an extreme value to be forgotten.
MaxTimesTime == Stale + 1

MCInit == Init /\ TimesInit /\ part \in {"windows", "times"}

MCNext ==
  \/ /\ part = "windows"
     /\ Next
     /\ UNCHANGED <<extremes, sums, pc, updater, timesHistory, part>>
  \/ /\ part = "times"
     /\ TimesNext
     /\ clock' <= MaxTimesTime
     /\ UNCHANGED <<counters, recorders, closer, reader, history, part>>

MCSpec == MCInit /\ [][MCNext]_<<vars, timesVars, part>>

Symmetry == Permutations(Threads) \cup Permutations(Kinds)
=============================================================================
