--------------------------- MODULE MCGlobalState ---------------------------
(* Instances of GlobalState for TLC. *)
EXTENDS GlobalState, TLC

CONSTANTS t1, t2, t3
Alike == Permutations(Threads)

TwoShards == {{s \in Slots : s % 2 = r} : r \in 0..1}
=============================================================================
