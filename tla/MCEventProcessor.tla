-------------------------- MODULE MCEventProcessor --------------------------
(* Instances of EventProcessor for TLC. *)
EXTENDS EventProcessor

CONSTANTS s1, s2

\* The second message of the first stream kills whatever processes it.
PoisonSecond == Subs \X {<<s1, 2>>}

\* The first message of the first stream does.
PoisonFirst == Subs \X {<<s1, 1>>}
=============================================================================
