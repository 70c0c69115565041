---------------------------- MODULE MCShredClient ----------------------------
(* Instances of ShredClient for TLC. *)
EXTENDS ShredClient

CONSTANTS c1, c2, c3, s1, s2
=============================================================================
