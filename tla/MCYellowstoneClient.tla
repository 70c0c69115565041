------------------------ MODULE MCYellowstoneClient ------------------------
(* Instances of YellowstoneClient for TLC. *)
EXTENDS YellowstoneClient

CONSTANTS c1, c2, s1, s2
=============================================================================
