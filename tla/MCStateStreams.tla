--------------------------- MODULE MCStateStreams ---------------------------
(* Two clients of one device, for TLC. *)
EXTENDS StateStreams

CONSTANTS s1, s2, r1, r2, p1, c1, c2

=============================================================================
