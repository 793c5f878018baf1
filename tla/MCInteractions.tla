--------------------------- MODULE MCInteractions ---------------------------
(* Small instances of Interactions for TLC. *)
EXTENDS Interactions

CONSTANTS p1, p2, c1, c2
=============================================================================
