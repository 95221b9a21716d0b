------------------------- MODULE MCSessionRegistry -------------------------
(* Small instances of SessionRegistry for TLC. *)
EXTENDS SessionRegistry, TLC

Symmetry == Permutations(Players) \cup Permutations(Servers)
=============================================================================
