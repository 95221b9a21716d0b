---------------------------- MODULE MCEventFeed ----------------------------
(* Small instances of EventFeed for TLC. *)
EXTENDS EventFeed, TLC

Symmetry == Permutations(Events) \cup Permutations(Conns)
=============================================================================
