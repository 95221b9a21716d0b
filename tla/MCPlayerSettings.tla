------------------------- MODULE MCPlayerSettings -------------------------
(* Small instances of PlayerSettings.                                     *)
EXTENDS PlayerSettings, TLC

\* Quiet and muted for the portal, and an empty volume field with the defaults.
MCFilled ==
    {[vol |-> 1, on |-> FALSE, client |-> "portal"],
     [vol |-> Keep, on |-> TRUE, client |-> "lite"]}

Symmetry == Permutations(Requests) \cup Permutations(Players)
=============================================================================
