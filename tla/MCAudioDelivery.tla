-------------------------- MODULE MCAudioDelivery --------------------------
(* Small instances of AudioDelivery.  Every session belongs to one player. *)
EXTENDS AudioDelivery
CONSTANTS Listener, a, b

OwnedByListener == [s \in Sessions |-> Listener]

\* The listener gets to two regions with the same clip and to one with another
\* clip, which is the only one for everybody else.
ThreeRegions ==
    [p \in Players |->
        {[src |-> b, loop |-> FALSE]} \cup
        IF p = Listener THEN [src : {a}, loop : BOOLEAN] ELSE {}]

LoopingRegion == [p \in Players |-> [src : {a}, loop : {TRUE}]]
=============================================================================
