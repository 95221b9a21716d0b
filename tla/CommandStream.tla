--------------------------- MODULE CommandStream ---------------------------
(***************************************************************************)
(* What audio delivery promises to a listen page: the commands issued for  *)
(* its player while the relay listens reach it once each and in the order  *)
(* they were issued, the page wants what the last one of them asks for,    *)
(* and every one of them arrives unless the session ends first.            *)
(***************************************************************************)
EXTENDS Naturals, Sequences

CONSTANTS
    Sessions,
    Audio,      \* what a command can ask for
    Silence     \* what a command that stops the audio asks for

VARIABLES
    issued,     \* commands issued for the session
    applied,    \* how many of them the page has obeyed
    want,       \* what the page is to play
    over        \* the session has ended

vars == <<issued, applied, want, over>>

Init ==
    /\ issued = [s \in Sessions |-> <<>>]
    /\ applied = [s \in Sessions |-> 0]
    /\ want = [s \in Sessions |-> Silence]
    /\ over = [s \in Sessions |-> FALSE]

\* One command may be meant for several sessions: two pages of one player.
Issue(S, a) ==
    /\ issued' = [s \in Sessions |-> IF s \in S THEN Append(issued[s], a) ELSE issued[s]]
    /\ UNCHANGED <<applied, want, over>>

Apply(s) ==
    /\ ~over[s] /\ applied[s] < Len(issued[s])
    /\ applied' = [applied EXCEPT ![s] = @ + 1]
    /\ want' = [want EXCEPT ![s] = issued[s][applied[s] + 1]]
    /\ UNCHANGED <<issued, over>>

End(s) ==
    /\ ~over[s]
    /\ over' = [over EXCEPT ![s] = TRUE]
    /\ want' \in {want, [want EXCEPT ![s] = Silence]}
    /\ UNCHANGED <<issued, applied>>

FallSilent(s) ==
    /\ over[s]
    /\ want' = [want EXCEPT ![s] = Silence]
    /\ UNCHANGED <<issued, applied, over>>

Next ==
    \/ \E S \in SUBSET Sessions, a \in Audio \cup {Silence} : Issue(S, a)
    \/ \E s \in Sessions : Apply(s) \/ End(s) \/ FallSilent(s)

Spec == Init /\ [][Next]_vars

\* Until the session ends the page wants what the last command it obeyed asks for.
LastObeyed ==
    \A s \in Sessions :
        /\ applied[s] \in 0..Len(issued[s])
        /\ ~over[s] => want[s] = IF applied[s] = 0 THEN Silence ELSE issued[s][applied[s]]

\* A command that waits is obeyed, unless the session ends first.
Delivery == \A s \in Sessions : WF_vars(Apply(s))
=============================================================================
