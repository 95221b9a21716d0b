---------------------------- MODULE OneTimeToken ----------------------------
(***************************************************************************)
(* What a one-time token promises, whatever stores it and whoever takes    *)
(* it: it is issued once, and then admits one request at most.  It may be  *)
(* void before anybody was admitted; it never comes back.                  *)
(***************************************************************************)
CONSTANTS Tokens, Requests
VARIABLES
    state,      \* where each token is
    admitted    \* the requests each token admitted

Init ==
    /\ state = [t \in Tokens |-> "unissued"]
    /\ admitted = [t \in Tokens |-> {}]

Issue(t) ==
    /\ state[t] = "unissued"
    /\ state' = [state EXCEPT ![t] = "valid"]
    /\ UNCHANGED admitted

Admit(t, r) ==
    /\ state[t] = "valid"
    /\ state' = [state EXCEPT ![t] = "spent"]
    /\ admitted' = [admitted EXCEPT ![t] = {r}]

Void(t) ==
    /\ state[t] \in {"unissued", "valid"}
    /\ state' = [state EXCEPT ![t] = "void"]
    /\ UNCHANGED admitted

Next ==
    \E t \in Tokens : Issue(t) \/ Void(t) \/ \E r \in Requests : Admit(t, r)

Spec == Init /\ [][Next]_<<state, admitted>>

\* A token that is spent admitted one request, any other none.
AdmitsOnce ==
    \A t \in Tokens :
        IF state[t] = "spent" THEN \E r \in Requests : admitted[t] = {r}
        ELSE admitted[t] = {}

\* What was admitted stays admitted, and nothing is added to it.
KeepsSpent ==
    \A t \in Tokens : state[t] \in {"spent", "void"} =>
        state'[t] = state[t] /\ admitted'[t] = admitted[t]

StaysSpent == [][KeepsSpent]_<<state, admitted>>
=============================================================================
