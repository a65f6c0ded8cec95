----------------------------- MODULE MCClientWs -----------------------------
(***************************************************************************)
(* Small instances of ClientWs for TLC.                                    *)
(***************************************************************************)
EXTENDS ClientWs, TLC

CONSTANTS k1, k2, p1, p2, s1

OnePath == k1 :> p1 @@ k2 :> p1
TwoPaths == k1 :> p1 @@ k2 :> p2
OneCall == k1 :> p1

\* Everything that was under way has come to an end: the client may rest.
Quiet ==
    /\ command = <<>> /\ busy = Idle
    /\ \A k \in Callers : ~Active(k)
    /\ \A p \in Paths :
           /\ hook[p] = None
           /\ binding[p] \in {"bound", "removed"}
           /\ dispatch[p] \in {"open", "ended"}

\* The deadlock check is meant for tasks that wait for each other.
Rest == Quiet /\ UNCHANGED vars
RestSpec == Init /\ [][Next \/ Rest]_vars
FairRestSpec == RestSpec /\ Fairness
=============================================================================
