---------------------------- MODULE MCServerRpc ----------------------------
(***************************************************************************)
(* Small instances of ServerRpc for TLC.                                   *)
(***************************************************************************)
EXTENDS ServerRpc, TLC

CONSTANTS a1, a2, c1, c2, k1, k2, k3, k4, k5, p1, p2, p3

OwnAddr == c1 :> a1 @@ c2 :> a2
SameAddr == c1 :> a1 @@ c2 :> a1
OneAddr == c1 :> a1

\* The deadlock check is meant for tasks that wait for each other: a system
\* that has nothing left to do may stay as it is.
Rest == Quiet /\ UNCHANGED vars
RestSpec == Init /\ [][Next \/ Rest]_vars
FairRestSpec == RestSpec /\ Fairness

\* Ids come round, but none is drawn while a call under way holds it.
FreshSpec == Init /\ [][(Next /\ FreshIds) \/ Rest]_vars

Symmetry == Permutations(Callers) \cup Permutations(PeerCalls)
=============================================================================
