--------------------------- MODULE MCServerRoutes ---------------------------
(***************************************************************************)
(* Small instances of ServerRoutes for TLC.                                *)
(***************************************************************************)
EXTENDS ServerRoutes, TLC

CONSTANTS w1, w2, h1, d1, r1, r2

AllKinds == w1 :> "ws" @@ w2 :> "ws" @@ h1 :> "http" @@ d1 :> "default"
KeyOf == [b \in Binders |-> AllKinds[b]]

\* The worker and the tasks have nothing to do.  A binder or a client that is
\* left waiting then is for BindingsReturn and RequestsSettle to find.
Quiet ==
    /\ command = <<>> /\ busy = None
    /\ \A b \in Binders : task[b] \notin {"body", "handler"}

\* The deadlock check is meant for tasks that wait for each other.
Rest == Quiet /\ UNCHANGED vars
RestSpec == Init /\ [][Next \/ Rest]_vars
FairRestSpec == RestSpec /\ Fairness
=============================================================================
