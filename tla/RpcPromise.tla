----------------------------- MODULE RpcPromise -----------------------------
(***************************************************************************)
(* What call_remotely promises: each call is run by the remote function at *)
(* most once, a call returns a value only after the remote function has    *)
(* run for it, and what a call has returned never changes.  A call may     *)
(* fail before, while or after the remote function runs.                   *)
(***************************************************************************)
EXTENDS Naturals

CONSTANT Calls

VARIABLES
    status,    \* what the caller knows of the call
    executed   \* how often the remote function has run for it

vars == <<status, executed>>

TypeOK ==
    /\ status \in [Calls -> {"idle", "pending", "ok", "failed"}]
    /\ executed \in [Calls -> Nat]

Init ==
    /\ status = [k \in Calls |-> "idle"]
    /\ executed = [k \in Calls |-> 0]

Invoke(k) ==
    /\ status[k] = "idle"
    /\ status' = [status EXCEPT ![k] = "pending"]
    /\ UNCHANGED executed

Execute(k) ==
    /\ status[k] # "idle"
    /\ executed[k] = 0
    /\ executed' = [executed EXCEPT ![k] = 1]
    /\ UNCHANGED status

Answer(k) ==
    /\ status[k] = "pending"
    /\ executed[k] = 1
    /\ status' = [status EXCEPT ![k] = "ok"]
    /\ UNCHANGED executed

\* One event, such as the end of a connection, may fail many calls, those that
\* were never sent included.
Fail(S) ==
    /\ \A k \in S : status[k] \in {"idle", "pending"}
    /\ status' = [k \in Calls |-> IF k \in S THEN "failed" ELSE status[k]]
    /\ UNCHANGED executed

Next ==
    \/ \E k \in Calls : Invoke(k) \/ Execute(k) \/ Answer(k)
    \/ \E S \in SUBSET Calls : Fail(S)

Spec == Init /\ [][Next]_vars

=============================================================================
