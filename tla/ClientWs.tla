------------------------------- MODULE ClientWs -------------------------------
(***************************************************************************)
(* The WebSocket side of the edgy-s client: the worker task that carries   *)
(* the calls of all paths (client.rs), the dispatch task of each bound     *)
(* path, which connects, serves the connection and reconnects              *)
(* (client/handler.rs), the task that runs the hooks of a path             *)
(* (client/binding.rs), and the futures of call_remotely                   *)
(* (client/caller.rs).  The servers answer each call once, on the          *)
(* connection it came from, as the crate's own server does.                *)
(***************************************************************************)
EXTENDS Naturals, Sequences, FiniteSets

CONSTANTS
    Paths,       \* the paths bound to the client
    Callers,     \* the calls of call_remotely made by the client
    Target,      \* the path of each call, derived from its function
    ServerCalls, \* the calls made by the servers
    NumIds,      \* number of values of ReqId: 2^8 to 2^64
    Cap,         \* capacity of the channels: mpsc_channel(2)
    MaxRetries,  \* max_retries of the builder
    MayClose,    \* paths whose server may close a connection
    MayBreak,    \* paths whose connection may fail or break
    MayUnbind,   \* paths that may be unbound
    MayPanic,    \* paths whose handler may panic
    None

ASSUME PathAssumption ==
    /\ Target \in [Callers -> Paths]
    /\ MayClose \subseteq Paths /\ MayBreak \subseteq Paths
    /\ MayUnbind \subseteq Paths /\ MayPanic \subseteq Paths
ASSUME ClientBoundAssumption ==
    /\ NumIds \in Nat \ {0}
    /\ Cap \in Nat \ {0}
    /\ MaxRetries \in Nat
ASSUME ClientNoneAssumption == None \notin Callers \cup Paths \cup ServerCalls

VARIABLES
    \* the futures of call_remotely
    phase, reqId, answer, AUTO_ID,
    \* the worker task, and the registration of each path
    alive, command, busy, binding,
    \* the dispatch task of each path
    dispatch, attempt, call_rx, pending_requests, handling, aborted,
    \* the hook task of each path: its oneshots, the hook it runs, those it ran
    signal, hook, ran,
    \* the network and the servers
    link, incoming, outgoing, asked, runs, returns

callVars == <<phase, reqId, answer, AUTO_ID>>
workerVars == <<alive, command, busy, binding>>
dispatchVars == <<dispatch, attempt, call_rx, pending_requests, handling, aborted>>
hookVars == <<signal, hook, ran>>
serverVars == <<link, incoming, outgoing, asked, runs, returns>>

vars == <<callVars, workerVars, dispatchVars, hookVars, serverVars>>

-----------------------------------------------------------------------------
(* Packets and commands *)

Ids == 0 .. NumIds - 1

\* "of" is the call a packet belongs to, which no packet of the code has.
ToServer ==
    [kind : {"Call"}, id : Ids, of : Callers] \cup [kind : {"Ret"}, of : ServerCalls]
FromServer ==
    [kind : {"Call"}, of : ServerCalls] \cup [kind : {"Ret"}, id : Ids, of : Callers]

Command ==
    [op : {"CallRemotely"}, of : Callers] \cup [op : {"RemoveWsRoute"}, path : Paths]

\* Inside CallRemotely the worker awaits the oneshot of the call, which the
\* dispatch task fulfils with a reply or drops.
Inside ==
    [op : {"Await"}, of : Callers]
    \cup [op : {"Relay"}, of : Callers, reply : Callers \cup {None}]

Idle == [op |-> "none"]

Hooks == {"request", "open", "close"}

Phases == {"idle", "refused", "sending", "waiting", "ok", "mismatch", "failed"}

CallsOK ==
    /\ phase \in [Callers -> Phases]
    /\ reqId \in [Callers -> Ids]
    /\ answer \in [Callers -> Callers \cup {None}]
    /\ AUTO_ID \in Ids

WorkerOK ==
    /\ alive \in BOOLEAN
    /\ command \in Seq(Command)
    /\ busy \in Command \cup Inside \cup {Idle}
    /\ binding \in [Paths -> {"bound", "removing", "queued", "removed"}]

DispatchOK ==
    /\ dispatch \in [Paths -> {"request", "connect", "open", "handler", "sleep", "ended"}]
    /\ attempt \in [Paths -> 0 .. MaxRetries]
    /\ \A p \in Paths :
           /\ dispatch[p] = "request" => attempt[p] = 0
           /\ dispatch[p] \notin {"request", "ended"} => attempt[p] < MaxRetries
           /\ dispatch[p] = "handler" => handling[p] # None
    /\ call_rx \in [Paths -> Seq(Callers)]
    /\ pending_requests \in [Paths -> [Ids -> Callers \cup {None}]]
    /\ handling \in [Paths -> ServerCalls \cup {None}]
    /\ aborted \in [Paths -> BOOLEAN]

HooksOK ==
    /\ signal \in [Paths -> [Hooks -> {"none", "sent", "taken"}]]
    /\ hook \in [Paths -> Hooks \cup {None}]
    /\ ran \in [Paths -> Seq(Hooks)]

ServersOK ==
    /\ link \in [Paths -> {"none", "up", "closed", "broken"}]
    /\ incoming \in [Paths -> Seq(FromServer)]
    /\ outgoing \in [Paths -> Seq(ToServer)]
    /\ asked \in [ServerCalls -> Paths \cup {None}]
    /\ runs \in [Callers -> Nat]
    /\ returns \in [ServerCalls -> Nat]

TypeOK == CallsOK /\ WorkerOK /\ DispatchOK /\ HooksOK /\ ServersOK

NoPending == [i \in Ids |-> None]

\* Every path has been bound, and its dispatch task waits for the request hook.
Init ==
    /\ phase = [k \in Callers |-> "idle"]
    /\ reqId = [k \in Callers |-> 0]
    /\ answer = [k \in Callers |-> None]
    /\ AUTO_ID = 0
    /\ alive = TRUE
    /\ command = <<>>
    /\ busy = Idle
    /\ binding = [p \in Paths |-> "bound"]
    /\ dispatch = [p \in Paths |-> "request"]
    /\ attempt = [p \in Paths |-> 0]
    /\ call_rx = [p \in Paths |-> <<>>]
    /\ pending_requests = [p \in Paths |-> NoPending]
    /\ handling = [p \in Paths |-> None]
    /\ aborted = [p \in Paths |-> FALSE]
    /\ signal = [p \in Paths |-> [h \in Hooks |-> IF h = "request" THEN "sent" ELSE "none"]]
    /\ hook = [p \in Paths |-> None]
    /\ ran = [p \in Paths |-> <<>>]
    /\ link = [p \in Paths |-> "none"]
    /\ incoming = [p \in Paths |-> <<>>]
    /\ outgoing = [p \in Paths |-> <<>>]
    /\ asked = [s \in ServerCalls |-> None]
    /\ runs = [k \in Callers |-> 0]
    /\ returns = [s \in ServerCalls |-> 0]

-----------------------------------------------------------------------------
(* call_remotely *)

HasRoom(q) == Len(q) < Cap

\* Fault: the id is advanced beyond its width.
NextIdWide(i) == i + 1

NextId(i) == (i + 1) % NumIds

Active(k) == phase[k] \in {"sending", "waiting"}

CallStart(k) ==
    /\ phase[k] = "idle"
    /\ binding[Target[k]] = "bound"
    /\ phase' = [phase EXCEPT ![k] = "sending"]
    /\ reqId' = [reqId EXCEPT ![k] = AUTO_ID]
    /\ AUTO_ID' = NextId(AUTO_ID)
    /\ UNCHANGED <<answer, workerVars, dispatchVars, hookVars, serverVars>>

CallUnbound(k) ==
    /\ phase[k] = "idle"
    /\ binding[Target[k]] # "bound"
    /\ phase' = [phase EXCEPT ![k] = "refused"]
    /\ UNCHANGED <<reqId, answer, AUTO_ID, workerVars, dispatchVars, hookVars, serverVars>>

CallSend(k) ==
    /\ phase[k] = "sending"
    /\ \/ /\ alive
          /\ HasRoom(command)
          /\ command' = Append(command, [op |-> "CallRemotely", of |-> k])
          /\ phase' = [phase EXCEPT ![k] = "waiting"]
       \/ /\ ~alive
          /\ phase' = [phase EXCEPT ![k] = "failed"]
          /\ UNCHANGED command
    /\ UNCHANGED <<reqId, answer, AUTO_ID, alive, busy, binding,
                   dispatchVars, hookVars, serverVars>>

-----------------------------------------------------------------------------
(* The worker: one command at a time, the reply of a call included *)

\* The path is a key of "tasks".
Routed(p) == binding[p] # "removed"

WorkerRecv ==
    /\ alive
    /\ busy = Idle
    /\ command # <<>>
    /\ busy' = Head(command)
    /\ command' = Tail(command)
    /\ UNCHANGED <<alive, binding, callVars, dispatchVars, hookVars, serverVars>>

WorkerForward ==
    /\ busy.op = "CallRemotely"
    /\ LET k == busy.of
           p == Target[k]
       IN \/ /\ Routed(p)
             /\ dispatch[p] # "ended"
             /\ HasRoom(call_rx[p])
             /\ call_rx' = [call_rx EXCEPT ![p] = Append(@, k)]
             /\ busy' = [op |-> "Await", of |-> k]
             /\ UNCHANGED phase
          \/ /\ ~Routed(p)
             /\ busy' = Idle
             /\ phase' = [phase EXCEPT ![k] = "failed"]
             /\ UNCHANGED call_rx
    /\ UNCHANGED <<reqId, answer, AUTO_ID, alive, command, binding, dispatch, attempt,
                   pending_requests, handling, aborted, hookVars, serverVars>>

\* A call for a dispatch task that has ended: `?` ends the worker, which drops
\* the senders of every path and every command that is queued.
WorkerDie ==
    /\ busy.op = "CallRemotely"
    /\ Routed(Target[busy.of])
    /\ dispatch[Target[busy.of]] = "ended"
    /\ alive' = FALSE
    /\ busy' = Idle
    /\ command' = <<>>
    /\ phase' = [k \in Callers |-> IF phase[k] = "waiting" THEN "failed" ELSE phase[k]]
    /\ binding' = [p \in Paths |-> IF binding[p] = "queued" THEN "removed" ELSE binding[p]]
    /\ UNCHANGED <<reqId, answer, AUTO_ID, dispatchVars, hookVars, serverVars>>

\* Pass the outcome on to the caller, which checks the id again.
WorkerRelay ==
    /\ busy.op = "Relay"
    /\ LET k == busy.of
           r == busy.reply
       IN /\ phase' = [phase EXCEPT ![k] =
                           CASE r = None -> "failed"
                             [] r # None /\ reqId[r] = reqId[k] -> "ok"
                             [] OTHER -> "mismatch"]
          /\ answer' = [answer EXCEPT ![k] = r]
    /\ busy' = Idle
    /\ UNCHANGED <<reqId, AUTO_ID, alive, command, binding,
                   dispatchVars, hookVars, serverVars>>

\* The dispatch task is aborted at its next await.
WorkerRemoveRoute ==
    /\ busy.op = "RemoveWsRoute"
    /\ binding' = [binding EXCEPT ![busy.path] = "removed"]
    /\ aborted' = [aborted EXCEPT ![busy.path] = TRUE]
    /\ busy' = Idle
    /\ UNCHANGED <<alive, command, dispatch, attempt, call_rx, pending_requests, handling,
                   callVars, hookVars, serverVars>>

Worker == WorkerRecv \/ WorkerForward \/ WorkerDie \/ WorkerRelay \/ WorkerRemoveRoute

\* What the worker sees when the dispatch task drops the oneshots of these calls.
Dropped(S) ==
    IF busy.op = "Await" /\ busy.of \in S
    THEN [op |-> "Relay", of |-> busy.of, reply |-> None]
    ELSE busy

-----------------------------------------------------------------------------
(* The dispatch task of a path: ws_dispatch_with_auto_reconnection *)

InQueue(p) == {call_rx[p][i] : i \in 1 .. Len(call_rx[p])}
\* The worker holds the only sender of call_rx.
Disconnected(p) == ~alive \/ ~Routed(p)

Pending(p) == {pending_requests[p][i] : i \in Ids} \ {None}

\* The task ends: the receiver of calls, the pending calls and the guard are
\* dropped; the guard sends the close signal if a connection was ever open.
EndWith(p, S) ==
    /\ dispatch' = [dispatch EXCEPT ![p] = "ended"]
    /\ call_rx' = [call_rx EXCEPT ![p] = <<>>]
    /\ pending_requests' = [pending_requests EXCEPT ![p] = NoPending]
    /\ handling' = [handling EXCEPT ![p] = None]
    /\ busy' = Dropped(S)
    /\ signal' = [signal EXCEPT ![p]["close"] =
                      IF signal[p]["open"] # "none" THEN "sent" ELSE @]

End(p) ==
    /\ EndWith(p, InQueue(p) \cup Pending(p))
    /\ UNCHANGED <<attempt, aborted, alive, command, binding, hook, ran, callVars>>

\* The socket is closed by the end of the task.
Hangup(p) ==
    /\ link' = [link EXCEPT ![p] = "none"]
    /\ incoming' = [incoming EXCEPT ![p] = <<>>]
    /\ outgoing' = [outgoing EXCEPT ![p] = <<>>]
    /\ UNCHANGED <<asked, runs, returns>>

\* for attempt in 0..max_retries: connect, or give up.
TryAttempt(p, a) ==
    \/ /\ a < MaxRetries
       /\ dispatch' = [dispatch EXCEPT ![p] = "connect"]
       /\ UNCHANGED <<call_rx, pending_requests, handling, busy, signal>>
    \/ /\ a >= MaxRetries
       /\ EndWith(p, InQueue(p) \cup Pending(p))

\* The request hook has returned: its headers and parameters are complete.
RequestReady(p) ==
    /\ dispatch[p] = "request"
    /\ signal[p]["request"] = "taken"
    /\ hook[p] # "request"
    /\ TryAttempt(p, 0)
    /\ UNCHANGED <<attempt, aborted, alive, command, binding, hook, ran,
                   callVars, serverVars>>

\* The attempt failed; the task sleeps before the next one.
ConnectFails(p) ==
    /\ dispatch[p] = "connect"
    /\ p \in MayBreak
    /\ dispatch' = [dispatch EXCEPT ![p] = "sleep"]
    /\ UNCHANGED <<attempt, call_rx, pending_requests, handling, aborted,
                   callVars, workerVars, hookVars, serverVars>>

\* The dispatch loop has ended before select looks at the response again: the
\* "Connection finished before receiving response" of the code.
ConnectEnds(p) ==
    /\ dispatch[p] = "connect"
    /\ p \in MayClose \/ (Disconnected(p) /\ call_rx[p] = <<>>)
    /\ End(p)
    /\ UNCHANGED serverVars

\* Connected; the first time, the open signal is sent and the guard armed.
Connect(p) ==
    /\ dispatch[p] = "connect"
    /\ dispatch' = [dispatch EXCEPT ![p] = "open"]
    /\ link' = [link EXCEPT ![p] = "up"]
    /\ incoming' = [incoming EXCEPT ![p] = <<>>]
    /\ outgoing' = [outgoing EXCEPT ![p] = <<>>]
    /\ signal' = [signal EXCEPT ![p]["open"] = IF @ = "none" THEN "sent" ELSE @]
    /\ UNCHANGED <<attempt, call_rx, pending_requests, handling, aborted, hook, ran,
                   asked, runs, returns, callVars, workerVars>>

WakeUp(p) ==
    /\ dispatch[p] = "sleep"
    /\ attempt' = [attempt EXCEPT ![p] = @ + 1]
    /\ TryAttempt(p, attempt[p] + 1)
    /\ UNCHANGED <<aborted, alive, command, binding, hook, ran, callVars, serverVars>>

-----------------------------------------------------------------------------
(* The dispatch loop of one connection: ws_dispatch *)

\* A call of the server: its handler runs inside the loop.
ReadCall(p) ==
    /\ dispatch[p] = "open"
    /\ incoming[p] # <<>>
    /\ Head(incoming[p]).kind = "Call"
    /\ handling' = [handling EXCEPT ![p] = Head(incoming[p]).of]
    /\ incoming' = [incoming EXCEPT ![p] = Tail(@)]
    /\ dispatch' = [dispatch EXCEPT ![p] = "handler"]
    /\ UNCHANGED <<attempt, call_rx, pending_requests, aborted, link, outgoing, asked, runs,
                   returns, callVars, workerVars, hookVars>>

\* Writing to a socket that is closed or broken is an error that is only logged.
Written(p, msg) ==
    IF link[p] = "up" THEN [outgoing EXCEPT ![p] = Append(@, msg)] ELSE outgoing

HandlerReturn(p) ==
    /\ dispatch[p] = "handler"
    /\ dispatch' = [dispatch EXCEPT ![p] = "open"]
    /\ outgoing' = Written(p, [kind |-> "Ret", of |-> handling[p]])
    /\ handling' = [handling EXCEPT ![p] = None]
    /\ UNCHANGED <<attempt, call_rx, pending_requests, aborted, link, incoming, asked, runs,
                   returns, callVars, workerVars, hookVars>>

\* Fault: the oneshot stays in the table when it is fulfilled.
ReadRetKeeps(p) ==
    /\ dispatch[p] = "open"
    /\ incoming[p] # <<>>
    /\ Head(incoming[p]).kind = "Ret"
    /\ LET msg == Head(incoming[p])
           k == pending_requests[p][msg.id]
       IN busy' = IF k # None /\ busy = [op |-> "Await", of |-> k]
                  THEN [op |-> "Relay", of |-> k, reply |-> msg.of] ELSE busy
    /\ incoming' = [incoming EXCEPT ![p] = Tail(@)]
    /\ UNCHANGED <<dispatch, attempt, call_rx, pending_requests, handling, aborted, alive,
                   command, binding, link, outgoing, asked, runs, returns, callVars,
                   hookVars>>

\* A reply fulfils the oneshot that is pending under its id.
ReadRet(p) ==
    /\ dispatch[p] = "open"
    /\ incoming[p] # <<>>
    /\ Head(incoming[p]).kind = "Ret"
    /\ LET msg == Head(incoming[p])
           k == pending_requests[p][msg.id]
       IN \/ /\ k # None
             /\ pending_requests' = [pending_requests EXCEPT ![p][msg.id] = None]
             /\ busy' = IF busy = [op |-> "Await", of |-> k]
                        THEN [op |-> "Relay", of |-> k, reply |-> msg.of] ELSE busy
          \/ /\ k = None
             /\ UNCHANGED <<pending_requests, busy>>
    /\ incoming' = [incoming EXCEPT ![p] = Tail(@)]
    /\ UNCHANGED <<dispatch, attempt, call_rx, handling, aborted, alive, command, binding,
                   link, outgoing, asked, runs, returns, callVars, hookVars>>

\* Fault: the call stays in the channel after it is written.
TakeCallAgain(p) ==
    /\ dispatch[p] = "open"
    /\ call_rx[p] # <<>>
    /\ LET k == Head(call_rx[p])
       IN /\ outgoing' = Written(p, [kind |-> "Call", id |-> reqId[k], of |-> k])
          /\ pending_requests' = [pending_requests EXCEPT ![p][reqId[k]] = k]
    /\ UNCHANGED <<dispatch, attempt, call_rx, handling, aborted, alive, command, busy,
                   binding, link, incoming, asked, runs, returns, callVars, hookVars>>

\* A call of the client: write it, then note its oneshot under its id.
TakeCall(p) ==
    /\ dispatch[p] = "open"
    /\ call_rx[p] # <<>>
    /\ LET k == Head(call_rx[p])
       IN /\ outgoing' = Written(p, [kind |-> "Call", id |-> reqId[k], of |-> k])
          /\ pending_requests' = [pending_requests EXCEPT ![p][reqId[k]] = k]
          /\ busy' = Dropped({pending_requests[p][reqId[k]]} \ {None})
    /\ call_rx' = [call_rx EXCEPT ![p] = Tail(@)]
    /\ UNCHANGED <<dispatch, attempt, handling, aborted, alive, command, binding, link,
                   incoming, asked, runs, returns, callVars, hookVars>>

\* Fault: a closed channel of calls does not end the loop.
ConnectionEndsOnClose(p) ==
    /\ dispatch[p] = "open"
    /\ link[p] = "closed" /\ incoming[p] = <<>>
    /\ End(p)
    /\ Hangup(p)

\* A close frame, or the worker has dropped the sender of calls: a normal end.
ConnectionEnds(p) ==
    /\ dispatch[p] = "open"
    /\ \/ link[p] = "closed" /\ incoming[p] = <<>>
       \/ Disconnected(p) /\ call_rx[p] = <<>>
    /\ End(p)
    /\ Hangup(p)

\* Faults: the table of pending calls outlives its connection; the guard is
\* armed for a connection and not for the whole loop.
ConnectionLostKeeps(p) ==
    /\ dispatch[p] = "open"
    /\ link[p] = "broken" /\ incoming[p] = <<>>
    /\ attempt[p] + 1 < MaxRetries
    /\ dispatch' = [dispatch EXCEPT ![p] = "sleep"]
    /\ Hangup(p)
    /\ UNCHANGED <<attempt, call_rx, pending_requests, handling, aborted,
                   callVars, workerVars, hookVars>>

ConnectionLostSignals(p) ==
    /\ dispatch[p] = "open"
    /\ link[p] = "broken" /\ incoming[p] = <<>>
    /\ attempt[p] + 1 < MaxRetries
    /\ dispatch' = [dispatch EXCEPT ![p] = "sleep"]
    /\ pending_requests' = [pending_requests EXCEPT ![p] = NoPending]
    /\ busy' = Dropped(Pending(p))
    /\ signal' = [signal EXCEPT ![p]["close"] = "sent"]
    /\ Hangup(p)
    /\ UNCHANGED <<attempt, call_rx, handling, aborted, alive, command, binding,
                   callVars, hook, ran>>

\* An error of the socket: the pending calls are dropped, those not yet taken
\* stay in the channel, and the task connects again while attempts are left.
ConnectionLost(p) ==
    /\ dispatch[p] = "open"
    /\ link[p] = "broken" /\ incoming[p] = <<>>
    /\ \/ /\ attempt[p] + 1 < MaxRetries
          /\ dispatch' = [dispatch EXCEPT ![p] = "sleep"]
          /\ pending_requests' = [pending_requests EXCEPT ![p] = NoPending]
          /\ busy' = Dropped(Pending(p))
          /\ UNCHANGED <<call_rx, handling, signal>>
       \/ /\ attempt[p] + 1 >= MaxRetries
          /\ EndWith(p, InQueue(p) \cup Pending(p))
    /\ Hangup(p)
    /\ UNCHANGED <<attempt, aborted, alive, command, binding, hook, ran, callVars>>

\* The route was removed: the task is dropped at an await.  Or its handler panics.
DispatchAborted(p) ==
    /\ dispatch[p] # "ended"
    /\ aborted[p]
    /\ End(p)
    /\ Hangup(p)

HandlerPanic(p) ==
    /\ p \in MayPanic
    /\ dispatch[p] = "handler"
    /\ End(p)
    /\ Hangup(p)

Dispatch(p) ==
    \/ RequestReady(p) \/ ConnectFails(p) \/ ConnectEnds(p) \/ Connect(p) \/ WakeUp(p)
    \/ ReadCall(p) \/ HandlerReturn(p) \/ ReadRet(p) \/ TakeCall(p)
    \/ ConnectionEnds(p) \/ ConnectionLost(p) \/ DispatchAborted(p) \/ HandlerPanic(p)

-----------------------------------------------------------------------------
(* The hook task of a path: any signal that is ready, one hook at a time *)

\* Fault: the task ends after the first signal, "&&" for "||" in its loop.
HookTakeFirst(p, h) ==
    /\ hook[p] = None
    /\ ran[p] = <<>>
    /\ signal[p][h] = "sent"
    /\ hook' = [hook EXCEPT ![p] = h]
    /\ signal' = [signal EXCEPT ![p][h] = "taken"]
    /\ ran' = [ran EXCEPT ![p] = Append(@, h)]
    /\ UNCHANGED <<callVars, workerVars, dispatchVars, serverVars>>

HookTake(p, h) ==
    /\ hook[p] = None
    /\ signal[p][h] = "sent"
    /\ hook' = [hook EXCEPT ![p] = h]
    /\ signal' = [signal EXCEPT ![p][h] = "taken"]
    /\ ran' = [ran EXCEPT ![p] = Append(@, h)]
    /\ UNCHANGED <<callVars, workerVars, dispatchVars, serverVars>>

HookDone(p) ==
    /\ hook[p] # None
    /\ hook' = [hook EXCEPT ![p] = None]
    /\ UNCHANGED <<signal, ran, callVars, workerVars, dispatchVars, serverVars>>

Hook(p) == HookDone(p) \/ \E h \in Hooks : HookTake(p, h)

-----------------------------------------------------------------------------
(* remove_route *)

UnbindStart(p) ==
    /\ p \in MayUnbind
    /\ binding[p] = "bound"
    /\ binding' = [binding EXCEPT ![p] = "removing"]
    /\ UNCHANGED <<alive, command, busy, callVars, dispatchVars, hookVars, serverVars>>

UnbindSend(p) ==
    /\ binding[p] = "removing"
    /\ \/ /\ alive
          /\ HasRoom(command)
          /\ command' = Append(command, [op |-> "RemoveWsRoute", path |-> p])
          /\ binding' = [binding EXCEPT ![p] = "queued"]
       \/ /\ ~alive
          /\ binding' = [binding EXCEPT ![p] = "removed"]
          /\ UNCHANGED command
    /\ UNCHANGED <<alive, busy, callVars, dispatchVars, hookVars, serverVars>>

-----------------------------------------------------------------------------
(* The servers and the network *)

\* The server closes the connection: what it sent before arrives.
ServerClose(p) ==
    /\ p \in MayClose
    /\ link[p] = "up"
    /\ link' = [link EXCEPT ![p] = "closed"]
    /\ outgoing' = [outgoing EXCEPT ![p] = <<>>]
    /\ UNCHANGED <<incoming, asked, runs, returns,
                   callVars, workerVars, dispatchVars, hookVars>>

\* The connection breaks: what was sent may be lost.
LinkBreaks(p) ==
    /\ p \in MayBreak
    /\ link[p] = "up"
    /\ link' = [link EXCEPT ![p] = "broken"]
    /\ outgoing' = [outgoing EXCEPT ![p] = <<>>]
    /\ \/ UNCHANGED incoming
       \/ incoming' = [incoming EXCEPT ![p] = <<>>]
    /\ UNCHANGED <<asked, runs, returns, callVars, workerVars, dispatchVars, hookVars>>

\* Fault: the server replies twice.
ServerReadTwice(p) ==
    /\ link[p] = "up"
    /\ outgoing[p] # <<>>
    /\ LET msg == Head(outgoing[p])
           ret == [kind |-> "Ret", id |-> msg.id, of |-> msg.of]
       IN /\ msg.kind = "Call"
          /\ runs' = [runs EXCEPT ![msg.of] = @ + 1]
          /\ incoming' = [incoming EXCEPT ![p] = @ \o <<ret, ret>>]
    /\ outgoing' = [outgoing EXCEPT ![p] = Tail(@)]
    /\ UNCHANGED <<link, asked, returns, callVars, workerVars, dispatchVars, hookVars>>

\* The server runs a call and replies under its id, or takes a reply.
ServerRead(p) ==
    /\ link[p] = "up"
    /\ outgoing[p] # <<>>
    /\ LET msg == Head(outgoing[p])
       IN \/ /\ msg.kind = "Call"
             /\ runs' = [runs EXCEPT ![msg.of] = @ + 1]
             /\ incoming' = [incoming EXCEPT ![p] =
                    Append(@, [kind |-> "Ret", id |-> msg.id, of |-> msg.of])]
             /\ UNCHANGED returns
          \/ /\ msg.kind = "Ret"
             /\ returns' = [returns EXCEPT ![msg.of] = @ + 1]
             /\ UNCHANGED <<runs, incoming>>
    /\ outgoing' = [outgoing EXCEPT ![p] = Tail(@)]
    /\ UNCHANGED <<link, asked, callVars, workerVars, dispatchVars, hookVars>>

ServerCall(s, p) ==
    /\ asked[s] = None
    /\ link[p] = "up"
    /\ asked' = [asked EXCEPT ![s] = p]
    /\ incoming' = [incoming EXCEPT ![p] = Append(@, [kind |-> "Call", of |-> s])]
    /\ UNCHANGED <<link, outgoing, runs, returns,
                   callVars, workerVars, dispatchVars, hookVars>>

-----------------------------------------------------------------------------
(* The specification *)

Next ==
    \/ \E k \in Callers : CallStart(k) \/ CallUnbound(k) \/ CallSend(k)
    \/ Worker
    \/ \E p \in Paths :
           \/ Dispatch(p)
           \/ Hook(p)
           \/ UnbindStart(p)
           \/ UnbindSend(p)
           \/ ServerClose(p)
           \/ LinkBreaks(p)
           \/ ServerRead(p)
           \/ \E s \in ServerCalls : ServerCall(s, p)

Spec == Init /\ [][Next]_vars

\* The runtime keeps polling every task, connection attempts come to an end, the
\* hooks and handlers return, and a server that is connected reads and answers.
Fairness ==
    /\ WF_vars(Worker)
    /\ \A k \in Callers : WF_vars(CallSend(k))
    /\ \A p \in Paths :
           /\ WF_vars(Dispatch(p))
           /\ WF_vars(Hook(p))
           /\ WF_vars(UnbindSend(p))
           /\ WF_vars(ServerRead(p))

FairSpec == Spec /\ Fairness

-----------------------------------------------------------------------------
(* Properties *)

\* While the worker awaits the reply of a call, exactly that call is in the
\* hands of exactly one dispatch task, its own; otherwise no call is.  So no
\* call waits in vain for a oneshot that nobody holds, and no reply can find
\* two calls (client.rs:294-297, client/handler.rs:103-118).
OneInFlight ==
    {held \in Paths \X Callers : held[2] \in InQueue(held[1]) \cup Pending(held[1])} =
        IF busy.op = "Await" THEN {<<Target[busy.of], busy.of>>} ELSE {}

\* A call returns its own reply, however few ids there are and however often
\* its path is connected again; the id check of the caller never fails
\* (client/caller.rs:80-87).
AnswerOwn ==
    \A k \in Callers :
        /\ phase[k] = "ok" => answer[k] = k
        /\ phase[k] # "mismatch"

\* The hooks of a path: each runs once at most, none before the request hook,
\* and the close hook only after the task has connected and has ended for good:
\* a connection that is lost and made again is no close
\* (client/handler.rs:128, client/binding.rs:67-103).  Nothing is said of open
\* and close: a task that ends before its hook task looks has sent both signals,
\* and select! may take the close first.
HooksOnce ==
    \A p \in Paths :
        /\ \A i, j \in 1 .. Len(ran[p]) : ran[p][i] = ran[p][j] => i = j
        /\ ran[p] # <<>> => ran[p][1] = "request"
        /\ \A i \in 1 .. Len(ran[p]) :
               ran[p][i] = "close" => /\ dispatch[p] = "ended"
                                      /\ signal[p]["open"] # "none"

\* The calls keep the promise of call_remotely, over lost connections, new
\* attempts, unbinding and the end of the worker (client/caller.rs:46-88).
Promise ==
    INSTANCE RpcPromise WITH
        Calls <- Callers,
        status <- [k \in Callers |->
            CASE phase[k] = "idle" -> "idle"
              [] Active(k) -> "pending"
              [] phase[k] = "ok" -> "ok"
              [] OTHER -> "failed"],
        executed <- runs
PromiseKept == Promise!Spec

\* A call comes back: with its reply, or failed with its connection, its route
\* or the worker (client/caller.rs:46-88, client.rs:288-301).
CallsSettle == \A k \in Callers : Active(k) ~> ~Active(k)

HasRun(p, h) == \E i \in 1 .. Len(ran[p]) : ran[p][i] = h

\* The open hook runs for a path that was connected, and the close hook when
\* its task has ended, whatever ended it (client/conn.rs:35-47).
HooksRun ==
    \A p \in Paths :
        /\ dispatch[p] = "open" ~> HasRun(p, "open")
        /\ dispatch[p] = "ended" /\ HasRun(p, "open") ~> HasRun(p, "close")

\* No dispatch task outlives its route or the worker, whether it is connected,
\* connecting or asleep, and unbind returns (client.rs:153-166, 278-286;
\* client/handler.rs:77).
TasksEnd ==
    \A p \in Paths :
        /\ binding[p] = "removing" ~> binding[p] = "removed" /\ dispatch[p] = "ended"
        /\ ~alive ~> dispatch[p] = "ended"

\* "The client will continue processing requests and handling WebSocket
\* connections until explicitly aborted." (client.rs:244-245)  It does not: a
\* call on a path whose task has ended ends the worker (client.rs:296).
KeepsRunning == alive

=============================================================================
