------------------------------ MODULE ServerRpc ------------------------------
(***************************************************************************)
(* The WebSocket side of the edgy-s server for one bound path: the worker  *)
(* task that owns the route and the pending calls (server.rs), the task of *)
(* each connection (server/handler.rs), its clean-up task (server/conn.rs),*)
(* the task that runs the route's handler (server.rs, add_route), the task *)
(* that runs its open and close hooks (server/binding.rs), and the futures *)
(* of call_remotely (server/caller.rs).  They talk over bounded channels,  *)
(* and every step below is what one task does between two awaits.          *)
(* The peers behave as the crate's own client does (client/handler.rs).    *)
(***************************************************************************)
EXTENDS Naturals, Sequences, FiniteSets

CONSTANTS
    Conns,           \* the connections accepted on the path
    Addrs,           \* the socket addresses they may be known under
    AddrOf,          \* the address extract_real_ip gives each connection
    Callers,         \* the calls of call_remotely made by the server
    HandlerCallers,  \* those made while the route's handler runs
    HookCallers,     \* those made while an open or close hook runs
    PeerCalls,       \* the calls made by the peers
    NumIds,          \* number of values of ReqId: 2^8 to 2^64
    Cap,             \* capacity of the channels: mpsc_channel(2)
    Established,     \* connections that are open in the initial state
    MayClose,        \* connections whose peer may close
    MayUnbind,       \* may the route be removed?
    MayPanic,        \* may the route's handler panic?
    None

ASSUME AddrAssumption == AddrOf \in [Conns -> Addrs] /\ Addrs # {}
ASSUME CallerAssumption ==
    /\ IsFiniteSet(Callers)
    /\ HandlerCallers \subseteq Callers
    /\ HookCallers \subseteq Callers \ HandlerCallers
ASSUME BoundAssumption ==
    /\ NumIds \in Nat \ {0}
    /\ Cap \in Nat \ {0}
    /\ MayUnbind \in BOOLEAN
    /\ MayPanic \in BOOLEAN
ASSUME EstablishedAssumption ==
    /\ Established \subseteq Conns
    /\ MayClose \subseteq Conns
    /\ \A c, d \in Established : AddrOf[c] = AddrOf[d] => c = d

VARIABLES
    \* the futures of call_remotely
    phase, reqId, target, answer, AUTO_ID,
    \* the worker task
    alive, command, busy, pending_requests,
    \* the connections: registry, task, channel, clean-up
    WS_CONNS, connPhase, held, rx, pending_responses, cleanup,
    \* the route task and the registration of the route
    stream, route, routeUp, binding,
    \* the hook task; how often each hook ran for each connection
    close, hook, hookUp, opens, closes,
    \* the network and the peers
    incoming, outgoing, peerGone, issuer, runs, returns

callVars == <<phase, reqId, target, answer, AUTO_ID>>
workerVars == <<alive, command, busy, pending_requests>>
connVars == <<WS_CONNS, connPhase, held, rx, pending_responses, cleanup>>
routeVars == <<stream, route, routeUp, binding>>
hookVars == <<close, hook, hookUp, opens, closes>>
peerVars == <<incoming, outgoing, peerGone, issuer, runs, returns>>

vars == <<callVars, workerVars, connVars, routeVars, hookVars, peerVars>>

-----------------------------------------------------------------------------
(* Packets and commands *)

Ids == 0 .. NumIds - 1

\* Packet::Call and Packet::Ret as a peer sees them, and as the server does;
\* "of" is the call the packet belongs to, which no packet of the code has.
ToPeer ==
    [kind : {"Call"}, id : Ids, of : Callers] \cup [kind : {"Ret"}, of : PeerCalls]
FromPeer ==
    [kind : {"Call"}, of : PeerCalls] \cup [kind : {"Ret"}, id : Ids, of : Callers]

Items == [conn : Conns, msg : FromPeer]      \* what the route task receives

ASSUME NoneAssumption == None \notin Callers \cup Conns \cup FromPeer \cup Items

Command ==
    [op : {"CallRemotely"}, of : Callers]
    \cup [op : {"Transfer"}, item : Items]
    \cup [op : {"CommitReturn"}, addr : Addrs, id : Ids, of : Callers]
    \cup [op : {"WsOpen", "WsClose"}, conn : Conns]
    \cup [op : {"RemoveWsRoute"}]

\* Where the worker stops inside a command: sending to the channel of a
\* connection with WS_CONNS locked, waiting for the open hook, sending to the
\* hook task.
Inside ==
    [op : {"Forward"}, of : Callers, conn : Conns]
    \cup [op : {"AwaitOpen", "SendClose"}, conn : Conns]

Idle == [op |-> "none"]

Hooks == [ev : {"open", "close"}, conn : Conns]

\* "refused" is the error of a call on a path that is not bound, which takes no id;
\* "mismatch" the one of the check of the id at the end of call_remotely.
Phases == {"idle", "refused", "sending", "waiting", "ok", "mismatch", "failed"}

CallsOK ==
    /\ phase \in [Callers -> Phases]
    /\ reqId \in [Callers -> Ids]
    /\ target \in [Callers -> Addrs]
    /\ answer \in [Callers -> Callers \cup {None}]
    /\ AUTO_ID \in Ids

WorkerOK ==
    /\ alive \in BOOLEAN
    /\ command \in Seq(Command)
    /\ busy \in Command \cup Inside \cup {Idle}
    /\ pending_requests \in [Addrs \X Ids -> Callers \cup {None}]

ConnsOK ==
    /\ WS_CONNS \in [Addrs -> Conns \cup {None}]
    /\ connPhase \in [Conns -> {"new", "handshake", "upgrading", "open", "sending",
                                "exited", "gone", "rejected"}]
    /\ held \in [Conns -> FromPeer \cup {None}]
    /\ \A c \in Conns : connPhase[c] = "sending" => held[c] \in FromPeer
    /\ rx \in [Conns -> Seq(ToPeer)]
    /\ pending_responses \in [Conns -> SUBSET PeerCalls]
    /\ cleanup \in [Conns -> {"none", "close", "remove", "done"}]

RouteOK ==
    /\ stream \in Seq(Items)
    /\ route \in Items \cup {None}
    /\ routeUp \in BOOLEAN
    /\ binding \in {"bound", "removing", "queued", "removed"}

HooksOK ==
    /\ close \in Seq(Conns)
    /\ hook \in Hooks \cup {None}
    /\ hookUp \in BOOLEAN
    /\ opens \in [Conns -> Nat]
    /\ closes \in [Conns -> Nat]

PeersOK ==
    /\ incoming \in [Conns -> Seq(FromPeer)]
    /\ outgoing \in [Conns -> Seq(ToPeer)]
    /\ peerGone \in [Conns -> BOOLEAN]
    /\ issuer \in [PeerCalls -> Conns \cup {None}]
    /\ runs \in [Callers -> Nat]
    /\ returns \in [PeerCalls -> Nat]

TypeOK == CallsOK /\ WorkerOK /\ ConnsOK /\ RouteOK /\ HooksOK /\ PeersOK

Init ==
    /\ phase = [k \in Callers |-> "idle"]
    /\ reqId = [k \in Callers |-> 0]
    /\ target = [k \in Callers |-> CHOOSE a \in Addrs : TRUE]
    /\ answer = [k \in Callers |-> None]
    /\ AUTO_ID = 0
    /\ alive = TRUE
    /\ command = <<>>
    /\ busy = Idle
    /\ pending_requests = [key \in Addrs \X Ids |-> None]
    /\ WS_CONNS = [a \in Addrs |-> IF \E c \in Established : AddrOf[c] = a
                                   THEN CHOOSE c \in Established : AddrOf[c] = a
                                   ELSE None]
    /\ connPhase = [c \in Conns |-> IF c \in Established THEN "open" ELSE "new"]
    /\ held = [c \in Conns |-> None]
    /\ rx = [c \in Conns |-> <<>>]
    /\ pending_responses = [c \in Conns |-> {}]
    /\ cleanup = [c \in Conns |-> "none"]
    /\ stream = <<>>
    /\ route = None
    /\ routeUp = TRUE
    /\ binding = "bound"
    /\ close = <<>>
    /\ hook = None
    /\ hookUp = TRUE
    /\ opens = [c \in Conns |-> IF c \in Established THEN 1 ELSE 0]
    /\ closes = [c \in Conns |-> 0]
    /\ incoming = [c \in Conns |-> <<>>]
    /\ outgoing = [c \in Conns |-> <<>>]
    /\ peerGone = [c \in Conns |-> FALSE]
    /\ issuer = [p \in PeerCalls |-> None]
    /\ runs = [k \in Callers |-> 0]
    /\ returns = [p \in PeerCalls |-> 0]

-----------------------------------------------------------------------------
(* Channels, locks and tables *)

\* Fault: one place of every channel is lost.
HasRoomLess(q) == Len(q) + 1 < Cap

HasRoom(q) == Len(q) < Cap

\* Only the worker keeps WS_CONNS locked across an await.
Unlocked == busy.op # "Forward"

\* The path is a key of BIND_SENDERS; of the worker's ws_handlers.
Bound == binding = "bound"
Routed == binding # "removed"

\* The receiving end of the channel of a connection exists.
RxAlive(c) == connPhase[c] \in {"open", "sending", "exited"}
\* Its select loop runs, or waits inside a branch.
\* Fault: a connection that waits to send a message counts as closed.
ServingIdle(c) == connPhase[c] = "open"

Serving(c) == connPhase[c] \in {"open", "sending"}

Active(k) == phase[k] \in {"sending", "waiting"}
Failing(S) == [k \in Callers |-> IF k \in S THEN "failed" ELSE phase[k]]

HandlerRunning == route # None /\ route.msg.kind = "Call"
HookRunning == hook # None

KeysOf(c) == {key \in Addrs \X Ids : key[1] = AddrOf[c]}

-----------------------------------------------------------------------------
(* call_remotely *)

\* Faults: the id is never advanced; it is advanced beyond its width.
NextIdStuck(i) == i
NextIdWide(i) == i + 1

NextId(i) == (i + 1) % NumIds

\* The handler or the hook a call is made from is running.
MayStart(k) ==
    /\ k \in HandlerCallers => HandlerRunning
    /\ k \in HookCallers => HookRunning

CallStart(k, a) ==
    /\ phase[k] = "idle"
    /\ MayStart(k)
    /\ Bound
    /\ phase' = [phase EXCEPT ![k] = "sending"]
    /\ target' = [target EXCEPT ![k] = a]
    /\ reqId' = [reqId EXCEPT ![k] = AUTO_ID]
    /\ AUTO_ID' = NextId(AUTO_ID)
    /\ UNCHANGED <<answer, workerVars, connVars, routeVars, hookVars, peerVars>>

CallUnbound(k) ==
    /\ phase[k] = "idle"
    /\ MayStart(k)
    /\ ~Bound
    /\ phase' = [phase EXCEPT ![k] = "refused"]
    /\ UNCHANGED <<reqId, target, answer, AUTO_ID,
                   workerVars, connVars, routeVars, hookVars, peerVars>>

CallSend(k) ==
    /\ phase[k] = "sending"
    /\ \/ /\ alive
          /\ HasRoom(command)
          /\ command' = Append(command, [op |-> "CallRemotely", of |-> k])
          /\ phase' = [phase EXCEPT ![k] = "waiting"]
       \/ /\ ~alive
          /\ phase' = Failing({k})
          /\ UNCHANGED command
    /\ UNCHANGED <<reqId, target, answer, AUTO_ID, alive, busy, pending_requests,
                   connVars, routeVars, hookVars, peerVars>>

-----------------------------------------------------------------------------
(* The worker *)

WorkerRecv ==
    /\ alive
    /\ busy = Idle
    /\ command # <<>>
    /\ busy' = Head(command)
    /\ command' = Tail(command)
    /\ UNCHANGED <<alive, pending_requests,
                   callVars, connVars, routeVars, hookVars, peerVars>>

\* CallRemotely: find the connection; the lock is kept while its channel is full.
WorkerFind ==
    /\ busy.op = "CallRemotely"
    /\ LET k == busy.of
           c == WS_CONNS[target[k]]
       IN \/ /\ c # None
             /\ busy' = [op |-> "Forward", of |-> k, conn |-> c]
             /\ UNCHANGED phase
          \/ /\ c = None
             /\ busy' = Idle
             /\ phase' = Failing({k})
    /\ UNCHANGED <<alive, command, pending_requests, reqId, target, answer, AUTO_ID,
                   connVars, routeVars, hookVars, peerVars>>

\* The call whose oneshot sender an insert under the key drops.
Displaced(key) == {pending_requests[key]} \ {None}

WorkerForward ==
    /\ busy.op = "Forward"
    /\ RxAlive(busy.conn)
    /\ HasRoom(rx[busy.conn])
    /\ LET k == busy.of
           key == <<target[k], reqId[k]>>
       IN /\ rx' = [rx EXCEPT ![busy.conn] =
                        Append(@, [kind |-> "Call", id |-> reqId[k], of |-> k])]
          /\ phase' = Failing(Displaced(key))
          /\ pending_requests' = [pending_requests EXCEPT ![key] = k]
    /\ busy' = Idle
    /\ UNCHANGED <<alive, command, reqId, target, answer, AUTO_ID, WS_CONNS, connPhase,
                   held, pending_responses, cleanup, routeVars, hookVars, peerVars>>

WorkerRefused ==
    /\ busy.op = "Forward"
    /\ ~RxAlive(busy.conn)
    /\ phase' = Failing({busy.of})
    /\ busy' = Idle
    /\ UNCHANGED <<alive, command, pending_requests, reqId, target, answer, AUTO_ID,
                   connVars, routeVars, hookVars, peerVars>>

\* Transfer: hand the message to the route task, if the path is still routed.
WorkerTransfer ==
    /\ busy.op = "Transfer"
    /\ \/ /\ Routed
          /\ routeUp
          /\ HasRoom(stream)
          /\ stream' = Append(stream, busy.item)
       \/ /\ ~Routed
          /\ UNCHANGED stream
    /\ busy' = Idle
    /\ UNCHANGED <<alive, command, pending_requests, route, routeUp, binding,
                   callVars, connVars, hookVars, peerVars>>

\* Transfer to a route task that has panicked: `?` ends the worker, which drops
\* every sender it holds and every command that is queued.
WorkerDie ==
    /\ busy.op = "Transfer"
    /\ Routed
    /\ ~routeUp
    /\ alive' = FALSE
    /\ busy' = Idle
    /\ command' = <<>>
    /\ pending_requests' = [key \in Addrs \X Ids |-> None]
    /\ phase' = Failing({k \in Callers : phase[k] = "waiting"})
    /\ connPhase' = [c \in Conns |-> IF connPhase[c] = "handshake"
                                     THEN "rejected" ELSE connPhase[c]]
    /\ binding' = IF binding = "queued" THEN "removed" ELSE binding
    /\ UNCHANGED <<reqId, target, answer, AUTO_ID, WS_CONNS, held, rx, pending_responses,
                   cleanup, stream, route, routeUp, hookVars, peerVars>>

CallPendingOn(addr, id) == pending_requests[<<addr, id>>]

\* CommitReturn: the reply of call "of" settles the call pending under its key;
\* call_remotely checks the id again.
WorkerCommit ==
    /\ busy.op = "CommitReturn"
    /\ LET k == CallPendingOn(busy.addr, busy.id)
       IN \/ /\ k # None
             /\ pending_requests' =
                    [pending_requests EXCEPT ![<<busy.addr, busy.id>>] = None]
             /\ phase' = [phase EXCEPT ![k] =
                              IF reqId[k] = busy.id THEN "ok" ELSE "mismatch"]
             /\ answer' = [answer EXCEPT ![k] = busy.of]
          \/ /\ k = None
             /\ UNCHANGED <<pending_requests, phase, answer>>
    /\ busy' = Idle
    /\ UNCHANGED <<alive, command, reqId, target, AUTO_ID,
                   connVars, routeVars, hookVars, peerVars>>

\* Fault: the oneshot of a handshake is kept while the path is not bound.
WorkerWsOpenWaits ==
    /\ busy.op = "WsOpen"
    /\ busy' = IF Routed THEN [op |-> "AwaitOpen", conn |-> busy.conn] ELSE Idle
    /\ UNCHANGED <<alive, command, pending_requests, connVars, callVars,
                   routeVars, hookVars, peerVars>>

\* WsOpen: send the event to the hook task and wait for the hook to return.
WorkerWsOpen ==
    /\ busy.op = "WsOpen"
    /\ \/ /\ Routed
          /\ busy' = [op |-> "AwaitOpen", conn |-> busy.conn]
          /\ UNCHANGED connPhase
       \/ /\ ~Routed
          /\ busy' = Idle
          /\ connPhase' = [connPhase EXCEPT ![busy.conn] = "rejected"]
    /\ UNCHANGED <<alive, command, pending_requests, WS_CONNS, held, rx,
                   pending_responses, cleanup, callVars, routeVars, hookVars, peerVars>>

\* WsClose: fail the calls pending on the connection's address.
WorkerWsClose ==
    /\ busy.op = "WsClose"
    /\ phase' = Failing({pending_requests[key] : key \in KeysOf(busy.conn)} \ {None})
    /\ pending_requests' = [key \in Addrs \X Ids |->
                               IF key \in KeysOf(busy.conn) THEN None
                               ELSE pending_requests[key]]
    /\ busy' = IF Routed THEN [op |-> "SendClose", conn |-> busy.conn] ELSE Idle
    /\ UNCHANGED <<alive, command, reqId, target, answer, AUTO_ID,
                   connVars, routeVars, hookVars, peerVars>>

WorkerSendClose ==
    /\ busy.op = "SendClose"
    /\ HasRoom(close)
    /\ close' = Append(close, busy.conn)
    /\ busy' = Idle
    /\ UNCHANGED <<alive, command, pending_requests, hook, hookUp, opens, closes,
                   callVars, connVars, routeVars, peerVars>>

WorkerRemoveRoute ==
    /\ busy.op = "RemoveWsRoute"
    /\ binding' = "removed"
    /\ busy' = Idle
    /\ UNCHANGED <<alive, command, pending_requests, stream, route, routeUp,
                   callVars, connVars, hookVars, peerVars>>

Worker ==
    \/ WorkerRecv \/ WorkerFind \/ WorkerForward \/ WorkerRefused \/ WorkerTransfer
    \/ WorkerDie \/ WorkerCommit \/ WorkerWsOpen \/ WorkerWsClose \/ WorkerSendClose
    \/ WorkerRemoveRoute

-----------------------------------------------------------------------------
(* The task of a connection (ws_dispatch) and its clean-up task *)

ConnSendOpen(c) ==
    /\ connPhase[c] = "new"
    /\ \/ /\ alive
          /\ HasRoom(command)
          /\ command' = Append(command, [op |-> "WsOpen", conn |-> c])
          /\ connPhase' = [connPhase EXCEPT ![c] = "handshake"]
       \/ /\ ~alive
          /\ connPhase' = [connPhase EXCEPT ![c] = "rejected"]
          /\ UNCHANGED command
    /\ UNCHANGED <<alive, busy, pending_requests, WS_CONNS, held, rx, pending_responses,
                   cleanup, callVars, routeVars, hookVars, peerVars>>

\* Faults: the connection is registered, or guarded, before the upgrade.
ConnUpgradeFailsRegistered(c) ==
    /\ connPhase[c] = "upgrading"
    /\ connPhase' = [connPhase EXCEPT ![c] = "rejected"]
    /\ WS_CONNS' = [WS_CONNS EXCEPT ![AddrOf[c]] = c]
    /\ UNCHANGED <<held, rx, pending_responses, cleanup,
                   callVars, workerVars, routeVars, hookVars, peerVars>>

ConnUpgradeFailsGuarded(c) ==
    /\ connPhase[c] = "upgrading"
    /\ connPhase' = [connPhase EXCEPT ![c] = "rejected"]
    /\ cleanup' = [cleanup EXCEPT ![c] = "close"]
    /\ UNCHANGED <<WS_CONNS, held, rx, pending_responses,
                   callVars, workerVars, routeVars, hookVars, peerVars>>

\* The response cannot be sent or the upgrade fails: the task returns before
\* its guard exists, although the open hook has run.
ConnUpgradeFails(c) ==
    /\ connPhase[c] = "upgrading"
    /\ connPhase' = [connPhase EXCEPT ![c] = "rejected"]
    /\ UNCHANGED <<WS_CONNS, held, rx, pending_responses, cleanup,
                   callVars, workerVars, routeVars, hookVars, peerVars>>

\* Fault: the entry is skipped while the registry is locked.
ConnRegisterTryLock(c) ==
    /\ connPhase[c] = "upgrading"
    /\ WS_CONNS' = IF Unlocked THEN [WS_CONNS EXCEPT ![AddrOf[c]] = c] ELSE WS_CONNS
    /\ connPhase' = [connPhase EXCEPT ![c] = "open"]
    /\ UNCHANGED <<held, rx, pending_responses, cleanup,
                   callVars, workerVars, routeVars, hookVars, peerVars>>

\* Registering overwrites the entry of another connection with the same address.
ConnRegister(c) ==
    /\ connPhase[c] = "upgrading"
    /\ Unlocked
    /\ WS_CONNS' = [WS_CONNS EXCEPT ![AddrOf[c]] = c]
    /\ connPhase' = [connPhase EXCEPT ![c] = "open"]
    /\ UNCHANGED <<held, rx, pending_responses, cleanup,
                   callVars, workerVars, routeVars, hookVars, peerVars>>

\* Writing to a socket whose peer is gone is an error that is only logged.
Written(c, msg) ==
    IF peerGone[c] THEN outgoing ELSE [outgoing EXCEPT ![c] = Append(@, msg)]

\* Fault: the message stays in the channel after it is written.
ConnForwardAgain(c) ==
    /\ connPhase[c] = "open"
    /\ rx[c] # <<>>
    /\ Len(outgoing[c]) < Cap
    /\ outgoing' = Written(c, Head(rx[c]))
    /\ UNCHANGED <<WS_CONNS, connPhase, held, rx, pending_responses, cleanup, incoming,
                   peerGone, issuer, runs, returns, callVars, workerVars, routeVars,
                   hookVars>>

ConnForward(c) ==
    /\ connPhase[c] = "open"
    /\ rx[c] # <<>>
    /\ outgoing' = Written(c, Head(rx[c]))
    /\ rx' = [rx EXCEPT ![c] = Tail(@)]
    /\ UNCHANGED <<WS_CONNS, connPhase, held, pending_responses, cleanup, incoming,
                   peerGone, issuer, runs, returns, callVars, workerVars, routeVars,
                   hookVars>>

ConnRespond(c) ==
    /\ connPhase[c] = "open"
    /\ \E p \in pending_responses[c] :
           /\ outgoing' = Written(c, [kind |-> "Ret", of |-> p])
           /\ pending_responses' = [pending_responses EXCEPT ![c] = @ \ {p}]
    /\ UNCHANGED <<WS_CONNS, connPhase, held, rx, cleanup, incoming, peerGone, issuer,
                   runs, returns, callVars, workerVars, routeVars, hookVars>>

ConnIncoming(c) ==
    /\ connPhase[c] = "open"
    /\ incoming[c] # <<>>
    /\ held' = [held EXCEPT ![c] = Head(incoming[c])]
    /\ incoming' = [incoming EXCEPT ![c] = Tail(@)]
    /\ connPhase' = [connPhase EXCEPT ![c] = "sending"]
    /\ UNCHANGED <<WS_CONNS, rx, pending_responses, cleanup, outgoing, peerGone, issuer,
                   runs, returns, callVars, workerVars, routeVars, hookVars>>

\* While this send waits for room the select loop polls nothing, rx included.
ConnTransfer(c) ==
    /\ connPhase[c] = "sending"
    /\ \/ /\ alive
          /\ HasRoom(command)
          /\ command' = Append(command, [op |-> "Transfer",
                                         item |-> [conn |-> c, msg |-> held[c]]])
       \/ /\ ~alive
          /\ UNCHANGED command
    /\ connPhase' = [connPhase EXCEPT ![c] = "open"]
    /\ held' = [held EXCEPT ![c] = None]
    /\ UNCHANGED <<alive, busy, pending_requests, WS_CONNS, rx, pending_responses,
                   cleanup, callVars, routeVars, hookVars, peerVars>>

\* Fault: a closed channel does not end the loop.
ConnExitByPeer(c) ==
    /\ connPhase[c] = "open"
    /\ peerGone[c] /\ incoming[c] = <<>>
    /\ connPhase' = [connPhase EXCEPT ![c] = "exited"]
    /\ cleanup' = [cleanup EXCEPT ![c] = "close"]
    /\ pending_responses' = [pending_responses EXCEPT ![c] = {}]
    /\ UNCHANGED <<WS_CONNS, held, rx, callVars, workerVars, routeVars, hookVars, peerVars>>

\* The peer closed, or the registry dropped the only sender of rx.  The guard is
\* dropped first and spawns the clean-up task; rx is dropped last.
ConnExit(c) ==
    /\ connPhase[c] = "open"
    /\ \/ peerGone[c] /\ incoming[c] = <<>>
       \/ WS_CONNS[AddrOf[c]] # c /\ rx[c] = <<>>
    /\ connPhase' = [connPhase EXCEPT ![c] = "exited"]
    /\ cleanup' = [cleanup EXCEPT ![c] = "close"]
    /\ pending_responses' = [pending_responses EXCEPT ![c] = {}]
    /\ UNCHANGED <<WS_CONNS, held, rx, callVars, workerVars, routeVars, hookVars, peerVars>>

ConnDropRx(c) ==
    /\ connPhase[c] = "exited"
    /\ connPhase' = [connPhase EXCEPT ![c] = "gone"]
    /\ rx' = [rx EXCEPT ![c] = <<>>]
    /\ UNCHANGED <<WS_CONNS, held, pending_responses, cleanup,
                   callVars, workerVars, routeVars, hookVars, peerVars>>

\* The clean-up task.  WsConnGuard::drop returns without one when the service has
\* been dropped with its runtime, which ends every other task here as well.
CleanupClose(c) ==
    /\ cleanup[c] = "close"
    /\ \/ /\ alive
          /\ HasRoom(command)
          /\ command' = Append(command, [op |-> "WsClose", conn |-> c])
       \/ /\ ~alive
          /\ UNCHANGED command
    /\ cleanup' = [cleanup EXCEPT ![c] = "remove"]
    /\ UNCHANGED <<alive, busy, pending_requests, WS_CONNS, connPhase, held, rx,
                   pending_responses, callVars, routeVars, hookVars, peerVars>>

\* The entry is removed by its key, whichever connection it belongs to by now.
CleanupRemove(c) ==
    /\ cleanup[c] = "remove"
    /\ Unlocked
    /\ WS_CONNS' = [WS_CONNS EXCEPT ![AddrOf[c]] = None]
    /\ cleanup' = [cleanup EXCEPT ![c] = "done"]
    /\ UNCHANGED <<connPhase, held, rx, pending_responses,
                   callVars, workerVars, routeVars, hookVars, peerVars>>

Conn(c) ==
    \/ ConnSendOpen(c) \/ ConnUpgradeFails(c) \/ ConnRegister(c) \/ ConnForward(c)
    \/ ConnRespond(c) \/ ConnIncoming(c) \/ ConnTransfer(c) \/ ConnExit(c)
    \/ ConnDropRx(c) \/ CleanupClose(c) \/ CleanupRemove(c)

-----------------------------------------------------------------------------
(* The route task: one message at a time, the handler included *)

RouteRecv ==
    /\ routeUp
    /\ route = None
    /\ stream # <<>>
    /\ route' = Head(stream)
    /\ stream' = Tail(stream)
    /\ UNCHANGED <<routeUp, binding, callVars, workerVars, connVars, hookVars, peerVars>>

\* Fault: the return value goes to every connection known under the address.
AnswersAddr(c) == AddrOf[c] = AddrOf[route.conn]

\* The connection whose future waits for the handler's return value.
Answers(c) == c = route.conn

\* The handler returns, which it cannot while a call it made is unanswered.
RouteReturn ==
    /\ HandlerRunning
    /\ \A k \in HandlerCallers : ~Active(k)
    /\ pending_responses' = [c \in Conns |->
           IF Answers(c) /\ Serving(c) THEN pending_responses[c] \cup {route.msg.of}
           ELSE pending_responses[c]]
    /\ route' = None
    /\ UNCHANGED <<stream, routeUp, binding, WS_CONNS, connPhase, held, rx, cleanup,
                   callVars, workerVars, hookVars, peerVars>>

\* Fault: the id of the reply is off by one.
CommitOfNext(item) ==
    [op |-> "CommitReturn", addr |-> AddrOf[item.conn],
     id |-> NextId(item.msg.id), of |-> item.msg.of]

CommitOf(item) ==
    [op |-> "CommitReturn", addr |-> AddrOf[item.conn],
     id |-> item.msg.id, of |-> item.msg.of]

\* A reply goes back to the worker under the address it came from.
RouteCommit ==
    /\ route # None
    /\ route.msg.kind = "Ret"
    /\ \/ /\ alive
          /\ HasRoom(command)
          /\ command' = Append(command, CommitOf(route))
       \/ /\ ~alive
          /\ UNCHANGED command
    /\ route' = None
    /\ UNCHANGED <<stream, routeUp, binding, alive, busy, pending_requests,
                   callVars, connVars, hookVars, peerVars>>

\* A panic of the handler ends the task and drops the receiver of stream.
HandlerPanic ==
    /\ MayPanic
    /\ HandlerRunning
    /\ \A k \in HandlerCallers : ~Active(k)
    /\ routeUp' = FALSE
    /\ route' = None
    /\ stream' = <<>>
    /\ UNCHANGED <<binding, callVars, workerVars, connVars, hookVars, peerVars>>

Route == RouteRecv \/ RouteReturn \/ RouteCommit \/ HandlerPanic

-----------------------------------------------------------------------------
(* The hook task: one event at a time, the hook included *)

HookTakeOpen ==
    /\ hookUp
    /\ hook = None
    /\ busy.op = "AwaitOpen"
    /\ hook' = [ev |-> "open", conn |-> busy.conn]
    /\ UNCHANGED <<close, hookUp, opens, closes,
                   callVars, workerVars, connVars, routeVars, peerVars>>

\* The open hook returns: the worker answers the handshake and goes on.
HookOpenDone ==
    /\ HookRunning
    /\ hook.ev = "open"
    /\ \A k \in HookCallers : ~Active(k)
    /\ opens' = [opens EXCEPT ![hook.conn] = @ + 1]
    /\ connPhase' = [connPhase EXCEPT ![hook.conn] = "upgrading"]
    /\ busy' = Idle
    /\ hook' = None
    /\ UNCHANGED <<close, hookUp, closes, alive, command, pending_requests, WS_CONNS,
                   held, rx, pending_responses, cleanup, callVars, routeVars, peerVars>>

HookTakeClose ==
    /\ hookUp
    /\ hook = None
    /\ close # <<>>
    /\ hook' = [ev |-> "close", conn |-> Head(close)]
    /\ close' = Tail(close)
    /\ UNCHANGED <<hookUp, opens, closes,
                   callVars, workerVars, connVars, routeVars, peerVars>>

\* Fault: the loop ends after a close event.
HookCloseOnce ==
    /\ HookRunning
    /\ hook.ev = "close"
    /\ \A k \in HookCallers : ~Active(k)
    /\ closes' = [closes EXCEPT ![hook.conn] = @ + 1]
    /\ hook' = None
    /\ hookUp' = FALSE
    /\ UNCHANGED <<close, opens, callVars, workerVars, connVars, routeVars, peerVars>>

HookCloseDone ==
    /\ HookRunning
    /\ hook.ev = "close"
    /\ \A k \in HookCallers : ~Active(k)
    /\ closes' = [closes EXCEPT ![hook.conn] = @ + 1]
    /\ hook' = None
    /\ UNCHANGED <<close, hookUp, opens,
                   callVars, workerVars, connVars, routeVars, peerVars>>

\* The worker dropped both senders: `None => break`, with close events unread.
HookStop ==
    /\ hookUp
    /\ hook = None
    /\ ~Routed \/ ~alive
    /\ hookUp' = FALSE
    /\ close' = <<>>
    /\ UNCHANGED <<hook, opens, closes,
                   callVars, workerVars, connVars, routeVars, peerVars>>

Hook == HookTakeOpen \/ HookOpenDone \/ HookTakeClose \/ HookCloseDone \/ HookStop

-----------------------------------------------------------------------------
(* remove_route *)

UnbindStart ==
    /\ MayUnbind
    /\ binding = "bound"
    /\ binding' = "removing"
    /\ UNCHANGED <<stream, route, routeUp,
                   callVars, workerVars, connVars, hookVars, peerVars>>

\* Fault: the worker is taken to be alive.
UnbindSendBlindly ==
    /\ binding = "removing"
    /\ alive
    /\ HasRoom(command)
    /\ command' = Append(command, [op |-> "RemoveWsRoute"])
    /\ binding' = "queued"
    /\ UNCHANGED <<stream, route, routeUp, alive, busy, pending_requests,
                   callVars, connVars, hookVars, peerVars>>

UnbindSend ==
    /\ binding = "removing"
    /\ \/ /\ alive
          /\ HasRoom(command)
          /\ command' = Append(command, [op |-> "RemoveWsRoute"])
          /\ binding' = "queued"
       \/ /\ ~alive
          /\ binding' = "removed"
          /\ UNCHANGED command
    /\ UNCHANGED <<stream, route, routeUp, alive, busy, pending_requests,
                   callVars, connVars, hookVars, peerVars>>

Unbind == UnbindStart \/ UnbindSend

-----------------------------------------------------------------------------
(* The peers and the network *)

\* The peer closes or its connection breaks: what it sent may be lost.
PeerClose(c) ==
    /\ c \in MayClose
    /\ Serving(c)
    /\ ~peerGone[c]
    /\ peerGone' = [peerGone EXCEPT ![c] = TRUE]
    /\ \/ UNCHANGED incoming
       \/ incoming' = [incoming EXCEPT ![c] = <<>>]
    /\ outgoing' = [outgoing EXCEPT ![c] = <<>>]
    /\ UNCHANGED <<issuer, runs, returns,
                   callVars, workerVars, connVars, routeVars, hookVars>>

\* The peer's dispatch loop reads one message: it runs a call and writes the
\* reply under the same id, or takes a reply.
PeerRead(c) ==
    /\ ~peerGone[c]
    /\ outgoing[c] # <<>>
    /\ LET msg == Head(outgoing[c])
       IN \/ /\ msg.kind = "Call"
             /\ runs' = [runs EXCEPT ![msg.of] = @ + 1]
             /\ incoming' = [incoming EXCEPT ![c] =
                    Append(@, [kind |-> "Ret", id |-> msg.id, of |-> msg.of])]
             /\ UNCHANGED returns
          \/ /\ msg.kind = "Ret"
             /\ returns' = [returns EXCEPT ![msg.of] = @ + 1]
             /\ UNCHANGED <<runs, incoming>>
    /\ outgoing' = [outgoing EXCEPT ![c] = Tail(@)]
    /\ UNCHANGED <<peerGone, issuer,
                   callVars, workerVars, connVars, routeVars, hookVars>>

\* The peer calls the route's function.
PeerCall(p, c) ==
    /\ issuer[p] = None
    /\ Serving(c)
    /\ ~peerGone[c]
    /\ issuer' = [issuer EXCEPT ![p] = c]
    /\ incoming' = [incoming EXCEPT ![c] = Append(@, [kind |-> "Call", of |-> p])]
    /\ UNCHANGED <<outgoing, peerGone, runs, returns,
                   callVars, workerVars, connVars, routeVars, hookVars>>

-----------------------------------------------------------------------------
(* The specification *)

Next ==
    \/ \E k \in Callers :
           \/ \E a \in Addrs : CallStart(k, a)
           \/ CallUnbound(k)
           \/ CallSend(k)
    \/ Worker
    \/ Route
    \/ Hook
    \/ Unbind
    \/ \E c \in Conns :
           \/ Conn(c)
           \/ PeerClose(c)
           \/ PeerRead(c)
           \/ \E p \in PeerCalls : PeerCall(p, c)

Spec == Init /\ [][Next]_vars

-----------------------------------------------------------------------------
(* Fairness: the runtime polls every task that is woken, the semaphore of a    *)
(* channel serves blocked senders in order, select! favours no branch, and a   *)
(* peer that stays connected reads its socket.  New calls, panics, failing     *)
(* upgrades, closing peers and remove_route are never forced to happen.        *)

Fairness ==
    /\ \A k \in Callers : WF_vars(CallSend(k))
    /\ WF_vars(Worker)
    /\ WF_vars(RouteRecv \/ RouteReturn \/ RouteCommit)
    /\ WF_vars(Hook)
    /\ WF_vars(UnbindSend)
    /\ \A c \in Conns :
           /\ WF_vars(ConnSendOpen(c))
           /\ WF_vars(ConnRegister(c))
           /\ WF_vars(ConnForward(c))
           /\ WF_vars(ConnRespond(c))
           /\ WF_vars(ConnIncoming(c))
           /\ WF_vars(ConnTransfer(c))
           /\ WF_vars(ConnExit(c))
           /\ WF_vars(ConnDropRx(c))
           /\ WF_vars(CleanupClose(c))
           /\ WF_vars(CleanupRemove(c))
           /\ WF_vars(PeerRead(c))

FairSpec == Spec /\ Fairness

-----------------------------------------------------------------------------
(* Properties of the calls of the server *)

\* The reply a call of call_remotely returns comes from a call with the same id
\* to the same address, and the second check of the id in caller.rs never fails:
\* whatever the interleaving, and even when the ids wrap around.
AnswerMatches ==
    \A k \in Callers :
        /\ phase[k] # "mismatch"
        /\ answer[k] # None =>
               reqId[answer[k]] = reqId[k] /\ target[answer[k]] = target[k]

\* A packet of call k on its way: the call itself, or the reply of a peer.
CallOf(msg, k) == msg.kind = "Call" /\ msg.of = k
ReplyOf(msg, k) == msg.kind = "Ret" /\ msg.of = k
CommandReplies(q, k) ==
    \/ q.op = "Transfer" /\ ReplyOf(q.item.msg, k)
    \/ q.op = "CommitReturn" /\ q.of = k

\* Call k has not come back, or has but a packet of it is still somewhere.
UnderWay(k) ==
    \/ Active(k)
    \/ \E c \in Conns :
           \/ \E i \in 1 .. Len(rx[c]) : CallOf(rx[c][i], k)
           \/ \E i \in 1 .. Len(outgoing[c]) : CallOf(outgoing[c][i], k)
           \/ \E i \in 1 .. Len(incoming[c]) : ReplyOf(incoming[c][i], k)
           \/ held[c] # None /\ ReplyOf(held[c], k)
    \/ \E i \in 1 .. Len(command) : CommandReplies(command[i], k)
    \/ CommandReplies(busy, k)
    \/ \E i \in 1 .. Len(stream) : ReplyOf(stream[i].msg, k)
    \/ route # None /\ ReplyOf(route.msg, k)

\* Steps that draw no id which a call under way to the same address holds.  The code
\* does not see to it: AUTO_ID comes round after NumIds calls, however long one takes.
FreshIds ==
    \A k \in Callers : phase[k] = "idle" /\ phase'[k] = "sending" =>
        \A j \in Callers \ {k} :
            UnderWay(j) /\ target[j] = target'[k] => reqId[j] # reqId'[k]

\* The reply a call returns is its own, as long as ids are fresh when they are drawn.
AnswerOwn == \A k \in Callers : answer[k] \in {None, k}

\* Every call of call_remotely that was sent comes back, with a reply or an error.
CallsSettle == \A k \in Callers : Active(k) ~> ~Active(k)

\* The same for the calls made by the route's handler.  The comment in the select
\* loop of ws_dispatch says the loop polls rx always, to let such calls through.
HandlerCallsSettle == \A k \in HandlerCallers : Active(k) ~> ~Active(k)

\* What a caller sees of its call, and whether a peer has run it.
Promise == INSTANCE RpcPromise WITH
    Calls <- Callers,
    status <- [k \in Callers |->
                  CASE phase[k] \in {"sending", "waiting"} -> "pending"
                    [] phase[k] \in {"refused", "failed", "mismatch"} -> "failed"
                    [] OTHER -> phase[k]],
    executed <- runs

\* The engine keeps the promise of call_remotely, as long as ids are fresh when they
\* are drawn: a peer runs a call at most once, and a call returns a value only after
\* a peer has run it, for itself.
PromiseKept == Promise!Spec

-----------------------------------------------------------------------------
(* Properties of the calls of the peers *)

\* The return value of a peer's call goes to the connection that made the call,
\* at most once: at every stage there is at most one copy and it is on its way
\* to the issuer.
ReturnToIssuer ==
    /\ \A p \in PeerCalls : returns[p] <= 1
    /\ \A c \in Conns :
           /\ \A p \in pending_responses[c] : issuer[p] = c /\ returns[p] = 0
           /\ \A i \in 1 .. Len(outgoing[c]) : outgoing[c][i].kind = "Ret" =>
                  /\ issuer[outgoing[c][i].of] = c
                  /\ returns[outgoing[c][i].of] = 0
                  /\ outgoing[c][i].of \notin pending_responses[c]

\* A peer's call is answered while the peer stays connected.
PeerCallsReturn ==
    \A p \in PeerCalls : \A c \in Conns :
        issuer[p] = c ~> (returns[p] = 1 \/ peerGone[c])

-----------------------------------------------------------------------------
(* Properties of the registry and of the hooks *)

LosesEntry(c) ==
    /\ Serving(c)'
    /\ Serving(c) => WS_CONNS[AddrOf[c]] = c
    /\ WS_CONNS'[AddrOf[c]] # c

TakesEntry(d, c) ==
    /\ AddrOf[d] = AddrOf[c]
    /\ \/ WS_CONNS[AddrOf[c]] # d /\ WS_CONNS'[AddrOf[c]] = d
       \/ cleanup[d] # "done" /\ cleanup'[d] = "done"

\* get_other_conns "returns all other connections to the same path" (conn.rs:297).
\* A connection has its entry in WS_CONNS from the moment it is served.  It may lose
\* it while it is served, but only to another one with its address, which takes the
\* entry or whose clean-up removes it in that step (handler.rs:271, conn.rs:374).
RegistryLosses ==
    [][\A c \in Conns : LosesEntry(c) => \E d \in Conns \ {c} : TakesEntry(d, c)]_vars

\* A connection that has lost its entry in WS_CONNS, which nobody could call or find
\* any more, is ended: the entry held the only sender of its channel.
DisplacedEnds == \A c \in Conns :
    Serving(c) /\ WS_CONNS[AddrOf[c]] # c ~> ~Serving(c)

\* WsConnGuard: a connection whose task has ended stays in WS_CONNS only until
\* its clean-up task has run.
NoGhostEntry ==
    \A a \in Addrs : WS_CONNS[a] # None =>
        LET c == WS_CONNS[a]
        IN AddrOf[c] = a /\ (Serving(c) \/ cleanup[c] \in {"close", "remove"})

\* No message of a connection reaches the route before the open hook has
\* returned for it, and the close hook runs at most once and only for a
\* connection whose open hook ran and whose task is over.
HookOrder ==
    /\ \A c \in Conns :
           /\ opens[c] <= 1
           /\ closes[c] <= opens[c]
           /\ closes[c] = 1 => connPhase[c] \in {"exited", "gone"}
           /\ connPhase[c] \notin {"new", "handshake", "rejected"} => opens[c] = 1
    /\ \A i \in 1 .. Len(stream) : opens[stream[i].conn] = 1
    /\ route # None => opens[route.conn] = 1

\* A handshake ends, with the connection open or refused.
HandshakeEnds == \A c \in Conns :
    connPhase[c] = "handshake" ~> connPhase[c] \notin {"handshake", "upgrading"}

\* The close hook runs for every connection that ends while the route is bound.
CloseHookRuns == \A c \in Conns :
    cleanup[c] = "close" ~> (closes[c] = 1 \/ ~Bound)

\* remove_route returns, also when the worker has ended.
UnbindReturns == binding \in {"removing", "queued"} ~> binding = "removed"

-----------------------------------------------------------------------------
(* Tasks that wait for each other *)

\* The worker sends to a full rx that its connection does not poll, because the
\* connection sends to a full command channel that the worker does not read.
\* "Must always be polled ... we must drain rx to avoid deadlock" (handler.rs).
NoWorkerConnCycle ==
    \A c \in Conns :
        ~ /\ busy.op = "Forward" /\ busy.conn = c /\ ~HasRoom(rx[c])
          /\ connPhase[c] = "sending" /\ ~HasRoom(command)

\* The worker sends to the full stream of the route task, which sends a reply to
\* the full command channel of the worker.
NoWorkerRouteCycle ==
    ~ /\ busy.op = "Transfer" /\ Routed /\ routeUp /\ ~HasRoom(stream)
      /\ route # None /\ route.msg.kind = "Ret" /\ ~HasRoom(command)

\* No task is inside a handler, a hook, a send or a message it has taken.
Quiet ==
    /\ \A k \in Callers : phase[k] # "sending"
    /\ command = <<>> /\ busy = Idle /\ stream = <<>> /\ route = None
    /\ close = <<>> /\ hook = None
    /\ \A c \in Conns :
           /\ connPhase[c] \in {"open", "gone", "rejected"}
           /\ cleanup[c] \in {"none", "done"}
           /\ rx[c] = <<>> /\ pending_responses[c] = {}
           /\ outgoing[c] = <<>>
           /\ connPhase[c] = "open" => incoming[c] = <<>>

=============================================================================
