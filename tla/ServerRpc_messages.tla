------------------------- MODULE ServerRpc_messages -------------------------
(***************************************************************************)
(* What the peers send: every message is in one place at a time on its way *)
(* through the socket, the task of the connection, the worker and the      *)
(* route task, so that a peer's call is run once and answered once, on the *)
(* connection it came from.                                                *)
(*                                                                         *)
(* The first part speaks of any set M of messages of which the peers send  *)
(* one; the second takes the calls of the peers for M.  The last follows a *)
(* request of the server and, with the replies of the peers for M, shows   *)
(* that a call gets its own reply, and that the server implements          *)
(* RpcPromise, as long as the ids it draws are fresh.                      *)
(***************************************************************************)
EXTENDS ServerRpc_answers

-----------------------------------------------------------------------------
(* What a step does to the channel of the worker *)

Removal == [op |-> "RemoveWsRoute"]

\* The step puts command e into the channel.
Queues(e) ==
    /\ command' = Append(command, e)
    /\ e.op = "CommitReturn" => RouteCommit /\ e = CommitOf(route)
    /\ e = Removal => binding = "removing" /\ binding' = "queued" /\ UNCHANGED busy

LEMMA StepChannel ==
  ASSUME TypeOK, [Next]_vars
  PROVE  \/ UNCHANGED command
         \/ command' = <<>>
         \/ WorkerRecv
         \/ \E e \in Command : Queues(e)
  <1>1. CASE \E k \in Callers : CallUnbound(k) \/ CallSend(k) \/ \E a \in Addrs : CallStart(k, a)
    <2>1. PICK k \in Callers : CallUnbound(k) \/ CallSend(k) \/ \E a \in Addrs : CallStart(k, a)
      BY <1>1
    <2>2. PICK e : e = [op |-> "CallRemotely", of |-> k]
      OBVIOUS
    <2>3. e \in Command /\ e.op = "CallRemotely" /\ e # Removal
      BY <2>2, CommandFact DEF Removal
    <2>4. UNCHANGED command \/ command' = Append(command, e)
      BY <2>1, <2>2 DEF CallUnbound, CallSend, CallStart, workerVars
    <2> QED
      BY <2>3, <2>4 DEF Queues
  <1>2. CASE Worker
    BY <1>2 DEF Worker, WorkerFind, WorkerForward, WorkerRefused, WorkerTransfer, WorkerDie,
           WorkerCommit, WorkerWsOpen, WorkerWsClose, WorkerSendClose, WorkerRemoveRoute
  <1>3. CASE \E c \in Conns : \/ Conn(c) \/ PeerClose(c) \/ PeerRead(c)
                              \/ \E p \in PeerCalls : PeerCall(p, c)
    <2>1. PICK c \in Conns : \/ Conn(c) \/ PeerClose(c) \/ PeerRead(c)
                             \/ \E p \in PeerCalls : PeerCall(p, c)
      BY <1>3
    <2>2. CASE ConnTransfer(c)
      <3>1. PICK e : e = [op |-> "Transfer", item |-> [conn |-> c, msg |-> held[c]]]
        OBVIOUS
      <3>2. e \in Command /\ e.op = "Transfer" /\ e # Removal
        BY <2>2, <3>1, CommandFact, PacketFact DEF ConnTransfer, TypeOK, ConnsOK, Removal
      <3>3. UNCHANGED command \/ command' = Append(command, e)
        BY <2>2, <3>1 DEF ConnTransfer
      <3> QED
        BY <3>2, <3>3 DEF Queues
    <2>3. CASE ConnSendOpen(c) \/ CleanupClose(c)
      <3>1. \A e \in {[op |-> "WsOpen", conn |-> c], [op |-> "WsClose", conn |-> c]} :
                e \in Command /\ e.op # "CommitReturn" /\ e # Removal
        BY CommandFact DEF Removal
      <3>2. \/ UNCHANGED command
            \/ \E e \in {[op |-> "WsOpen", conn |-> c], [op |-> "WsClose", conn |-> c]} :
                   command' = Append(command, e)
        BY <2>3 DEF ConnSendOpen, CleanupClose
      <3> QED
        BY <3>1, <3>2 DEF Queues
    <2> QED
      BY <2>1, <2>2, <2>3
         DEF Conn, ConnUpgradeFails, ConnRegister, ConnForward, ConnRespond, ConnIncoming,
             ConnExit, ConnDropRx, CleanupRemove, PeerClose, PeerRead, PeerCall, workerVars
  <1>4. CASE RouteCommit
    <2>1. PICK e : e = CommitOf(route)
      OBVIOUS
    <2>2. e \in Command /\ e.op = "CommitReturn" /\ e # Removal
      BY <1>4, <2>1, CommandFact DEF RouteCommit, TypeOK, RouteOK, CommitOf, Removal
    <2>3. UNCHANGED command \/ command' = Append(command, e)
      BY <1>4, <2>1 DEF RouteCommit
    <2> QED
      BY <1>4, <2>1, <2>2, <2>3 DEF Queues
  <1>5. CASE Unbind
    <2>1. Removal \in Command /\ Removal.op # "CommitReturn"
      BY CommandFact DEF Removal
    <2>2. \/ UNCHANGED command
          \/ command' = Append(command, Removal) /\ UNCHANGED busy
             /\ binding = "removing" /\ binding' = "queued"
      BY <1>5 DEF Unbind, UnbindStart, UnbindSend, Removal, workerVars
    <2> QED
      BY <2>1, <2>2 DEF Queues
  <1>6. CASE Hook \/ (Route /\ ~RouteCommit) \/ UNCHANGED vars
    BY <1>6 DEF Route, RouteRecv, RouteReturn, HandlerPanic, Hook, HookTakeOpen, HookOpenDone,
           HookTakeClose, HookCloseDone, HookStop, vars, workerVars
  <1> QED
    BY <1>1, <1>2, <1>3, <1>4, <1>5, <1>6 DEF Next

LEMMA StepBusy ==
  ASSUME [Next]_vars
  PROVE  busy' = busy \/ WorkerRecv \/ busy'.op \in {"none", "Forward", "AwaitOpen", "SendClose"}
  <1>1. CASE Worker
    BY <1>1 DEF Worker, WorkerFind, WorkerForward, WorkerRefused, WorkerTransfer, WorkerDie,
           WorkerCommit, WorkerWsOpen, WorkerWsClose, WorkerSendClose, WorkerRemoveRoute, Idle
  <1>2. CASE Hook
    BY <1>2 DEF Hook, HookTakeOpen, HookOpenDone, HookTakeClose, HookCloseDone, HookStop,
           workerVars, Idle
  <1>3. CASE \E c \in Conns : \/ Conn(c) \/ PeerClose(c) \/ PeerRead(c)
                              \/ \E p \in PeerCalls : PeerCall(p, c)
    BY <1>3 DEF Conn, ConnSendOpen, ConnUpgradeFails, ConnRegister, ConnForward, ConnRespond,
           ConnIncoming, ConnTransfer, ConnExit, ConnDropRx, CleanupClose, CleanupRemove,
           PeerClose, PeerRead, PeerCall, workerVars
  <1> QED
    BY <1>1, <1>2, <1>3
       DEF Next, vars, CallStart, CallUnbound, CallSend, Route, RouteRecv, RouteReturn,
           RouteCommit, HandlerPanic, Unbind, UnbindStart, UnbindSend, workerVars

-----------------------------------------------------------------------------
(* The places of a message on its way in *)

Msgs(c, M) == {m \in FromPeer : [conn |-> c, msg |-> m] \in M}
TransfersOf(M) == {[op |-> "Transfer", item |-> i] : i \in M}

InSocket(c, M) == Has(incoming[c], Msgs(c, M))
InHeld(c, M) == held[c] \in Msgs(c, M)
AtConn(c, M) == InSocket(c, M) \/ InHeld(c, M)
InCommand(M) == Has(command, TransfersOf(M))
InBusy(M) == busy \in TransfersOf(M)
InStream(M) == Has(stream, M)
InRoute(M) == route \in M

\* No message of M is in any place; at most one is.
Absent(M) ==
    /\ \A c \in Conns : ~AtConn(c, M)
    /\ ~InCommand(M) /\ ~InBusy(M) /\ ~InStream(M) /\ ~InRoute(M)

OneCopy(M) ==
    /\ \A c \in Conns : /\ AtMostOne(incoming[c], Msgs(c, M))
                        /\ ~(InSocket(c, M) /\ InHeld(c, M))
    /\ \A c, d \in Conns : AtConn(c, M) /\ AtConn(d, M) => c = d
    /\ AtMostOne(command, TransfersOf(M)) /\ AtMostOne(stream, M)
    /\ \A c \in Conns : AtConn(c, M) =>
           ~InCommand(M) /\ ~InBusy(M) /\ ~InStream(M) /\ ~InRoute(M)
    /\ InCommand(M) => ~InBusy(M) /\ ~InStream(M) /\ ~InRoute(M)
    /\ InBusy(M) => ~InStream(M) /\ ~InRoute(M)
    /\ InStream(M) => ~InRoute(M)

\* A peer puts a message of M into its socket: a call, or the reply to a call.
CallItem(c, p) == [conn |-> c, msg |-> [kind |-> "Call", of |-> p]]
ReplyItem(c, msg) == [conn |-> c, msg |-> [kind |-> "Ret", id |-> msg.id, of |-> msg.of]]

Enters(M) ==
    \E c \in Conns :
        \/ \E p \in PeerCalls : PeerCall(p, c) /\ CallItem(c, p) \in M
        \/ /\ PeerRead(c) /\ Head(outgoing[c]).kind = "Call"
           /\ ReplyItem(c, Head(outgoing[c])) \in M

-----------------------------------------------------------------------------
(* What a step does to the messages of M *)

\* No message of M moves; some may get lost.
Fewer(M) ==
    /\ \A c \in Conns :
           /\ InSocket(c, M)' => InSocket(c, M)
           /\ InHeld(c, M)' => InHeld(c, M)
           /\ AtMostOne(incoming[c], Msgs(c, M)) => AtMostOne(incoming[c], Msgs(c, M))'
    /\ InCommand(M)' => InCommand(M)
    /\ AtMostOne(command, TransfersOf(M)) => AtMostOne(command, TransfersOf(M))'
    /\ InBusy(M)' => InBusy(M)
    /\ InStream(M)' => InStream(M)
    /\ AtMostOne(stream, M) => AtMostOne(stream, M)'
    /\ InRoute(M)' => InRoute(M)

\* What is meant of every step, for the messages of M.
Orderly(M) ==
    /\ ~Enters(M) /\ Absent(M) => Absent(M)'
    /\ ~Enters(M) /\ OneCopy(M) => OneCopy(M)'
    /\ Absent(M) => OneCopy(M)'

LEMMA AbsentOne == ASSUME NEW M, Absent(M)' PROVE OneCopy(M)'
  BY DEF Absent, OneCopy, AtConn, InSocket, InCommand, InStream, Has, AtMostOne

LEMMA FewerOrderly == ASSUME NEW M, Fewer(M) PROVE Orderly(M)
  <1>1. \A c \in Conns : AtConn(c, M)' => AtConn(c, M)
    BY DEF Fewer, AtConn
  <1>2. Absent(M) => Absent(M)'
    BY <1>1 DEF Fewer, Absent
  <1>3. OneCopy(M) => OneCopy(M)'
    BY <1>1 DEF Fewer, OneCopy
  <1> QED
    BY <1>2, <1>3, AbsentOne DEF Orderly

LEMMA PlacesKept ==
  ASSUME NEW M
  PROVE  /\ UNCHANGED incoming => \A c \in Conns :
                /\ InSocket(c, M)' <=> InSocket(c, M)
                /\ AtMostOne(incoming[c], Msgs(c, M)) <=> AtMostOne(incoming[c], Msgs(c, M))'
         /\ UNCHANGED held => \A c \in Conns : InHeld(c, M)' <=> InHeld(c, M)
         /\ UNCHANGED command =>
                /\ InCommand(M)' <=> InCommand(M)
                /\ AtMostOne(command, TransfersOf(M)) <=> AtMostOne(command, TransfersOf(M))'
         /\ UNCHANGED busy => (InBusy(M)' <=> InBusy(M))
         /\ UNCHANGED stream => /\ InStream(M)' <=> InStream(M)
                                /\ AtMostOne(stream, M) <=> AtMostOne(stream, M)'
         /\ UNCHANGED route => (InRoute(M)' <=> InRoute(M))
  BY DEF InSocket, InHeld, InCommand, InBusy, InStream, InRoute, Msgs, TransfersOf

LEMMA PlacesLost ==
  ASSUME NEW M \in SUBSET Items
  PROVE  /\ busy'.op # "Transfer" => ~InBusy(M)'
         /\ route' = None => ~InRoute(M)'
         /\ stream' = <<>> => ~InStream(M)' /\ AtMostOne(stream, M)'
         /\ command' = <<>> => ~InCommand(M)' /\ AtMostOne(command, TransfersOf(M))'
  <1>1. None \notin M
    BY NoneAssumption
  <1>2. \A q \in TransfersOf(M) : q.op = "Transfer"
    BY DEF TransfersOf
  <1> QED
    BY <1>1, <1>2, HasEmpty DEF InBusy, InRoute, InStream, InCommand, TransfersOf

LEMMA OtherCommandFewer ==
  ASSUME TypeOK, NEW M, NEW e \in Command, e.op # "Transfer",
         command' = Append(command, e)
  PROVE  /\ InCommand(M)' <=> InCommand(M)
         /\ AtMostOne(command, TransfersOf(M)) => AtMostOne(command, TransfersOf(M))'
  <1>1. e \notin TransfersOf(M)
    BY DEF TransfersOf
  <1>2. /\ Has(command', TransfersOf(M)) <=> Has(command, TransfersOf(M))
        /\ AtMostOne(command, TransfersOf(M)) => AtMostOne(command', TransfersOf(M))
    BY <1>1, HasAppend DEF TypeOK, WorkerOK
  <1> QED
    BY <1>2 DEF InCommand, TransfersOf

\* Steps that leave the places alone, or empty one.
LEMMA KeepingSteps ==
  ASSUME TypeOK, NEW M \in SUBSET Items,
         UNCHANGED held,
         \/ UNCHANGED incoming
         \/ \E c \in Conns : incoming' = [incoming EXCEPT ![c] = <<>>],
         \/ UNCHANGED command
         \/ command' = <<>>
         \/ \E e \in Command : e.op # "Transfer" /\ command' = Append(command, e),
         UNCHANGED busy \/ busy'.op # "Transfer",
         UNCHANGED stream \/ stream' = <<>>,
         UNCHANGED route \/ route' = None
  PROVE  Fewer(M)
  <1>1. ASSUME NEW c \in Conns
        PROVE  /\ InSocket(c, M)' => InSocket(c, M)
               /\ AtMostOne(incoming[c], Msgs(c, M)) => AtMostOne(incoming[c], Msgs(c, M))'
    <2>1. CASE UNCHANGED incoming
      BY <2>1, PlacesKept
    <2>2. CASE \E d \in Conns : incoming' = [incoming EXCEPT ![d] = <<>>]
      <3>1. incoming'[c] = incoming[c] \/ incoming'[c] = <<>>
        BY <2>2 DEF TypeOK, PeersOK
      <3>2. /\ Has(incoming'[c], Msgs(c, M)) => Has(incoming[c], Msgs(c, M))
            /\ AtMostOne(incoming[c], Msgs(c, M)) => AtMostOne(incoming'[c], Msgs(c, M))
        BY <3>1, HasEmpty
      <3> QED
        BY <3>2 DEF InSocket, Msgs
    <2> QED
      BY <2>1, <2>2
  <1>2. /\ InCommand(M)' => InCommand(M)
        /\ AtMostOne(command, TransfersOf(M)) => AtMostOne(command, TransfersOf(M))'
    BY PlacesKept, PlacesLost, OtherCommandFewer
  <1> QED
    BY <1>1, <1>2, PlacesKept, PlacesLost DEF Fewer

LEMMA KeepingStep ==
  ASSUME TypeOK, NEW M \in SUBSET Items,
         \/ \E k \in Callers : CallUnbound(k) \/ CallSend(k) \/ \E a \in Addrs : CallStart(k, a)
         \/ WorkerFind \/ WorkerForward \/ WorkerRefused \/ WorkerDie \/ WorkerCommit
         \/ WorkerWsOpen \/ WorkerWsClose \/ WorkerSendClose \/ WorkerRemoveRoute
         \/ \E c \in Conns :
                \/ ConnSendOpen(c) \/ ConnUpgradeFails(c) \/ ConnRegister(c) \/ ConnForward(c)
                \/ ConnRespond(c) \/ ConnExit(c) \/ ConnDropRx(c) \/ CleanupClose(c)
                \/ CleanupRemove(c) \/ PeerClose(c)
         \/ RouteReturn \/ RouteCommit \/ HandlerPanic
         \/ Hook \/ Unbind \/ UNCHANGED vars
  PROVE  Fewer(M)
  <1>1. CASE \E k \in Callers : CallUnbound(k) \/ CallSend(k) \/ \E a \in Addrs : CallStart(k, a)
    <2>1. UNCHANGED <<held, incoming, busy, stream, route>>
      BY <1>1 DEF CallUnbound, CallSend, CallStart, workerVars, connVars, routeVars, peerVars
    <2>2. UNCHANGED command \/ \E e \in Command : e.op # "Transfer" /\ command' = Append(command, e)
      BY <1>1, CommandFact DEF CallUnbound, CallSend, CallStart, workerVars
    <2> QED
      BY <2>1, <2>2, KeepingSteps
  <1>2. CASE \/ WorkerFind \/ WorkerForward \/ WorkerRefused \/ WorkerDie \/ WorkerCommit
             \/ WorkerWsOpen \/ WorkerWsClose \/ WorkerSendClose \/ WorkerRemoveRoute
    <2>1. UNCHANGED <<held, incoming, stream, route>>
      BY <1>2 DEF WorkerFind, WorkerForward, WorkerRefused, WorkerDie, WorkerCommit,
                  WorkerWsOpen, WorkerWsClose, WorkerSendClose, WorkerRemoveRoute,
                  connVars, routeVars, peerVars
    <2>2. UNCHANGED command \/ command' = <<>>
      BY <1>2 DEF WorkerFind, WorkerForward, WorkerRefused, WorkerDie, WorkerCommit,
                  WorkerWsOpen, WorkerWsClose, WorkerSendClose, WorkerRemoveRoute
    <2>3. busy'.op # "Transfer"
      BY <1>2 DEF WorkerFind, WorkerForward, WorkerRefused, WorkerDie, WorkerCommit,
                  WorkerWsOpen, WorkerWsClose, WorkerSendClose, WorkerRemoveRoute, Idle
    <2> QED
      BY <2>1, <2>2, <2>3, KeepingSteps
  <1>3. CASE \E c \in Conns :
                \/ ConnSendOpen(c) \/ ConnUpgradeFails(c) \/ ConnRegister(c) \/ ConnForward(c)
                \/ ConnRespond(c) \/ ConnExit(c) \/ ConnDropRx(c) \/ CleanupClose(c)
                \/ CleanupRemove(c) \/ PeerClose(c)
    <2>1. UNCHANGED <<held, busy, stream, route>>
      BY <1>3 DEF ConnSendOpen, ConnUpgradeFails, ConnRegister, ConnForward, ConnRespond,
                  ConnExit, ConnDropRx, CleanupClose, CleanupRemove, PeerClose, connVars,
                  workerVars, routeVars
    <2>2. UNCHANGED incoming \/ \E c \in Conns : incoming' = [incoming EXCEPT ![c] = <<>>]
      BY <1>3 DEF ConnSendOpen, ConnUpgradeFails, ConnRegister, ConnForward, ConnRespond,
                  ConnExit, ConnDropRx, CleanupClose, CleanupRemove, PeerClose, peerVars
    <2>3. UNCHANGED command \/ \E e \in Command : e.op # "Transfer" /\ command' = Append(command, e)
      BY <1>3, CommandFact
         DEF ConnSendOpen, ConnUpgradeFails, ConnRegister, ConnForward, ConnRespond,
             ConnExit, ConnDropRx, CleanupClose, CleanupRemove, PeerClose, workerVars
    <2> QED
      BY <2>1, <2>2, <2>3, KeepingSteps
  <1>4. CASE RouteReturn \/ RouteCommit \/ HandlerPanic
    <2>1. UNCHANGED <<held, incoming, busy>> /\ (UNCHANGED stream \/ stream' = <<>>) /\ route' = None
      BY <1>4 DEF RouteReturn, RouteCommit, HandlerPanic, connVars, workerVars, peerVars
    <2>2. UNCHANGED command \/ \E e \in Command : e.op # "Transfer" /\ command' = Append(command, e)
      <3>1. CASE RouteCommit
        <4>1. CommitOf(route) \in Command /\ CommitOf(route).op = "CommitReturn"
          BY <3>1, CommandFact DEF RouteCommit, CommitOf, TypeOK, RouteOK
        <4> QED
          BY <3>1, <4>1 DEF RouteCommit
      <3> QED
        BY <1>4, <3>1 DEF RouteReturn, HandlerPanic, workerVars
    <2> QED
      BY <2>1, <2>2, KeepingSteps
  <1>5. CASE Hook \/ Unbind \/ UNCHANGED vars
    <2>1. UNCHANGED <<held, incoming, stream, route>> /\ (UNCHANGED busy \/ busy'.op # "Transfer")
      BY <1>5 DEF Hook, HookTakeOpen, HookOpenDone, HookTakeClose, HookCloseDone, HookStop,
                  Unbind, UnbindStart, UnbindSend, vars, workerVars, connVars, routeVars,
                  peerVars, Idle
    <2>2. UNCHANGED command \/ \E e \in Command : e.op # "Transfer" /\ command' = Append(command, e)
      BY <1>5, CommandFact
         DEF Hook, HookTakeOpen, HookOpenDone, HookTakeClose, HookCloseDone, HookStop,
             Unbind, UnbindStart, UnbindSend, vars, workerVars
    <2> QED
      BY <2>1, <2>2, KeepingSteps
  <1> QED
    BY <1>1, <1>2, <1>3, <1>4, <1>5

LEMMA WorkerRecvOrderly ==
  ASSUME TypeOK, NEW M \in SUBSET Items, WorkerRecv PROVE Orderly(M)
  <1>1. PICK q, rest : q = Head(command) /\ rest = Tail(command)
    OBVIOUS
  <1>2. /\ command \in Seq(Command) /\ command # <<>> /\ command' = rest
        /\ busy = Idle /\ busy' = q
        /\ UNCHANGED <<held, incoming, stream, route>>
    BY <1>1 DEF WorkerRecv, TypeOK, WorkerOK, connVars, routeVars, peerVars
  <1>3. /\ InCommand(M) <=> InBusy(M)' \/ InCommand(M)'
        /\ AtMostOne(command, TransfersOf(M)) =>
               AtMostOne(command, TransfersOf(M))' /\ ~(InBusy(M)' /\ InCommand(M)')
    <2>1. /\ Has(command, TransfersOf(M)) <=> q \in TransfersOf(M) \/ Has(rest, TransfersOf(M))
          /\ AtMostOne(command, TransfersOf(M)) =>
                 /\ AtMostOne(rest, TransfersOf(M))
                 /\ ~(q \in TransfersOf(M) /\ Has(rest, TransfersOf(M)))
      BY <1>1, <1>2, HasTail
    <2> QED
      BY <1>2, <2>1 DEF InCommand, InBusy, TransfersOf
  <1>4. /\ \A c \in Conns : /\ AtConn(c, M)' <=> AtConn(c, M)
                            /\ InSocket(c, M)' <=> InSocket(c, M)
                            /\ InHeld(c, M)' <=> InHeld(c, M)
                            /\ AtMostOne(incoming[c], Msgs(c, M)) <=> AtMostOne(incoming[c], Msgs(c, M))'
        /\ InStream(M)' <=> InStream(M)
        /\ AtMostOne(stream, M) <=> AtMostOne(stream, M)'
        /\ InRoute(M)' <=> InRoute(M)
    BY <1>2, PlacesKept DEF AtConn
  <1>5. Absent(M) => Absent(M)'
    BY <1>3, <1>4 DEF Absent
  <1>6. OneCopy(M) => OneCopy(M)'
    BY <1>3, <1>4 DEF OneCopy
  <1> QED
    BY <1>5, <1>6, AbsentOne DEF Orderly

LEMMA WorkerTransferOrderly ==
  ASSUME TypeOK, NEW M \in SUBSET Items, WorkerTransfer PROVE Orderly(M)
  <1>1. PICK i \in Items : i = busy.item
    BY BusyFact DEF TypeOK, WorkerTransfer
  <1>2. /\ stream \in Seq(Items) /\ busy.op = "Transfer" /\ busy \in Command
        /\ busy' = Idle /\ busy'.op # "Transfer"
        /\ UNCHANGED <<held, incoming, command, route>>
        /\ stream' = stream \/ stream' = Append(stream, i)
    BY <1>1 DEF WorkerTransfer, TypeOK, WorkerOK, RouteOK, connVars, peerVars, Idle, Inside
  <1>3. InBusy(M) <=> i \in M
    <2>1. busy = [op |-> "Transfer", item |-> i]
      BY <1>1, <1>2 DEF Command
    <2> QED
      BY <2>1 DEF InBusy, TransfersOf
  <1>4. /\ InStream(M)' => InStream(M) \/ InBusy(M)
        /\ AtMostOne(stream, M) /\ ~(InBusy(M) /\ InStream(M)) => AtMostOne(stream, M)'
    <2>1. CASE stream' = stream
      BY <2>1, PlacesKept
    <2>2. CASE stream' = Append(stream, i)
      BY <1>1, <1>2, <1>3, <2>2, HasAppend DEF InStream
    <2> QED
      BY <1>2, <2>1, <2>2
  <1>5. /\ \A c \in Conns : /\ AtConn(c, M)' <=> AtConn(c, M)
                            /\ InSocket(c, M)' <=> InSocket(c, M)
                            /\ InHeld(c, M)' <=> InHeld(c, M)
                            /\ AtMostOne(incoming[c], Msgs(c, M)) <=> AtMostOne(incoming[c], Msgs(c, M))'
        /\ InCommand(M)' <=> InCommand(M)
        /\ AtMostOne(command, TransfersOf(M)) <=> AtMostOne(command, TransfersOf(M))'
        /\ InRoute(M)' <=> InRoute(M)
        /\ ~InBusy(M)'
    BY <1>2, PlacesKept, PlacesLost DEF AtConn
  <1>6. Absent(M) => Absent(M)'
    BY <1>4, <1>5 DEF Absent
  <1>7. OneCopy(M) => OneCopy(M)'
    BY <1>4, <1>5 DEF OneCopy
  <1> QED
    BY <1>6, <1>7, AbsentOne DEF Orderly

LEMMA RouteRecvOrderly ==
  ASSUME TypeOK, NEW M \in SUBSET Items, RouteRecv PROVE Orderly(M)
  <1>1. PICK i, rest : i = Head(stream) /\ rest = Tail(stream)
    OBVIOUS
  <1>2. /\ stream \in Seq(Items) /\ stream # <<>> /\ stream' = rest
        /\ route = None /\ route' = i
        /\ UNCHANGED <<held, incoming, command, busy>>
    BY <1>1 DEF RouteRecv, TypeOK, RouteOK, connVars, workerVars, peerVars
  <1>3. /\ InStream(M) <=> InRoute(M)' \/ InStream(M)'
        /\ AtMostOne(stream, M) => AtMostOne(stream, M)' /\ ~(InRoute(M)' /\ InStream(M)')
    BY <1>1, <1>2, HasTail DEF InStream, InRoute
  <1>4. /\ \A c \in Conns : /\ AtConn(c, M)' <=> AtConn(c, M)
                            /\ InSocket(c, M)' <=> InSocket(c, M)
                            /\ InHeld(c, M)' <=> InHeld(c, M)
                            /\ AtMostOne(incoming[c], Msgs(c, M)) <=> AtMostOne(incoming[c], Msgs(c, M))'
        /\ InCommand(M)' <=> InCommand(M)
        /\ AtMostOne(command, TransfersOf(M)) <=> AtMostOne(command, TransfersOf(M))'
        /\ InBusy(M)' <=> InBusy(M)
    BY <1>2, PlacesKept DEF AtConn
  <1>5. Absent(M) => Absent(M)'
    BY <1>3, <1>4 DEF Absent
  <1>6. OneCopy(M) => OneCopy(M)'
    BY <1>3, <1>4 DEF OneCopy
  <1> QED
    BY <1>5, <1>6, AbsentOne DEF Orderly

LEMMA ConnIncomingOrderly ==
  ASSUME TypeOK, NEW M \in SUBSET Items, NEW c \in Conns, ConnIncoming(c) PROVE Orderly(M)
  <1>1. PICK m, rest : m = Head(incoming[c]) /\ rest = Tail(incoming[c])
    OBVIOUS
  <1>2. /\ incoming[c] \in Seq(FromPeer) /\ incoming[c] # <<>>
        /\ \A d \in Conns : /\ incoming'[d] = IF d = c THEN rest ELSE incoming[d]
                            /\ held'[d] = IF d = c THEN m ELSE held[d]
        /\ UNCHANGED <<command, busy, stream, route>>
    BY <1>1 DEF ConnIncoming, TypeOK, PeersOK, ConnsOK, workerVars, routeVars
  <1>3. /\ InSocket(c, M) <=> InHeld(c, M)' \/ InSocket(c, M)'
        /\ AtMostOne(incoming[c], Msgs(c, M)) =>
               AtMostOne(incoming[c], Msgs(c, M))' /\ ~(InHeld(c, M)' /\ InSocket(c, M)')
    <2>1. /\ Has(incoming[c], Msgs(c, M)) <=> m \in Msgs(c, M) \/ Has(rest, Msgs(c, M))
          /\ AtMostOne(incoming[c], Msgs(c, M)) =>
                 AtMostOne(rest, Msgs(c, M)) /\ ~(m \in Msgs(c, M) /\ Has(rest, Msgs(c, M)))
      BY <1>1, <1>2, HasTail
    <2> QED
      BY <1>2, <2>1 DEF InSocket, InHeld, Msgs
  <1>4. \A d \in Conns : d # c =>
            /\ InSocket(d, M)' <=> InSocket(d, M)
            /\ InHeld(d, M)' <=> InHeld(d, M)
            /\ AtMostOne(incoming[d], Msgs(d, M)) => AtMostOne(incoming[d], Msgs(d, M))'
    BY <1>2 DEF InSocket, InHeld, Msgs
  <1>5. \A d \in Conns : AtConn(d, M)' => AtConn(d, M)
    BY <1>3, <1>4 DEF AtConn
  <1>6. /\ InCommand(M)' <=> InCommand(M)
        /\ AtMostOne(command, TransfersOf(M)) <=> AtMostOne(command, TransfersOf(M))'
        /\ InBusy(M)' <=> InBusy(M)
        /\ InStream(M)' <=> InStream(M)
        /\ AtMostOne(stream, M) <=> AtMostOne(stream, M)'
        /\ InRoute(M)' <=> InRoute(M)
    BY <1>2, PlacesKept
  <1>7. Absent(M) => Absent(M)'
    BY <1>5, <1>6 DEF Absent
  <1>8. OneCopy(M) => OneCopy(M)'
    BY <1>3, <1>4, <1>5, <1>6 DEF OneCopy
  <1> QED
    BY <1>7, <1>8, AbsentOne DEF Orderly

LEMMA ConnTransferOrderly ==
  ASSUME TypeOK, NEW M \in SUBSET Items, NEW c \in Conns, ConnTransfer(c) PROVE Orderly(M)
  <1>1. PICK m \in FromPeer : m = held[c]
    BY DEF ConnTransfer, TypeOK, ConnsOK
  <1> DEFINE i == [conn |-> c, msg |-> m]
             e == [op |-> "Transfer", item |-> i]
  <1>2. /\ \A d \in Conns : held'[d] = IF d = c THEN None ELSE held[d]
        /\ UNCHANGED <<incoming, busy, stream, route>>
        /\ command \in Seq(Command)
        /\ command' = command \/ command' = Append(command, e)
    BY <1>1 DEF ConnTransfer, TypeOK, ConnsOK, WorkerOK, routeVars, peerVars
  <1>3. InHeld(c, M) <=> e \in TransfersOf(M)
    BY <1>1 DEF InHeld, Msgs, TransfersOf
  <1>4. /\ InCommand(M)' => InCommand(M) \/ InHeld(c, M)
        /\ AtMostOne(command, TransfersOf(M)) /\ ~(InHeld(c, M) /\ InCommand(M)) =>
               AtMostOne(command, TransfersOf(M))'
    <2>1. CASE command' = command
      BY <2>1, PlacesKept
    <2>2. CASE command' = Append(command, e)
      <3>1. e \in Command
        BY CommandFact, PacketFact
      <3>2. /\ Has(command', TransfersOf(M)) <=> Has(command, TransfersOf(M)) \/ e \in TransfersOf(M)
            /\ AtMostOne(command, TransfersOf(M))
               /\ (e \in TransfersOf(M) => ~Has(command, TransfersOf(M)))
               => AtMostOne(command', TransfersOf(M))
        BY <1>2, <2>2, <3>1, HasAppend
      <3> HIDE DEF e
      <3> QED
        BY <1>3, <3>2 DEF InCommand, TransfersOf
    <2> QED
      BY <1>2, <2>1, <2>2
  <1>5. ~InHeld(c, M)' /\ \A d \in Conns : d # c => (InHeld(d, M)' <=> InHeld(d, M))
    BY <1>2, NoneAssumption DEF InHeld, Msgs
  <1>6. /\ \A d \in Conns :
               /\ InSocket(d, M)' <=> InSocket(d, M)
               /\ AtMostOne(incoming[d], Msgs(d, M)) <=> AtMostOne(incoming[d], Msgs(d, M))'
        /\ InBusy(M)' <=> InBusy(M)
        /\ InStream(M)' <=> InStream(M)
        /\ AtMostOne(stream, M) <=> AtMostOne(stream, M)'
        /\ InRoute(M)' <=> InRoute(M)
    BY <1>2, PlacesKept
  <1>7. \A d \in Conns : AtConn(d, M)' => AtConn(d, M)
    BY <1>5, <1>6 DEF AtConn
  <1>8. Absent(M) => Absent(M)'
    BY <1>4, <1>6, <1>7 DEF Absent, AtConn
  <1>9. OneCopy(M) => OneCopy(M)'
    <2> SUFFICES ASSUME OneCopy(M) PROVE OneCopy(M)'
      OBVIOUS
    <2>1. CASE InHeld(c, M)
      <3>1. AtConn(c, M) /\ ~InSocket(c, M)
        BY <2>1 DEF OneCopy, AtConn
      <3>2. \A d \in Conns : ~AtConn(d, M)'
        BY <1>5, <1>6, <1>7, <3>1 DEF OneCopy, AtConn
      <3> QED
        BY <1>4, <1>6, <3>1, <3>2 DEF OneCopy, AtConn
    <2>2. CASE ~InHeld(c, M)
      BY <1>4, <1>5, <1>6, <1>7, <2>2 DEF OneCopy
    <2> QED
      BY <2>1, <2>2
  <1> QED
    BY <1>8, <1>9, AbsentOne DEF Orderly

\* A peer writes a message to its socket.
LEMMA ArrivalOrderly ==
  ASSUME TypeOK, NEW M \in SUBSET Items, NEW c \in Conns, NEW m \in FromPeer,
         incoming' = [incoming EXCEPT ![c] = Append(@, m)],
         UNCHANGED <<held, command, busy, stream, route>>
  PROVE  /\ m \notin Msgs(c, M) => Fewer(M)
         /\ Absent(M) => OneCopy(M)'
  <1>1. /\ incoming[c] \in Seq(FromPeer)
        /\ \A d \in Conns : incoming'[d] = IF d = c THEN Append(incoming[c], m) ELSE incoming[d]
    BY DEF TypeOK, PeersOK
  <1>2. /\ InSocket(c, M)' <=> InSocket(c, M) \/ m \in Msgs(c, M)
        /\ AtMostOne(incoming[c], Msgs(c, M)) /\ (m \in Msgs(c, M) => ~InSocket(c, M)) =>
               AtMostOne(incoming[c], Msgs(c, M))'
    <2>1. /\ Has(incoming'[c], Msgs(c, M)) <=> Has(incoming[c], Msgs(c, M)) \/ m \in Msgs(c, M)
          /\ AtMostOne(incoming[c], Msgs(c, M))
             /\ (m \in Msgs(c, M) => ~Has(incoming[c], Msgs(c, M)))
             => AtMostOne(incoming'[c], Msgs(c, M))
      BY <1>1, HasAppend
    <2> QED
      BY <2>1 DEF InSocket, Msgs
  <1>3. \A d \in Conns : d # c =>
            /\ InSocket(d, M)' <=> InSocket(d, M)
            /\ AtMostOne(incoming[d], Msgs(d, M)) <=> AtMostOne(incoming[d], Msgs(d, M))'
    BY <1>1 DEF InSocket, Msgs
  <1>4. /\ \A d \in Conns : InHeld(d, M)' <=> InHeld(d, M)
        /\ InCommand(M)' <=> InCommand(M)
        /\ AtMostOne(command, TransfersOf(M)) <=> AtMostOne(command, TransfersOf(M))'
        /\ InBusy(M)' <=> InBusy(M)
        /\ InStream(M)' <=> InStream(M)
        /\ AtMostOne(stream, M) <=> AtMostOne(stream, M)'
        /\ InRoute(M)' <=> InRoute(M)
    BY PlacesKept
  <1>5. m \notin Msgs(c, M) => Fewer(M)
    BY <1>2, <1>3, <1>4 DEF Fewer
  <1>6. ASSUME Absent(M) PROVE OneCopy(M)'
    <2>1. \A d \in Conns : /\ ~InSocket(d, M) /\ ~InHeld(d, M)
                           /\ AtMostOne(incoming[d], Msgs(d, M))
      BY <1>6 DEF Absent, AtConn, InSocket, Has, AtMostOne
    <2>2. /\ AtMostOne(command, TransfersOf(M)) /\ AtMostOne(stream, M)
          /\ ~InCommand(M) /\ ~InBusy(M) /\ ~InStream(M) /\ ~InRoute(M)
      BY <1>6 DEF Absent, InCommand, InStream, Has, AtMostOne
    <2>3. \A d \in Conns : /\ ~InHeld(d, M)' /\ (AtConn(d, M)' => d = c)
                           /\ AtMostOne(incoming[d], Msgs(d, M))'
      BY <1>2, <1>3, <1>4, <2>1 DEF AtConn
    <2> QED
      BY <1>4, <2>2, <2>3 DEF OneCopy
  <1> QED
    BY <1>5, <1>6

LEMMA StepOrderly ==
  ASSUME TypeOK, NEW M \in SUBSET Items, [Next]_vars PROVE Orderly(M)
  <1>1. CASE \E c \in Conns : PeerRead(c)
    <2>1. PICK c \in Conns : PeerRead(c)
      BY <1>1
    <2>2. PICK msg : msg = Head(outgoing[c])
      OBVIOUS
    <2>3. msg \in ToPeer
      BY <2>1, <2>2, HeadTailProperties DEF PeerRead, TypeOK, PeersOK
    <2>4. UNCHANGED <<held, command, busy, stream, route>>
      BY <2>1 DEF PeerRead, connVars, workerVars, routeVars
    <2>5. CASE UNCHANGED incoming
      BY <2>4, <2>5, KeepingSteps, FewerOrderly
    <2>6. CASE /\ msg.kind = "Call"
               /\ incoming' = [incoming EXCEPT ![c] =
                      Append(@, [kind |-> "Ret", id |-> msg.id, of |-> msg.of])]
      <3> DEFINE m == [kind |-> "Ret", id |-> msg.id, of |-> msg.of]
      <3>1. m \in FromPeer
        BY <2>3, <2>6, PacketFact
      <3>2. ~Enters(M) => m \notin Msgs(c, M)
        BY <2>1, <2>2, <2>6 DEF Enters, ReplyItem, Msgs
      <3>3. (m \notin Msgs(c, M) => Fewer(M)) /\ (Absent(M) => OneCopy(M)')
        BY <2>4, <2>6, <3>1, ArrivalOrderly
      <3> QED
        BY <3>2, <3>3, FewerOrderly DEF Orderly
    <2> QED
      BY <2>1, <2>2, <2>5, <2>6 DEF PeerRead
  <1>2. CASE \E c \in Conns : \E p \in PeerCalls : PeerCall(p, c)
    <2>1. PICK c \in Conns, p \in PeerCalls : PeerCall(p, c)
      BY <1>2
    <2> DEFINE m == [kind |-> "Call", of |-> p]
    <2>2. m \in FromPeer
      BY PacketFact
    <2>3. UNCHANGED <<held, command, busy, stream, route>>
      BY <2>1 DEF PeerCall, connVars, workerVars, routeVars
    <2>4. ~Enters(M) => m \notin Msgs(c, M)
      BY <2>1 DEF Enters, CallItem, Msgs
    <2>5. (m \notin Msgs(c, M) => Fewer(M)) /\ (Absent(M) => OneCopy(M)')
      BY <2>1, <2>2, <2>3, ArrivalOrderly DEF PeerCall
    <2> QED
      BY <2>4, <2>5, FewerOrderly DEF Orderly
  <1>3. CASE \E c \in Conns : ConnIncoming(c) \/ ConnTransfer(c)
    BY <1>3, ConnIncomingOrderly, ConnTransferOrderly
  <1>4. CASE WorkerRecv \/ WorkerTransfer \/ RouteRecv
    BY <1>4, WorkerRecvOrderly, WorkerTransferOrderly, RouteRecvOrderly
  <1>5. ASSUME Fewer(M) PROVE Orderly(M)
    BY <1>5, FewerOrderly
  <1> QED
    BY <1>1, <1>2, <1>3, <1>4, <1>5, KeepingStep DEF Next, Worker, Conn, Route

\* The route task is done with its message.
LEMMA LeavesRoute ==
  ASSUME TypeOK, NEW M \in SUBSET Items, OneCopy(M), InRoute(M),
         RouteReturn \/ RouteCommit
  PROVE  Absent(M)'
  <1>1. Fewer(M)
    BY KeepingStep
  <1>2. ~InRoute(M)'
    BY PlacesLost DEF RouteReturn, RouteCommit
  <1>3. \A c \in Conns : ~AtConn(c, M) /\ (AtConn(c, M)' => AtConn(c, M))
    BY <1>1 DEF Fewer, OneCopy, AtConn
  <1> QED
    BY <1>1, <1>2, <1>3 DEF Fewer, OneCopy, Absent


LEMMA InitAbsent == ASSUME Init, NEW M \in SUBSET Items PROVE Absent(M)
  <1>1. None \notin M /\ \A c \in Conns : None \notin Msgs(c, M)
    BY NoneAssumption DEF Msgs
  <1>2. busy \notin TransfersOf(M)
    BY DEF Init, Idle, TransfersOf
  <1>3. \A S : ~Has(command, S) /\ ~Has(stream, S) /\ \A c \in Conns : ~Has(incoming[c], S)
    BY HasEmpty DEF Init
  <1> QED
    BY <1>1, <1>2, <1>3
       DEF Init, Absent, AtConn, InSocket, InHeld, InCommand, InBusy, InStream, InRoute

-----------------------------------------------------------------------------
(* The calls of the peers and what the server returns for them *)

CallsFrom(p) == {i \in Items : i.msg.kind = "Call" /\ i.msg.of = p}
\* Those that are on the way of another connection than c.
Astray(p, c) == {i \in CallsFrom(p) : i.conn # c}

RetsOf(p) == {[kind |-> "Ret", of |-> p]}
Returned(p, c) == Has(outgoing[c], RetsOf(p))

\* Call p is at one place between its issuer and the handler, or its return value
\* is at one place on the way back to the issuer.
Returns(p) ==
    /\ OneCopy(CallsFrom(p)) /\ Absent(Astray(p, issuer[p]))
    /\ returns[p] \in {0, 1}
    /\ returns[p] = 1 \/ issuer[p] = None => Absent(CallsFrom(p))
    /\ issuer[p] = None => returns[p] = 0
    /\ \A c \in Conns :
           /\ AtMostOne(outgoing[c], RetsOf(p)) /\ ~Has(rx[c], RetsOf(p))
           /\ p \in pending_responses[c] =>
                  /\ issuer[p] = c /\ returns[p] = 0
                  /\ Absent(CallsFrom(p)) /\ ~Returned(p, c)
           /\ Returned(p, c) => issuer[p] = c /\ returns[p] = 0 /\ Absent(CallsFrom(p))

LEMMA CallsFromItems ==
  ASSUME NEW p PROVE CallsFrom(p) \in SUBSET Items /\ \A c : Astray(p, c) \in SUBSET Items
  BY DEF CallsFrom, Astray

LEMMA CallStaysOut ==
  ASSUME TypeOK, NEW p \in PeerCalls, issuer'[p] = issuer[p]
  PROVE  ~Enters(CallsFrom(p)) /\ \A d : ~Enters(Astray(p, d))
  <1>1. ~ \E c \in Conns : PeerCall(p, c)
    BY NoneAssumption DEF PeerCall, TypeOK, PeersOK
  <1> QED
    BY <1>1 DEF Enters, CallsFrom, Astray, CallItem, ReplyItem

\* Steps that make neither a call of p nor a return value for it.
LEMMA ReturnsFewer ==
  ASSUME TypeOK, [Next]_vars, NEW p \in PeerCalls, Returns(p),
         issuer'[p] = issuer[p], returns'[p] = returns[p],
         \A c \in Conns :
             /\ p \in pending_responses'[c] => p \in pending_responses[c]
             /\ Has(outgoing'[c], RetsOf(p)) => Has(outgoing[c], RetsOf(p))
             /\ AtMostOne(outgoing[c], RetsOf(p)) => AtMostOne(outgoing'[c], RetsOf(p))
             /\ Has(rx'[c], RetsOf(p)) => Has(rx[c], RetsOf(p))
  PROVE  Returns(p)'
  <1>1. PICK d : d = issuer[p]
    OBVIOUS
  <1>2. Orderly(CallsFrom(p)) /\ Orderly(Astray(p, d))
    BY CallsFromItems, StepOrderly
  <1>3. ~Enters(CallsFrom(p)) /\ ~Enters(Astray(p, d))
    BY CallStaysOut
  <1>4. /\ OneCopy(CallsFrom(p))' /\ Absent(Astray(p, d))'
        /\ Absent(CallsFrom(p)) => Absent(CallsFrom(p))'
    BY <1>1, <1>2, <1>3 DEF Returns, Orderly
  <1>5. issuer'[p] = d
    BY <1>1
  <1>6. Absent(Astray(p, issuer[p]))'
    BY <1>4, <1>5
  <1>7. \A c \in Conns : /\ Returned(p, c)' => Returned(p, c)
                         /\ AtMostOne(outgoing[c], RetsOf(p))'
                         /\ ~Has(rx[c], RetsOf(p))'
    BY DEF Returned, Returns, RetsOf
  <1> QED
    BY <1>4, <1>6, <1>7 DEF Returns

LEMMA RouteReturnReturns ==
  ASSUME TypeOK, [Next]_vars, NEW p \in PeerCalls, Returns(p), RouteReturn PROVE Returns(p)'
  <1>1. PICK i \in Items : i = route /\ i.msg.kind = "Call"
    BY DEF RouteReturn, HandlerRunning, TypeOK, RouteOK
  <1>2. /\ UNCHANGED <<issuer, returns, outgoing, rx>>
        /\ \A c \in Conns : \/ pending_responses'[c] = pending_responses[c]
                            \/ /\ c = i.conn
                               /\ pending_responses'[c] = pending_responses[c] \cup {i.msg.of}
    BY <1>1 DEF RouteReturn, Answers, peerVars
  <1>4. CASE p # i.msg.of
    BY <1>2, <1>4, ReturnsFewer
  <1>5. CASE p = i.msg.of
    <2>1. InRoute(CallsFrom(p))
      BY <1>1, <1>5 DEF InRoute, CallsFrom
    <2>2. Absent(CallsFrom(p))'
      BY <2>1, CallsFromItems, LeavesRoute DEF Returns
    <2>3. PICK d : d = issuer[p]
      OBVIOUS
    <2>4. i.conn = d
      BY <1>1, <1>5, <2>3 DEF Returns, Absent, InRoute, Astray, CallsFrom
    <2>5. Absent(Astray(p, d))'
      <3>1. Orderly(Astray(p, d)) /\ ~Enters(Astray(p, d))
        BY <1>2, CallsFromItems, StepOrderly, CallStaysOut
      <3> QED
        BY <2>3, <3>1 DEF Returns, Orderly
    <2>6. ~Absent(CallsFrom(p))
      BY <2>1 DEF Absent
    <2>7. /\ returns[p] = 0 /\ d # None
          /\ \A c \in Conns : ~Returned(p, c)
      BY <2>3, <2>6 DEF Returns
    <2>8. OneCopy(CallsFrom(p))'
      BY <2>2, AbsentOne
    <2>9. /\ issuer'[p] = d /\ returns'[p] = 0
          /\ \A c \in Conns : /\ p \in pending_responses'[c] => c = d
                              /\ ~Returned(p, c)'
                              /\ AtMostOne(outgoing[c], RetsOf(p))' /\ ~Has(rx[c], RetsOf(p))'
      BY <1>2, <2>3, <2>4, <2>6, <2>7 DEF Returned, Returns, RetsOf
    <2> QED
      BY <2>2, <2>5, <2>7, <2>8, <2>9 DEF Returns
  <1> QED
    BY <1>4, <1>5

LEMMA ConnRespondReturns ==
  ASSUME TypeOK, [Next]_vars, NEW p \in PeerCalls, Returns(p), NEW c \in Conns, ConnRespond(c)
  PROVE  Returns(p)'
  <1>1. PICK r \in pending_responses[c] :
            /\ outgoing' = Written(c, [kind |-> "Ret", of |-> r])
            /\ pending_responses' = [pending_responses EXCEPT ![c] = @ \ {r}]
    BY DEF ConnRespond
  <1> DEFINE m == [kind |-> "Ret", of |-> r]
  <1>2. /\ r \in PeerCalls /\ m \in ToPeer /\ outgoing[c] \in Seq(ToPeer)
        /\ UNCHANGED <<issuer, returns, rx>>
    BY PacketFact DEF ConnRespond, TypeOK, ConnsOK, PeersOK
  <1>3. \A d \in Conns : /\ outgoing'[d] \in {outgoing[d], Append(outgoing[d], m)}
                         /\ d # c => outgoing'[d] = outgoing[d]
                         /\ pending_responses'[d] = IF d = c THEN pending_responses[d] \ {r}
                                                    ELSE pending_responses[d]
    BY <1>1 DEF Written, TypeOK, ConnsOK, PeersOK
  <1>4. ASSUME NEW M
        PROVE  /\ Has(outgoing'[c], M) => Has(outgoing[c], M) \/ m \in M
               /\ AtMostOne(outgoing[c], M) /\ (m \in M => ~Has(outgoing[c], M)) =>
                      AtMostOne(outgoing'[c], M)
    <2>1. CASE outgoing'[c] = outgoing[c]
      BY <2>1
    <2>2. CASE outgoing'[c] = Append(outgoing[c], m)
      BY <1>2, <2>2, HasAppend
    <2> QED
      BY <1>3, <2>1, <2>2
  <1>6. CASE p # r
    <2>1. m \notin RetsOf(p)
      BY <1>6 DEF RetsOf
    <2> QED
      BY <1>2, <1>3, <1>4, <2>1, ReturnsFewer
  <1>7. CASE p = r
    <2>1. /\ issuer[p] = c /\ returns[p] = 0 /\ Absent(CallsFrom(p)) /\ ~Returned(p, c)
      BY <1>7 DEF Returns
    <2>2. Absent(CallsFrom(p))' /\ Absent(Astray(p, c))'
      <3>1. /\ Orderly(CallsFrom(p)) /\ ~Enters(CallsFrom(p))
            /\ Orderly(Astray(p, c)) /\ ~Enters(Astray(p, c))
        BY <1>2, CallsFromItems, StepOrderly, CallStaysOut
      <3> QED
        BY <2>1, <3>1 DEF Returns, Orderly
    <2>3. OneCopy(CallsFrom(p))'
      BY <2>2, AbsentOne
    <2>4. ASSUME NEW d \in Conns
          PROVE  /\ AtMostOne(outgoing'[d], RetsOf(p)) /\ ~Has(rx[d], RetsOf(p))
                 /\ p \notin pending_responses'[d]
                 /\ Has(outgoing'[d], RetsOf(p)) => d = c
      <3>1. CASE d = c
        BY <1>3, <1>4, <1>7, <2>1, <3>1 DEF Returns, Returned
      <3>2. CASE d # c
        BY <1>3, <2>1, <3>2 DEF Returns, Returned
      <3> QED
        BY <3>1, <3>2
    <2>5. issuer'[p] = c /\ returns'[p] = 0
      BY <1>2, <2>1
    <2>6. \A d \in Conns :
              /\ AtMostOne(outgoing[d], RetsOf(p))' /\ ~Has(rx[d], RetsOf(p))'
              /\ p \notin pending_responses'[d]
              /\ Returned(p, d)' => d = c
      BY <1>2, <2>4 DEF Returned, RetsOf
    <2> QED
      BY <2>2, <2>3, <2>5, <2>6, NoneAssumption DEF Returns
  <1> QED
    BY <1>6, <1>7

LEMMA PeerReadReturns ==
  ASSUME TypeOK, [Next]_vars, NEW p \in PeerCalls, Returns(p), NEW c \in Conns, PeerRead(c)
  PROVE  Returns(p)'
  <1>1. PICK msg, rest : msg = Head(outgoing[c]) /\ rest = Tail(outgoing[c])
    OBVIOUS
  <1>2. /\ outgoing[c] \in Seq(ToPeer) /\ outgoing[c] # <<>> /\ msg \in ToPeer
        /\ \A d \in Conns : outgoing'[d] = IF d = c THEN rest ELSE outgoing[d]
        /\ UNCHANGED <<issuer, rx, pending_responses>>
    BY <1>1, HeadTailProperties DEF PeerRead, TypeOK, PeersOK, connVars
  <1>3. ASSUME NEW M
        PROVE  /\ Has(outgoing[c], M) <=> msg \in M \/ Has(rest, M)
               /\ AtMostOne(outgoing[c], M) => AtMostOne(rest, M) /\ ~(msg \in M /\ Has(rest, M))
    BY <1>1, <1>2, HasTail
  <1>4. \A d \in Conns : /\ Has(outgoing'[d], RetsOf(p)) => Has(outgoing[d], RetsOf(p))
                         /\ AtMostOne(outgoing[d], RetsOf(p)) => AtMostOne(outgoing'[d], RetsOf(p))
    BY <1>2, <1>3
  <1>5. CASE ~(msg.kind = "Ret" /\ msg.of = p)
    <2>1. returns'[p] = returns[p]
      BY <1>1, <1>2, <1>5, PacketFact DEF PeerRead, TypeOK, PeersOK
    <2> QED
      BY <1>2, <1>4, <2>1, ReturnsFewer
  <1>6. CASE msg.kind = "Ret" /\ msg.of = p
    <2>1. msg \in RetsOf(p)
      BY <1>2, <1>6 DEF RetsOf, ToPeer
    <2>2. /\ Returned(p, c) /\ ~Has(rest, RetsOf(p))
          /\ issuer[p] = c /\ returns[p] = 0 /\ Absent(CallsFrom(p))
          /\ \A d \in Conns : p \notin pending_responses[d]
      BY <1>3, <2>1 DEF Returns, Returned
    <2>3. returns'[p] = 1 /\ issuer'[p] = c
      BY <1>1, <1>2, <1>6, <2>2 DEF PeerRead, TypeOK, PeersOK
    <2>4. Absent(CallsFrom(p))' /\ Absent(Astray(p, c))'
      <3>1. /\ Orderly(CallsFrom(p)) /\ ~Enters(CallsFrom(p))
            /\ Orderly(Astray(p, c)) /\ ~Enters(Astray(p, c))
        BY <1>2, CallsFromItems, StepOrderly, CallStaysOut
      <3> QED
        BY <2>2, <3>1 DEF Returns, Orderly
    <2>5. OneCopy(CallsFrom(p))'
      BY <2>4, AbsentOne
    <2>6. \A d \in Conns : ~Has(outgoing'[d], RetsOf(p))
      BY <1>2, <1>4, <2>2 DEF Returns, Returned
    <2>7. \A d \in Conns :
              /\ AtMostOne(outgoing[d], RetsOf(p))' /\ ~Has(rx[d], RetsOf(p))'
              /\ p \notin pending_responses'[d] /\ ~Returned(p, d)'
      BY <1>2, <1>4, <2>2, <2>6 DEF Returned, Returns, RetsOf
    <2> QED
      BY <2>3, <2>4, <2>5, <2>7, NoneAssumption DEF Returns
  <1> QED
    BY <1>5, <1>6

LEMMA AbsentSubset == ASSUME NEW M, NEW N, M \subseteq N, Absent(N) PROVE Absent(M)
  <1>1. TransfersOf(M) \subseteq TransfersOf(N) /\ \A c : Msgs(c, M) \subseteq Msgs(c, N)
    BY DEF TransfersOf, Msgs
  <1> QED
    BY <1>1 DEF Absent, AtConn, InSocket, InHeld, InCommand, InBusy, InStream, InRoute, Has

LEMMA PeerCallReturns ==
  ASSUME TypeOK, [Next]_vars, NEW p \in PeerCalls, Returns(p),
         NEW q \in PeerCalls, NEW c \in Conns, PeerCall(q, c)
  PROVE  Returns(p)'
  <1>1. /\ UNCHANGED <<outgoing, rx, pending_responses, returns>>
        /\ issuer[q] = None /\ issuer'[q] = c /\ (p # q => issuer'[p] = issuer[p])
    BY DEF PeerCall, TypeOK, PeersOK, connVars
  <1>2. CASE p # q
    BY <1>1, <1>2, ReturnsFewer
  <1>3. CASE p = q
    <2>1. Absent(CallsFrom(p)) /\ returns[p] = 0 /\ c # None
      BY <1>1, <1>3, NoneAssumption DEF Returns
    <2>2. OneCopy(CallsFrom(p))'
      BY <2>1, CallsFromItems, StepOrderly DEF Orderly
    <2>3. ~Enters(Astray(p, c))
      <3>1. \A d \in Conns : PeerCall(p, d) => d = c
        BY <1>1, <1>3 DEF PeerCall, TypeOK, PeersOK
      <3> QED
        BY <3>1 DEF Enters, Astray, CallsFrom, CallItem, ReplyItem
    <2>4. Absent(Astray(p, c))'
      <3>1. Absent(Astray(p, c))
        BY <2>1, AbsentSubset DEF Astray
      <3> QED
        BY <2>3, <3>1, CallsFromItems, StepOrderly DEF Orderly
    <2>5. \A d \in Conns : p \notin pending_responses[d] /\ ~Returned(p, d)
      BY <1>1, <1>3, NoneAssumption DEF Returns
    <2>6. \A d \in Conns :
              /\ AtMostOne(outgoing[d], RetsOf(p))' /\ ~Has(rx[d], RetsOf(p))'
              /\ p \notin pending_responses'[d] /\ ~Returned(p, d)'
      BY <1>1, <2>5 DEF Returned, Returns, RetsOf
    <2>7. issuer'[p] = c /\ returns'[p] = 0
      BY <1>1, <1>3, <2>1
    <2> QED
      BY <2>1, <2>2, <2>4, <2>6, <2>7 DEF Returns
  <1> QED
    BY <1>2, <1>3

LEMMA WorkerForwardReturns ==
  ASSUME TypeOK, [Next]_vars, NEW p \in PeerCalls, Returns(p), WorkerForward
  PROVE  Returns(p)'
  <1>1. PICK k \in Callers, c \in Conns : k = busy.of /\ c = busy.conn
    BY BusyFact DEF TypeOK, WorkerForward
  <1> DEFINE m == [kind |-> "Call", id |-> reqId[k], of |-> k]
  <1>2. m \in ToPeer /\ m \notin RetsOf(p)
    BY PacketFact DEF TypeOK, CallsOK, RetsOf
  <1>3. /\ UNCHANGED <<outgoing, pending_responses, issuer, returns>>
        /\ rx[c] \in Seq(ToPeer)
        /\ \A d \in Conns : rx'[d] = IF d = c THEN Append(rx[c], m) ELSE rx[d]
    BY <1>1 DEF WorkerForward, TypeOK, ConnsOK, peerVars
  <1> HIDE DEF m
  <1>4. \A d \in Conns : Has(rx'[d], RetsOf(p)) => Has(rx[d], RetsOf(p))
    BY <1>2, <1>3, HasAppend
  <1> QED
    BY <1>3, <1>4, ReturnsFewer

LEMMA ConnForwardReturns ==
  ASSUME TypeOK, [Next]_vars, NEW p \in PeerCalls, Returns(p), NEW c \in Conns, ConnForward(c)
  PROVE  Returns(p)'
  <1>1. PICK m, rest : m = Head(rx[c]) /\ rest = Tail(rx[c])
    OBVIOUS
  <1>2. /\ rx[c] \in Seq(ToPeer) /\ rx[c] # <<>> /\ m \in ToPeer
        /\ UNCHANGED <<pending_responses, issuer, returns>>
        /\ \A d \in Conns : rx'[d] = IF d = c THEN rest ELSE rx[d]
    BY <1>1, HeadTailProperties DEF ConnForward, TypeOK, ConnsOK
  <1>3. /\ \A d \in Conns : outgoing[d] \in Seq(ToPeer)
        /\ \A d \in Conns : outgoing'[d] = outgoing[d] \/ outgoing'[d] = Append(outgoing[d], m)
    <2>1. outgoing' = Written(c, m)
      BY <1>1 DEF ConnForward
    <2> QED
      BY <2>1 DEF Written, TypeOK, PeersOK
  <1>4. Has(rx[c], RetsOf(p)) <=> m \in RetsOf(p) \/ Has(rest, RetsOf(p))
    BY <1>1, <1>2, HasTail
  <1>5. m \notin RetsOf(p) /\ \A d \in Conns : Has(rx'[d], RetsOf(p)) => Has(rx[d], RetsOf(p))
    <2>1. ~Has(rx[c], RetsOf(p))
      BY DEF Returns
    <2> QED
      BY <1>2, <1>4, <2>1
  <1>6. ASSUME NEW d \in Conns
        PROVE  /\ Has(outgoing'[d], RetsOf(p)) => Has(outgoing[d], RetsOf(p))
               /\ AtMostOne(outgoing[d], RetsOf(p)) => AtMostOne(outgoing'[d], RetsOf(p))
    <2>1. CASE outgoing'[d] = outgoing[d]
      BY <2>1
    <2>2. CASE outgoing'[d] = Append(outgoing[d], m)
      BY <1>2, <1>3, <1>5, <2>2, HasAppend
    <2> QED
      BY <1>3, <2>1, <2>2
  <1> QED
    BY <1>2, <1>5, <1>6, ReturnsFewer

\* What is lost, and what is not touched.
LEMMA KeepingReturns ==
  ASSUME TypeOK, [Next]_vars, NEW p \in PeerCalls, Returns(p),
         UNCHANGED <<issuer, returns>>,
         \A c \in Conns : /\ outgoing'[c] = outgoing[c] \/ outgoing'[c] = <<>>
                          /\ rx'[c] = rx[c] \/ rx'[c] = <<>>
                          /\ pending_responses'[c] \subseteq pending_responses[c]
  PROVE  Returns(p)'
  BY HasEmpty, ReturnsFewer

LEMMA StepReturns ==
  ASSUME TypeOK, [Next]_vars, NEW p \in PeerCalls, Returns(p)
  PROVE  Returns(p)'
  <1>1. CASE \E k \in Callers : CallUnbound(k) \/ CallSend(k) \/ \E a \in Addrs : CallStart(k, a)
    BY <1>1, KeepingReturns DEF CallUnbound, CallSend, CallStart, connVars, peerVars
  <1>2. CASE \/ WorkerRecv \/ WorkerFind \/ WorkerRefused \/ WorkerTransfer \/ WorkerDie
             \/ WorkerCommit \/ WorkerWsOpen \/ WorkerWsClose \/ WorkerSendClose
             \/ WorkerRemoveRoute
    <2>1. UNCHANGED <<issuer, returns, outgoing, rx, pending_responses>>
      BY <1>2 DEF WorkerRecv, WorkerFind, WorkerRefused, WorkerTransfer, WorkerDie,
             WorkerCommit, WorkerWsOpen, WorkerWsClose, WorkerSendClose, WorkerRemoveRoute,
             connVars, peerVars
    <2> QED
      BY <2>1, KeepingReturns
  <1>3. CASE \E c \in Conns : \/ ConnSendOpen(c) \/ ConnUpgradeFails(c) \/ ConnRegister(c)
                             \/ ConnIncoming(c) \/ ConnTransfer(c)
                             \/ CleanupClose(c) \/ CleanupRemove(c)
    <2>1. UNCHANGED <<issuer, returns, outgoing, rx, pending_responses>>
      BY <1>3 DEF ConnSendOpen, ConnUpgradeFails, ConnRegister, ConnIncoming, ConnTransfer,
             CleanupClose, CleanupRemove, peerVars
    <2> QED
      BY <2>1, KeepingReturns
  <1>4. CASE \E c \in Conns : ConnExit(c) \/ ConnDropRx(c) \/ PeerClose(c)
    <2>1. UNCHANGED <<issuer, returns>>
      BY <1>4 DEF ConnExit, ConnDropRx, PeerClose, peerVars
    <2>2. \A c \in Conns : /\ outgoing'[c] = outgoing[c] \/ outgoing'[c] = <<>>
                           /\ rx'[c] = rx[c] \/ rx'[c] = <<>>
                           /\ pending_responses'[c] \subseteq pending_responses[c]
      BY <1>4 DEF ConnExit, ConnDropRx, PeerClose, peerVars, connVars, TypeOK, ConnsOK, PeersOK
    <2> QED
      BY <2>1, <2>2, KeepingReturns
  <1>5. CASE RouteRecv \/ RouteCommit \/ HandlerPanic \/ Hook \/ Unbind \/ UNCHANGED vars
    <2>1. UNCHANGED <<issuer, returns, outgoing, rx, pending_responses>>
      BY <1>5 DEF RouteRecv, RouteCommit, HandlerPanic, Hook, HookTakeOpen, HookOpenDone,
             HookTakeClose, HookCloseDone, HookStop, Unbind, UnbindStart, UnbindSend, vars,
             connVars, peerVars
    <2> QED
      BY <2>1, KeepingReturns
  <1> QED
    BY <1>1, <1>2, <1>3, <1>4, <1>5, WorkerForwardReturns, ConnForwardReturns,
       ConnRespondReturns, RouteReturnReturns, PeerReadReturns, PeerCallReturns
       DEF Next, Worker, Conn, Route

LEMMA InitReturns == ASSUME Init, NEW p \in PeerCalls PROVE Returns(p)
  <1>1. Absent(CallsFrom(p)) /\ Absent(Astray(p, issuer[p]))
    BY CallsFromItems, InitAbsent
  <1>2. OneCopy(CallsFrom(p))
    BY <1>1 DEF Absent, OneCopy, AtConn, InSocket, InCommand, InStream, Has, AtMostOne
  <1>3. /\ issuer[p] = None /\ returns[p] = 0
        /\ \A c \in Conns : outgoing[c] = <<>> /\ rx[c] = <<>> /\ pending_responses[c] = {}
    BY DEF Init
  <1> QED
    BY <1>1, <1>2, <1>3, HasEmpty DEF Returns, Returned

LEMMA ReturnsShown ==
  ASSUME TypeOK, \A p \in PeerCalls : Returns(p) PROVE ReturnToIssuer
  <1>1. \A p \in PeerCalls : returns[p] <= 1
    BY DEF Returns
  <1>2. \A c \in Conns : \A p \in pending_responses[c] : issuer[p] = c /\ returns[p] = 0
    BY DEF Returns, TypeOK, ConnsOK
  <1>3. ASSUME NEW c \in Conns, NEW i \in 1 .. Len(outgoing[c]), outgoing[c][i].kind = "Ret"
        PROVE  /\ issuer[outgoing[c][i].of] = c
               /\ returns[outgoing[c][i].of] = 0
               /\ outgoing[c][i].of \notin pending_responses[c]
    <2>1. PICK m : m = outgoing[c][i]
      OBVIOUS
    <2>2. m \in ToPeer /\ m.kind = "Ret"
      BY <1>3, <2>1, ElementOfSeq DEF TypeOK, PeersOK
    <2>3. PICK p \in PeerCalls : m = [kind |-> "Ret", of |-> p]
      BY <2>2 DEF ToPeer
    <2>4. m.of = p /\ m \in RetsOf(p)
      BY <2>3 DEF RetsOf
    <2>5. Returned(p, c)
      BY <2>1, <2>4 DEF Returned, Has
    <2> QED
      BY <2>1, <2>4, <2>5 DEF Returns
  <1> QED
    BY <1>1, <1>2, <1>3 DEF ReturnToIssuer

ReturnsInv == \A p \in PeerCalls : Returns(p)

LEMMA ReturnsInvariant == Spec => []ReturnsInv
  <1>1. Init => ReturnsInv
    BY InitReturns DEF ReturnsInv
  <1>2. TypeOK /\ ReturnsInv /\ [Next]_vars => ReturnsInv'
    BY StepReturns DEF ReturnsInv
  <1> QED
    BY <1>1, <1>2, TypeCorrect, PTL DEF Spec


\* A peer's call is answered at most once and only on the connection that made it:
\* the whole way of the packet, through the socket, ws_dispatch, the worker, the
\* route task and pending_responses, has one place for it at a time.
THEOREM ReturnsReachIssuer == Spec => []ReturnToIssuer
  <1>1. TypeOK /\ ReturnsInv => ReturnToIssuer
    BY ReturnsShown DEF ReturnsInv
  <1> QED
    BY <1>1, ReturnsInvariant, TypeCorrect, PTL

-----------------------------------------------------------------------------
(* A request on its way out *)

Unstarted == {"idle", "refused", "sending"}
Over == {"ok", "mismatch", "failed"}

AsksOf(k) == {[op |-> "CallRemotely", of |-> k]}
RequestsOf(k) == {m \in ToPeer : m.kind = "Call" /\ m.of = k}

Asked(k) == Has(command, AsksOf(k))
AskedBusy(k) == busy.op \in {"CallRemotely", "Forward"} /\ busy.of = k
InRx(c, k) == Has(rx[c], RequestsOf(k))
InOut(c, k) == Has(outgoing[c], RequestsOf(k))
Pending(k) == \E key \in Addrs \X Ids : pending_requests[key] = k

\* The worker has passed the request to no connection.
Unsent(k) ==
    /\ \A c \in Conns : ~InRx(c, k) /\ ~InOut(c, k)
    /\ runs[k] = 0
    /\ ~Pending(k)

\* The request of call k is at one place until a peer runs it, and the call waits
\* while the worker has its request or holds its oneshot sender.
Request(k) ==
    /\ phase[k] \in Unstarted => Unsent(k) /\ ~Asked(k) /\ ~AskedBusy(k)
    /\ AtMostOne(command, AsksOf(k))
    /\ Asked(k) => phase[k] = "waiting" /\ Unsent(k) /\ ~AskedBusy(k)
    /\ AskedBusy(k) => phase[k] = "waiting" /\ Unsent(k)
    /\ Pending(k) => phase[k] = "waiting"
    /\ runs[k] \in {0, 1}
    /\ \A c \in Conns :
           /\ AtMostOne(rx[c], RequestsOf(k)) /\ AtMostOne(outgoing[c], RequestsOf(k))
           /\ InRx(c, k) => /\ runs[k] = 0
                            /\ \A d \in Conns : (InRx(d, k) => d = c) /\ ~InOut(d, k)
           /\ InOut(c, k) => runs[k] = 0 /\ \A d \in Conns : InOut(d, k) => d = c

\* Steps in which the request of call k goes nowhere but from the channel of the
\* worker to the worker.
RequestFewer(k) ==
    /\ \/ phase'[k] = phase[k]
       \/ phase[k] \in Unstarted /\ phase'[k] \in Unstarted
       \/ phase'[k] \in Over /\ ~Asked(k)' /\ ~AskedBusy(k)' /\ ~Pending(k)'
    /\ Asked(k)' => Asked(k)
    /\ AtMostOne(command, AsksOf(k)) => AtMostOne(command, AsksOf(k))'
    /\ AskedBusy(k)' => AskedBusy(k) \/ (Asked(k) /\ ~Asked(k)')
    /\ Pending(k)' => Pending(k)
    /\ runs'[k] = runs[k]
    /\ \A c \in Conns :
           /\ InRx(c, k)' => InRx(c, k)
           /\ AtMostOne(rx[c], RequestsOf(k)) => AtMostOne(rx[c], RequestsOf(k))'
           /\ InOut(c, k)' => InOut(c, k)
           /\ AtMostOne(outgoing[c], RequestsOf(k)) => AtMostOne(outgoing[c], RequestsOf(k))'

LEMMA FewerRequest ==
  ASSUME NEW k \in Callers, Request(k), RequestFewer(k) PROVE Request(k)'
  <1>1. Unsent(k) => Unsent(k)'
    BY DEF RequestFewer, Unsent
  <1>2. /\ phase'[k] \in Unstarted => phase[k] \in Unstarted
        /\ phase[k] = "waiting" => phase'[k] = "waiting" \/ (~Asked(k)' /\ ~AskedBusy(k)' /\ ~Pending(k)')
    BY DEF RequestFewer, Unstarted, Over
  <1>3. \A c \in Conns :
           /\ AtMostOne(rx[c], RequestsOf(k))' /\ AtMostOne(outgoing[c], RequestsOf(k))'
           /\ InRx(c, k)' => /\ runs'[k] = 0
                             /\ \A d \in Conns : (InRx(d, k)' => d = c) /\ ~InOut(d, k)'
           /\ InOut(c, k)' => runs'[k] = 0 /\ \A d \in Conns : InOut(d, k)' => d = c
    BY DEF RequestFewer, Request
  <1> QED
    BY <1>1, <1>2, <1>3 DEF RequestFewer, Request

LEMMA PlacesOfRequest ==
  ASSUME NEW k
  PROVE  /\ UNCHANGED command => /\ Asked(k)' <=> Asked(k)
                                 /\ AtMostOne(command, AsksOf(k)) <=> AtMostOne(command, AsksOf(k))'
         /\ command' = <<>> => ~Asked(k)' /\ AtMostOne(command, AsksOf(k))'
         /\ UNCHANGED busy => (AskedBusy(k)' <=> AskedBusy(k))
         /\ busy'.op \notin {"CallRemotely", "Forward"} => ~AskedBusy(k)'
         /\ UNCHANGED pending_requests => (Pending(k)' <=> Pending(k))
         /\ \A c \in Conns :
                /\ rx'[c] = rx[c] => /\ InRx(c, k)' <=> InRx(c, k)
                                     /\ AtMostOne(rx[c], RequestsOf(k)) <=> AtMostOne(rx[c], RequestsOf(k))'
                /\ rx'[c] = <<>> => ~InRx(c, k)' /\ AtMostOne(rx[c], RequestsOf(k))'
                /\ outgoing'[c] = outgoing[c] =>
                       /\ InOut(c, k)' <=> InOut(c, k)
                       /\ AtMostOne(outgoing[c], RequestsOf(k)) <=> AtMostOne(outgoing[c], RequestsOf(k))'
                /\ outgoing'[c] = <<>> => ~InOut(c, k)' /\ AtMostOne(outgoing[c], RequestsOf(k))'
  <1>1. \A M : ~Has(<<>>, M) /\ AtMostOne(<<>>, M)
    BY HasEmpty
  <1> QED
    BY <1>1 DEF Asked, AskedBusy, Pending, InRx, InOut, AsksOf, RequestsOf

LEMMA OtherCommandAsked ==
  ASSUME TypeOK, NEW k, NEW e \in Command, e \notin AsksOf(k), command' = Append(command, e)
  PROVE  /\ Asked(k)' <=> Asked(k)
         /\ AtMostOne(command, AsksOf(k)) => AtMostOne(command, AsksOf(k))'
  <1>1. /\ Has(command', AsksOf(k)) <=> Has(command, AsksOf(k))
        /\ AtMostOne(command, AsksOf(k)) => AtMostOne(command', AsksOf(k))
    BY HasAppend DEF TypeOK, WorkerOK
  <1> QED
    BY <1>1 DEF Asked, AsksOf

\* Steps that leave the calls and the packets to the peers alone, or lose some.
LEMMA KeepingRequest ==
  ASSUME TypeOK, NEW k \in Callers, Request(k),
         phase'[k] = phase[k] \/ (phase[k] \in Unstarted /\ phase'[k] \in Unstarted),
         UNCHANGED <<runs, pending_requests>>,
         \/ UNCHANGED command
         \/ \E e \in Command : e \notin AsksOf(k) /\ command' = Append(command, e),
         UNCHANGED busy \/ busy'.op \notin {"CallRemotely", "Forward"},
         \A c \in Conns : /\ rx'[c] = rx[c] \/ rx'[c] = <<>>
                          /\ outgoing'[c] = outgoing[c] \/ outgoing'[c] = <<>>
  PROVE  Request(k)'
  <1>1. /\ Asked(k)' => Asked(k)
        /\ AtMostOne(command, AsksOf(k)) => AtMostOne(command, AsksOf(k))'
    BY PlacesOfRequest, OtherCommandAsked
  <1>2. RequestFewer(k)
    BY <1>1, PlacesOfRequest DEF RequestFewer
  <1> QED
    BY <1>2, FewerRequest

\* Steps that end calls.
LEMMA FailingRequest ==
  ASSUME TypeOK, NEW k \in Callers, Request(k),
         UNCHANGED <<runs, rx, outgoing>>,
         phase'[k] = phase[k] \/ (phase'[k] \in Over /\ ~Asked(k)' /\ ~Pending(k)'),
         UNCHANGED command \/ command' = <<>>,
         busy'.op \notin {"CallRemotely", "Forward"},
         Pending(k)' => Pending(k)
  PROVE  Request(k)'
  <1>1. RequestFewer(k)
    BY PlacesOfRequest DEF RequestFewer
  <1> QED
    BY <1>1, FewerRequest

\* A call is pending under its own address and id.
LEMMA PendingKey ==
  ASSUME Matching, NEW k \in Callers, NEW key \in Addrs \X Ids, pending_requests[key] = k
  PROVE  key = <<target[k], reqId[k]>>
  <1>1. PICK a \in Addrs, i \in Ids : key = <<a, i>>
    OBVIOUS
  <1>2. k # None
    BY NoneAssumption
  <1> QED
    BY <1>1, <1>2 DEF Matching, MPending, Matches

-----------------------------------------------------------------------------
(* Every step of the server keeps the request where it should be *)

LEMMA CallerRequest ==
  ASSUME TypeOK, NEW k \in Callers, Request(k), NEW j \in Callers,
         CallUnbound(j) \/ CallSend(j) \/ \E a \in Addrs : CallStart(j, a)
  PROVE  Request(k)'
  <1> DEFINE e == [op |-> "CallRemotely", of |-> j]
  <1>1. UNCHANGED <<runs, pending_requests, busy, rx, outgoing>>
    BY DEF CallUnbound, CallSend, CallStart, workerVars, connVars, peerVars
  <1>2. CASE CallUnbound(j) \/ \E a \in Addrs : CallStart(j, a)
    <2>1. UNCHANGED command
      BY <1>2 DEF CallUnbound, CallStart, workerVars
    <2>2. phase'[k] = phase[k] \/ (phase[k] \in Unstarted /\ phase'[k] \in Unstarted)
      BY <1>2 DEF CallUnbound, CallStart, TypeOK, CallsOK, Unstarted
    <2> QED
      BY <1>1, <2>1, <2>2, KeepingRequest
  <1>3. CASE CallSend(j) /\ UNCHANGED command
    <2>1. phase[j] = "sending" /\ (phase' = Failing({j}) \/ command' = Append(command, e))
      BY <1>3 DEF CallSend
    <2>2. command # Append(command, e)
      <3>1. e \in Command /\ command \in Seq(Command)
        BY CommandFact DEF TypeOK, WorkerOK
      <3>2. Len(Append(command, e)) = Len(command) + 1 /\ Len(command) \in Nat
        BY <3>1, AppendProperties, LenProperties
      <3>3. Len(Append(command, e)) # Len(command)
        BY <3>2, SMT
      <3> QED
        BY <3>3
    <2>3. CASE k = j
      <3>1. phase'[k] = "failed" /\ ~Asked(k) /\ ~AskedBusy(k) /\ ~Pending(k)
        BY <1>3, <2>1, <2>2, <2>3 DEF Failing, Request, Unsent, Unstarted
      <3>2. RequestFewer(k)
        BY <1>1, <1>3, <3>1, PlacesOfRequest DEF RequestFewer, Over
      <3> QED
        BY <3>2, FewerRequest
    <2>4. CASE k # j
      <3>1. phase'[k] = phase[k]
        BY <1>3, <2>1, <2>2, <2>4 DEF Failing
      <3> QED
        BY <1>1, <1>3, <3>1, KeepingRequest
    <2> QED
      BY <2>3, <2>4
  <1>4. CASE CallSend(j) /\ ~ UNCHANGED command
    <2>1. /\ command' = Append(command, e) /\ phase[j] = "sending"
          /\ phase' = [phase EXCEPT ![j] = "waiting"]
      BY <1>4 DEF CallSend
    <2>2. e \in Command /\ command \in Seq(Command)
      BY CommandFact DEF TypeOK, WorkerOK
    <2>3. CASE k = j
      <3>1. ~Asked(k) /\ ~AskedBusy(k) /\ Unsent(k) /\ phase'[k] = "waiting"
        BY <2>1, <2>3 DEF Request, Unstarted, TypeOK, CallsOK
      <3>2. AtMostOne(command', AsksOf(k))
        BY <2>1, <2>2, <3>1, HasAppend DEF Asked, Request
      <3>3. AtMostOne(command, AsksOf(k))'
        BY <3>2 DEF AsksOf
      <3>4. ~AskedBusy(k)' /\ Unsent(k)' /\ ~Pending(k)'
        BY <1>1, <3>1 DEF AskedBusy, Unsent, InRx, InOut, Pending, RequestsOf
      <3>5. \A c \in Conns : /\ ~InRx(c, k)' /\ ~InOut(c, k)'
                             /\ AtMostOne(rx[c], RequestsOf(k))'
                             /\ AtMostOne(outgoing[c], RequestsOf(k))'
        BY <1>1, <3>4, PlacesOfRequest DEF Unsent, Request
      <3>6. runs'[k] = 0
        BY <1>1, <3>1 DEF Unsent
      <3> QED
        BY <3>1, <3>3, <3>4, <3>5, <3>6 DEF Request, Unstarted
    <2>4. CASE k # j
      <3>1. phase'[k] = phase[k]
        BY <2>1, <2>4 DEF TypeOK, CallsOK
      <3>2. e \notin AsksOf(k)
        BY <2>4 DEF AsksOf
      <3> HIDE DEF e
      <3> QED
        BY <1>1, <2>1, <2>2, <3>1, <3>2, KeepingRequest
    <2> QED
      BY <2>3, <2>4
  <1> QED
    BY <1>2, <1>3, <1>4

LEMMA WorkerRecvRequest ==
  ASSUME TypeOK, NEW k \in Callers, Request(k), WorkerRecv PROVE Request(k)'
  <1>1. PICK q, rest : q = Head(command) /\ rest = Tail(command)
    OBVIOUS
  <1>2. /\ command \in Seq(Command) /\ command # <<>> /\ command' = rest /\ busy' = q
        /\ q \in Command
        /\ UNCHANGED <<phase, runs, pending_requests, rx, outgoing>>
    BY <1>1, HeadTailProperties
       DEF WorkerRecv, TypeOK, WorkerOK, callVars, connVars, peerVars
  <1>3. /\ Has(command, AsksOf(k)) <=> q \in AsksOf(k) \/ Has(rest, AsksOf(k))
        /\ AtMostOne(command, AsksOf(k)) =>
               AtMostOne(rest, AsksOf(k)) /\ ~(q \in AsksOf(k) /\ Has(rest, AsksOf(k)))
    BY <1>1, <1>2, HasTail
  <1>4. AskedBusy(k)' => q \in AsksOf(k)
    BY <1>2 DEF AskedBusy, AsksOf, Command
  <1>5. /\ Asked(k)' <=> Has(rest, AsksOf(k))
        /\ AtMostOne(command, AsksOf(k))' <=> AtMostOne(rest, AsksOf(k))
    BY <1>2 DEF Asked, AsksOf
  <1>6. RequestFewer(k)
    BY <1>2, <1>3, <1>4, <1>5, PlacesOfRequest DEF RequestFewer, Request, Asked
  <1> QED
    BY <1>6, FewerRequest

LEMMA WorkerFindRequest ==
  ASSUME TypeOK, NEW k \in Callers, Request(k), WorkerFind PROVE Request(k)'
  <1>1. PICK j \in Callers : j = busy.of
    BY BusyFact DEF TypeOK, WorkerFind
  <1>2. /\ busy.op = "CallRemotely"
        /\ UNCHANGED <<command, runs, pending_requests, rx, outgoing>>
    BY DEF WorkerFind, connVars, peerVars
  <1>3. \/ busy'.op = "Forward" /\ busy'.of = j /\ phase' = phase
        \/ busy' = Idle /\ phase' = Failing({j})
    BY <1>1 DEF WorkerFind
  <1>4. AskedBusy(k)' => AskedBusy(k)
    BY <1>1, <1>2, <1>3 DEF AskedBusy, Idle
  <1>5. \/ phase'[k] = phase[k]
        \/ k = j /\ phase'[k] = "failed" /\ busy' = Idle
    BY <1>3 DEF Failing
  <1>6. k = j => ~Asked(k) /\ ~Pending(k)
    BY <1>1, <1>2 DEF AskedBusy, Request, Unsent
  <1>7. RequestFewer(k)
    BY <1>2, <1>4, <1>5, <1>6, PlacesOfRequest DEF RequestFewer, Over, Idle
  <1> QED
    BY <1>7, FewerRequest

LEMMA WorkerRefusedRequest ==
  ASSUME TypeOK, NEW k \in Callers, Request(k), WorkerRefused PROVE Request(k)'
  <1>1. /\ busy.op = "Forward" /\ phase' = Failing({busy.of}) /\ busy' = Idle
        /\ UNCHANGED <<command, runs, pending_requests, rx, outgoing>>
    BY DEF WorkerRefused, connVars, peerVars
  <1>2. phase'[k] = phase[k] \/ (phase'[k] = "failed" /\ k = busy.of)
    BY <1>1 DEF Failing
  <1>3. k = busy.of => ~Asked(k) /\ ~Pending(k)
    BY <1>1 DEF AskedBusy, Request, Unsent
  <1> QED
    BY <1>1, <1>2, <1>3, PlacesOfRequest, FailingRequest DEF Over, Idle

LEMMA WorkerDieRequest ==
  ASSUME TypeOK, NEW k \in Callers, Request(k), WorkerDie PROVE Request(k)'
  <1>1. /\ command' = <<>> /\ busy' = Idle
        /\ pending_requests' = [key \in Addrs \X Ids |-> None]
        /\ UNCHANGED <<runs, rx, outgoing>>
    BY DEF WorkerDie, peerVars
  <1>2. phase'[k] = phase[k] \/ phase'[k] = "failed"
    BY DEF WorkerDie, Failing
  <1>3. ~Pending(k)'
    BY <1>1, NoneAssumption DEF Pending
  <1> QED
    BY <1>1, <1>2, <1>3, PlacesOfRequest, FailingRequest DEF Over, Idle

\* The calls of a set of keys end, and the keys become free.
LEMMA KeysFreed ==
  ASSUME Matching, NEW k \in Callers, Request(k), NEW K \in SUBSET (Addrs \X Ids),
         pending_requests' = [key \in Addrs \X Ids |->
                                 IF key \in K THEN None ELSE pending_requests[key]]
  PROVE  /\ Pending(k)' => Pending(k)
         /\ (\E key \in K : pending_requests[key] = k) => ~Pending(k)' /\ ~Asked(k)
  <1>1. \A key \in Addrs \X Ids : pending_requests'[key] = k =>
            key \notin K /\ pending_requests[key] = k
    BY NoneAssumption
  <1>2. Pending(k)' => Pending(k)
    BY <1>1 DEF Pending
  <1>3. ASSUME NEW key \in K, pending_requests[key] = k PROVE ~Pending(k)' /\ ~Asked(k)
    <2>1. \A l \in Addrs \X Ids : pending_requests[l] = k => l = key
      BY <1>3, PendingKey
    <2>2. Pending(k)
      BY <1>3 DEF Pending
    <2> QED
      BY <1>1, <1>3, <2>1, <2>2 DEF Pending, Request, Unsent
  <1> QED
    BY <1>2, <1>3

LEMMA WorkerCommitRequest ==
  ASSUME TypeOK, Matching, NEW k \in Callers, Request(k), WorkerCommit PROVE Request(k)'
  <1>1. PICK key \in Addrs \X Ids : key = <<busy.addr, busy.id>>
    BY BusyFact DEF TypeOK, WorkerCommit
  <1>2. busy' = Idle /\ UNCHANGED <<command, runs, rx, outgoing>>
    BY DEF WorkerCommit, connVars, peerVars
  <1>3. CASE UNCHANGED <<pending_requests, phase>>
    BY <1>2, <1>3, PlacesOfRequest, FailingRequest DEF Idle
  <1>4. CASE ~ UNCHANGED <<pending_requests, phase>>
    <2>1. PICK j : j = pending_requests[key]
      OBVIOUS
    <2>2. PICK o : o = IF reqId[j] = busy.id THEN "ok" ELSE "mismatch"
      OBVIOUS
    <2>3. /\ pending_requests' = [pending_requests EXCEPT ![key] = None]
          /\ phase' = [phase EXCEPT ![j] = o] /\ o \in Over
      BY <1>1, <1>4, <2>1, <2>2 DEF WorkerCommit, CallPendingOn, Over
    <2>4. pending_requests' = [l \in Addrs \X Ids |->
                                  IF l \in {key} THEN None ELSE pending_requests[l]]
      BY <2>3 DEF TypeOK, WorkerOK
    <2>5. /\ Pending(k)' => Pending(k)
          /\ k = j => ~Pending(k)' /\ ~Asked(k)
      BY <2>1, <2>4, KeysFreed
    <2>6. phase'[k] = phase[k] \/ (k = j /\ phase'[k] = o)
      BY <2>3 DEF TypeOK, CallsOK
    <2> QED
      BY <1>2, <2>3, <2>5, <2>6, PlacesOfRequest, FailingRequest DEF Idle
  <1> QED
    BY <1>3, <1>4

LEMMA WorkerWsCloseRequest ==
  ASSUME TypeOK, Matching, NEW k \in Callers, Request(k), WorkerWsClose PROVE Request(k)'
  <1>1. PICK K \in SUBSET (Addrs \X Ids) : K = KeysOf(busy.conn)
    BY DEF KeysOf
  <1>2. /\ phase' = Failing({pending_requests[key] : key \in K} \ {None})
        /\ pending_requests' = [key \in Addrs \X Ids |->
                                   IF key \in K THEN None ELSE pending_requests[key]]
        /\ busy'.op \in {"SendClose", "none"}
        /\ UNCHANGED <<command, runs, rx, outgoing>>
    BY <1>1 DEF WorkerWsClose, Idle, connVars, peerVars
  <1>3. \/ phase'[k] = phase[k]
        \/ phase'[k] = "failed" /\ \E key \in K : pending_requests[key] = k
    BY <1>2 DEF Failing
  <1>4. /\ Pending(k)' => Pending(k)
        /\ (\E key \in K : pending_requests[key] = k) => ~Pending(k)' /\ ~Asked(k)
    BY <1>2, KeysFreed
  <1> QED
    BY <1>2, <1>3, <1>4, PlacesOfRequest, FailingRequest DEF Over

LEMMA WorkerForwardRequest ==
  ASSUME TypeOK, Matching, NEW k \in Callers, Request(k), WorkerForward PROVE Request(k)'
  <1>1. PICK j \in Callers, c \in Conns : j = busy.of /\ c = busy.conn
    BY BusyFact DEF TypeOK, WorkerForward
  <1>2. PICK key \in Addrs \X Ids : key = <<target[j], reqId[j]>>
    BY DEF TypeOK, CallsOK
  <1> DEFINE m == [kind |-> "Call", id |-> reqId[j], of |-> j]
  <1>3. m \in ToPeer /\ rx[c] \in Seq(ToPeer) /\ (m \in RequestsOf(k) <=> k = j)
    BY PacketFact DEF TypeOK, CallsOK, ConnsOK, RequestsOf
  <1>4. /\ busy.op = "Forward" /\ busy' = Idle
        /\ \A d \in Conns : rx'[d] = IF d = c THEN Append(rx[c], m) ELSE rx[d]
        /\ phase' = Failing(Displaced(key))
        /\ pending_requests' = [pending_requests EXCEPT ![key] = j]
        /\ UNCHANGED <<command, runs, outgoing>>
    BY <1>1, <1>2 DEF WorkerForward, TypeOK, ConnsOK, peerVars
  <1>5. ~AskedBusy(k)'
    BY <1>4, PlacesOfRequest DEF Idle
  <1>6. /\ Has(rx'[c], RequestsOf(k)) <=> Has(rx[c], RequestsOf(k)) \/ m \in RequestsOf(k)
        /\ AtMostOne(rx[c], RequestsOf(k)) /\ (m \in RequestsOf(k) => ~Has(rx[c], RequestsOf(k)))
               => AtMostOne(rx'[c], RequestsOf(k))
    BY <1>3, <1>4, HasAppend
  <1> HIDE DEF m
  <1>7. CASE k = j
    <2>1. phase[k] = "waiting" /\ Unsent(k) /\ ~Asked(k)
      BY <1>1, <1>4, <1>7 DEF AskedBusy, Request
    <2>2. phase'[k] = "waiting"
      <3>1. k \notin Displaced(key)
        BY <2>1 DEF Displaced, Unsent, Pending
      <3> QED
        BY <1>4, <2>1, <3>1 DEF Failing
    <2>3. ~Asked(k)' /\ AtMostOne(command, AsksOf(k))'
      BY <1>4, <2>1, PlacesOfRequest DEF Request
    <2>4. runs'[k] = 0
      BY <1>4, <2>1 DEF Unsent
    <2>5. \A d \in Conns : ~InRx(d, k) /\ ~InOut(d, k)
      BY <2>1 DEF Unsent
    <2>6. \A d \in Conns : ~InOut(d, k)' /\ AtMostOne(outgoing[d], RequestsOf(k))'
      BY <1>4, <2>5, PlacesOfRequest DEF Request
    <2>7. AtMostOne(rx'[c], RequestsOf(k))
      BY <1>6, <2>5 DEF InRx, Request
    <2>8. \A d \in Conns : (InRx(d, k)' => d = c) /\ AtMostOne(rx[d], RequestsOf(k))'
      <3> SUFFICES ASSUME NEW d \in Conns
                   PROVE  (InRx(d, k)' => d = c) /\ AtMostOne(rx[d], RequestsOf(k))'
        OBVIOUS
      <3>1. CASE d = c
        BY <2>7, <3>1 DEF RequestsOf
      <3>2. CASE d # c
        BY <1>4, <2>5, <3>2, PlacesOfRequest DEF Request
      <3> QED
        BY <3>1, <3>2
    <2> QED
      BY <1>5, <2>2, <2>3, <2>4, <2>6, <2>8 DEF Request, Unstarted
  <1>8. CASE k # j
    <2>1. pending_requests'[key] = j /\ \A l \in Addrs \X Ids : l # key =>
              pending_requests'[l] = pending_requests[l]
      BY <1>4 DEF TypeOK, WorkerOK
    <2>2. Pending(k)' => \E l \in Addrs \X Ids : l # key /\ pending_requests[l] = k
      BY <1>8, <2>1 DEF Pending
    <2>3. \/ phase'[k] = phase[k]
          \/ phase'[k] = "failed" /\ pending_requests[key] = k
      BY <1>4 DEF Failing, Displaced
    <2>4. pending_requests[key] = k => ~Pending(k)' /\ ~Asked(k)
      <3> SUFFICES ASSUME pending_requests[key] = k PROVE ~Pending(k)' /\ ~Asked(k)
        OBVIOUS
      <3>1. \A l \in Addrs \X Ids : pending_requests[l] = k => l = key
        BY PendingKey
      <3>2. Pending(k)
        BY DEF Pending
      <3> QED
        BY <2>2, <3>1, <3>2 DEF Request, Unsent
    <2>5. Pending(k)' => Pending(k)
      BY <2>2 DEF Pending
    <2>6. ASSUME NEW d \in Conns
          PROVE  /\ InRx(d, k)' => InRx(d, k)
                 /\ AtMostOne(rx[d], RequestsOf(k)) => AtMostOne(rx[d], RequestsOf(k))'
      <3>1. CASE d = c
        BY <1>3, <1>6, <1>8, <3>1 DEF InRx, RequestsOf
      <3>2. CASE d # c
        BY <1>4, <3>2, PlacesOfRequest
      <3> QED
        BY <3>1, <3>2
    <2>7. RequestFewer(k)
      BY <1>4, <1>5, <2>3, <2>4, <2>5, <2>6, PlacesOfRequest DEF RequestFewer, Over
    <2> QED
      BY <2>7, FewerRequest
  <1> QED
    BY <1>7, <1>8

LEMMA ConnForwardRequest ==
  ASSUME TypeOK, NEW k \in Callers, Request(k), NEW c \in Conns, ConnForward(c)
  PROVE  Request(k)'
  <1>1. PICK m, rest : m = Head(rx[c]) /\ rest = Tail(rx[c])
    OBVIOUS
  <1>2. /\ rx[c] \in Seq(ToPeer) /\ rx[c] # <<>> /\ m \in ToPeer
        /\ UNCHANGED <<phase, command, busy, pending_requests, runs>>
        /\ \A d \in Conns : rx'[d] = IF d = c THEN rest ELSE rx[d]
    BY <1>1, HeadTailProperties DEF ConnForward, TypeOK, ConnsOK, callVars, workerVars
  <1>3. /\ outgoing[c] \in Seq(ToPeer)
        /\ outgoing'[c] = outgoing[c] \/ outgoing'[c] = Append(outgoing[c], m)
        /\ \A d \in Conns : d # c => outgoing'[d] = outgoing[d]
    <2>1. outgoing' = Written(c, m)
      BY <1>1 DEF ConnForward
    <2> QED
      BY <2>1 DEF Written, TypeOK, PeersOK
  <1>4. /\ InRx(c, k) <=> m \in RequestsOf(k) \/ InRx(c, k)'
        /\ AtMostOne(rx[c], RequestsOf(k))'
        /\ ~(m \in RequestsOf(k) /\ InRx(c, k)')
    <2>1. /\ Has(rx[c], RequestsOf(k)) <=> m \in RequestsOf(k) \/ Has(rest, RequestsOf(k))
          /\ AtMostOne(rx[c], RequestsOf(k)) => /\ AtMostOne(rest, RequestsOf(k))
                                               /\ ~(m \in RequestsOf(k) /\ Has(rest, RequestsOf(k)))
      BY <1>1, <1>2, HasTail
    <2>2. AtMostOne(rx[c], RequestsOf(k))
      BY DEF Request
    <2> QED
      BY <1>2, <2>1, <2>2 DEF InRx, RequestsOf
  <1>5. /\ InOut(c, k)' => InOut(c, k) \/ m \in RequestsOf(k)
        /\ AtMostOne(outgoing[c], RequestsOf(k)) /\ (m \in RequestsOf(k) => ~InOut(c, k))
               => AtMostOne(outgoing[c], RequestsOf(k))'
    <2>1. CASE outgoing'[c] = outgoing[c]
      BY <2>1, PlacesOfRequest
    <2>2. CASE outgoing'[c] = Append(outgoing[c], m)
      <3>1. /\ Has(outgoing'[c], RequestsOf(k)) <=> Has(outgoing[c], RequestsOf(k)) \/ m \in RequestsOf(k)
            /\ AtMostOne(outgoing[c], RequestsOf(k))
               /\ (m \in RequestsOf(k) => ~Has(outgoing[c], RequestsOf(k)))
               => AtMostOne(outgoing'[c], RequestsOf(k))
        BY <1>2, <1>3, <2>2, HasAppend
      <3> QED
        BY <3>1 DEF InOut, RequestsOf
    <2> QED
      BY <1>3, <2>1, <2>2
  <1>6. \A d \in Conns : d # c => /\ InRx(d, k)' <=> InRx(d, k)
                                  /\ AtMostOne(rx[d], RequestsOf(k))'
                                  /\ InOut(d, k)' <=> InOut(d, k)
                                  /\ AtMostOne(outgoing[d], RequestsOf(k))'
    BY <1>2, <1>3, PlacesOfRequest DEF Request
  <1>7. CASE m \notin RequestsOf(k)
    <2>1. RequestFewer(k)
      BY <1>2, <1>4, <1>5, <1>6, <1>7, PlacesOfRequest DEF RequestFewer
    <2> QED
      BY <2>1, FewerRequest
  <1>8. CASE m \in RequestsOf(k)
    <2>1. InRx(c, k)
      BY <1>4, <1>8
    <2>2. /\ runs[k] = 0
          /\ \A d \in Conns : (InRx(d, k) => d = c) /\ ~InOut(d, k)
      BY <2>1 DEF Request
    <2>3. ~Unsent(k)
      BY <2>1 DEF Unsent
    <2>4. phase[k] \notin Unstarted /\ ~Asked(k) /\ ~AskedBusy(k)
      BY <2>3 DEF Request
    <2>5. \A d \in Conns : /\ ~InRx(d, k)' /\ (InOut(d, k)' => d = c)
                           /\ AtMostOne(rx[d], RequestsOf(k))'
                           /\ AtMostOne(outgoing[d], RequestsOf(k))'
      <3>1. AtMostOne(outgoing[c], RequestsOf(k))'
        BY <1>5, <2>2 DEF Request
      <3> QED
        BY <1>4, <1>6, <1>8, <2>2, <3>1
    <2>6. /\ ~Asked(k)' /\ AtMostOne(command, AsksOf(k))' /\ ~AskedBusy(k)'
          /\ Pending(k)' => Pending(k)
      BY <1>2, <2>4, PlacesOfRequest DEF Request
    <2>7. Pending(k)' => phase'[k] = "waiting"
      BY <1>2, <2>6 DEF Request
    <2> QED
      BY <1>2, <2>2, <2>4, <2>5, <2>6, <2>7 DEF Request
  <1> QED
    BY <1>7, <1>8

LEMMA ConnRespondRequest ==
  ASSUME TypeOK, NEW k \in Callers, Request(k), NEW c \in Conns, ConnRespond(c)
  PROVE  Request(k)'
  <1>1. PICK p \in pending_responses[c] : outgoing' = Written(c, [kind |-> "Ret", of |-> p])
    BY DEF ConnRespond
  <1> DEFINE m == [kind |-> "Ret", of |-> p]
  <1>2. p \in PeerCalls /\ m \in ToPeer /\ m \notin RequestsOf(k)
    BY PacketFact DEF TypeOK, ConnsOK, RequestsOf
  <1>3. /\ outgoing[c] \in Seq(ToPeer)
        /\ outgoing'[c] = outgoing[c] \/ outgoing'[c] = Append(outgoing[c], m)
        /\ \A d \in Conns : d # c => outgoing'[d] = outgoing[d]
        /\ UNCHANGED <<phase, command, busy, pending_requests, runs, rx>>
    BY <1>1 DEF Written, ConnRespond, TypeOK, PeersOK, callVars, workerVars
  <1> HIDE DEF m
  <1>4. ASSUME NEW d \in Conns
        PROVE  /\ InOut(d, k)' => InOut(d, k)
               /\ AtMostOne(outgoing[d], RequestsOf(k)) => AtMostOne(outgoing[d], RequestsOf(k))'
    <2>1. CASE outgoing'[d] = outgoing[d]
      BY <2>1, PlacesOfRequest
    <2>2. CASE d = c /\ outgoing'[c] = Append(outgoing[c], m)
      <3>1. /\ Has(outgoing'[c], RequestsOf(k)) => Has(outgoing[c], RequestsOf(k))
            /\ AtMostOne(outgoing[c], RequestsOf(k)) => AtMostOne(outgoing'[c], RequestsOf(k))
        BY <1>2, <1>3, <2>2, HasAppend
      <3> QED
        BY <2>2, <3>1 DEF InOut, RequestsOf
    <2> QED
      BY <1>3, <2>1, <2>2
  <1>5. RequestFewer(k)
    BY <1>3, <1>4, PlacesOfRequest DEF RequestFewer
  <1> QED
    BY <1>5, FewerRequest

\* The peer takes a call that it has not run.
LEMMA PeerReadCall ==
  ASSUME TypeOK, NEW k \in Callers, Request(k), NEW c \in Conns, PeerRead(c),
         Head(outgoing[c]) \in RequestsOf(k)
  PROVE  /\ runs[k] = 0 /\ runs' = [runs EXCEPT ![k] = 1] /\ phase[k] \notin Unstarted
         /\ InOut(c, k)
  <1>1. PICK m : m = Head(outgoing[c])
    OBVIOUS
  <1>2. m.kind = "Call" /\ m.of = k
    BY <1>1 DEF RequestsOf
  <1>3. InOut(c, k)
    BY HasTail DEF InOut, PeerRead, TypeOK, PeersOK
  <1>4. runs[k] = 0 /\ phase[k] \notin Unstarted
    BY <1>3 DEF Request, Unsent
  <1>5. runs' = [runs EXCEPT ![k] = runs[k] + 1]
    BY <1>1, <1>2 DEF PeerRead
  <1> QED
    BY <1>3, <1>4, <1>5

LEMMA PeerReadRequest ==
  ASSUME TypeOK, NEW k \in Callers, Request(k), NEW c \in Conns, PeerRead(c)
  PROVE  Request(k)'
  <1>1. PICK m, rest : m = Head(outgoing[c]) /\ rest = Tail(outgoing[c])
    OBVIOUS
  <1>2. /\ outgoing[c] \in Seq(ToPeer) /\ outgoing[c] # <<>> /\ m \in ToPeer
        /\ UNCHANGED <<phase, command, busy, pending_requests, rx>>
        /\ \A d \in Conns : outgoing'[d] = IF d = c THEN rest ELSE outgoing[d]
    BY <1>1, HeadTailProperties DEF PeerRead, TypeOK, PeersOK, callVars, workerVars, connVars
  <1>3. /\ InOut(c, k) <=> m \in RequestsOf(k) \/ InOut(c, k)'
        /\ AtMostOne(outgoing[c], RequestsOf(k))'
        /\ ~(m \in RequestsOf(k) /\ InOut(c, k)')
    <2>1. /\ Has(outgoing[c], RequestsOf(k)) <=> m \in RequestsOf(k) \/ Has(rest, RequestsOf(k))
          /\ AtMostOne(outgoing[c], RequestsOf(k)) =>
                 /\ AtMostOne(rest, RequestsOf(k))
                 /\ ~(m \in RequestsOf(k) /\ Has(rest, RequestsOf(k)))
      BY <1>1, <1>2, HasTail
    <2>2. AtMostOne(outgoing[c], RequestsOf(k))
      BY DEF Request
    <2> QED
      BY <1>2, <2>1, <2>2 DEF InOut, RequestsOf
  <1>4. \A d \in Conns : d # c => /\ InOut(d, k)' <=> InOut(d, k)
                                  /\ AtMostOne(outgoing[d], RequestsOf(k))'
    BY <1>2, PlacesOfRequest DEF Request
  <1>5. CASE m \notin RequestsOf(k)
    <2>1. runs'[k] = runs[k]
      BY <1>1, <1>2, <1>5 DEF PeerRead, RequestsOf, TypeOK, PeersOK
    <2>2. RequestFewer(k)
      BY <1>2, <1>3, <1>4, <2>1, PlacesOfRequest DEF RequestFewer
    <2> QED
      BY <2>2, FewerRequest
  <1>6. CASE m \in RequestsOf(k)
    <2>1. runs'[k] = 1 /\ phase[k] \notin Unstarted /\ InOut(c, k)
      BY <1>1, <1>6, PeerReadCall DEF TypeOK, PeersOK
    <2>2. \A d \in Conns : (InOut(d, k) => d = c) /\ ~InRx(d, k)
      BY <2>1 DEF Request
    <2>3. ~Asked(k) /\ ~AskedBusy(k)
      BY <2>1 DEF Request, Unsent
    <2>4. \A d \in Conns : /\ ~InOut(d, k)' /\ ~InRx(d, k)'
                           /\ AtMostOne(rx[d], RequestsOf(k))'
                           /\ AtMostOne(outgoing[d], RequestsOf(k))'
      BY <1>2, <1>3, <1>4, <1>6, <2>2, PlacesOfRequest DEF Request
    <2>5. /\ ~Asked(k)' /\ AtMostOne(command, AsksOf(k))' /\ ~AskedBusy(k)'
          /\ Pending(k)' => Pending(k)
      BY <1>2, <2>3, PlacesOfRequest DEF Request
    <2>6. Pending(k)' => phase'[k] = "waiting"
      BY <1>2, <2>5 DEF Request
    <2> QED
      BY <1>2, <2>1, <2>4, <2>5, <2>6 DEF Request
  <1> QED
    BY <1>5, <1>6

LEMMA OtherRequest ==
  ASSUME TypeOK, NEW k \in Callers, Request(k),
         \/ WorkerTransfer \/ WorkerWsOpen \/ WorkerSendClose \/ WorkerRemoveRoute
         \/ \E c \in Conns :
                \/ ConnSendOpen(c) \/ ConnUpgradeFails(c) \/ ConnRegister(c)
                \/ ConnIncoming(c) \/ ConnTransfer(c) \/ ConnExit(c) \/ ConnDropRx(c)
                \/ CleanupClose(c) \/ CleanupRemove(c) \/ PeerClose(c)
                \/ \E p \in PeerCalls : PeerCall(p, c)
         \/ Route \/ Hook \/ Unbind \/ UNCHANGED vars
  PROVE  Request(k)'
  <1>1. CASE WorkerTransfer \/ WorkerWsOpen \/ WorkerSendClose \/ WorkerRemoveRoute
    <2>1. UNCHANGED <<phase, runs, pending_requests, command, rx, outgoing>>
      BY <1>1 DEF WorkerTransfer, WorkerWsOpen, WorkerSendClose, WorkerRemoveRoute, callVars,
             connVars, peerVars
    <2>2. busy'.op \notin {"CallRemotely", "Forward"}
      BY <1>1 DEF WorkerTransfer, WorkerWsOpen, WorkerSendClose, WorkerRemoveRoute, Idle
    <2> QED
      BY <2>1, <2>2, KeepingRequest
  <1>2. CASE \E c \in Conns :
                \/ ConnSendOpen(c) \/ ConnUpgradeFails(c) \/ ConnRegister(c)
                \/ ConnIncoming(c) \/ ConnTransfer(c) \/ ConnExit(c) \/ ConnDropRx(c)
                \/ CleanupClose(c) \/ CleanupRemove(c) \/ PeerClose(c)
                \/ \E p \in PeerCalls : PeerCall(p, c)
    <2>1. UNCHANGED <<phase, runs, pending_requests, busy>>
      BY <1>2 DEF ConnSendOpen, ConnUpgradeFails, ConnRegister, ConnIncoming, ConnTransfer,
             ConnExit, ConnDropRx, CleanupClose, CleanupRemove, PeerClose, PeerCall,
             callVars, workerVars, peerVars
    <2>2. \A c \in Conns : /\ rx'[c] = rx[c] \/ rx'[c] = <<>>
                           /\ outgoing'[c] = outgoing[c] \/ outgoing'[c] = <<>>
      BY <1>2 DEF ConnSendOpen, ConnUpgradeFails, ConnRegister, ConnIncoming, ConnTransfer,
             ConnExit, ConnDropRx, CleanupClose, CleanupRemove, PeerClose, PeerCall,
             connVars, peerVars, TypeOK, ConnsOK, PeersOK
    <2>3. UNCHANGED command \/ \E e \in Command : e \notin AsksOf(k) /\ command' = Append(command, e)
      <3>1. ASSUME NEW c \in Conns, ConnTransfer(c)
            PROVE  UNCHANGED command \/ \E e \in Command : e \notin AsksOf(k) /\ command' = Append(command, e)
        <4>1. PICK e : e = [op |-> "Transfer", item |-> [conn |-> c, msg |-> held[c]]]
          OBVIOUS
        <4>2. e \in Command /\ e.op = "Transfer"
          BY <3>1, <4>1, CommandFact, PacketFact DEF ConnTransfer, TypeOK, ConnsOK
        <4>3. e \notin AsksOf(k)
          BY <4>2 DEF AsksOf
        <4> QED
          BY <3>1, <4>1, <4>2, <4>3 DEF ConnTransfer
      <3>2. ASSUME NEW c \in Conns, ConnSendOpen(c) \/ CleanupClose(c)
            PROVE  UNCHANGED command \/ \E e \in Command : e \notin AsksOf(k) /\ command' = Append(command, e)
        <4>1. \A e \in {[op |-> "WsOpen", conn |-> c], [op |-> "WsClose", conn |-> c]} :
                  e \in Command /\ e \notin AsksOf(k)
          BY CommandFact DEF AsksOf
        <4> QED
          BY <3>2, <4>1 DEF ConnSendOpen, CleanupClose
      <3> QED
        BY <1>2, <3>1, <3>2
           DEF ConnUpgradeFails, ConnRegister, ConnIncoming, ConnExit, ConnDropRx,
               CleanupRemove, PeerClose, PeerCall, workerVars
    <2> QED
      BY <2>1, <2>2, <2>3, KeepingRequest
  <1>3. CASE Route
    <2>1. UNCHANGED <<phase, runs, pending_requests, busy, rx, outgoing>>
      BY <1>3 DEF Route, RouteRecv, RouteReturn, RouteCommit, HandlerPanic, callVars, workerVars,
             connVars, peerVars
    <2>2. UNCHANGED command \/ \E e \in Command : e \notin AsksOf(k) /\ command' = Append(command, e)
      <3>1. CASE RouteCommit
        <4>1. CommitOf(route) \in Command /\ CommitOf(route).op = "CommitReturn"
          BY <3>1, CommandFact DEF RouteCommit, CommitOf, TypeOK, RouteOK
        <4>2. CommitOf(route) \notin AsksOf(k)
          BY <4>1 DEF AsksOf
        <4> QED
          BY <3>1, <4>1, <4>2 DEF RouteCommit
      <3> QED
        BY <1>3, <3>1 DEF Route, RouteRecv, RouteReturn, HandlerPanic, workerVars
    <2> QED
      BY <2>1, <2>2, KeepingRequest
  <1>4. CASE Hook \/ Unbind \/ UNCHANGED vars
    <2>1. /\ UNCHANGED <<phase, runs, pending_requests, rx, outgoing>>
          /\ UNCHANGED busy \/ busy' = Idle
      BY <1>4 DEF Hook, HookTakeOpen, HookOpenDone, HookTakeClose, HookCloseDone, HookStop,
             Unbind, UnbindStart, UnbindSend, vars, callVars, workerVars, connVars, peerVars
    <2>2. UNCHANGED command \/ \E e \in Command : e \notin AsksOf(k) /\ command' = Append(command, e)
      <3>1. [op |-> "RemoveWsRoute"] \in Command /\ [op |-> "RemoveWsRoute"] \notin AsksOf(k)
        BY CommandFact DEF AsksOf
      <3> QED
        BY <1>4, <3>1
           DEF Hook, HookTakeOpen, HookOpenDone, HookTakeClose, HookCloseDone, HookStop,
               Unbind, UnbindStart, UnbindSend, vars, workerVars
    <2> QED
      BY <2>1, <2>2, KeepingRequest DEF Idle
  <1> QED
    BY <1>1, <1>2, <1>3, <1>4

LEMMA StepRequest ==
  ASSUME TypeOK, Matching, [Next]_vars, NEW k \in Callers, Request(k)
  PROVE  Request(k)'
  BY CallerRequest, WorkerRecvRequest, WorkerFindRequest, WorkerRefusedRequest,
     WorkerDieRequest, WorkerCommitRequest, WorkerWsCloseRequest, WorkerForwardRequest,
     ConnForwardRequest, ConnRespondRequest, PeerReadRequest, OtherRequest
     DEF Next, Worker, Conn

LEMMA InitRequest == ASSUME Init, NEW k \in Callers PROVE Request(k)
  <1>1. /\ phase[k] = "idle" /\ runs[k] = 0 /\ command = <<>> /\ busy = Idle
        /\ \A c \in Conns : rx[c] = <<>> /\ outgoing[c] = <<>>
        /\ \A key \in Addrs \X Ids : pending_requests[key] = None
    BY DEF Init
  <1>2. ~AskedBusy(k) /\ ~Pending(k)
    BY <1>1, NoneAssumption DEF AskedBusy, Pending, Idle
  <1>3. Unsent(k) /\ ~Asked(k)
    BY <1>1, <1>2, HasEmpty DEF Unsent, InRx, InOut, Asked
  <1> QED
    BY <1>1, <1>2, <1>3, HasEmpty DEF Request, InRx, InOut

-----------------------------------------------------------------------------
(* No reply before the call is run *)

CommitsOf(k) == {q \in Command : q.op = "CommitReturn" /\ q.of = k}
RepliesOf(k) == {i \in Items : i.msg.kind = "Ret" /\ i.msg.of = k}

\* Until a peer has run call k there is no reply to it, on the way to the route
\* task or from there to the worker.
Replies(k) ==
    runs[k] = 0 =>
        /\ Absent(RepliesOf(k))
        /\ ~Has(command, CommitsOf(k)) /\ busy \notin CommitsOf(k)

\* Only a peer that runs a call counts it, and writes the reply.
LEMMA RunsStep ==
  ASSUME TypeOK, [Next]_vars, NEW k \in Callers
  PROVE  /\ runs'[k] = 0 => runs[k] = 0
         /\ runs'[k] = 0 => ~Enters(RepliesOf(k))
  <1>1. ASSUME NEW c \in Conns, PeerRead(c), Head(outgoing[c]).kind = "Call"
        PROVE  /\ runs'[k] = 0 => runs[k] = 0
               /\ Head(outgoing[c]).of = k => runs'[k] # 0
    <2>1. PICK j : j = Head(outgoing[c]).of
      OBVIOUS
    <2>2. runs' = [runs EXCEPT ![j] = runs[j] + 1]
      BY <1>1, <2>1 DEF PeerRead
    <2>3. runs \in [Callers -> Nat]
      BY DEF TypeOK, PeersOK
    <2>4. runs'[k] = IF j = k THEN runs[k] + 1 ELSE runs[k]
      BY <2>2, <2>3
    <2>5. runs[k] \in Nat
      BY <2>3
    <2>6. runs[k] + 1 # 0
      BY <2>5, SMT
    <2> QED
      BY <2>1, <2>4, <2>6
  <1>2. ASSUME Enters(RepliesOf(k)) PROVE runs'[k] # 0
    <2>1. PICK c \in Conns : PeerRead(c) /\ Head(outgoing[c]).kind = "Call"
                             /\ ReplyItem(c, Head(outgoing[c])) \in RepliesOf(k)
      BY <1>2 DEF Enters, RepliesOf, CallItem
    <2>2. Head(outgoing[c]).of = k
      BY <2>1 DEF RepliesOf, ReplyItem
    <2> QED
      BY <1>1, <2>1, <2>2
  <1>3. ASSUME NEW c \in Conns, PeerRead(c), Head(outgoing[c]).kind # "Call" PROVE UNCHANGED runs
    BY <1>3 DEF PeerRead
  <1>4. ~(\E c \in Conns : PeerRead(c)) => UNCHANGED runs
    BY DEF Next, vars, CallStart, CallUnbound, CallSend, Worker, WorkerRecv, WorkerFind,
           WorkerForward, WorkerRefused, WorkerTransfer, WorkerDie, WorkerCommit, WorkerWsOpen,
           WorkerWsClose, WorkerSendClose, WorkerRemoveRoute, Conn, ConnSendOpen,
           ConnUpgradeFails, ConnRegister, ConnForward, ConnRespond, ConnIncoming,
           ConnTransfer, ConnExit, ConnDropRx, CleanupClose, CleanupRemove, PeerClose,
           PeerCall, Route, RouteRecv, RouteReturn, RouteCommit, HandlerPanic, Hook,
           HookTakeOpen, HookOpenDone, HookTakeClose, HookCloseDone, HookStop, Unbind,
           UnbindStart, UnbindSend, peerVars
  <1> QED
    BY <1>1, <1>2, <1>3, <1>4

LEMMA StepCommits ==
  ASSUME TypeOK, [Next]_vars, NEW k \in Callers, Absent(RepliesOf(k)),
         ~Has(command, CommitsOf(k)), busy \notin CommitsOf(k)
  PROVE  ~Has(command', CommitsOf(k)) /\ busy' \notin CommitsOf(k)
  <1>1. command \in Seq(Command)
    BY DEF TypeOK, WorkerOK
  <1>2. CASE WorkerRecv
    <2>1. PICK q, rest : q = Head(command) /\ rest = Tail(command)
      OBVIOUS
    <2>2. command' = rest /\ busy' = q /\ command # <<>>
      BY <1>2, <2>1 DEF WorkerRecv
    <2>3. Has(command, CommitsOf(k)) <=> q \in CommitsOf(k) \/ Has(rest, CommitsOf(k))
      BY <1>1, <2>1, <2>2, HasTail
    <2> QED
      BY <2>2, <2>3
  <1>3. CASE ~WorkerRecv
    <2>1. busy' \notin CommitsOf(k)
      BY <1>3, StepBusy DEF CommitsOf
    <2>2. CASE UNCHANGED command \/ command' = <<>>
      BY <2>1, <2>2, HasEmpty
    <2>3. CASE \E e \in Command : Queues(e)
      <3>1. PICK e \in Command : Queues(e)
        BY <2>3
      <3>2. ASSUME e \in CommitsOf(k) PROVE FALSE
        <4>1. RouteCommit /\ e = CommitOf(route)
          BY <3>1, <3>2 DEF Queues, CommitsOf
        <4>2. route \in Items /\ route.msg.kind = "Ret" /\ route.msg.of = k
          BY <3>2, <4>1 DEF RouteCommit, TypeOK, RouteOK, CommitsOf, CommitOf
        <4> QED
          BY <4>2 DEF Absent, InRoute, RepliesOf
      <3>3. command' = Append(command, e)
        BY <3>1 DEF Queues
      <3> QED
        BY <1>1, <2>1, <3>2, <3>3, HasAppend
    <2> QED
      BY <1>3, <2>2, <2>3, StepChannel
  <1> QED
    BY <1>2, <1>3

LEMMA StepReplies ==
  ASSUME TypeOK, [Next]_vars, NEW k \in Callers, Replies(k) PROVE Replies(k)'
  <1> SUFFICES ASSUME runs'[k] = 0
               PROVE  /\ Absent(RepliesOf(k))'
                      /\ ~Has(command', CommitsOf(k)) /\ busy' \notin CommitsOf(k)
    BY DEF Replies, CommitsOf
  <1>1. runs[k] = 0 /\ ~Enters(RepliesOf(k))
    BY RunsStep
  <1>2. RepliesOf(k) \in SUBSET Items
    BY DEF RepliesOf
  <1>3. Orderly(RepliesOf(k))
    BY <1>2, StepOrderly
  <1>4. Absent(RepliesOf(k))'
    BY <1>1, <1>3 DEF Orderly, Replies
  <1> QED
    BY <1>1, <1>4, StepCommits DEF Replies

LEMMA InitReplies == ASSUME Init, NEW k \in Callers PROVE Replies(k)
  <1>1. Absent(RepliesOf(k))
    BY InitAbsent DEF RepliesOf
  <1>2. busy \notin CommitsOf(k)
    BY DEF Init, Idle, CommitsOf
  <1>3. ~Has(command, CommitsOf(k))
    BY HasEmpty DEF Init
  <1> QED
    BY <1>1, <1>2, <1>3 DEF Replies

CallsInv == \A k \in Callers : Request(k) /\ Replies(k)

LEMMA CallsInvariant == Spec => []CallsInv
  <1>1. Init => CallsInv
    BY InitRequest, InitReplies DEF CallsInv
  <1>2. TypeOK /\ Matching /\ CallsInv /\ [Next]_vars => CallsInv'
    BY StepRequest, StepReplies DEF CallsInv
  <1> QED
    BY <1>1, <1>2, MatchingInvariant, PTL DEF Spec

-----------------------------------------------------------------------------
(* The reply to a call with a fresh id is its own *)

\* A packet of call k may still lead to a reply, or is one.
Trace(k) ==
    \/ \E c \in Conns : InRx(c, k) \/ InOut(c, k)
    \/ ~Absent(RepliesOf(k))
    \/ Has(command, CommitsOf(k)) \/ busy \in CommitsOf(k)

Lives(k) == Active(k) \/ Trace(k)

\* Calls that live to one address have different ids.
Distinct ==
    \A j, k \in Callers :
        Lives(j) /\ Lives(k) /\ reqId[j] = reqId[k] /\ target[j] = target[k] => j = k

LEMMA LivesUnderWay ==
  ASSUME TypeOK, NEW k \in Callers, Lives(k) PROVE UnderWay(k)
  <1>1. CASE Active(k)
    BY <1>1 DEF UnderWay
  <1>2. CASE \E c \in Conns : InRx(c, k) \/ InOut(c, k)
    <2>1. \/ \E c \in Conns : \E i \in 1 .. Len(rx[c]) : CallOf(rx[c][i], k)
          \/ \E c \in Conns : \E i \in 1 .. Len(outgoing[c]) : CallOf(outgoing[c][i], k)
      BY <1>2 DEF InRx, InOut, Has, RequestsOf, CallOf
    <2> QED
      BY <2>1 DEF UnderWay
  <1>3. CASE \E c \in Conns : AtConn(c, RepliesOf(k))
    <2>1. PICK c \in Conns : AtConn(c, RepliesOf(k))
      BY <1>3
    <2>2. \A m \in Msgs(c, RepliesOf(k)) : m \in FromPeer /\ ReplyOf(m, k)
      BY DEF Msgs, RepliesOf, ReplyOf
    <2>3. None \notin FromPeer
      BY NoneAssumption
    <2>4. \/ \E i \in 1 .. Len(incoming[c]) : ReplyOf(incoming[c][i], k)
          \/ held[c] # None /\ ReplyOf(held[c], k)
      BY <2>1, <2>2, <2>3 DEF AtConn, InSocket, InHeld, Has
    <2> QED
      BY <2>4 DEF UnderWay
  <1>4. CASE \/ InCommand(RepliesOf(k)) \/ InBusy(RepliesOf(k))
             \/ Has(command, CommitsOf(k)) \/ busy \in CommitsOf(k)
    <2>1. \A q \in TransfersOf(RepliesOf(k)) \cup CommitsOf(k) : CommandReplies(q, k)
      BY DEF TransfersOf, RepliesOf, CommitsOf, CommandReplies, ReplyOf
    <2>2. (\E i \in 1 .. Len(command) : CommandReplies(command[i], k)) \/ CommandReplies(busy, k)
      BY <1>4, <2>1 DEF InCommand, InBusy, Has
    <2> QED
      BY <2>2 DEF UnderWay
  <1>5. CASE InStream(RepliesOf(k)) \/ InRoute(RepliesOf(k))
    <2>1. \A i \in RepliesOf(k) : ReplyOf(i.msg, k) /\ i # None
      BY NoneAssumption DEF RepliesOf, ReplyOf
    <2>2. \/ \E i \in 1 .. Len(stream) : ReplyOf(stream[i].msg, k)
          \/ route # None /\ ReplyOf(route.msg, k)
      BY <1>5, <2>1 DEF InStream, InRoute, Has
    <2> QED
      BY <2>2 DEF UnderWay
  <1> QED
    BY <1>1, <1>2, <1>3, <1>4, <1>5 DEF Lives, Trace, Absent

LEMMA LivesDrawn ==
  ASSUME NEW k \in Callers, Request(k), Replies(k), Lives(k) PROVE Drawn(k)
  <1>1. Trace(k) => phase[k] \notin Unstarted
    BY DEF Trace, Request, Replies, Unsent
  <1> QED
    BY <1>1 DEF Lives, Active, Drawn, Unstarted

\* A call becomes active only when it starts.
LEMMA ActiveStep ==
  ASSUME TypeOK, [Next]_vars, NEW k \in Callers, Active(k)'
  PROVE  Active(k) \/ \E a \in Addrs : CallStart(k, a)
  <1>1. CASE \E j \in Callers : CallUnbound(j) \/ CallSend(j) \/ \E a \in Addrs : CallStart(j, a)
    BY <1>1 DEF CallUnbound, CallSend, CallStart, Failing, TypeOK, CallsOK, Active
  <1>2. ASSUME NEW S, phase' = Failing(S) PROVE Active(k)
    BY <1>2 DEF Failing, Active
  <1>3. CASE UNCHANGED phase
    BY <1>3 DEF Active
  <1>4. CASE WorkerFind \/ WorkerForward \/ WorkerRefused \/ WorkerDie \/ WorkerWsClose
    BY <1>2, <1>3, <1>4
       DEF WorkerFind, WorkerForward, WorkerRefused, WorkerDie, WorkerWsClose
  <1>5. CASE WorkerCommit
    <2>1. PICK j, p : /\ p \notin {"sending", "waiting"}
                      /\ phase' = phase \/ phase' = [phase EXCEPT ![j] = p]
      <3>1. PICK j : j = CallPendingOn(busy.addr, busy.id)
        OBVIOUS
      <3>2. PICK p : p = IF reqId[j] = busy.id THEN "ok" ELSE "mismatch"
        OBVIOUS
      <3>3. p \notin {"sending", "waiting"}
        BY <3>2
      <3>4. phase' = phase \/ phase' = [phase EXCEPT ![j] = p]
        BY <1>5, <3>1, <3>2 DEF WorkerCommit
      <3> QED
        BY <3>3, <3>4
    <2> QED
      BY <2>1 DEF TypeOK, CallsOK, Active
  <1>6. CASE \/ WorkerRecv \/ WorkerTransfer \/ WorkerWsOpen \/ WorkerSendClose
             \/ WorkerRemoveRoute \/ Hook \/ Unbind \/ Route \/ UNCHANGED vars
    BY <1>3, <1>6
       DEF WorkerRecv, WorkerTransfer, WorkerWsOpen, WorkerSendClose, WorkerRemoveRoute, Hook,
           HookTakeOpen, HookOpenDone, HookTakeClose, HookCloseDone, HookStop, Unbind,
           UnbindStart, UnbindSend, Route, RouteRecv, RouteReturn, RouteCommit, HandlerPanic,
           vars, callVars
  <1>7. CASE \E c \in Conns : \/ Conn(c) \/ PeerClose(c) \/ PeerRead(c)
                              \/ \E p \in PeerCalls : PeerCall(p, c)
    BY <1>3, <1>7
       DEF Conn, ConnSendOpen, ConnUpgradeFails, ConnRegister, ConnForward, ConnRespond,
           ConnIncoming, ConnTransfer, ConnExit, ConnDropRx, CleanupClose, CleanupRemove,
           PeerClose, PeerRead, PeerCall, callVars
  <1> QED
    BY <1>1, <1>4, <1>5, <1>6, <1>7 DEF Next, Worker

\* The request enters the channel of a connection from the worker, and the socket
\* from the channel.
LEMMA RxStep ==
  ASSUME TypeOK, [Next]_vars, NEW k \in Callers, NEW c \in Conns, InRx(c, k)'
  PROVE  InRx(c, k) \/ AskedBusy(k)
  <1>1. CASE rx'[c] = rx[c] \/ rx'[c] = <<>>
    BY <1>1, PlacesOfRequest
  <1>2. CASE WorkerForward
    <2>1. PICK d, j : d = busy.conn /\ j = busy.of
      OBVIOUS
    <2>2. j \in Callers /\ d \in Conns /\ busy.op = "Forward"
      BY <1>2, <2>1, BusyFact DEF WorkerForward, TypeOK
    <2>3. PICK m : m = [kind |-> "Call", id |-> reqId[j], of |-> j]
      OBVIOUS
    <2>4. m \in ToPeer /\ (m \in RequestsOf(k) => j = k)
      BY <2>2, <2>3, PacketFact DEF TypeOK, CallsOK, RequestsOf
    <2>5. rx' = [rx EXCEPT ![d] = Append(rx[d], m)]
      BY <1>2, <2>1, <2>3 DEF WorkerForward
    <2>6. rx[c] \in Seq(ToPeer) /\ (rx'[c] = rx[c] \/ rx'[c] = Append(rx[c], m))
      BY <2>5 DEF TypeOK, ConnsOK
    <2>7. Has(Append(rx[c], m), RequestsOf(k)) <=> Has(rx[c], RequestsOf(k)) \/ m \in RequestsOf(k)
      BY <2>4, <2>6, HasAppend
    <2>8. Has(rx'[c], RequestsOf(k))
      BY DEF InRx, RequestsOf
    <2>9. InRx(c, k) \/ j = k
      BY <2>4, <2>6, <2>7, <2>8 DEF InRx
    <2> QED
      BY <2>1, <2>2, <2>9 DEF AskedBusy
  <1>3. CASE \E d \in Conns : ConnForward(d)
    <2>1. PICK d \in Conns : ConnForward(d)
      BY <1>3
    <2>2. /\ rx[d] \in Seq(ToPeer) /\ rx[d] # <<>>
          /\ rx'[c] = IF c = d THEN Tail(rx[d]) ELSE rx[c]
      BY <2>1 DEF ConnForward, TypeOK, ConnsOK
    <2>3. Has(Tail(rx[d]), RequestsOf(k)) => Has(rx[d], RequestsOf(k))
      BY <2>2, HasTail
    <2>4. Has(rx'[c], RequestsOf(k))
      BY DEF InRx, RequestsOf
    <2> QED
      BY <2>2, <2>3, <2>4 DEF InRx
  <1>4. CASE \E d \in Conns : ConnDropRx(d)
    <2>1. rx'[c] = rx[c] \/ rx'[c] = <<>>
      BY <1>4 DEF ConnDropRx, TypeOK, ConnsOK
    <2> QED
      BY <1>1, <2>1
  <1>5. CASE Worker /\ ~WorkerForward
    BY <1>1, <1>5 DEF Worker, WorkerRecv, WorkerFind, WorkerRefused, WorkerTransfer, WorkerDie,
           WorkerCommit, WorkerWsOpen, WorkerWsClose, WorkerSendClose, WorkerRemoveRoute, connVars
  <1>6. CASE \E d \in Conns : \/ Conn(d) /\ ~ConnForward(d) /\ ~ConnDropRx(d)
                              \/ PeerClose(d) \/ PeerRead(d)
                              \/ \E p \in PeerCalls : PeerCall(p, d)
    BY <1>1, <1>6 DEF Conn, ConnSendOpen, ConnUpgradeFails, ConnRegister, ConnRespond,
           ConnIncoming, ConnTransfer, ConnExit, CleanupClose, CleanupRemove, PeerClose,
           PeerRead, PeerCall, connVars
  <1>7. CASE \/ \E j \in Callers : CallUnbound(j) \/ CallSend(j) \/ \E a \in Addrs : CallStart(j, a)
             \/ Route \/ Hook \/ Unbind \/ UNCHANGED vars
    BY <1>1, <1>7 DEF CallUnbound, CallSend, CallStart, Route, RouteRecv, RouteReturn,
           RouteCommit, HandlerPanic, Hook, HookTakeOpen, HookOpenDone, HookTakeClose,
           HookCloseDone, HookStop, Unbind, UnbindStart, UnbindSend, vars, connVars
  <1> QED
    BY <1>2, <1>3, <1>4, <1>5, <1>6, <1>7 DEF Next

LEMMA OutStep ==
  ASSUME TypeOK, [Next]_vars, NEW k \in Callers, NEW c \in Conns, InOut(c, k)'
  PROVE  InOut(c, k) \/ InRx(c, k)
  <1>1. CASE outgoing'[c] = outgoing[c] \/ outgoing'[c] = <<>>
    BY <1>1, PlacesOfRequest
  <1>2. outgoing[c] \in Seq(ToPeer) /\ Has(outgoing'[c], RequestsOf(k))
    BY DEF TypeOK, PeersOK, InOut, RequestsOf
  <1>3. ASSUME NEW m \in ToPeer, m \in RequestsOf(k) => InRx(c, k),
               outgoing'[c] = Append(outgoing[c], m)
        PROVE  InOut(c, k) \/ InRx(c, k)
    <2>1. Has(Append(outgoing[c], m), RequestsOf(k)) <=>
              Has(outgoing[c], RequestsOf(k)) \/ m \in RequestsOf(k)
      BY <1>2, HasAppend
    <2> QED
      BY <1>2, <1>3, <2>1 DEF InOut
  <1>4. CASE \E d \in Conns : ConnForward(d)
    <2>1. PICK d \in Conns : ConnForward(d)
      BY <1>4
    <2>2. PICK m : m = Head(rx[d])
      OBVIOUS
    <2>3. rx[d] \in Seq(ToPeer) /\ rx[d] # <<>> /\ m \in ToPeer
      BY <2>1, <2>2, HeadTailProperties DEF ConnForward, TypeOK, ConnsOK
    <2>4. m \in RequestsOf(k) => InRx(d, k)
      BY <2>2, <2>3, HasTail DEF InRx
    <2>5. outgoing' = Written(d, m)
      BY <2>1, <2>2 DEF ConnForward
    <2>6. outgoing'[c] = outgoing[c] \/ (c = d /\ outgoing'[c] = Append(outgoing[c], m))
      BY <2>5 DEF Written, TypeOK, PeersOK
    <2> QED
      BY <1>1, <1>3, <2>3, <2>4, <2>6
  <1>5. CASE \E d \in Conns : ConnRespond(d)
    <2>1. PICK d \in Conns : ConnRespond(d)
      BY <1>5
    <2>2. PICK p \in pending_responses[d] : outgoing' = Written(d, [kind |-> "Ret", of |-> p])
      BY <2>1 DEF ConnRespond
    <2>3. PICK m : m = [kind |-> "Ret", of |-> p]
      OBVIOUS
    <2>4. m \in ToPeer /\ m \notin RequestsOf(k)
      BY <2>2, <2>3, PacketFact DEF TypeOK, ConnsOK, RequestsOf
    <2>5. outgoing'[c] = outgoing[c] \/ outgoing'[c] = Append(outgoing[c], m)
      BY <2>2, <2>3 DEF Written, TypeOK, PeersOK
    <2> QED
      BY <1>1, <1>3, <2>4, <2>5
  <1>6. CASE \E d \in Conns : PeerRead(d)
    <2>1. PICK d \in Conns : PeerRead(d)
      BY <1>6
    <2>2. /\ outgoing[d] \in Seq(ToPeer) /\ outgoing[d] # <<>>
          /\ outgoing'[c] = IF c = d THEN Tail(outgoing[d]) ELSE outgoing[c]
      BY <2>1 DEF PeerRead, TypeOK, PeersOK
    <2>3. Has(Tail(outgoing[d]), RequestsOf(k)) => Has(outgoing[d], RequestsOf(k))
      BY <2>2, HasTail
    <2> QED
      BY <1>2, <2>2, <2>3 DEF InOut
  <1>7. CASE \E d \in Conns : PeerClose(d)
    <2>1. outgoing'[c] = outgoing[c] \/ outgoing'[c] = <<>>
      BY <1>7 DEF PeerClose, TypeOK, PeersOK
    <2> QED
      BY <1>1, <2>1
  <1>8. CASE \E d \in Conns : \/ Conn(d) /\ ~ConnForward(d) /\ ~ConnRespond(d)
                              \/ \E p \in PeerCalls : PeerCall(p, d)
    BY <1>1, <1>8 DEF Conn, ConnSendOpen, ConnUpgradeFails, ConnRegister, ConnIncoming,
           ConnTransfer, ConnExit, ConnDropRx, CleanupClose, CleanupRemove, PeerCall, peerVars
  <1>9. CASE \/ \E j \in Callers : CallUnbound(j) \/ CallSend(j) \/ \E a \in Addrs : CallStart(j, a)
             \/ Worker \/ Route \/ Hook \/ Unbind \/ UNCHANGED vars
    BY <1>1, <1>9 DEF CallUnbound, CallSend, CallStart, Worker, WorkerRecv, WorkerFind,
           WorkerForward, WorkerRefused, WorkerTransfer, WorkerDie, WorkerCommit, WorkerWsOpen,
           WorkerWsClose, WorkerSendClose, WorkerRemoveRoute, Route, RouteRecv, RouteReturn,
           RouteCommit, HandlerPanic, Hook, HookTakeOpen, HookOpenDone, HookTakeClose,
           HookCloseDone, HookStop, Unbind, UnbindStart, UnbindSend, vars, peerVars
  <1> QED
    BY <1>4, <1>5, <1>6, <1>7, <1>8, <1>9 DEF Next

\* Nothing of a call that is over comes to life again.
LEMMA LivesStep ==
  ASSUME TypeOK, [Next]_vars, NEW k \in Callers, Request(k), Lives(k)'
  PROVE  Lives(k) \/ \E a \in Addrs : CallStart(k, a)
  <1>1. CASE Active(k)'
    BY <1>1, ActiveStep DEF Lives
  <1>2. CASE \E c \in Conns : InRx(c, k)'
    <2>1. PICK c \in Conns : InRx(c, k)'
      BY <1>2
    <2>2. InRx(c, k) \/ AskedBusy(k)
      BY <2>1, RxStep
    <2>3. AskedBusy(k) => Active(k)
      BY DEF Request, Active
    <2> QED
      BY <2>2, <2>3 DEF Lives, Trace
  <1>3. CASE \E c \in Conns : InOut(c, k)'
    BY <1>3, OutStep DEF Lives, Trace
  <1>4. CASE ~Absent(RepliesOf(k))'
    <2>1. PICK R : R = RepliesOf(k) /\ R \in SUBSET Items
      BY DEF RepliesOf
    <2>2. ~Absent(R)'
      BY <1>4, <2>1 DEF RepliesOf
    <2>3. ~Absent(R) \/ Enters(R)
      BY <2>1, <2>2, StepOrderly DEF Orderly
    <2>4. ASSUME Enters(R) PROVE \E c \in Conns : InOut(c, k)
      <3>1. PICK c \in Conns : PeerRead(c) /\ Head(outgoing[c]).kind = "Call"
                               /\ ReplyItem(c, Head(outgoing[c])) \in RepliesOf(k)
        BY <2>1, <2>4 DEF Enters, RepliesOf, CallItem
      <3>2. PICK m : m = Head(outgoing[c])
        OBVIOUS
      <3>3. m \in ToPeer /\ m.kind = "Call" /\ m.of = k
        BY <3>1, <3>2, HeadTailProperties DEF PeerRead, TypeOK, PeersOK, RepliesOf, ReplyItem
      <3>4. m \in RequestsOf(k)
        BY <3>3 DEF RequestsOf
      <3> QED
        BY <3>1, <3>2, <3>4, PeerReadCall
    <2> QED
      BY <2>1, <2>3, <2>4 DEF Lives, Trace
  <1>5. CASE Has(command', CommitsOf(k)) \/ busy' \in CommitsOf(k)
    BY <1>5, StepCommits DEF Lives, Trace
  <1>6. Has(command, CommitsOf(k))' => Has(command', CommitsOf(k))
    BY DEF CommitsOf
  <1>7. (busy \in CommitsOf(k))' => busy' \in CommitsOf(k)
    BY DEF CommitsOf
  <1> QED
    BY <1>1, <1>2, <1>3, <1>4, <1>5, <1>6, <1>7 DEF Lives, Trace

LEMMA StepDistinct ==
  ASSUME TypeOK, CallsInv, Distinct, [Next]_vars, [FreshIds]_vars
  PROVE  Distinct'
  <1> SUFFICES ASSUME NEW j \in Callers, NEW k \in Callers, Lives(j)', Lives(k)', j # k,
                      reqId'[j] = reqId'[k], target'[j] = target'[k]
               PROVE  FALSE
    BY DEF Distinct
  <1>1. Stable
    BY StepStable
  <1>2. \A l \in Callers : Lives(l) => Drawn(l) /\ UnderWay(l)
    BY LivesDrawn, LivesUnderWay DEF CallsInv
  <1>3. \A l \in Callers : Lives(l) => reqId'[l] = reqId[l] /\ target'[l] = target[l]
    BY <1>1, <1>2 DEF Stable
  <1>4. /\ Lives(j) \/ \E a \in Addrs : CallStart(j, a)
        /\ Lives(k) \/ \E a \in Addrs : CallStart(k, a)
    BY LivesStep DEF CallsInv
  <1>5. ASSUME NEW l \in Callers, NEW m \in Callers, l # m, NEW a \in Addrs, CallStart(l, a),
               Lives(m)', reqId'[m] = reqId'[l], target'[m] = target'[l]
        PROVE  FALSE
    <2>1. phase[l] = "idle" /\ phase'[l] = "sending" /\ phase'[m] = phase[m]
      BY <1>5 DEF CallStart, TypeOK, CallsOK
    <2>2. ~ \E b \in Addrs : CallStart(m, b)
      BY <2>1 DEF CallStart, TypeOK, CallsOK
    <2>3. Lives(m)
      BY <1>5, <2>2, LivesStep DEF CallsInv
    <2>4. FreshIds
      BY <2>1 DEF vars, callVars
    <2>5. UnderWay(m) /\ reqId'[m] = reqId[m] /\ target'[m] = target[m]
      BY <1>2, <1>3, <2>3
    <2> QED
      BY <1>5, <2>1, <2>4, <2>5 DEF FreshIds
  <1>6. CASE Lives(j) /\ Lives(k)
    BY <1>3, <1>6 DEF Distinct
  <1> QED
    BY <1>4, <1>5, <1>6

LEMMA InitDistinct == Init => Distinct
  <1> SUFFICES ASSUME Init, NEW k \in Callers PROVE ~Lives(k)
    BY DEF Distinct
  <1>1. Request(k) /\ Replies(k)
    BY InitRequest, InitReplies
  <1>2. phase[k] = "idle"
    BY DEF Init
  <1> QED
    BY <1>1, <1>2, LivesDrawn DEF Drawn

\* The call that a reply settles is the one the peer answers.
LEMMA CommitOwn ==
  ASSUME TypeOK, Matching, CallsInv, Distinct, WorkerCommit,
         CallPendingOn(busy.addr, busy.id) # None
  PROVE  CallPendingOn(busy.addr, busy.id) = busy.of
  <1>1. PICK k : k = CallPendingOn(busy.addr, busy.id)
    OBVIOUS
  <1>2. /\ busy.addr \in Addrs /\ busy.id \in Ids /\ busy.of \in Callers
        /\ busy.op = "CommitReturn" /\ busy \in Command
    BY BusyFact DEF WorkerCommit, TypeOK, WorkerOK, Inside, Idle
  <1>3. pending_requests[<<busy.addr, busy.id>>] = k /\ k \in Callers
    BY <1>1, <1>2 DEF CallPendingOn, TypeOK, WorkerOK
  <1>4. Pending(k) /\ target[k] = busy.addr /\ reqId[k] = busy.id
    BY <1>2, <1>3, PendingKey DEF Pending
  <1>5. Lives(k)
    BY <1>3, <1>4 DEF CallsInv, Request, Lives, Active
  <1>6. PICK j \in Callers : j = busy.of
    BY <1>2
  <1>7. Lives(j) /\ target[j] = busy.addr /\ reqId[j] = busy.id
    <2>1. busy \in CommitsOf(j)
      BY <1>2, <1>6 DEF CommitsOf
    <2> QED
      BY <1>2, <1>6, <2>1 DEF Lives, Trace, Matching, MBusy, CommandMatches, Matches
  <1> QED
    BY <1>1, <1>3, <1>4, <1>5, <1>6, <1>7 DEF Distinct

LEMMA StepOwn ==
  ASSUME TypeOK, Matching, CallsInv, Distinct, AnswerOwn, [Next]_vars PROVE AnswerOwn'
  <1>1. CASE WorkerCommit
    <2>1. PICK k : k = CallPendingOn(busy.addr, busy.id)
      OBVIOUS
    <2>2. \/ UNCHANGED answer
          \/ k # None /\ answer' = [answer EXCEPT ![k] = busy.of]
      BY <1>1, <2>1 DEF WorkerCommit
    <2>3. k # None => k = busy.of
      BY <1>1, <2>1, CommitOwn
    <2> QED
      BY <2>2, <2>3 DEF AnswerOwn, TypeOK, CallsOK
  <1>2. CASE UNCHANGED answer
    BY <1>2 DEF AnswerOwn
  <1> QED
    BY <1>1, <1>2
       DEF Next, vars, CallStart, CallUnbound, CallSend, Worker, WorkerRecv, WorkerFind,
           WorkerForward, WorkerRefused, WorkerTransfer, WorkerDie, WorkerWsOpen,
           WorkerWsClose, WorkerSendClose, WorkerRemoveRoute, Conn, ConnSendOpen,
           ConnUpgradeFails, ConnRegister, ConnForward, ConnRespond, ConnIncoming,
           ConnTransfer, ConnExit, ConnDropRx, CleanupClose, CleanupRemove, PeerClose,
           PeerRead, PeerCall, Route, RouteRecv, RouteReturn, RouteCommit, HandlerPanic, Hook,
           HookTakeOpen, HookOpenDone, HookTakeClose, HookCloseDone, HookStop, Unbind,
           UnbindStart, UnbindSend, callVars

\* call_remotely (caller.rs) returns the reply of the peer to that very call, as long
\* as the id it draws is not the one of a call to the same address that is under way:
\* however many calls there are over time, and however often the ids wrap around.
THEOREM AnswersOwn == Spec /\ [][FreshIds]_vars => []AnswerOwn
  <1>1. Init => AnswerOwn
    BY DEF Init, AnswerOwn
  <1>2. TypeOK /\ Matching /\ CallsInv /\ Distinct /\ AnswerOwn /\ [Next]_vars /\ [FreshIds]_vars
            => Distinct' /\ AnswerOwn'
    BY StepDistinct, StepOwn
  <1> QED
    BY <1>1, <1>2, InitDistinct, MatchingInvariant, CallsInvariant, PTL DEF Spec

-----------------------------------------------------------------------------
(* The promise of call_remotely *)

Status(k) ==
    CASE phase[k] \in {"sending", "waiting"} -> "pending"
      [] phase[k] \in {"refused", "failed", "mismatch"} -> "failed"
      [] OTHER -> phase[k]

Statuses == [k \in Callers |-> Status(k)]

LEMMA StatusFact ==
  ASSUME NEW k \in Callers, phase[k] \in Phases
  PROVE  /\ phase[k] = "idle" => Statuses[k] = "idle"
         /\ phase[k] \in {"sending", "waiting"} => Statuses[k] = "pending"
         /\ phase[k] = "ok" => Statuses[k] = "ok"
         /\ phase[k] \in {"refused", "failed", "mismatch"} => Statuses[k] = "failed"
  BY DEF Phases, Statuses, Status

LEMMA StatusFactNext ==
  ASSUME NEW k \in Callers, phase'[k] \in Phases
  PROVE  /\ phase'[k] = "idle" => Statuses'[k] = "idle"
         /\ phase'[k] \in {"sending", "waiting"} => Statuses'[k] = "pending"
         /\ phase'[k] = "ok" => Statuses'[k] = "ok"
         /\ phase'[k] \in {"refused", "failed", "mismatch"} => Statuses'[k] = "failed"
  BY DEF Phases, Statuses, Status

LEMMA StatusKept ==
  ASSUME NEW k \in Callers, phase'[k] = phase[k] PROVE Statuses'[k] = Statuses[k]
  BY DEF Statuses, Status

\* A step that changes the status of no call, and runs none.
LEMMA PromiseKeeps ==
  ASSUME UNCHANGED <<phase, runs>> PROVE UNCHANGED Promise!vars
  BY DEF Promise!vars

\* A step that runs no call, and leaves each as it is or fails it, if it had no
\* outcome yet.
LEMMA PromiseFails ==
  ASSUME UNCHANGED runs,
         \A k \in Callers : \/ Statuses'[k] = Statuses[k]
                            \/ Statuses[k] \in {"idle", "pending"} /\ Statuses'[k] = "failed"
  PROVE  Promise!Next
  <1>1. PICK S : S = {k \in Callers : /\ Statuses[k] \in {"idle", "pending"}
                                      /\ Statuses'[k] = "failed"}
    OBVIOUS
  <1>2. Statuses' = [k \in Callers |-> IF k \in S THEN "failed" ELSE Statuses[k]]
    <2>1. \A k \in Callers : Statuses'[k] = IF k \in S THEN "failed" ELSE Statuses[k]
      BY <1>1
    <2>2. Statuses' = [k \in Callers |-> Statuses'[k]]
      BY DEF Statuses
    <2> QED
      BY <2>1, <2>2
  <1>3. S \in SUBSET Callers /\ \A k \in S : Statuses[k] \in {"idle", "pending"}
    BY <1>1
  <1>4. Promise!Fail(S)
    BY <1>2, <1>3 DEF Promise!Fail, Statuses, Status
  <1> QED
    BY <1>3, <1>4 DEF Promise!Next

\* The same, in terms of the phases.
LEMMA PhasesFail ==
  ASSUME TypeOK, TypeOK', UNCHANGED runs,
         \A k \in Callers : \/ phase'[k] = phase[k]
                            \/ phase[k] \in {"idle", "sending", "waiting"}
                               /\ phase'[k] \in {"refused", "failed"}
                            \/ phase[k] = "sending" /\ phase'[k] = "waiting"
  PROVE  Promise!Next
  <1>1. ASSUME NEW k \in Callers
        PROVE  \/ Statuses'[k] = Statuses[k]
               \/ Statuses[k] \in {"idle", "pending"} /\ Statuses'[k] = "failed"
    <2>1. phase[k] \in Phases /\ phase'[k] \in Phases
      BY DEF TypeOK, CallsOK
    <2> QED
      BY <2>1, StatusFact, StatusFactNext, StatusKept
  <1> QED
    BY <1>1, PromiseFails

\* A step that changes the phase of one call.
LEMMA OnePhase ==
  ASSUME TypeOK, TypeOK', NEW k \in Callers, NEW p, phase' = [phase EXCEPT ![k] = p]
  PROVE  Statuses' = [Statuses EXCEPT ![k] = Statuses'[k]]
  <1>1. \A j \in Callers : j # k => phase'[j] = phase[j]
    BY DEF TypeOK, CallsOK
  <1>2. \A j \in Callers : j # k => Statuses'[j] = Statuses[j]
    BY <1>1, StatusKept
  <1>3. Statuses' = [j \in Callers |-> Statuses'[j]] /\ Statuses = [j \in Callers |-> Statuses[j]]
    BY DEF Statuses
  <1> QED
    BY <1>2, <1>3

LEMMA CallerPromise ==
  ASSUME TypeOK, TypeOK', NEW k \in Callers,
         CallUnbound(k) \/ CallSend(k) \/ \E a \in Addrs : CallStart(k, a)
  PROVE  Promise!Next
  <1>1. UNCHANGED runs
    BY DEF CallUnbound, CallSend, CallStart, peerVars
  <1>2. CASE \E a \in Addrs : CallStart(k, a)
    <2>1. phase[k] = "idle" /\ phase' = [phase EXCEPT ![k] = "sending"]
      BY <1>2 DEF CallStart
    <2>2. Statuses[k] = "idle" /\ Statuses'[k] = "pending"
      BY <2>1, StatusFact, StatusFactNext DEF TypeOK, CallsOK
    <2>3. Statuses' = [Statuses EXCEPT ![k] = "pending"]
      BY <2>1, <2>2, OnePhase
    <2>4. Promise!Invoke(k)
      BY <1>1, <2>2, <2>3 DEF Promise!Invoke, Statuses, Status
    <2> QED
      BY <2>4 DEF Promise!Next
  <1>3. CASE CallUnbound(k) \/ CallSend(k)
    <2>1. \A j \in Callers : \/ phase'[j] = phase[j]
                             \/ phase[j] \in {"idle", "sending"} /\ phase'[j] \in {"refused", "failed"}
                             \/ phase[j] = "sending" /\ phase'[j] = "waiting"
      BY <1>3 DEF CallUnbound, CallSend, Failing, TypeOK, CallsOK
    <2> QED
      BY <1>1, <2>1, PhasesFail
  <1> QED
    BY <1>2, <1>3

\* The worker settles a call with the reply a peer wrote after it had run the call.
LEMMA CommitPromise ==
  ASSUME TypeOK, TypeOK', Matching, CallsInv, AnswerOwn', WorkerCommit
  PROVE  [Promise!Next]_(Promise!vars)
  <1>1. UNCHANGED runs
    BY DEF WorkerCommit, peerVars
  <1>2. PICK k : k = CallPendingOn(busy.addr, busy.id)
    OBVIOUS
  <1>3. CASE k = None
    <2>1. UNCHANGED phase
      BY <1>2, <1>3 DEF WorkerCommit
    <2> QED
      BY <1>1, <2>1, PromiseKeeps
  <1>4. CASE k # None
    <2>1. /\ busy.addr \in Addrs /\ busy.id \in Ids /\ busy.of \in Callers
          /\ busy.op = "CommitReturn" /\ busy \in Command
      BY BusyFact DEF WorkerCommit, TypeOK, WorkerOK, Inside, Idle
    <2>2. pending_requests[<<busy.addr, busy.id>>] = k /\ k \in Callers
      BY <1>2, <1>4, <2>1 DEF CallPendingOn, TypeOK, WorkerOK
    <2>3. Pending(k) /\ reqId[k] = busy.id
      BY <2>1, <2>2, PendingKey DEF Pending
    <2>4. /\ phase' = [phase EXCEPT ![k] = "ok"]
          /\ answer' = [answer EXCEPT ![k] = busy.of]
      BY <1>2, <1>4, <2>3 DEF WorkerCommit
    <2>5. busy.of = k
      <3>1. answer'[k] = busy.of
        BY <2>2, <2>4 DEF TypeOK, CallsOK
      <3> QED
        BY <2>1, <2>2, <3>1, NoneAssumption DEF AnswerOwn
    <2>6. phase[k] = "waiting" /\ runs[k] = 1
      <3>1. busy \in CommitsOf(k)
        BY <2>1, <2>5 DEF CommitsOf
      <3> QED
        BY <2>2, <2>3, <3>1 DEF CallsInv, Request, Replies
    <2>7. Statuses[k] = "pending" /\ Statuses'[k] = "ok"
      BY <2>2, <2>4, <2>6, StatusFact, StatusFactNext DEF TypeOK, CallsOK
    <2>8. Statuses' = [Statuses EXCEPT ![k] = "ok"]
      BY <2>2, <2>4, <2>7, OnePhase
    <2>9. Promise!Answer(k)
      BY <1>1, <2>6, <2>7, <2>8 DEF Promise!Answer, Statuses, Status
    <2> QED
      BY <2>2, <2>9 DEF Promise!Next
  <1> QED
    BY <1>3, <1>4

\* The other steps of the worker fail calls that wait.
LEMMA WorkerPromise ==
  ASSUME TypeOK, TypeOK', Matching, CallsInv, AnswerOwn', Worker
  PROVE  [Promise!Next]_(Promise!vars)
  <1>1. UNCHANGED runs
    BY DEF Worker, WorkerRecv, WorkerFind, WorkerForward, WorkerRefused, WorkerTransfer,
           WorkerDie, WorkerCommit, WorkerWsOpen, WorkerWsClose, WorkerSendClose,
           WorkerRemoveRoute, peerVars
  <1>2. ASSUME NEW S, phase' = Failing(S), \A k \in Callers : k \in S => phase[k] = "waiting"
        PROVE  Promise!Next
    <2>1. \A k \in Callers : \/ phase'[k] = phase[k]
                             \/ phase[k] = "waiting" /\ phase'[k] = "failed"
      BY <1>2 DEF Failing
    <2> QED
      BY <1>1, <2>1, PhasesFail
  <1>3. \A k \in Callers : Pending(k) => phase[k] = "waiting"
    BY DEF CallsInv, Request
  <1>4. \A k \in Callers : AskedBusy(k) => phase[k] = "waiting"
    BY DEF CallsInv, Request
  <1>5. CASE WorkerFind \/ WorkerRefused
    <2>1. phase' = phase \/ phase' = Failing({busy.of})
      BY <1>5 DEF WorkerFind, WorkerRefused
    <2>2. \A k \in Callers : k \in {busy.of} => phase[k] = "waiting"
      BY <1>4, <1>5 DEF WorkerFind, WorkerRefused, AskedBusy
    <2> QED
      BY <1>1, <1>2, <2>1, <2>2, PromiseKeeps
  <1>6. CASE WorkerForward
    <2>1. PICK key \in Addrs \X Ids : phase' = Failing(Displaced(key))
      <3>1. <<target[busy.of], reqId[busy.of]>> \in Addrs \X Ids
        BY <1>6, BusyFact DEF WorkerForward, TypeOK, CallsOK
      <3> QED
        BY <1>6, <3>1 DEF WorkerForward
    <2>2. \A k \in Callers : k \in Displaced(key) => phase[k] = "waiting"
      BY <1>3 DEF Displaced, Pending
    <2> QED
      BY <1>2, <2>1, <2>2
  <1>7. CASE WorkerDie
    <2>1. phase' = Failing({k \in Callers : phase[k] = "waiting"})
      BY <1>7 DEF WorkerDie
    <2> QED
      BY <1>2, <2>1
  <1>8. CASE WorkerWsClose
    <2>1. PICK S : /\ S = {pending_requests[key] : key \in KeysOf(busy.conn)} \ {None}
                   /\ phase' = Failing(S)
      BY <1>8 DEF WorkerWsClose
    <2>2. \A k \in Callers : k \in S => phase[k] = "waiting"
      BY <1>3, <2>1 DEF Pending, KeysOf
    <2> QED
      BY <1>2, <2>1, <2>2
  <1>9. CASE WorkerCommit
    BY <1>9, CommitPromise
  <1>10. CASE UNCHANGED phase
    BY <1>1, <1>10, PromiseKeeps
  <1> QED
    BY <1>5, <1>6, <1>7, <1>8, <1>9, <1>10
       DEF Worker, WorkerRecv, WorkerTransfer, WorkerWsOpen, WorkerSendClose,
           WorkerRemoveRoute, callVars

LEMMA PeerReadPromise ==
  ASSUME TypeOK, CallsInv, NEW c \in Conns, PeerRead(c)
  PROVE  [Promise!Next]_(Promise!vars)
  <1>1. PICK m : m = Head(outgoing[c])
    OBVIOUS
  <1>2. m \in ToPeer /\ UNCHANGED phase
    BY <1>1, HeadTailProperties DEF PeerRead, TypeOK, PeersOK, callVars
  <1>3. CASE m.kind = "Call"
    <2>1. PICK k \in Callers : m.of = k /\ m \in RequestsOf(k)
      BY <1>2, <1>3, PacketFact DEF RequestsOf
    <2>2. Request(k)
      BY DEF CallsInv
    <2>3. runs[k] = 0 /\ runs' = [runs EXCEPT ![k] = 1] /\ phase[k] \notin Unstarted
      BY <1>1, <2>1, <2>2, PeerReadCall
    <2>4. Statuses' = Statuses
      BY <1>2 DEF Statuses, Status
    <2>5. Statuses[k] # "idle"
      BY <2>3, StatusFact DEF TypeOK, CallsOK, Phases, Unstarted
    <2>6. Promise!Execute(k)
      BY <2>3, <2>4, <2>5 DEF Promise!Execute, Statuses, Status
    <2> QED
      BY <2>6 DEF Promise!Next
  <1>4. CASE m.kind # "Call"
    <2>1. UNCHANGED runs
      BY <1>1, <1>4 DEF PeerRead
    <2> QED
      BY <1>2, <2>1, PromiseKeeps
  <1> QED
    BY <1>3, <1>4

LEMMA StepPromise ==
  ASSUME TypeOK, TypeOK', Matching, CallsInv, AnswerOwn', [Next]_vars
  PROVE  [Promise!Next]_(Promise!vars)
  <1>1. CASE \E k \in Callers : CallUnbound(k) \/ CallSend(k) \/ \E a \in Addrs : CallStart(k, a)
    BY <1>1, CallerPromise
  <1>2. CASE Worker
    BY <1>2, WorkerPromise
  <1>3. CASE \E c \in Conns : PeerRead(c)
    BY <1>3, PeerReadPromise
  <1>4. CASE \E c \in Conns : Conn(c) \/ PeerClose(c) \/ \E p \in PeerCalls : PeerCall(p, c)
    <2>1. UNCHANGED <<phase, runs>>
      BY <1>4 DEF Conn, ConnSendOpen, ConnUpgradeFails, ConnRegister, ConnForward, ConnRespond,
             ConnIncoming, ConnTransfer, ConnExit, ConnDropRx, CleanupClose, CleanupRemove,
             PeerClose, PeerCall, callVars, peerVars
    <2> QED
      BY <2>1, PromiseKeeps
  <1>5. CASE Route \/ Hook \/ Unbind \/ UNCHANGED vars
    <2>1. UNCHANGED <<phase, runs>>
      BY <1>5 DEF Route, RouteRecv, RouteReturn, RouteCommit, HandlerPanic, Hook, HookTakeOpen,
             HookOpenDone, HookTakeClose, HookCloseDone, HookStop, Unbind, UnbindStart,
             UnbindSend, vars, callVars, peerVars
    <2> QED
      BY <2>1, PromiseKeeps
  <1> QED
    BY <1>1, <1>2, <1>3, <1>4, <1>5 DEF Next

LEMMA InitPromise == Init => Promise!Init
  <1> SUFFICES ASSUME Init PROVE Promise!Init
    OBVIOUS
  <1>1. \A k \in Callers : Statuses[k] = "idle"
    BY StatusFact DEF Init, Phases
  <1>2. Statuses = [k \in Callers |-> "idle"]
    BY <1>1 DEF Statuses
  <1> QED
    BY <1>2 DEF Init, Promise!Init, Statuses, Status

\* The server keeps the promise of call_remotely: a peer runs a call at most once, a
\* call returns a value only after a peer has run it, for itself, and an outcome is
\* final (caller.rs, server.rs, handler.rs).  The second needs fresh ids: the code
\* draws them from a counter that may come round while a call still waits.
THEOREM ServerPromiseKept == Spec /\ [][FreshIds]_vars => PromiseKept
  <1>1. TypeOK /\ TypeOK' /\ Matching /\ CallsInv /\ AnswerOwn' /\ [Next]_vars
            => [Promise!Next]_(Promise!vars)
    BY StepPromise
  <1>2. Spec /\ [][FreshIds]_vars => []AnswerOwn
    BY AnswersOwn
  <1> QED
    BY <1>1, <1>2, InitPromise, MatchingInvariant, CallsInvariant, PTL
       DEF Spec, PromiseKept, Promise!Spec

=============================================================================
