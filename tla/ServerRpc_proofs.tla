-------------------------- MODULE ServerRpc_proofs --------------------------
(***************************************************************************)
(* Theorems about ServerRpc, for every value of its constants: the types, the *)
(* one hook of a route, and the registry of connections.  The theorems on  *)
(* the answers to calls and on the routing of messages are in the modules  *)
(* that extend this one.                                                   *)
(***************************************************************************)
EXTENDS ServerRpc, Elements, TLAPS

-----------------------------------------------------------------------------
(* What the types of records and sequences give *)

LEMMA IdsFact == NumIds \in Nat /\ 0 \in Ids /\ \A i \in Ids : NextId(i) \in Ids
  <1>1. NumIds \in Nat /\ 0 < NumIds
    BY BoundAssumption, SMT
  <1>2. \A i \in Nat : (i + 1) % NumIds \in 0 .. NumIds - 1
    BY <1>1, SMT
  <1> QED
    BY <1>1, <1>2, SMT DEF Ids, NextId

LEMMA BusyFact ==
  ASSUME WorkerOK
  PROVE  /\ busy.op = "CallRemotely" => busy.of \in Callers
         /\ busy.op = "Transfer" => busy.item \in Items
         /\ busy.op = "CommitReturn" => busy.addr \in Addrs /\ busy.id \in Ids /\ busy.of \in Callers
         /\ busy.op \in {"WsOpen", "WsClose", "AwaitOpen", "SendClose"} => busy.conn \in Conns
         /\ busy.op = "Forward" => busy.of \in Callers /\ busy.conn \in Conns
  BY SMT DEF WorkerOK, Command, Inside, Idle

LEMMA CommandFact ==
  /\ \A k \in Callers : [op |-> "CallRemotely", of |-> k] \in Command
  /\ \A i \in Items : [op |-> "Transfer", item |-> i] \in Command
  /\ \A c \in Conns : [op |-> "WsOpen", conn |-> c] \in Command
  /\ \A c \in Conns : [op |-> "WsClose", conn |-> c] \in Command
  /\ \A c \in Conns : [op |-> "AwaitOpen", conn |-> c] \in Inside
  /\ \A c \in Conns : [op |-> "SendClose", conn |-> c] \in Inside
  /\ \A c \in Conns, k \in Callers : [op |-> "Forward", of |-> k, conn |-> c] \in Inside
  /\ [op |-> "RemoveWsRoute"] \in Command
  /\ \A i \in Items : i.msg.kind = "Ret" => CommitOf(i) \in Command
  BY AddrAssumption, SMT DEF Command, Inside, CommitOf, Items, FromPeer

LEMMA PacketFact ==
  /\ \A m \in FromPeer : m.kind = "Call" => m.of \in PeerCalls
  /\ \A m \in FromPeer : m.kind = "Ret" => m.of \in Callers /\ m.id \in Ids
  /\ \A m \in ToPeer : m.kind = "Ret" => m.of \in PeerCalls
  /\ \A m \in ToPeer : m.kind = "Call" => m.of \in Callers /\ m.id \in Ids
  /\ \A i \in Ids, k \in Callers : [kind |-> "Call", id |-> i, of |-> k] \in ToPeer
  /\ \A i \in Ids, k \in Callers : [kind |-> "Ret", id |-> i, of |-> k] \in FromPeer
  /\ \A p \in PeerCalls : [kind |-> "Ret", of |-> p] \in ToPeer
  /\ \A p \in PeerCalls : [kind |-> "Call", of |-> p] \in FromPeer
  /\ \A c \in Conns, m \in FromPeer : [conn |-> c, msg |-> m] \in Items
  /\ \A i \in Items : i.conn \in Conns /\ i.msg \in FromPeer
  BY SMT DEF FromPeer, ToPeer, Items

LEMMA HookFact ==
  /\ \A c \in Conns : [ev |-> "open", conn |-> c] \in Hooks
  /\ \A c \in Conns : [ev |-> "close", conn |-> c] \in Hooks
  /\ \A h \in Hooks : h.conn \in Conns
  BY SMT DEF Hooks

LEMMA NoMessages ==
  /\ <<>> \in Seq(Command) /\ <<>> \in Seq(Items) /\ <<>> \in Seq(Conns)
  /\ <<>> \in Seq(FromPeer) /\ <<>> \in Seq(ToPeer)
  BY EmptySeq

LEMMA FailingFact ==
  ASSUME CallsOK, NEW S
  PROVE  Failing(S) \in [Callers -> Phases]
  BY DEF CallsOK, Failing, Phases

LEMMA CallsKept == ASSUME CallsOK, UNCHANGED callVars PROVE CallsOK'
  BY DEF CallsOK, callVars
LEMMA WorkerKept == ASSUME WorkerOK, UNCHANGED workerVars PROVE WorkerOK'
  BY DEF WorkerOK, workerVars
LEMMA ConnsKept == ASSUME ConnsOK, UNCHANGED connVars PROVE ConnsOK'
  BY DEF ConnsOK, connVars
LEMMA RouteKept == ASSUME RouteOK, UNCHANGED routeVars PROVE RouteOK'
  BY DEF RouteOK, routeVars
LEMMA HooksKept == ASSUME HooksOK, UNCHANGED hookVars PROVE HooksOK'
  BY DEF HooksOK, hookVars
LEMMA PeersKept == ASSUME PeersOK, UNCHANGED peerVars PROVE PeersOK'
  BY DEF PeersOK, peerVars

-----------------------------------------------------------------------------
(* Every step preserves the types *)

LEMMA CallStartType == ASSUME TypeOK, NEW k \in Callers, NEW a \in Addrs, CallStart(k, a) PROVE TypeOK'
  <1>1. CallsOK'
    BY IdsFact, SMTT(30) DEF TypeOK, CallsOK, CallStart, Phases
  <1> QED
    BY <1>1, WorkerKept, ConnsKept, RouteKept, HooksKept, PeersKept DEF TypeOK, CallStart

LEMMA CallUnboundType == ASSUME TypeOK, NEW k \in Callers, CallUnbound(k) PROVE TypeOK'
  <1>1. CallsOK'
    BY SMTT(30) DEF TypeOK, CallsOK, CallUnbound, Phases
  <1> QED
    BY <1>1, WorkerKept, ConnsKept, RouteKept, HooksKept, PeersKept DEF TypeOK, CallUnbound

LEMMA CallSendType == ASSUME TypeOK, NEW k \in Callers, CallSend(k) PROVE TypeOK'
  <1>1. CallsOK'
    BY FailingFact, SMTT(30) DEF TypeOK, CallsOK, CallSend, Phases
  <1>2. WorkerOK'
    BY CommandFact, AppendProperties, SMTT(30) DEF TypeOK, WorkerOK, CallSend
  <1> QED
    BY <1>1, <1>2, ConnsKept, RouteKept, HooksKept, PeersKept DEF TypeOK, CallSend

LEMMA WorkerRecvType == ASSUME TypeOK, WorkerRecv PROVE TypeOK'
  <1>1. WorkerOK'
    BY HeadTailProperties, SMTT(30) DEF TypeOK, WorkerOK, WorkerRecv
  <1> QED
    BY <1>1, CallsKept, ConnsKept, RouteKept, HooksKept, PeersKept DEF TypeOK, WorkerRecv

LEMMA WorkerFindType == ASSUME TypeOK, WorkerFind PROVE TypeOK'
  <1>1. CallsOK'
    BY FailingFact, SMTT(30) DEF TypeOK, CallsOK, WorkerFind
  <1>2. WorkerOK'
    <2>1. busy.of \in Callers /\ target[busy.of] \in Addrs
      BY BusyFact DEF TypeOK, CallsOK, WorkerFind
    <2>2. WS_CONNS[target[busy.of]] \in Conns \cup {None}
      BY <2>1 DEF TypeOK, ConnsOK
    <2>3. busy' \in Inside \cup {Idle}
      BY <2>1, <2>2, CommandFact DEF WorkerFind
    <2> QED
      BY <2>3 DEF TypeOK, WorkerOK, WorkerFind
  <1> QED
    BY <1>1, <1>2, ConnsKept, RouteKept, HooksKept, PeersKept DEF TypeOK, WorkerFind

LEMMA WorkerForwardType == ASSUME TypeOK, WorkerForward PROVE TypeOK'
  <1>1. CallsOK'
    BY FailingFact, SMTT(30) DEF TypeOK, CallsOK, WorkerForward
  <1>2. WorkerOK'
    <2>1. busy.of \in Callers
      BY BusyFact DEF TypeOK, WorkerForward
    <2>2. <<target[busy.of], reqId[busy.of]>> \in Addrs \X Ids
      BY <2>1 DEF TypeOK, CallsOK
    <2>3. pending_requests' \in [Addrs \X Ids -> Callers \cup {None}]
      BY <2>1, <2>2 DEF TypeOK, WorkerOK, WorkerForward
    <2> QED
      BY <2>3 DEF TypeOK, WorkerOK, WorkerForward
  <1>3. ConnsOK'
    BY BusyFact, PacketFact, AppendProperties, SMTT(30) DEF TypeOK, ConnsOK, WorkerForward, CallsOK
  <1> QED
    BY <1>1, <1>2, <1>3, RouteKept, HooksKept, PeersKept DEF TypeOK, WorkerForward

LEMMA WorkerRefusedType == ASSUME TypeOK, WorkerRefused PROVE TypeOK'
  <1>1. CallsOK'
    BY FailingFact, SMTT(30) DEF TypeOK, CallsOK, WorkerRefused
  <1>2. WorkerOK'
    BY SMTT(30) DEF TypeOK, WorkerOK, WorkerRefused
  <1> QED
    BY <1>1, <1>2, ConnsKept, RouteKept, HooksKept, PeersKept DEF TypeOK, WorkerRefused

LEMMA WorkerTransferType == ASSUME TypeOK, WorkerTransfer PROVE TypeOK'
  <1>1. WorkerOK'
    BY SMTT(30) DEF TypeOK, WorkerOK, WorkerTransfer
  <1>2. RouteOK'
    BY BusyFact, AppendProperties, SMTT(30) DEF TypeOK, RouteOK, WorkerTransfer
  <1> QED
    BY <1>1, <1>2, CallsKept, ConnsKept, HooksKept, PeersKept DEF TypeOK, WorkerTransfer

LEMMA WorkerDieType == ASSUME TypeOK, WorkerDie PROVE TypeOK'
  <1>1. CallsOK'
    BY FailingFact, SMTT(30) DEF TypeOK, CallsOK, WorkerDie
  <1>2. WorkerOK'
    <2>1. command' \in Seq(Command)
      BY NoMessages, Zenon DEF WorkerDie
    <2> QED
      BY <2>1 DEF TypeOK, WorkerOK, WorkerDie
  <1>3. ConnsOK'
    BY SMTT(30) DEF TypeOK, ConnsOK, WorkerDie
  <1>4. RouteOK'
    BY SMTT(30) DEF TypeOK, RouteOK, WorkerDie
  <1> QED
    BY <1>1, <1>2, <1>3, <1>4, HooksKept, PeersKept DEF TypeOK, WorkerDie

LEMMA WorkerCommitType == ASSUME TypeOK, WorkerCommit PROVE TypeOK'
  <1>1. CallsOK'
    <2>1. busy.addr \in Addrs /\ busy.id \in Ids /\ busy.of \in Callers
      BY BusyFact DEF TypeOK, WorkerCommit
    <2>2. CallPendingOn(busy.addr, busy.id) \in Callers \cup {None}
      BY <2>1 DEF TypeOK, WorkerOK, CallPendingOn
    <2> DEFINE k == CallPendingOn(busy.addr, busy.id)
    <2>3. CASE k # None
      <3>1. phase' = [phase EXCEPT ![k] = IF reqId[k] = busy.id THEN "ok" ELSE "mismatch"]
        BY <2>3 DEF WorkerCommit
      <3>2. answer' = [answer EXCEPT ![k] = busy.of]
        BY <2>3 DEF WorkerCommit
      <3> QED
        BY <2>1, <3>1, <3>2 DEF TypeOK, CallsOK, WorkerCommit, Phases
    <2>4. CASE k = None
      BY <2>4 DEF TypeOK, CallsOK, WorkerCommit, Phases
    <2> QED
      BY <2>3, <2>4
  <1>2. WorkerOK'
    <2>1. <<busy.addr, busy.id>> \in Addrs \X Ids
      BY BusyFact DEF TypeOK, WorkerCommit
    <2>2. pending_requests' \in [Addrs \X Ids -> Callers \cup {None}]
      BY <2>1 DEF TypeOK, WorkerOK, WorkerCommit
    <2> QED
      BY <2>2 DEF TypeOK, WorkerOK, WorkerCommit
  <1> QED
    BY <1>1, <1>2, ConnsKept, RouteKept, HooksKept, PeersKept DEF TypeOK, WorkerCommit

LEMMA WorkerWsOpenType == ASSUME TypeOK, WorkerWsOpen PROVE TypeOK'
  <1>1. WorkerOK'
    BY BusyFact, CommandFact, SMTT(30) DEF TypeOK, WorkerOK, WorkerWsOpen
  <1>2. ConnsOK'
    <2>1. busy.conn \in Conns
      BY BusyFact DEF TypeOK, WorkerWsOpen
    <2>2. CASE Routed
      BY <2>2 DEF TypeOK, ConnsOK, WorkerWsOpen
    <2>3. CASE ~Routed
      BY <2>1, <2>3 DEF TypeOK, ConnsOK, WorkerWsOpen
    <2> QED
      BY <2>2, <2>3
  <1> QED
    BY <1>1, <1>2, CallsKept, RouteKept, HooksKept, PeersKept DEF TypeOK, WorkerWsOpen

LEMMA WorkerWsCloseType == ASSUME TypeOK, WorkerWsClose PROVE TypeOK'
  <1>1. CallsOK'
    BY FailingFact, SMTT(30) DEF TypeOK, CallsOK, WorkerWsClose
  <1>2. WorkerOK'
    BY BusyFact, CommandFact, SMTT(30) DEF TypeOK, WorkerOK, WorkerWsClose
  <1> QED
    BY <1>1, <1>2, ConnsKept, RouteKept, HooksKept, PeersKept DEF TypeOK, WorkerWsClose

LEMMA WorkerSendCloseType == ASSUME TypeOK, WorkerSendClose PROVE TypeOK'
  <1>1. WorkerOK'
    BY SMTT(30) DEF TypeOK, WorkerOK, WorkerSendClose
  <1>2. HooksOK'
    BY BusyFact, AppendProperties, SMTT(30) DEF TypeOK, HooksOK, WorkerSendClose
  <1> QED
    BY <1>1, <1>2, CallsKept, ConnsKept, RouteKept, PeersKept DEF TypeOK, WorkerSendClose

LEMMA WorkerRemoveRouteType == ASSUME TypeOK, WorkerRemoveRoute PROVE TypeOK'
  <1>1. WorkerOK'
    BY SMTT(30) DEF TypeOK, WorkerOK, WorkerRemoveRoute
  <1>2. RouteOK'
    BY SMTT(30) DEF TypeOK, RouteOK, WorkerRemoveRoute
  <1> QED
    BY <1>1, <1>2, CallsKept, ConnsKept, HooksKept, PeersKept DEF TypeOK, WorkerRemoveRoute

LEMMA ConnSendOpenType == ASSUME TypeOK, NEW c \in Conns, ConnSendOpen(c) PROVE TypeOK'
  <1>1. WorkerOK'
    BY CommandFact, AppendProperties, SMTT(30) DEF TypeOK, WorkerOK, ConnSendOpen
  <1>2. ConnsOK'
    BY SMTT(30) DEF TypeOK, ConnsOK, ConnSendOpen
  <1> QED
    BY <1>1, <1>2, CallsKept, RouteKept, HooksKept, PeersKept DEF TypeOK, ConnSendOpen

LEMMA ConnUpgradeFailsType == ASSUME TypeOK, NEW c \in Conns, ConnUpgradeFails(c) PROVE TypeOK'
  <1>1. ConnsOK'
    BY SMTT(30) DEF TypeOK, ConnsOK, ConnUpgradeFails
  <1> QED
    BY <1>1, CallsKept, WorkerKept, RouteKept, HooksKept, PeersKept DEF TypeOK, ConnUpgradeFails

LEMMA ConnRegisterType == ASSUME TypeOK, NEW c \in Conns, ConnRegister(c) PROVE TypeOK'
  <1>1. ConnsOK'
    <2>1. AddrOf[c] \in Addrs
      BY AddrAssumption
    <2>2. WS_CONNS' \in [Addrs -> Conns \cup {None}]
      BY <2>1 DEF TypeOK, ConnsOK, ConnRegister
    <2> QED
      BY <2>2 DEF TypeOK, ConnsOK, ConnRegister
  <1> QED
    BY <1>1, CallsKept, WorkerKept, RouteKept, HooksKept, PeersKept DEF TypeOK, ConnRegister

LEMMA ConnForwardType == ASSUME TypeOK, NEW c \in Conns, ConnForward(c) PROVE TypeOK'
  <1>1. ConnsOK'
    BY HeadTailProperties, SMTT(30) DEF TypeOK, ConnsOK, ConnForward
  <1>2. PeersOK'
    BY HeadTailProperties, AppendProperties, SMTT(30) DEF TypeOK, PeersOK, ConnForward, ConnsOK, Written
  <1> QED
    BY <1>1, <1>2, CallsKept, WorkerKept, RouteKept, HooksKept DEF TypeOK, ConnForward

LEMMA ConnRespondType == ASSUME TypeOK, NEW c \in Conns, ConnRespond(c) PROVE TypeOK'
  <1>1. ConnsOK'
    BY SMTT(30) DEF TypeOK, ConnsOK, ConnRespond
  <1>2. PeersOK'
    BY PacketFact, AppendProperties, SMTT(30) DEF TypeOK, PeersOK, ConnRespond, ConnsOK, Written
  <1> QED
    BY <1>1, <1>2, CallsKept, WorkerKept, RouteKept, HooksKept DEF TypeOK, ConnRespond

LEMMA ConnIncomingType == ASSUME TypeOK, NEW c \in Conns, ConnIncoming(c) PROVE TypeOK'
  <1>1. ConnsOK'
    BY HeadTailProperties, SMTT(30) DEF TypeOK, ConnsOK, ConnIncoming, PeersOK
  <1>2. PeersOK'
    BY HeadTailProperties, SMTT(30) DEF TypeOK, PeersOK, ConnIncoming
  <1> QED
    BY <1>1, <1>2, CallsKept, WorkerKept, RouteKept, HooksKept DEF TypeOK, ConnIncoming

LEMMA ConnTransferType == ASSUME TypeOK, NEW c \in Conns, ConnTransfer(c) PROVE TypeOK'
  <1>1. WorkerOK'
    <2>1. held[c] \in FromPeer
      BY DEF TypeOK, ConnsOK, ConnTransfer
    <2>2. [op |-> "Transfer", item |-> [conn |-> c, msg |-> held[c]]] \in Command
      BY <2>1, CommandFact, PacketFact
    <2>3. command' \in Seq(Command)
      BY <2>2, AppendProperties, SMTT(30) DEF TypeOK, WorkerOK, ConnTransfer
    <2> QED
      BY <2>3 DEF TypeOK, WorkerOK, ConnTransfer
  <1>2. ConnsOK'
    BY SMTT(30) DEF TypeOK, ConnsOK, ConnTransfer
  <1> QED
    BY <1>1, <1>2, CallsKept, RouteKept, HooksKept, PeersKept DEF TypeOK, ConnTransfer

LEMMA ConnExitType == ASSUME TypeOK, NEW c \in Conns, ConnExit(c) PROVE TypeOK'
  <1>1. ConnsOK'
    BY SMTT(30) DEF TypeOK, ConnsOK, ConnExit
  <1> QED
    BY <1>1, CallsKept, WorkerKept, RouteKept, HooksKept, PeersKept DEF TypeOK, ConnExit

LEMMA ConnDropRxType == ASSUME TypeOK, NEW c \in Conns, ConnDropRx(c) PROVE TypeOK'
  <1>1. ConnsOK'
    BY SMTT(30) DEF TypeOK, ConnsOK, ConnDropRx
  <1> QED
    BY <1>1, CallsKept, WorkerKept, RouteKept, HooksKept, PeersKept DEF TypeOK, ConnDropRx

LEMMA CleanupCloseType == ASSUME TypeOK, NEW c \in Conns, CleanupClose(c) PROVE TypeOK'
  <1>1. WorkerOK'
    BY CommandFact, AppendProperties, SMTT(30) DEF TypeOK, WorkerOK, CleanupClose
  <1>2. ConnsOK'
    BY SMTT(30) DEF TypeOK, ConnsOK, CleanupClose
  <1> QED
    BY <1>1, <1>2, CallsKept, RouteKept, HooksKept, PeersKept DEF TypeOK, CleanupClose

LEMMA CleanupRemoveType == ASSUME TypeOK, NEW c \in Conns, CleanupRemove(c) PROVE TypeOK'
  <1>1. ConnsOK'
    <2>1. AddrOf[c] \in Addrs
      BY AddrAssumption
    <2>2. WS_CONNS' \in [Addrs -> Conns \cup {None}]
      BY <2>1 DEF TypeOK, ConnsOK, CleanupRemove
    <2> QED
      BY <2>2 DEF TypeOK, ConnsOK, CleanupRemove
  <1> QED
    BY <1>1, CallsKept, WorkerKept, RouteKept, HooksKept, PeersKept DEF TypeOK, CleanupRemove

LEMMA RouteRecvType == ASSUME TypeOK, RouteRecv PROVE TypeOK'
  <1>1. RouteOK'
    BY HeadTailProperties, SMTT(30) DEF TypeOK, RouteOK, RouteRecv
  <1> QED
    BY <1>1, CallsKept, WorkerKept, ConnsKept, HooksKept, PeersKept DEF TypeOK, RouteRecv

LEMMA RouteReturnType == ASSUME TypeOK, RouteReturn PROVE TypeOK'
  <1>1. RouteOK'
    BY SMTT(30) DEF TypeOK, RouteOK, RouteReturn
  <1>2. ConnsOK'
    BY PacketFact, SMTT(30) DEF TypeOK, ConnsOK, RouteReturn, RouteOK, HandlerRunning
  <1> QED
    BY <1>1, <1>2, CallsKept, WorkerKept, HooksKept, PeersKept DEF TypeOK, RouteReturn

LEMMA RouteCommitType == ASSUME TypeOK, RouteCommit PROVE TypeOK'
  <1>1. RouteOK'
    BY SMTT(30) DEF TypeOK, RouteOK, RouteCommit
  <1>2. WorkerOK'
    BY CommandFact, AppendProperties, SMTT(30) DEF TypeOK, WorkerOK, RouteCommit, RouteOK
  <1> QED
    BY <1>1, <1>2, CallsKept, ConnsKept, HooksKept, PeersKept DEF TypeOK, RouteCommit

LEMMA HandlerPanicType == ASSUME TypeOK, HandlerPanic PROVE TypeOK'
  <1>1. RouteOK'
    <2>1. stream' \in Seq(Items)
      BY NoMessages, Zenon DEF HandlerPanic
    <2> QED
      BY <2>1 DEF TypeOK, RouteOK, HandlerPanic
  <1> QED
    BY <1>1, CallsKept, WorkerKept, ConnsKept, HooksKept, PeersKept DEF TypeOK, HandlerPanic

LEMMA HookTakeOpenType == ASSUME TypeOK, HookTakeOpen PROVE TypeOK'
  <1>1. HooksOK'
    BY BusyFact, HookFact, SMTT(30) DEF TypeOK, HooksOK, HookTakeOpen
  <1> QED
    BY <1>1, CallsKept, WorkerKept, ConnsKept, RouteKept, PeersKept DEF TypeOK, HookTakeOpen

LEMMA HookOpenDoneType == ASSUME TypeOK, HookOpenDone PROVE TypeOK'
  <1>1. HooksOK'
    BY HookFact, SMTT(30) DEF TypeOK, HooksOK, HookOpenDone, HookRunning
  <1>2. WorkerOK'
    BY SMTT(30) DEF TypeOK, WorkerOK, HookOpenDone
  <1>3. ConnsOK'
    BY HookFact, SMTT(30) DEF TypeOK, ConnsOK, HookOpenDone, HooksOK, HookRunning
  <1> QED
    BY <1>1, <1>2, <1>3, CallsKept, RouteKept, PeersKept DEF TypeOK, HookOpenDone

LEMMA HookTakeCloseType == ASSUME TypeOK, HookTakeClose PROVE TypeOK'
  <1>1. HooksOK'
    BY HookFact, HeadTailProperties, SMTT(30) DEF TypeOK, HooksOK, HookTakeClose
  <1> QED
    BY <1>1, CallsKept, WorkerKept, ConnsKept, RouteKept, PeersKept DEF TypeOK, HookTakeClose

LEMMA HookCloseDoneType == ASSUME TypeOK, HookCloseDone PROVE TypeOK'
  <1>1. HooksOK'
    BY HookFact, SMTT(30) DEF TypeOK, HooksOK, HookCloseDone, HookRunning
  <1> QED
    BY <1>1, CallsKept, WorkerKept, ConnsKept, RouteKept, PeersKept DEF TypeOK, HookCloseDone

LEMMA HookStopType == ASSUME TypeOK, HookStop PROVE TypeOK'
  <1>1. HooksOK'
    <2>1. close' \in Seq(Conns)
      BY NoMessages, Zenon DEF HookStop
    <2> QED
      BY <2>1 DEF TypeOK, HooksOK, HookStop
  <1> QED
    BY <1>1, CallsKept, WorkerKept, ConnsKept, RouteKept, PeersKept DEF TypeOK, HookStop

LEMMA UnbindStartType == ASSUME TypeOK, UnbindStart PROVE TypeOK'
  <1>1. RouteOK'
    BY SMTT(30) DEF TypeOK, RouteOK, UnbindStart
  <1> QED
    BY <1>1, CallsKept, WorkerKept, ConnsKept, HooksKept, PeersKept DEF TypeOK, UnbindStart

LEMMA UnbindSendType == ASSUME TypeOK, UnbindSend PROVE TypeOK'
  <1>1. RouteOK'
    BY SMTT(30) DEF TypeOK, RouteOK, UnbindSend
  <1>2. WorkerOK'
    BY CommandFact, AppendProperties, SMTT(30) DEF TypeOK, WorkerOK, UnbindSend
  <1> QED
    BY <1>1, <1>2, CallsKept, ConnsKept, HooksKept, PeersKept DEF TypeOK, UnbindSend

LEMMA PeerCloseType == ASSUME TypeOK, NEW c \in Conns, PeerClose(c) PROVE TypeOK'
  <1>1. PeersOK'
    <2> DEFINE none == <<>>
    <2>1. none \in Seq(FromPeer) /\ none \in Seq(ToPeer)
      BY NoMessages, Zenon
    <2>2. /\ outgoing' = [outgoing EXCEPT ![c] = none]
          /\ incoming' = incoming \/ incoming' = [incoming EXCEPT ![c] = none]
          /\ peerGone' = [peerGone EXCEPT ![c] = TRUE]
          /\ UNCHANGED <<issuer, runs, returns>>
      BY DEF PeerClose
    <2> HIDE DEF none
    <2> QED
      BY <2>1, <2>2 DEF TypeOK, PeersOK
  <1> QED
    BY <1>1, CallsKept, WorkerKept, ConnsKept, RouteKept, HooksKept DEF TypeOK, PeerClose

LEMMA PeerReadType == ASSUME TypeOK, NEW c \in Conns, PeerRead(c) PROVE TypeOK'
  <1>1. PeersOK'
    <2> DEFINE m == Head(outgoing[c])
    <2>1. m \in ToPeer /\ Tail(outgoing[c]) \in Seq(ToPeer) /\ incoming[c] \in Seq(FromPeer)
      BY HeadTailProperties DEF TypeOK, PeersOK, PeerRead
    <2>2. outgoing' \in [Conns -> Seq(ToPeer)]
      BY <2>1 DEF TypeOK, PeersOK, PeerRead
    <2>3. CASE m.kind = "Call"
      <3>1. [kind |-> "Ret", id |-> m.id, of |-> m.of] \in FromPeer /\ m.of \in Callers
        BY <2>1, <2>3, PacketFact
      <3>2. Append(incoming[c], [kind |-> "Ret", id |-> m.id, of |-> m.of]) \in Seq(FromPeer)
        BY <2>1, <3>1, AppendProperties
      <3>3. /\ runs' = [runs EXCEPT ![m.of] = @ + 1]
            /\ incoming' = [incoming EXCEPT ![c] =
                   Append(@, [kind |-> "Ret", id |-> m.id, of |-> m.of])]
            /\ UNCHANGED <<returns, peerGone, issuer>>
        BY <2>3 DEF PeerRead
      <3>4. incoming' \in [Conns -> Seq(FromPeer)]
        BY <3>2, <3>3 DEF TypeOK, PeersOK
      <3>5. runs' \in [Callers -> Nat]
        BY <3>1, <3>3 DEF TypeOK, PeersOK
      <3> QED
        BY <2>2, <3>3, <3>4, <3>5 DEF TypeOK, PeersOK
    <2>4. CASE m.kind = "Ret"
      <3>1. m.of \in PeerCalls
        BY <2>1, <2>4, PacketFact
      <3>2. returns' = [returns EXCEPT ![m.of] = @ + 1] /\ UNCHANGED <<runs, incoming, peerGone, issuer>>
        BY <2>4 DEF PeerRead
      <3>3. returns' \in [PeerCalls -> Nat]
        BY <3>1, <3>2 DEF TypeOK, PeersOK
      <3> QED
        BY <2>2, <3>2, <3>3 DEF TypeOK, PeersOK
    <2> QED
      BY <2>1, <2>3, <2>4 DEF PeerRead
  <1> QED
    BY <1>1, CallsKept, WorkerKept, ConnsKept, RouteKept, HooksKept DEF TypeOK, PeerRead

LEMMA PeerCallType == ASSUME TypeOK, NEW c \in Conns, NEW p \in PeerCalls, PeerCall(p, c) PROVE TypeOK'
  <1>1. PeersOK'
    BY PacketFact, AppendProperties, SMTT(30) DEF TypeOK, PeersOK, PeerCall
  <1> QED
    BY <1>1, CallsKept, WorkerKept, ConnsKept, RouteKept, HooksKept DEF TypeOK, PeerCall

-----------------------------------------------------------------------------

LEMMA StepType == ASSUME TypeOK, [Next]_vars PROVE TypeOK'
  <1>1. CASE \E k \in Callers :
                (\E a \in Addrs : CallStart(k, a)) \/ CallUnbound(k) \/ CallSend(k)
    BY <1>1, CallStartType, CallUnboundType, CallSendType
  <1>2. CASE Worker
    BY <1>2, WorkerRecvType, WorkerFindType, WorkerForwardType, WorkerRefusedType,
       WorkerTransferType, WorkerDieType, WorkerCommitType, WorkerWsOpenType,
       WorkerWsCloseType, WorkerSendCloseType, WorkerRemoveRouteType DEF Worker
  <1>3. CASE Route
    BY <1>3, RouteRecvType, RouteReturnType, RouteCommitType, HandlerPanicType DEF Route
  <1>4. CASE Hook
    BY <1>4, HookTakeOpenType, HookOpenDoneType, HookTakeCloseType, HookCloseDoneType,
       HookStopType DEF Hook
  <1>5. CASE Unbind
    BY <1>5, UnbindStartType, UnbindSendType DEF Unbind
  <1>6. CASE \E c \in Conns : Conn(c)
    BY <1>6, ConnSendOpenType, ConnUpgradeFailsType, ConnRegisterType, ConnForwardType,
       ConnRespondType, ConnIncomingType, ConnTransferType, ConnExitType, ConnDropRxType,
       CleanupCloseType, CleanupRemoveType DEF Conn
  <1>7. CASE \E c \in Conns :
                PeerClose(c) \/ PeerRead(c) \/ \E p \in PeerCalls : PeerCall(p, c)
    BY <1>7, PeerCloseType, PeerReadType, PeerCallType
  <1>8. CASE UNCHANGED vars
    BY <1>8, CallsKept, WorkerKept, ConnsKept, RouteKept, HooksKept, PeersKept
       DEF TypeOK, vars
  <1> QED
    BY <1>1, <1>2, <1>3, <1>4, <1>5, <1>6, <1>7, <1>8 DEF Next

\* Every variable keeps its type: ids stay below NumIds, each channel carries only
\* what its senders put in, and the tables are indexed by addresses and ids.
THEOREM TypeCorrect == Spec => []TypeOK
  <1>1. Init => TypeOK
    BY IdsFact, AddrAssumption, EstablishedAssumption, SMT
       DEF Init, TypeOK, Phases, CallsOK, WorkerOK, ConnsOK, RouteOK, HooksOK, PeersOK
  <1> QED
    BY <1>1, StepType, PTL DEF Spec

-----------------------------------------------------------------------------
(***************************************************************************)
(* The registry of connections and the hooks of a route.                   *)
(*                                                                         *)
(* The open event of a connection is at one place at a time on its way     *)
(* from the connection's task to the hook, and so is the close event that  *)
(* its clean-up task sends.  The inductive invariant ties the place of the *)
(* events to the state of the connection and to how often its hooks have   *)
(* run.                                                                    *)
(***************************************************************************)

OpenOf(c) == {[op |-> "WsOpen", conn |-> c]}
CloseOf(c) == {[op |-> "WsClose", conn |-> c]}

\* Where the close event of a connection is.
CloseSent(c) == Has(command, CloseOf(c))
CloseBusy(c) == busy.op \in {"WsClose", "SendClose"} /\ busy.conn = c
CloseQueued(c) == Has(close, {c})
CloseHooked(c) == hook # None /\ hook.ev = "close" /\ hook.conn = c

CleanedUp(c) == cleanup[c] \in {"remove", "done"}
Closing(c) == CleanedUp(c) /\ closes[c] = 0

HPhase == \A c \in Conns :
    /\ opens[c] \in {0, 1}
    /\ connPhase[c] \in {"new", "handshake"} => opens[c] = 0
    /\ connPhase[c] \notin {"new", "handshake", "rejected"} => opens[c] = 1
    /\ cleanup[c] # "none" <=> connPhase[c] \in {"exited", "gone"}

HOpen ==
    /\ \A c \in Conns :
           /\ AtMostOne(command, OpenOf(c))
           /\ Has(command, OpenOf(c)) => connPhase[c] = "handshake"
    /\ busy.op \in {"WsOpen", "AwaitOpen"} =>
           connPhase[busy.conn] = "handshake" /\ ~Has(command, OpenOf(busy.conn))
    /\ hook # None /\ hook.ev = "open" => busy = [op |-> "AwaitOpen", conn |-> hook.conn]

HClose == \A c \in Conns :
    /\ AtMostOne(command, CloseOf(c)) /\ AtMostOne(close, {c})
    /\ closes[c] \in {0, 1}
    /\ closes[c] = 1 => CleanedUp(c)
    /\ CloseHooked(c) => Closing(c)
    /\ CloseQueued(c) => Closing(c) /\ ~CloseHooked(c)
    /\ CloseBusy(c) => Closing(c) /\ ~CloseHooked(c) /\ ~CloseQueued(c)
    /\ CloseSent(c) => Closing(c) /\ ~CloseHooked(c) /\ ~CloseQueued(c) /\ ~CloseBusy(c)

\* Messages that have left the task of their connection.
HOpened ==
    /\ \A q \in Elems(command) \cup {busy} : q.op = "Transfer" => opens[q.item.conn] = 1
    /\ \A i \in Elems(stream) : opens[i.conn] = 1
    /\ route # None => opens[route.conn] = 1

HooksInv == HPhase /\ HOpen /\ HClose /\ HOpened

-----------------------------------------------------------------------------
(* What steps that leave the events alone preserve *)

\* The commands queued are the same but for the messages they carry.
EventsKept ==
    \A c \in Conns :
        /\ Has(command, OpenOf(c))' <=> Has(command, OpenOf(c))
        /\ Has(command, CloseOf(c))' <=> Has(command, CloseOf(c))
        /\ AtMostOne(command, OpenOf(c)) => AtMostOne(command, OpenOf(c))'
        /\ AtMostOne(command, CloseOf(c)) => AtMostOne(command, CloseOf(c))'

LEMMA SameEvents == ASSUME UNCHANGED command PROVE EventsKept
  BY DEF EventsKept

LEMMA OtherCommand ==
  ASSUME WorkerOK, NEW e \in Command, e.op \notin {"WsOpen", "WsClose"},
         command' = Append(command, e)
  PROVE  EventsKept /\ Elems(command') = Elems(command) \cup {e}
  <1>1. command \in Seq(Command)
    BY DEF WorkerOK
  <1>2. \A c \in Conns : e \notin OpenOf(c) /\ e \notin CloseOf(c)
    BY DEF OpenOf, CloseOf
  <1>3. ASSUME NEW c \in Conns
        PROVE  /\ Has(command', OpenOf(c)) <=> Has(command, OpenOf(c))
               /\ Has(command', CloseOf(c)) <=> Has(command, CloseOf(c))
               /\ AtMostOne(command, OpenOf(c)) => AtMostOne(command', OpenOf(c))
               /\ AtMostOne(command, CloseOf(c)) => AtMostOne(command', CloseOf(c))
    BY <1>1, <1>2, HasAppend
  <1>4. EventsKept
    BY <1>3 DEF EventsKept, OpenOf, CloseOf
  <1> QED
    BY <1>1, <1>4, ElemsAppend

LEMMA OpenKept ==
  ASSUME HOpen, EventsKept, UNCHANGED hook,
         \A c \in Conns : connPhase[c] = "handshake" => connPhase'[c] = "handshake",
         \/ UNCHANGED busy
         \/ busy.op # "AwaitOpen" /\ busy'.op \notin {"WsOpen", "AwaitOpen"},
         busy.op \in {"WsOpen", "AwaitOpen"} => busy.conn \in Conns
  PROVE  HOpen'
  BY DEF HOpen, EventsKept, OpenOf

LEMMA CloseKept ==
  ASSUME HClose, EventsKept, UNCHANGED <<close, hook, closes>>,
         \A c \in Conns : CleanedUp(c) => CleanedUp(c)',
         \A c \in Conns : CloseBusy(c)' => CloseBusy(c)
  PROVE  HClose'
  BY DEF HClose, EventsKept, CloseSent, CloseQueued, CloseHooked, Closing, CloseOf

LEMMA OpenedKept ==
  ASSUME HOpened, UNCHANGED opens,
         \A q \in Elems(command') \cup {busy'} :
             \/ q \in Elems(command) \cup {busy}
             \/ q.op = "Transfer" => opens[q.item.conn] = 1,
         \A i \in Elems(stream') : i \in Elems(stream) \/ opens[i.conn] = 1,
         route' \in {route, None} \/ opens[route'.conn] = 1
  PROVE  HOpened'
  BY DEF HOpened

\* A step that moves no event, no connection and no message to the route.
LEMMA NeutralStep ==
  ASSUME TypeOK, HooksInv, EventsKept,
         UNCHANGED <<connPhase, cleanup, opens, closes, close, hook>>,
         \/ UNCHANGED busy
         \/ /\ busy.op # "AwaitOpen"
            /\ busy'.op \notin {"WsOpen", "AwaitOpen", "WsClose", "SendClose"},
         HOpened'
  PROVE  HooksInv'
  <1>1. HPhase'
    BY DEF HooksInv, HPhase
  <1>2. HOpen'
    BY OpenKept, BusyFact DEF HooksInv, TypeOK
  <1>3. HClose'
    BY CloseKept DEF HooksInv, CleanedUp, CloseBusy
  <1> QED
    BY <1>1, <1>2, <1>3 DEF HooksInv

-----------------------------------------------------------------------------
(* The steps of the callers and of the worker *)

LEMMA CallSendHooks ==
  ASSUME TypeOK, HooksInv, NEW k \in Callers, CallSend(k) PROVE HooksInv'
  <1> DEFINE e == [op |-> "CallRemotely", of |-> k]
  <1>1. CASE UNCHANGED command
    <2>1. HOpened'
      BY <1>1, OpenedKept DEF HooksInv, CallSend, connVars, routeVars, hookVars
    <2> QED
      BY <1>1, <2>1, SameEvents, NeutralStep DEF CallSend, connVars, hookVars
  <1>2. CASE command' = Append(command, e)
    <2>1. e \in Command /\ e.op = "CallRemotely"
      BY CommandFact
    <2>2. EventsKept /\ Elems(command') = Elems(command) \cup {e}
      BY <1>2, <2>1, OtherCommand DEF TypeOK
    <2>3. HOpened'
      BY <2>1, <2>2, OpenedKept DEF HooksInv, CallSend, connVars, routeVars, hookVars
    <2> QED
      BY <2>2, <2>3, NeutralStep DEF CallSend, connVars, hookVars
  <1> QED
    BY <1>1, <1>2 DEF CallSend

LEMMA WorkerRecvHooks == ASSUME TypeOK, HooksInv, WorkerRecv PROVE HooksInv'
  <1>1. PICK q : q = Head(command)
    OBVIOUS
  <1>2. PICK rest : rest = Tail(command)
    OBVIOUS
  <1>3. /\ command \in Seq(Command) /\ command # <<>> /\ busy = Idle
        /\ busy' = q /\ command' = rest
        /\ UNCHANGED <<connPhase, cleanup, opens, closes, close, hook, stream, route>>
    BY <1>1, <1>2 DEF TypeOK, WorkerOK, WorkerRecv, connVars, hookVars, routeVars
  <1>4. q \in Elems(command) /\ Elems(rest) \subseteq Elems(command) /\ q \in Command
    BY <1>1, <1>2, <1>3, ElemsHeadTail, ElemsType
  <1>5. ASSUME NEW M
        PROVE  /\ Has(command, M) <=> q \in M \/ Has(rest, M)
               /\ AtMostOne(command, M) => AtMostOne(rest, M) /\ ~(q \in M /\ Has(rest, M))
    BY <1>1, <1>2, <1>3, HasTail
  <1>6. q.op \in {"WsOpen", "WsClose"} =>
            q.conn \in Conns /\ q = [op |-> q.op, conn |-> q.conn]
    BY <1>4 DEF Command
  <1>7. HPhase'
    BY <1>3 DEF HooksInv, HPhase
  <1>8. HOpen'
    <2>1. ASSUME NEW c \in Conns
          PROVE  /\ AtMostOne(rest, OpenOf(c))
                 /\ Has(rest, OpenOf(c)) => connPhase[c] = "handshake"
      BY <1>5, <2>1 DEF HooksInv, HOpen
    <2>2. ~(hook # None /\ hook.ev = "open")
      BY <1>3 DEF HooksInv, HOpen, Idle
    <2>3. ASSUME q.op \in {"WsOpen", "AwaitOpen"}
          PROVE  connPhase[q.conn] = "handshake" /\ ~Has(rest, OpenOf(q.conn))
      <3>1. q.op = "WsOpen"
        BY <1>4, <2>3 DEF Command
      <3>2. q \in OpenOf(q.conn) /\ q.conn \in Conns
        BY <1>6, <3>1 DEF OpenOf
      <3> QED
        BY <1>5, <3>2 DEF HooksInv, HOpen
    <2>4. /\ \A c \in Conns : /\ AtMostOne(command', OpenOf(c))
                              /\ Has(command', OpenOf(c)) => connPhase'[c] = "handshake"
          /\ busy'.op \in {"WsOpen", "AwaitOpen"} =>
                 connPhase'[busy'.conn] = "handshake" /\ ~Has(command', OpenOf(busy'.conn))
          /\ ~(hook' # None /\ hook'.ev = "open")
      BY <1>3, <2>1, <2>2, <2>3
    <2> QED
      BY <2>4 DEF HOpen, OpenOf
  <1>9. HClose'
    <2> SUFFICES ASSUME NEW c \in Conns
                 PROVE  /\ AtMostOne(rest, CloseOf(c)) /\ AtMostOne(close, {c})
                        /\ closes[c] \in {0, 1}
                        /\ closes[c] = 1 => CleanedUp(c)
                        /\ CloseHooked(c) => Closing(c)
                        /\ CloseQueued(c) => Closing(c) /\ ~CloseHooked(c)
                        /\ CloseBusy(c)' =>
                               Closing(c) /\ ~CloseHooked(c) /\ ~CloseQueued(c)
                        /\ Has(rest, CloseOf(c)) =>
                               /\ Closing(c) /\ ~CloseHooked(c) /\ ~CloseQueued(c)
                               /\ ~CloseBusy(c)'
      BY <1>3 DEF HClose, CloseSent, CloseQueued, CloseHooked, Closing, CleanedUp, CloseOf
    <2>1. CloseBusy(c)' => q \in CloseOf(c)
      BY <1>3, <1>4, <1>6 DEF CloseBusy, CloseOf, Command
    <2>2. AtMostOne(command, CloseOf(c))
      BY DEF HooksInv, HClose
    <2>3. /\ Has(rest, CloseOf(c)) => CloseSent(c) /\ ~CloseBusy(c)'
          /\ CloseBusy(c)' => CloseSent(c)
          /\ AtMostOne(rest, CloseOf(c))
      BY <1>5, <2>1, <2>2 DEF CloseSent
    <2> QED
      BY <2>3 DEF HooksInv, HClose
  <1>10. HOpened'
    <2>1. \A p \in Elems(command') \cup {busy'} : p \in Elems(command) \cup {busy}
      BY <1>3, <1>4
    <2> QED
      BY <1>3, <2>1, OpenedKept DEF HooksInv
  <1> QED
    BY <1>7, <1>8, <1>9, <1>10 DEF HooksInv

\* Commands that are no event of a connection.
LEMMA WorkerOtherHooks ==
  ASSUME TypeOK, HooksInv,
         WorkerFind \/ WorkerForward \/ WorkerRefused \/ WorkerCommit \/ WorkerRemoveRoute
  PROVE  HooksInv'
  <1>1. /\ UNCHANGED <<command, cleanup, opens, closes, close, hook, stream, route, connPhase>>
        /\ busy.op \notin {"AwaitOpen", "WsOpen", "WsClose", "SendClose"}
    BY DEF WorkerFind, WorkerForward, WorkerRefused, WorkerCommit, WorkerRemoveRoute,
           connVars, routeVars, hookVars
  <1>2. busy'.op \in {"none", "Forward"}
    BY DEF WorkerFind, WorkerForward, WorkerRefused, WorkerCommit, WorkerRemoveRoute, Idle
  <1>3. HOpened'
    BY <1>1, <1>2, OpenedKept DEF HooksInv
  <1> QED
    BY <1>1, <1>2, <1>3, SameEvents, NeutralStep

LEMMA WorkerTransferHooks == ASSUME TypeOK, HooksInv, WorkerTransfer PROVE HooksInv'
  <1>1. /\ UNCHANGED <<command, cleanup, opens, closes, close, hook, route, connPhase>>
        /\ busy.op = "Transfer" /\ busy'.op = "none"
    BY DEF WorkerTransfer, connVars, hookVars, Idle
  <1>2. \A i \in Elems(stream') : i \in Elems(stream) \/ i = busy.item
    <2>1. PICK m \in Items : m = busy.item
      BY BusyFact DEF TypeOK, WorkerTransfer
    <2>2. stream \in Seq(Items) /\ (stream' = stream \/ stream' = Append(stream, m))
      BY <2>1 DEF TypeOK, RouteOK, WorkerTransfer
    <2>3. Elems(Append(stream, m)) = Elems(stream) \cup {m}
      BY <2>1, <2>2, ElemsAppend
    <2> QED
      BY <2>1, <2>2, <2>3
  <1>3. opens[busy.item.conn] = 1
    BY <1>1 DEF HooksInv, HOpened
  <1>4. HOpened'
    BY <1>1, <1>2, <1>3, OpenedKept DEF HooksInv
  <1> QED
    BY <1>1, <1>4, SameEvents, NeutralStep

LEMMA WorkerDieHooks == ASSUME TypeOK, HooksInv, WorkerDie PROVE HooksInv'
  <1>1. /\ UNCHANGED <<cleanup, opens, closes, close, hook, stream, route>>
        /\ busy.op = "Transfer" /\ busy' = Idle /\ busy'.op = "none" /\ command' = <<>>
    BY DEF WorkerDie, hookVars, Idle
  <1>2. \A M : ~Has(command', M) /\ AtMostOne(command', M)
    BY <1>1, HasEmpty
  <1>3. \A c \in Conns : connPhase'[c] = IF connPhase[c] = "handshake" THEN "rejected"
                                         ELSE connPhase[c]
    BY DEF WorkerDie
  <1>4. HPhase'
    BY <1>1, <1>3 DEF HooksInv, HPhase
  <1>5. HOpen'
    <2>1. ~(hook # None /\ hook.ev = "open")
      BY <1>1 DEF HooksInv, HOpen
    <2> QED
      BY <1>1, <1>2, <2>1 DEF HOpen
  <1>6. HClose'
    BY <1>1, <1>2 DEF HooksInv, HClose, CloseSent, CloseBusy, CloseQueued, CloseHooked,
                      Closing, CleanedUp
  <1>7. HOpened'
    BY <1>1, ElemsEmpty, OpenedKept DEF HooksInv
  <1> QED
    BY <1>4, <1>5, <1>6, <1>7 DEF HooksInv

LEMMA WorkerWsOpenHooks == ASSUME TypeOK, HooksInv, WorkerWsOpen PROVE HooksInv'
  <1>1. PICK d \in Conns : d = busy.conn
    BY BusyFact DEF TypeOK, WorkerWsOpen
  <1>2. /\ UNCHANGED <<command, cleanup, opens, closes, close, hook, stream, route>>
        /\ busy.op = "WsOpen"
        /\ connPhase[d] = "handshake" /\ ~Has(command, OpenOf(d))
        /\ ~(hook # None /\ hook.ev = "open")
    BY <1>1 DEF WorkerWsOpen, callVars, routeVars, hookVars, HooksInv, HOpen
  <1>3. \/ busy' = [op |-> "AwaitOpen", conn |-> d] /\ UNCHANGED connPhase
        \/ busy' = Idle /\ connPhase' = [connPhase EXCEPT ![d] = "rejected"]
    BY <1>1 DEF WorkerWsOpen
  <1>4. HPhase'
    BY <1>2, <1>3 DEF HooksInv, HPhase, TypeOK, ConnsOK
  <1>5. HOpen'
    <2>1. CASE busy' = [op |-> "AwaitOpen", conn |-> d] /\ UNCHANGED connPhase
      BY <1>2, <2>1 DEF HooksInv, HOpen, OpenOf
    <2>2. CASE busy' = Idle /\ connPhase' = [connPhase EXCEPT ![d] = "rejected"]
      <3>1. \A c \in Conns : connPhase[c] = "handshake" /\ c # d => connPhase'[c] = "handshake"
        BY <2>2 DEF TypeOK, ConnsOK
      <3> QED
        BY <1>2, <2>2, <3>1 DEF HooksInv, HOpen, OpenOf, Idle
    <2> QED
      BY <1>3, <2>1, <2>2
  <1>6. HClose'
    <2>1. busy'.op \notin {"WsClose", "SendClose"}
      BY <1>3 DEF Idle
    <2> QED
      BY <1>2, <2>1, SameEvents, CloseKept DEF HooksInv, CloseBusy, CleanedUp
  <1>7. HOpened'
    <2>1. busy'.op # "Transfer"
      BY <1>3 DEF Idle
    <2> QED
      BY <1>2, <2>1, OpenedKept DEF HooksInv
  <1> QED
    BY <1>4, <1>5, <1>6, <1>7 DEF HooksInv

LEMMA WorkerWsCloseHooks == ASSUME TypeOK, HooksInv, WorkerWsClose PROVE HooksInv'
  <1>1. PICK d \in Conns : d = busy.conn
    BY BusyFact DEF TypeOK, WorkerWsClose
  <1>2. /\ UNCHANGED <<command, connPhase, cleanup, opens, closes, close, hook, stream, route>>
        /\ busy.op = "WsClose"
    BY DEF WorkerWsClose, connVars, routeVars, hookVars
  <1>3. busy' \in {[op |-> "SendClose", conn |-> d], Idle}
    BY <1>1 DEF WorkerWsClose
  <1>4. HPhase'
    BY <1>2 DEF HooksInv, HPhase
  <1>5. HOpen'
    BY <1>2, <1>3, SameEvents, OpenKept DEF HooksInv, Idle
  <1>6. HClose'
    BY <1>1, <1>2, <1>3, SameEvents, CloseKept DEF HooksInv, CloseBusy, CleanedUp, Idle
  <1>7. HOpened'
    BY <1>2, <1>3, OpenedKept DEF HooksInv, Idle
  <1> QED
    BY <1>4, <1>5, <1>6, <1>7 DEF HooksInv

LEMMA WorkerSendCloseHooks == ASSUME TypeOK, HooksInv, WorkerSendClose PROVE HooksInv'
  <1>1. PICK d \in Conns : d = busy.conn
    BY BusyFact DEF TypeOK, WorkerSendClose
  <1>2. /\ UNCHANGED <<command, connPhase, cleanup, opens, closes, hook, stream, route>>
        /\ busy.op = "SendClose" /\ busy' = Idle /\ close' = Append(close, d)
        /\ close \in Seq(Conns)
    BY <1>1 DEF WorkerSendClose, connVars, routeVars, TypeOK, HooksOK
  <1>3. ASSUME NEW M
        PROVE  /\ Has(close', M) <=> Has(close, M) \/ d \in M
               /\ AtMostOne(close, M) /\ (d \in M => ~Has(close, M)) => AtMostOne(close', M)
    BY <1>2, HasAppend
  <1>4. HPhase'
    BY <1>2 DEF HooksInv, HPhase
  <1>5. HOpen'
    BY <1>2, SameEvents, OpenKept DEF HooksInv, Idle
  <1>6. HClose'
    <2> SUFFICES ASSUME NEW c \in Conns
                 PROVE  /\ AtMostOne(command, CloseOf(c)) /\ AtMostOne(close', {c})
                        /\ closes[c] \in {0, 1}
                        /\ closes[c] = 1 => CleanedUp(c)
                        /\ CloseHooked(c) => Closing(c)
                        /\ Has(close', {c}) => Closing(c) /\ ~CloseHooked(c)
                        /\ CloseSent(c) =>
                               Closing(c) /\ ~CloseHooked(c) /\ ~Has(close', {c})
      BY <1>2 DEF HClose, CloseSent, CloseBusy, CloseQueued, CloseHooked, Closing,
                  CleanedUp, CloseOf, Idle
    <2>1. CloseBusy(d) /\ \A b \in Conns : CloseBusy(b) => b = d
      BY <1>1, <1>2 DEF CloseBusy
    <2>2. /\ Has(close', {c}) <=> CloseQueued(c) \/ c = d
          /\ AtMostOne(close, {c}) /\ (c = d => ~CloseQueued(c)) => AtMostOne(close', {c})
      BY <1>3 DEF CloseQueued
    <2> QED
      BY <2>1, <2>2 DEF HooksInv, HClose
  <1>7. HOpened'
    BY <1>2, OpenedKept DEF HooksInv, Idle
  <1> QED
    BY <1>4, <1>5, <1>6, <1>7 DEF HooksInv

LEMMA WorkerHooks == ASSUME TypeOK, HooksInv, Worker PROVE HooksInv'
  BY WorkerRecvHooks, WorkerOtherHooks, WorkerTransferHooks, WorkerDieHooks,
     WorkerWsOpenHooks, WorkerWsCloseHooks, WorkerSendCloseHooks
     DEF Worker

-----------------------------------------------------------------------------
(* The steps of a connection and of its clean-up *)

LEMMA ConnSendOpenHooks ==
  ASSUME TypeOK, HooksInv, NEW c \in Conns, ConnSendOpen(c) PROVE HooksInv'
  <1> DEFINE e == [op |-> "WsOpen", conn |-> c]
  <1>1. /\ UNCHANGED <<busy, cleanup, opens, closes, close, hook, stream, route>>
        /\ connPhase[c] = "new" /\ command \in Seq(Command)
    BY DEF ConnSendOpen, hookVars, routeVars, TypeOK, WorkerOK
  <1>2. \A d \in Conns : connPhase'[d] = IF d = c THEN connPhase'[c] ELSE connPhase[d]
    BY DEF ConnSendOpen, TypeOK, ConnsOK
  <1>3. \/ connPhase'[c] = "handshake" /\ command' = Append(command, e)
        \/ connPhase'[c] = "rejected" /\ UNCHANGED command
    BY DEF ConnSendOpen, TypeOK, ConnsOK
  <1>4. HPhase'
    BY <1>1, <1>2, <1>3 DEF HooksInv, HPhase
  <1>5. CASE connPhase'[c] = "rejected" /\ UNCHANGED command
    <2>1. HOpen'
      BY <1>1, <1>2, <1>5, SameEvents, OpenKept, BusyFact DEF HooksInv, TypeOK
    <2>2. HClose'
      BY <1>1, <1>5, SameEvents, CloseKept DEF HooksInv, CloseBusy, CleanedUp
    <2>3. HOpened'
      BY <1>1, <1>5, OpenedKept DEF HooksInv
    <2> QED
      BY <1>4, <2>1, <2>2, <2>3 DEF HooksInv
  <1>6. CASE connPhase'[c] = "handshake" /\ command' = Append(command, e)
    <2>1. e \in Command
      BY CommandFact
    <2>2. ASSUME NEW M
          PROVE  /\ Has(command', M) <=> Has(command, M) \/ e \in M
                 /\ AtMostOne(command, M) /\ (e \in M => ~Has(command, M))
                        => AtMostOne(command', M)
      BY <1>1, <1>6, <2>1, HasAppend
    <2>3. \A d \in Conns : e \notin CloseOf(d) /\ (e \in OpenOf(d) <=> d = c)
      BY DEF OpenOf, CloseOf
    <2>4. ~Has(command, OpenOf(c))
      BY <1>1 DEF HooksInv, HOpen
    <2>5. HOpen'
      <3>1. \A d \in Conns : /\ AtMostOne(command', OpenOf(d))
                             /\ Has(command', OpenOf(d)) => connPhase'[d] = "handshake"
        BY <1>2, <1>6, <2>2, <2>3, <2>4 DEF HooksInv, HOpen
      <3>2. ASSUME busy.op \in {"WsOpen", "AwaitOpen"}
            PROVE  connPhase'[busy.conn] = "handshake" /\ ~Has(command', OpenOf(busy.conn))
        <4>1. PICK d \in Conns : d = busy.conn
          BY <3>2, BusyFact DEF TypeOK
        <4>2. connPhase[d] = "handshake" /\ ~Has(command, OpenOf(d)) /\ d # c
          BY <1>1, <3>2, <4>1 DEF HooksInv, HOpen
        <4> QED
          BY <1>2, <2>2, <2>3, <4>1, <4>2
      <3>3. /\ busy'.op \in {"WsOpen", "AwaitOpen"} =>
                   connPhase'[busy'.conn] = "handshake" /\ ~Has(command', OpenOf(busy'.conn))
            /\ hook' # None /\ hook'.ev = "open" =>
                   busy' = [op |-> "AwaitOpen", conn |-> hook'.conn]
        BY <1>1, <3>2 DEF HooksInv, HOpen
      <3> QED
        BY <3>1, <3>3 DEF HOpen, OpenOf
    <2>6. HClose'
      <3>1. \A d \in Conns : /\ Has(command', CloseOf(d)) <=> Has(command, CloseOf(d))
                             /\ AtMostOne(command, CloseOf(d)) => AtMostOne(command', CloseOf(d))
        BY <2>2, <2>3
      <3> QED
        BY <1>1, <3>1 DEF HooksInv, HClose, CloseSent, CloseBusy, CloseQueued, CloseHooked,
                          Closing, CleanedUp, CloseOf
    <2>7. HOpened'
      <3>1. Elems(command') = Elems(command) \cup {e} /\ e.op = "WsOpen"
        BY <1>1, <1>6, <2>1, ElemsAppend
      <3> QED
        BY <1>1, <3>1, OpenedKept DEF HooksInv
    <2> QED
      BY <1>4, <2>5, <2>6, <2>7 DEF HooksInv
  <1> QED
    BY <1>3, <1>5, <1>6

\* The steps that move a connection that is past its handshake, or its clean-up.
LEMMA PhaseStep ==
  ASSUME TypeOK, HooksInv, EventsKept, HOpened', HPhase',
         UNCHANGED <<busy, opens, closes, close, hook>>,
         \A c \in Conns : connPhase[c] = "handshake" => connPhase'[c] = "handshake",
         \A c \in Conns : CleanedUp(c) => CleanedUp(c)'
  PROVE  HooksInv'
  <1>1. HOpen'
    BY OpenKept, BusyFact DEF HooksInv, TypeOK
  <1>2. HClose'
    BY CloseKept DEF HooksInv, CloseBusy
  <1> QED
    BY <1>1, <1>2 DEF HooksInv

LEMMA ConnPhaseHooks ==
  ASSUME TypeOK, HooksInv, NEW c \in Conns,
         \/ ConnUpgradeFails(c) \/ ConnRegister(c) \/ ConnIncoming(c) \/ ConnExit(c)
         \/ ConnDropRx(c) \/ CleanupRemove(c)
  PROVE  HooksInv'
  <1>1. UNCHANGED <<command, busy, opens, closes, close, hook, stream, route>>
    BY DEF ConnUpgradeFails, ConnRegister, ConnIncoming, ConnExit, ConnDropRx,
           CleanupRemove, callVars, workerVars, routeVars, hookVars
  <1>2. /\ \A d \in Conns : connPhase'[d] = IF d = c THEN connPhase'[c] ELSE connPhase[d]
        /\ \A d \in Conns : cleanup'[d] = IF d = c THEN cleanup'[c] ELSE cleanup[d]
    BY DEF ConnUpgradeFails, ConnRegister, ConnIncoming, ConnExit, ConnDropRx,
           CleanupRemove, TypeOK, ConnsOK
  <1>3. \/ /\ connPhase[c] = "upgrading" /\ connPhase'[c] \in {"rejected", "open"}
           /\ cleanup'[c] = cleanup[c]
        \/ connPhase[c] = "open" /\ connPhase'[c] = "sending" /\ cleanup'[c] = cleanup[c]
        \/ connPhase[c] = "open" /\ connPhase'[c] = "exited" /\ cleanup'[c] = "close"
        \/ connPhase[c] = "exited" /\ connPhase'[c] = "gone" /\ cleanup'[c] = cleanup[c]
        \/ connPhase'[c] = connPhase[c] /\ cleanup[c] = "remove" /\ cleanup'[c] = "done"
    BY DEF ConnUpgradeFails, ConnRegister, ConnIncoming, ConnExit, ConnDropRx,
           CleanupRemove, TypeOK, ConnsOK
  <1>4. HPhase'
    BY <1>1, <1>2, <1>3 DEF HooksInv, HPhase
  <1>5. HOpened'
    BY <1>1, OpenedKept DEF HooksInv
  <1>6. \A d \in Conns : CleanedUp(d) => CleanedUp(d)'
    BY <1>2, <1>3 DEF HooksInv, HPhase, CleanedUp
  <1>7. \A d \in Conns : connPhase[d] = "handshake" => connPhase'[d] = "handshake"
    BY <1>2, <1>3
  <1> QED
    BY <1>1, <1>4, <1>5, <1>6, <1>7, SameEvents, PhaseStep

LEMMA ConnTransferHooks ==
  ASSUME TypeOK, HooksInv, NEW c \in Conns, ConnTransfer(c) PROVE HooksInv'
  <1>1. PICK m \in FromPeer : m = held[c]
    BY DEF ConnTransfer, TypeOK, ConnsOK
  <1> DEFINE i == [conn |-> c, msg |-> m]
             e == [op |-> "Transfer", item |-> i]
  <1>2. /\ UNCHANGED <<busy, cleanup, opens, closes, close, hook, stream, route>>
        /\ connPhase[c] = "sending"
    BY DEF ConnTransfer, hookVars, routeVars
  <1>3. \A d \in Conns : connPhase'[d] = IF d = c THEN "open" ELSE connPhase[d]
    BY DEF ConnTransfer, TypeOK, ConnsOK
  <1>4. HPhase'
    BY <1>2, <1>3 DEF HooksInv, HPhase
  <1>5. /\ EventsKept
        /\ \A q \in Elems(command') : q \in Elems(command) \/ q = e
    <2>1. e \in Command /\ e.op = "Transfer"
      BY CommandFact, PacketFact
    <2>2. command' = command \/ command' = Append(command, e)
      BY <1>1 DEF ConnTransfer
    <2> QED
      BY <2>1, <2>2, SameEvents, OtherCommand DEF TypeOK
  <1>6. opens[c] = 1
    BY <1>2 DEF HooksInv, HPhase
  <1>7. HOpened'
    <2>1. e.item.conn = c
      OBVIOUS
    <2> QED
      BY <1>2, <1>5, <1>6, <2>1, OpenedKept DEF HooksInv
  <1> QED
    BY <1>2, <1>3, <1>4, <1>5, <1>7, PhaseStep DEF CleanedUp

LEMMA CleanupCloseHooks ==
  ASSUME TypeOK, HooksInv, NEW c \in Conns, CleanupClose(c) PROVE HooksInv'
  <1> DEFINE e == [op |-> "WsClose", conn |-> c]
  <1>1. /\ UNCHANGED <<busy, connPhase, opens, closes, close, hook, stream, route>>
        /\ cleanup[c] = "close" /\ command \in Seq(Command)
        /\ command' = command \/ command' = Append(command, e)
    BY DEF CleanupClose, hookVars, routeVars, TypeOK, WorkerOK
  <1>2. \A d \in Conns : cleanup'[d] = IF d = c THEN "remove" ELSE cleanup[d]
    BY DEF CleanupClose, TypeOK, ConnsOK
  <1>3. HPhase'
    BY <1>1, <1>2 DEF HooksInv, HPhase
  <1>4. e \in Command /\ \A d \in Conns : e \notin OpenOf(d) /\ (e \in CloseOf(d) <=> d = c)
    BY CommandFact DEF OpenOf, CloseOf
  <1>5. ASSUME NEW M
        PROVE  /\ Has(command', M) => Has(command, M) \/ e \in M
               /\ AtMostOne(command, M) /\ (e \in M => ~Has(command, M))
                      => AtMostOne(command', M)
               /\ e \notin M => (Has(command', M) <=> Has(command, M))
    <2>1. CASE command' = command
      BY <2>1
    <2>2. CASE command' = Append(command, e)
      BY <1>1, <1>4, <2>2, HasAppend
    <2> QED
      BY <1>1, <2>1, <2>2
  <1>6. HOpen'
    <2>1. ASSUME NEW M, e \notin M
          PROVE  /\ Has(command', M) <=> Has(command, M)
                 /\ AtMostOne(command, M) => AtMostOne(command', M)
      BY <1>5, <2>1
    <2>2. \A d \in Conns : /\ AtMostOne(command', OpenOf(d))
                           /\ Has(command', OpenOf(d)) => connPhase'[d] = "handshake"
      BY <1>1, <1>4, <2>1 DEF HooksInv, HOpen
    <2>3. busy.op \in {"WsOpen", "AwaitOpen"} =>
              connPhase'[busy.conn] = "handshake" /\ ~Has(command', OpenOf(busy.conn))
      BY <1>1, <1>4, <2>1, BusyFact DEF HooksInv, HOpen, TypeOK
    <2>4. hook' # None /\ hook'.ev = "open" => busy' = [op |-> "AwaitOpen", conn |-> hook'.conn]
      BY <1>1 DEF HooksInv, HOpen
    <2> QED
      BY <1>1, <2>2, <2>3, <2>4 DEF HOpen, OpenOf
  <1>7. HClose'
    <2> SUFFICES ASSUME NEW d \in Conns
                 PROVE  /\ AtMostOne(command', CloseOf(d)) /\ AtMostOne(close, {d})
                        /\ closes[d] \in {0, 1}
                        /\ closes[d] = 1 => CleanedUp(d)'
                        /\ CloseHooked(d) => Closing(d)'
                        /\ CloseQueued(d) => Closing(d)' /\ ~CloseHooked(d)
                        /\ CloseBusy(d) => Closing(d)' /\ ~CloseHooked(d) /\ ~CloseQueued(d)
                        /\ Has(command', CloseOf(d)) =>
                               /\ Closing(d)' /\ ~CloseHooked(d) /\ ~CloseQueued(d)
                               /\ ~CloseBusy(d)
      BY <1>1 DEF HClose, CloseSent, CloseBusy, CloseQueued, CloseHooked, CloseOf
    <2>1. ~CleanedUp(c) /\ CleanedUp(c)' /\ (CleanedUp(d) => CleanedUp(d)')
      BY <1>1, <1>2 DEF CleanedUp
    <2>2. ~CloseSent(c) /\ ~CloseBusy(c) /\ ~CloseQueued(c) /\ ~CloseHooked(c) /\ closes[c] = 0
      BY <2>1 DEF HooksInv, HClose, Closing
    <2>3. /\ Has(command', CloseOf(d)) => CloseSent(d) \/ d = c
          /\ AtMostOne(command', CloseOf(d))
      BY <1>1, <1>4, <1>5, <2>2 DEF CloseSent, HooksInv, HClose
    <2> QED
      BY <1>1, <2>1, <2>2, <2>3 DEF HooksInv, HClose, Closing
  <1>8. HOpened'
    <2>1. \A q \in Elems(command') : q \in Elems(command) \/ q = e
      <3>1. Elems(Append(command, e)) = Elems(command) \cup {e}
        BY <1>1, <1>4, ElemsAppend
      <3> QED
        BY <1>1, <3>1
    <2> QED
      BY <1>1, <2>1, OpenedKept DEF HooksInv
  <1> QED
    BY <1>3, <1>6, <1>7, <1>8 DEF HooksInv

LEMMA ConnHooks == ASSUME TypeOK, HooksInv, NEW c \in Conns, Conn(c) PROVE HooksInv'
  <1>1. CASE ConnForward(c) \/ ConnRespond(c)
    <2>1. UNCHANGED <<command, busy, connPhase, cleanup, opens, closes, close, hook, stream, route>>
      BY <1>1 DEF ConnForward, ConnRespond, workerVars, routeVars, hookVars
    <2>2. HOpened'
      BY <2>1, OpenedKept DEF HooksInv
    <2> QED
      BY <2>1, <2>2, SameEvents, NeutralStep
  <1> QED
    BY <1>1, ConnSendOpenHooks, ConnPhaseHooks, ConnTransferHooks, CleanupCloseHooks DEF Conn

-----------------------------------------------------------------------------
(* The steps of the route task and of the hook task *)

LEMMA RouteHooks == ASSUME TypeOK, HooksInv, Route PROVE HooksInv'
  <1>1. CASE RouteRecv
    <2>1. Head(stream) \in Elems(stream) /\ Elems(Tail(stream)) \subseteq Elems(stream)
      BY <1>1, ElemsHeadTail DEF RouteRecv, TypeOK, RouteOK
    <2>2. opens[route'.conn] = 1 /\ \A i \in Elems(stream') : i \in Elems(stream)
      BY <1>1, <2>1 DEF RouteRecv, HooksInv, HOpened
    <2>3. UNCHANGED <<command, busy, connPhase, cleanup, opens, closes, close, hook>>
      BY <1>1 DEF RouteRecv, workerVars, connVars, hookVars
    <2>4. HOpened'
      BY <2>2, <2>3, OpenedKept DEF HooksInv
    <2> QED
      BY <2>3, <2>4, SameEvents, NeutralStep
  <1>2. CASE RouteReturn \/ HandlerPanic
    <2>1. /\ UNCHANGED <<command, busy, connPhase, cleanup, opens, closes, close, hook>>
          /\ route' = None /\ stream' \in {stream, <<>>}
      BY <1>2 DEF RouteReturn, HandlerPanic, workerVars, connVars, hookVars
    <2>2. HOpened'
      BY <2>1, ElemsEmpty, OpenedKept DEF HooksInv
    <2> QED
      BY <2>1, <2>2, SameEvents, NeutralStep
  <1>3. CASE RouteCommit
    <2>1. PICK e : e = CommitOf(route)
      OBVIOUS
    <2>2. e \in Command /\ e.op = "CommitReturn"
      BY <1>3, <2>1, CommandFact DEF RouteCommit, CommitOf, TypeOK, RouteOK
    <2>3. /\ UNCHANGED <<busy, connPhase, cleanup, opens, closes, close, hook, stream>>
          /\ route' = None
          /\ command' = command \/ command' = Append(command, e)
      BY <1>3, <2>1 DEF RouteCommit, connVars, hookVars
    <2>4. EventsKept /\ \A q \in Elems(command') : q \in Elems(command) \/ q = e
      BY <2>2, <2>3, SameEvents, OtherCommand DEF TypeOK
    <2>5. HOpened'
      BY <2>2, <2>3, <2>4, OpenedKept DEF HooksInv
    <2> QED
      BY <2>3, <2>4, <2>5, NeutralStep
  <1> QED
    BY <1>1, <1>2, <1>3 DEF Route

LEMMA HookTakeOpenHooks == ASSUME TypeOK, HooksInv, HookTakeOpen PROVE HooksInv'
  <1>1. PICK d \in Conns : d = busy.conn
    BY BusyFact DEF TypeOK, HookTakeOpen
  <1>2. /\ UNCHANGED <<command, busy, connPhase, cleanup, opens, closes, close, stream, route>>
        /\ hook = None /\ hook' = [ev |-> "open", conn |-> d]
        /\ busy \in Inside /\ busy.op = "AwaitOpen"
    BY <1>1 DEF HookTakeOpen, workerVars, connVars, routeVars, TypeOK, WorkerOK, Command, Idle
  <1>3. busy = [op |-> "AwaitOpen", conn |-> d]
    BY <1>1, <1>2 DEF Inside
  <1>4. HPhase' /\ HOpened'
    BY <1>2, OpenedKept DEF HooksInv, HPhase
  <1>5. HOpen'
    BY <1>2, <1>3 DEF HooksInv, HOpen, OpenOf
  <1>6. HClose'
    BY <1>2 DEF HooksInv, HClose, CloseSent, CloseBusy, CloseQueued, CloseHooked,
                Closing, CleanedUp, CloseOf
  <1> QED
    BY <1>4, <1>5, <1>6 DEF HooksInv

LEMMA HookOpenDoneHooks == ASSUME TypeOK, HooksInv, HookOpenDone PROVE HooksInv'
  <1>1. PICK d \in Conns : d = hook.conn
    BY HookFact DEF TypeOK, HooksOK, HookOpenDone, HookRunning
  <1>2. /\ busy = [op |-> "AwaitOpen", conn |-> d]
        /\ UNCHANGED <<command, cleanup, closes, close, stream, route>>
        /\ hook # None /\ hook.ev = "open" /\ hook' = None /\ busy' = Idle
    BY <1>1 DEF HookOpenDone, HookRunning, HooksInv, HOpen, routeVars
  <1>3. connPhase[d] = "handshake" /\ ~Has(command, OpenOf(d)) /\ opens[d] = 0
    BY <1>2 DEF HooksInv, HOpen, HPhase
  <1>4. /\ \A c \in Conns : opens'[c] = IF c = d THEN 1 ELSE opens[c]
        /\ \A c \in Conns : connPhase'[c] = IF c = d THEN "upgrading" ELSE connPhase[c]
    BY <1>1, <1>3 DEF HookOpenDone, TypeOK, HooksOK, ConnsOK
  <1>5. HPhase'
    BY <1>2, <1>3, <1>4 DEF HooksInv, HPhase
  <1>6. HOpen'
    <2>1. busy'.op = "none"
      BY <1>2 DEF Idle
    <2> QED
      BY <1>2, <1>3, <1>4, <2>1 DEF HooksInv, HOpen, OpenOf
  <1>7. HClose'
    BY <1>2 DEF HooksInv, HClose, CloseSent, CloseBusy, CloseQueued, CloseHooked,
                Closing, CleanedUp, CloseOf, Idle
  <1>8. HOpened'
    <2>1. \A c : c \in Conns /\ opens[c] = 1 => opens'[c] = 1
      BY <1>4
    <2>2. \A q \in Elems(command) : q.op = "Transfer" => q.item.conn \in Conns
      <3>1. \A q \in Command : q.op = "Transfer" => q.item.conn \in Conns
        BY SMT DEF Command, Items
      <3> QED
        BY <3>1, ElemsType DEF TypeOK, WorkerOK
    <2>3. /\ \A i \in Elems(stream) : i.conn \in Conns
          /\ route # None => route.conn \in Conns
      BY PacketFact, ElemsType DEF TypeOK, RouteOK
    <2>4. busy'.op # "Transfer"
      BY <1>2 DEF Idle
    <2> QED
      BY <1>2, <2>1, <2>2, <2>3, <2>4 DEF HooksInv, HOpened
  <1> QED
    BY <1>5, <1>6, <1>7, <1>8 DEF HooksInv

LEMMA HookTakeCloseHooks == ASSUME TypeOK, HooksInv, HookTakeClose PROVE HooksInv'
  <1>1. PICK d, rest : d = Head(close) /\ rest = Tail(close)
    OBVIOUS
  <1>2. /\ UNCHANGED <<command, busy, connPhase, cleanup, opens, closes, stream, route>>
        /\ hook = None /\ hook' = [ev |-> "close", conn |-> d]
        /\ close \in Seq(Conns) /\ close # <<>> /\ close' = rest
    BY <1>1 DEF HookTakeClose, workerVars, connVars, routeVars, TypeOK, HooksOK
  <1>3. ASSUME NEW M
        PROVE  /\ Has(close, M) <=> d \in M \/ Has(rest, M)
               /\ AtMostOne(close, M) => AtMostOne(rest, M) /\ ~(d \in M /\ Has(rest, M))
    BY <1>1, <1>2, HasTail
  <1>4. HPhase' /\ HOpened'
    BY <1>2, OpenedKept DEF HooksInv, HPhase
  <1>5. hook'.ev = "close" /\ hook'.conn = d /\ \A c : CloseHooked(c)' => c = d
    BY <1>2 DEF CloseHooked
  <1>6. HOpen'
    BY <1>2, <1>5 DEF HooksInv, HOpen, OpenOf
  <1>7. HClose'
    <2> SUFFICES ASSUME NEW c \in Conns
                 PROVE  /\ AtMostOne(command, CloseOf(c)) /\ AtMostOne(rest, {c})
                        /\ closes[c] \in {0, 1}
                        /\ closes[c] = 1 => CleanedUp(c)
                        /\ c = d => Closing(c)
                        /\ Has(rest, {c}) => Closing(c) /\ c # d
                        /\ CloseBusy(c) => Closing(c) /\ c # d /\ ~Has(rest, {c})
                        /\ CloseSent(c) =>
                               Closing(c) /\ c # d /\ ~Has(rest, {c}) /\ ~CloseBusy(c)
      BY <1>2, <1>5 DEF HClose, CloseSent, CloseBusy, CloseQueued, Closing,
                        CleanedUp, CloseOf
    <2>1. /\ CloseQueued(c) <=> c = d \/ Has(rest, {c})
          /\ AtMostOne(close, {c}) => AtMostOne(rest, {c}) /\ ~(c = d /\ Has(rest, {c}))
      BY <1>3 DEF CloseQueued
    <2> QED
      BY <2>1 DEF HooksInv, HClose
  <1> QED
    BY <1>4, <1>6, <1>7 DEF HooksInv

LEMMA HookCloseDoneHooks == ASSUME TypeOK, HooksInv, HookCloseDone PROVE HooksInv'
  <1>1. PICK d \in Conns : d = hook.conn
    BY HookFact DEF TypeOK, HooksOK, HookCloseDone, HookRunning
  <1>2. /\ UNCHANGED <<command, busy, connPhase, cleanup, opens, close, stream, route>>
        /\ hook # None /\ hook.ev = "close" /\ hook' = None
    BY DEF HookCloseDone, HookRunning, workerVars, connVars, routeVars
  <1>3. /\ CloseHooked(d) /\ \A c \in Conns : CloseHooked(c) => c = d
        /\ \A c \in Conns : ~CloseHooked(c)'
    BY <1>1, <1>2 DEF CloseHooked
  <1>4. Closing(d)
    BY <1>3 DEF HooksInv, HClose
  <1>5. \A c \in Conns : closes'[c] = IF c = d THEN 1 ELSE closes[c]
    BY <1>1, <1>4 DEF HookCloseDone, Closing, TypeOK, HooksOK
  <1>6. HPhase' /\ HOpened'
    BY <1>2, OpenedKept DEF HooksInv, HPhase
  <1>7. HOpen'
    BY <1>2 DEF HooksInv, HOpen, OpenOf
  <1>8. HClose'
    <2>1. \A c \in Conns : /\ CleanedUp(c)' <=> CleanedUp(c)
                           /\ CloseSent(c)' <=> CloseSent(c)
                           /\ CloseBusy(c)' <=> CloseBusy(c)
                           /\ CloseQueued(c)' <=> CloseQueued(c)
                           /\ Closing(c)' <=> CleanedUp(c) /\ closes'[c] = 0
      BY <1>2 DEF CleanedUp, CloseSent, CloseBusy, CloseQueued, Closing, CloseOf
    <2> QED
      BY <1>2, <1>3, <1>4, <1>5, <2>1 DEF HooksInv, HClose, Closing, CloseOf
  <1> QED
    BY <1>6, <1>7, <1>8 DEF HooksInv

LEMMA HookStopHooks == ASSUME TypeOK, HooksInv, HookStop PROVE HooksInv'
  <1>1. /\ UNCHANGED <<command, busy, connPhase, cleanup, opens, closes, hook, stream, route>>
        /\ close' = <<>>
    BY DEF HookStop, workerVars, connVars, routeVars
  <1>2. HPhase' /\ HOpened'
    BY <1>1, OpenedKept DEF HooksInv, HPhase
  <1>3. HOpen'
    BY <1>1 DEF HooksInv, HOpen, OpenOf
  <1>4. HClose'
    BY <1>1, HasEmpty DEF HooksInv, HClose, CloseSent, CloseBusy, CloseQueued, CloseHooked,
                          Closing, CleanedUp, CloseOf
  <1> QED
    BY <1>2, <1>3, <1>4 DEF HooksInv

-----------------------------------------------------------------------------
(* The theorems *)

LEMMA InitHooks == Init => HooksInv
  <1> SUFFICES ASSUME Init PROVE HooksInv
    OBVIOUS
  <1>1. \A M : ~Has(command, M) /\ AtMostOne(command, M) /\ ~Has(close, M) /\ AtMostOne(close, M)
    BY HasEmpty DEF Init
  <1>2. busy.op = "none" /\ hook = None /\ Elems(command) = {} /\ Elems(stream) = {} /\ route = None
    BY ElemsEmpty DEF Init, Idle
  <1>3. \A c \in Conns : /\ opens[c] = IF c \in Established THEN 1 ELSE 0
                         /\ connPhase[c] = IF c \in Established THEN "open" ELSE "new"
                         /\ cleanup[c] = "none" /\ closes[c] = 0
    BY DEF Init
  <1>4. HPhase
    BY <1>3 DEF HPhase
  <1>5. HOpen /\ HOpened
    BY <1>1, <1>2 DEF HOpen, HOpened
  <1>6. HClose
    BY <1>1, <1>2, <1>3 DEF HClose, CloseSent, CloseBusy, CloseQueued, CloseHooked, Closing
  <1> QED
    BY <1>4, <1>5, <1>6 DEF HooksInv

LEMMA StepHooks == ASSUME TypeOK, HooksInv, [Next]_vars PROVE HooksInv'
  <1>1. ASSUME UNCHANGED <<command, busy, connPhase, cleanup, opens, closes, close, hook,
                           stream, route>>
        PROVE  HooksInv'
    <2>1. HOpened'
      BY <1>1, OpenedKept DEF HooksInv
    <2> QED
      BY <1>1, <2>1, SameEvents, NeutralStep
  <1>2. CASE \E k \in Callers : CallUnbound(k) \/ \E a \in Addrs : CallStart(k, a)
    BY <1>1, <1>2 DEF CallStart, CallUnbound, workerVars, connVars, routeVars, hookVars
  <1>3. CASE \E c \in Conns : PeerClose(c) \/ PeerRead(c) \/ \E p \in PeerCalls : PeerCall(p, c)
    BY <1>1, <1>3 DEF PeerClose, PeerRead, PeerCall, workerVars, connVars, routeVars, hookVars
  <1>4. CASE UnbindStart
    BY <1>1, <1>4 DEF UnbindStart, workerVars, connVars, hookVars
  <1>5. CASE UnbindSend
    <2> DEFINE e == [op |-> "RemoveWsRoute"]
    <2>1. /\ UNCHANGED <<busy, connPhase, cleanup, opens, closes, close, hook, stream, route>>
          /\ command' = command \/ command' = Append(command, e)
      BY <1>5 DEF UnbindSend, connVars, hookVars
    <2>2. e \in Command /\ e.op = "RemoveWsRoute"
      BY CommandFact
    <2>3. EventsKept /\ \A q \in Elems(command') : q \in Elems(command) \/ q = e
      BY <2>1, <2>2, SameEvents, OtherCommand DEF TypeOK
    <2>4. HOpened'
      BY <2>1, <2>2, <2>3, OpenedKept DEF HooksInv
    <2> QED
      BY <2>1, <2>3, <2>4, NeutralStep
  <1>6. CASE UNCHANGED vars
    BY <1>1, <1>6 DEF vars, workerVars, connVars, routeVars, hookVars
  <1> QED
    BY <1>2, <1>3, <1>4, <1>5, <1>6, CallSendHooks, WorkerHooks, ConnHooks, RouteHooks,
       HookTakeOpenHooks, HookOpenDoneHooks, HookTakeCloseHooks, HookCloseDoneHooks,
       HookStopHooks
       DEF Next, Hook, Unbind

LEMMA HooksInvariant == Spec => []HooksInv
  <1>1. TypeOK /\ HooksInv /\ [Next]_vars => HooksInv'
    BY StepHooks
  <1> QED
    BY <1>1, InitHooks, TypeCorrect, PTL DEF Spec

\* The open hook of a connection runs once, before any message of it reaches the
\* route, and its close hook at most once, after its task has ended: whatever
\* connections there are, however they end, and whenever the route is removed or
\* the worker dies (server/handler.rs, server/binding.rs).
THEOREM HooksInOrder == Spec => []HookOrder
  <1>1. HooksInv => HookOrder
    <2> SUFFICES ASSUME HooksInv PROVE HookOrder
      OBVIOUS
    <2>1. ASSUME NEW c \in Conns
          PROVE  /\ opens[c] <= 1
                 /\ closes[c] <= opens[c]
                 /\ closes[c] = 1 => connPhase[c] \in {"exited", "gone"}
                 /\ connPhase[c] \notin {"new", "handshake", "rejected"} => opens[c] = 1
      <3>1. closes[c] = 1 => cleanup[c] \in {"remove", "done"}
        BY DEF HooksInv, HClose, CleanedUp
      <3>2. closes[c] = 1 => connPhase[c] \in {"exited", "gone"} /\ opens[c] = 1
        BY <3>1 DEF HooksInv, HPhase
      <3>3. opens[c] \in {0, 1} /\ closes[c] \in {0, 1}
        BY DEF HooksInv, HPhase, HClose
      <3>4. opens[c] <= 1 /\ closes[c] <= opens[c]
        BY <3>2, <3>3
      <3> QED
        BY <3>2, <3>4 DEF HooksInv, HPhase
    <2>2. \A i \in 1 .. Len(stream) : opens[stream[i].conn] = 1
      BY DEF HooksInv, HOpened, Elems
    <2> QED
      BY <2>1, <2>2 DEF HookOrder, HooksInv, HOpened
  <1> QED
    BY <1>1, HooksInvariant, PTL

\* What keeps NoGhostEntry is its own shape: only the clean-up of a connection
\* ends its claim to its entry, and takes the entry away.
\* An entry of the registry belongs to a connection that is being served or has
\* still to be cleaned up, under its own address (WsConnGuard, server/conn.rs).
-----------------------------------------------------------------------------
(* The registry *)

\* What a step does to the registry, the phase of a connection and its clean-up.
LEMMA RegistryStep ==
  ASSUME TypeOK, HooksInv, [Next]_vars
  PROVE  \/ /\ UNCHANGED WS_CONNS
            /\ \A c \in Conns : Serving(c)' <=> Serving(c)
            /\ \A c \in Conns : cleanup[c] \in {"close", "remove"} =>
                                    cleanup'[c] \in {"close", "remove"}
         \/ \E c \in Conns :
                /\ UNCHANGED cleanup
                /\ WS_CONNS' = [WS_CONNS EXCEPT ![AddrOf[c]] = c]
                /\ \A d \in Conns : Serving(d)' <=> Serving(d) \/ d = c
         \/ \E c \in Conns :
                /\ UNCHANGED WS_CONNS
                /\ cleanup' = [cleanup EXCEPT ![c] = "close"]
                /\ \A d \in Conns : Serving(d)' <=> Serving(d) /\ d # c
         \/ \E c \in Conns :
                /\ ~Serving(c) /\ cleanup[c] = "remove"
                /\ WS_CONNS' = [WS_CONNS EXCEPT ![AddrOf[c]] = None]
                /\ cleanup' = [cleanup EXCEPT ![c] = "done"]
                /\ \A d \in Conns : Serving(d)' <=> Serving(d)
  <1> DEFINE Kept == /\ UNCHANGED WS_CONNS
                     /\ \A c \in Conns : Serving(c)' <=> Serving(c)
                     /\ \A c \in Conns : cleanup[c] \in {"close", "remove"} =>
                                             cleanup'[c] \in {"close", "remove"}
  <1>1. ASSUME UNCHANGED <<WS_CONNS, connPhase, cleanup>> PROVE Kept
    BY <1>1 DEF Serving
  <1>2. CASE \/ \E k \in Callers : CallSend(k) \/ CallUnbound(k) \/ \E a \in Addrs : CallStart(k, a)
             \/ Route \/ Unbind \/ UNCHANGED vars
             \/ \E c \in Conns : PeerClose(c) \/ PeerRead(c) \/ \E p \in PeerCalls : PeerCall(p, c)
    <2>1. UNCHANGED <<WS_CONNS, connPhase, cleanup>>
      BY <1>2 DEF CallSend, CallUnbound, CallStart, Route, RouteRecv, RouteReturn, RouteCommit,
                  HandlerPanic, Unbind, UnbindStart, UnbindSend, PeerClose, PeerRead,
                  PeerCall, connVars, vars
    <2> QED
      BY <1>1, <2>1
  <1>3. CASE Worker
    <2>1. UNCHANGED <<WS_CONNS, cleanup>>
      BY <1>3 DEF Worker, WorkerRecv, WorkerFind, WorkerForward, WorkerRefused, WorkerTransfer,
                  WorkerDie, WorkerCommit, WorkerWsOpen, WorkerWsClose, WorkerSendClose,
                  WorkerRemoveRoute, connVars
    <2>2. \A c \in Conns : Serving(c)' <=> Serving(c)
      <3>1. CASE WorkerDie
        BY <3>1 DEF WorkerDie, Serving
      <3>2. CASE WorkerWsOpen
        <4>1. busy.conn \in Conns /\ connPhase[busy.conn] = "handshake"
          BY <3>2, BusyFact DEF WorkerWsOpen, TypeOK, HooksInv, HOpen
        <4> QED
          BY <3>2, <4>1 DEF WorkerWsOpen, Serving, TypeOK, ConnsOK
      <3>3. CASE UNCHANGED connPhase
        BY <3>3 DEF Serving
      <3> QED
        BY <1>3, <3>1, <3>2, <3>3
           DEF Worker, WorkerRecv, WorkerFind, WorkerForward, WorkerRefused, WorkerTransfer,
               WorkerCommit, WorkerWsClose, WorkerSendClose, WorkerRemoveRoute, connVars
    <2> QED
      BY <2>1, <2>2
  <1>4. CASE Hook
    <2>1. UNCHANGED <<WS_CONNS, cleanup>>
      BY <1>4 DEF Hook, HookTakeOpen, HookOpenDone, HookTakeClose, HookCloseDone, HookStop,
                  connVars
    <2>2. \A c \in Conns : Serving(c)' <=> Serving(c)
      <3>1. CASE HookOpenDone
        <4>1. hook.conn \in Conns
          BY <3>1, HookFact DEF TypeOK, HooksOK, HookOpenDone, HookRunning
        <4>2. busy.op \in {"WsOpen", "AwaitOpen"} /\ busy.conn = hook.conn
          BY <3>1 DEF HookOpenDone, HookRunning, HooksInv, HOpen
        <4>3. connPhase[hook.conn] = "handshake"
          BY <4>2 DEF HooksInv, HOpen
        <4> QED
          BY <3>1, <4>1, <4>3 DEF HookOpenDone, Serving, TypeOK, ConnsOK
      <3>2. CASE UNCHANGED connPhase
        BY <3>2 DEF Serving
      <3> QED
        BY <1>4, <3>1, <3>2 DEF Hook, HookTakeOpen, HookTakeClose, HookCloseDone, HookStop,
                                connVars
    <2> QED
      BY <2>1, <2>2
  <1>5. ASSUME NEW c \in Conns, Conn(c)
        PROVE  \/ Kept
               \/ /\ UNCHANGED cleanup
                  /\ WS_CONNS' = [WS_CONNS EXCEPT ![AddrOf[c]] = c]
                  /\ \A d \in Conns : Serving(d)' <=> Serving(d) \/ d = c
               \/ /\ UNCHANGED WS_CONNS
                  /\ cleanup' = [cleanup EXCEPT ![c] = "close"]
                  /\ \A d \in Conns : Serving(d)' <=> Serving(d) /\ d # c
               \/ /\ ~Serving(c) /\ cleanup[c] = "remove"
                  /\ WS_CONNS' = [WS_CONNS EXCEPT ![AddrOf[c]] = None]
                  /\ cleanup' = [cleanup EXCEPT ![c] = "done"]
                  /\ \A d \in Conns : Serving(d)' <=> Serving(d)
    <2>1. CASE ConnSendOpen(c) \/ ConnUpgradeFails(c) \/ ConnIncoming(c) \/ ConnTransfer(c)
               \/ ConnDropRx(c)
      <3>1. \A d \in Conns : connPhase'[d] = IF d = c THEN connPhase'[c] ELSE connPhase[d]
        BY <2>1 DEF ConnSendOpen, ConnUpgradeFails, ConnIncoming, ConnTransfer, ConnDropRx,
                    TypeOK, ConnsOK
      <3>2. \/ /\ connPhase[c] \in {"open", "sending"}
               /\ connPhase'[c] \in {"open", "sending"}
            \/ /\ connPhase[c] \notin {"open", "sending"}
               /\ connPhase'[c] \notin {"open", "sending"}
        BY <2>1 DEF ConnSendOpen, ConnUpgradeFails, ConnIncoming, ConnTransfer, ConnDropRx,
                    TypeOK, ConnsOK
      <3>3. UNCHANGED <<WS_CONNS, cleanup>>
        BY <2>1 DEF ConnSendOpen, ConnUpgradeFails, ConnIncoming, ConnTransfer, ConnDropRx
      <3>4. Kept
        BY <3>1, <3>2, <3>3 DEF Serving
      <3> QED
        BY <3>4
    <2>2. CASE ConnRegister(c)
      BY <2>2 DEF ConnRegister, Serving, TypeOK, ConnsOK
    <2>3. CASE ConnForward(c) \/ ConnRespond(c)
      BY <1>1, <2>3 DEF ConnForward, ConnRespond
    <2>4. CASE ConnExit(c)
      BY <2>4 DEF ConnExit, Serving, TypeOK, ConnsOK
    <2>5. CASE CleanupClose(c)
      <3>1. UNCHANGED <<WS_CONNS, connPhase>>
        BY <2>5 DEF CleanupClose
      <3>2. \A d \in Conns : cleanup'[d] = IF d = c THEN "remove" ELSE cleanup[d]
        BY <2>5 DEF CleanupClose, TypeOK, ConnsOK
      <3>3. Kept
        BY <3>1, <3>2 DEF Serving
      <3> QED
        BY <3>3
    <2>6. CASE CleanupRemove(c)
      BY <2>6 DEF CleanupRemove, Serving, HooksInv, HPhase
    <2> QED
      BY <1>5, <2>1, <2>2, <2>3, <2>4, <2>5, <2>6 DEF Conn
  <1> QED
    BY <1>2, <1>3, <1>4, <1>5 DEF Next

\* An entry of the registry belongs to a connection that is being served, or that
\* its clean-up task has still to take out, under the connection's own address:
\* also when connections with the same address overwrite and remove each other's
\* entries (WsConnGuard, server/conn.rs).
THEOREM NoGhosts == Spec => []NoGhostEntry
  <1>1. ASSUME Init PROVE NoGhostEntry
    <2>1. ASSUME NEW a \in Addrs, WS_CONNS[a] # None
          PROVE  AddrOf[WS_CONNS[a]] = a /\ Serving(WS_CONNS[a])
      <3>1. /\ \E c \in Established : AddrOf[c] = a
            /\ WS_CONNS[a] = CHOOSE c \in Established : AddrOf[c] = a
        BY <1>1, <2>1 DEF Init
      <3>2. WS_CONNS[a] \in Established /\ AddrOf[WS_CONNS[a]] = a
        BY <3>1
      <3> QED
        BY <1>1, <3>2, EstablishedAssumption DEF Init, Serving
    <2> QED
      BY <2>1 DEF NoGhostEntry
  <1>2. ASSUME TypeOK, HooksInv, NoGhostEntry, [Next]_vars PROVE NoGhostEntry'
    <2>1. SUFFICES ASSUME NEW a \in Addrs, NEW d, d = WS_CONNS'[a], d # None
                   PROVE  AddrOf[d] = a /\ (Serving(d)' \/ cleanup'[d] \in {"close", "remove"})
      BY DEF NoGhostEntry, Serving
    <2>2. TypeOK'
      BY <1>2, StepType
    <2>3. d \in Conns
      BY <2>1, <2>2 DEF TypeOK, ConnsOK
    <2>4. ASSUME d = WS_CONNS[a]
          PROVE  AddrOf[d] = a /\ (Serving(d) \/ cleanup[d] \in {"close", "remove"})
      BY <1>2, <2>1, <2>4 DEF NoGhostEntry
    <2> QED
      BY <1>2, <2>1, <2>3, <2>4, RegistryStep, AddrAssumption DEF TypeOK, ConnsOK
  <1> QED
    BY <1>1, <1>2, TypeCorrect, HooksInvariant, PTL DEF Spec

\* A connection that is being served is in the registry from the start, and only
\* another one with its address takes its entry, by registering or by its clean-up:
\* whatever connections share an address, and in whatever order they come and go
\* (ws_dispatch, server/handler.rs, and WsConnGuard, server/conn.rs).
THEOREM RegistryLossesExplained == Spec => RegistryLosses
  <1>1. ASSUME TypeOK, HooksInv, [Next]_vars, NEW c \in Conns, LosesEntry(c)
        PROVE  \E d \in Conns \ {c} : TakesEntry(d, c)
    <2>1. AddrOf[c] \in Addrs /\ WS_CONNS \in [Addrs -> Conns \cup {None}]
      BY <1>1, AddrAssumption DEF TypeOK, ConnsOK
    <2>2. ~ (UNCHANGED WS_CONNS /\ (Serving(c)' => Serving(c)))
      BY <1>1 DEF LosesEntry
    <2>3. CASE \E d \in Conns : /\ WS_CONNS' = [WS_CONNS EXCEPT ![AddrOf[d]] = d]
                              /\ \A e \in Conns : Serving(e)' <=> Serving(e) \/ e = d
      BY <1>1, <2>1, <2>3 DEF LosesEntry, TakesEntry
    <2>4. CASE \E d \in Conns : /\ ~Serving(d) /\ cleanup[d] = "remove"
                              /\ WS_CONNS' = [WS_CONNS EXCEPT ![AddrOf[d]] = None]
                              /\ cleanup' = [cleanup EXCEPT ![d] = "done"]
                              /\ \A e \in Conns : Serving(e)' <=> Serving(e)
      BY <1>1, <2>1, <2>4 DEF LosesEntry, TakesEntry, TypeOK, ConnsOK
    <2> QED
      BY <1>1, <2>2, <2>3, <2>4, RegistryStep
  <1>2. TypeOK /\ HooksInv /\ [Next]_vars =>
            [\A c \in Conns : LosesEntry(c) => \E d \in Conns \ {c} : TakesEntry(d, c)]_vars
    BY <1>1
  <1> QED
    BY <1>2, TypeCorrect, HooksInvariant, PTL DEF Spec, RegistryLosses

=============================================================================
