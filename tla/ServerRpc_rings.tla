-------------------------- MODULE ServerRpc_rings ---------------------------
(***************************************************************************)
(* How many messages it takes until two tasks of the server wait for each  *)
(* other, each with the channel it sends to full.                          *)
(*                                                                         *)
(* The messages in a ring of full channels have different owners: calls of *)
(* the server, calls of the peers, connections that open or close, and the *)
(* removal of the route.  The invariants of the other modules say that a   *)
(* message of an owner is in one place at a time; what is missing of them  *)
(* is proved first.                                                        *)
(***************************************************************************)
EXTENDS ServerRpc_messages, FiniteSetTheorems

-----------------------------------------------------------------------------
(* The replies to a call are at one place too, up to the worker *)

Settles(k) ==
    /\ OneCopy(RepliesOf(k))
    /\ AtMostOne(command, CommitsOf(k))
    /\ Has(command, CommitsOf(k)) => Absent(RepliesOf(k))

LEMMA RepliesEnter ==
  ASSUME TypeOK, NEW k \in Callers, Request(k), Enters(RepliesOf(k)) PROVE runs[k] = 0
  <1>1. PICK c \in Conns : PeerRead(c) /\ Head(outgoing[c]).kind = "Call"
                           /\ ReplyItem(c, Head(outgoing[c])) \in RepliesOf(k)
    BY DEF Enters, RepliesOf, CallItem
  <1>2. PICK m : m = Head(outgoing[c])
    OBVIOUS
  <1>3. m \in ToPeer /\ m.kind = "Call" /\ m.of = k
    BY <1>1, <1>2, HeadTailProperties DEF PeerRead, TypeOK, PeersOK, RepliesOf, ReplyItem
  <1>4. m \in RequestsOf(k)
    BY <1>3 DEF RequestsOf
  <1> QED
    BY <1>1, <1>2, <1>4, PeerReadCall

LEMMA StepSettles ==
  ASSUME TypeOK, [Next]_vars, NEW k \in Callers, Request(k), Replies(k), Settles(k)
  PROVE  Settles(k)'
  <1>1. PICK R : R = RepliesOf(k) /\ R \in SUBSET Items
    BY DEF RepliesOf
  <1>2. Orderly(R)
    BY <1>1, StepOrderly
  <1>3. Enters(R) => Absent(R) /\ ~Has(command, CommitsOf(k))
    BY <1>1, RepliesEnter DEF Replies
  <1>4. OneCopy(R)'
    BY <1>1, <1>2, <1>3 DEF Orderly, Settles
  <1>5. command \in Seq(Command)
    BY DEF TypeOK, WorkerOK
  <1>6. PICK C : C = CommitsOf(k)
    OBVIOUS
  <1>7. AtMostOne(command, C) /\ (Has(command, C) => Absent(R))
    BY <1>1, <1>6 DEF Settles
  <1>8. CASE ~Has(command', C) \/ (Has(command, C) /\ AtMostOne(command', C))
    <2>1. AtMostOne(command', C)
      BY <1>8 DEF Has, AtMostOne
    <2>2. Has(command', C) => Absent(R)'
      BY <1>2, <1>3, <1>6, <1>7, <1>8 DEF Orderly
    <2> QED
      BY <1>1, <1>4, <1>6, <2>1, <2>2 DEF Settles, CommitsOf
  <1>9. CASE UNCHANGED command \/ command' = <<>>
    BY <1>7, <1>8, <1>9, HasEmpty
  <1>10. CASE WorkerRecv
    <2>1. command # <<>> /\ command' = Tail(command)
      BY <1>10 DEF WorkerRecv
    <2> QED
      BY <1>5, <1>7, <1>8, <2>1, HasTail
  <1>11. CASE \E e \in Command : Queues(e)
    <2>1. PICK e \in Command : Queues(e)
      BY <1>11
    <2>2. command' = Append(command, e)
      BY <2>1 DEF Queues
    <2>3. CASE e \notin C
      BY <1>5, <1>7, <1>8, <2>2, <2>3, HasAppend
    <2>4. CASE e \in C
      <3>1. RouteCommit /\ e = CommitOf(route)
        BY <1>6, <2>1, <2>4 DEF Queues, CommitsOf
      <3>2. route \in Items /\ route.msg.kind = "Ret" /\ route.msg.of = k
        BY <1>6, <2>4, <3>1 DEF RouteCommit, TypeOK, RouteOK, CommitsOf, CommitOf
      <3>3. InRoute(R)
        BY <1>1, <3>2 DEF InRoute, RepliesOf
      <3>4. ~Has(command, C) /\ Absent(R)'
        BY <1>1, <1>7, <3>1, <3>3, LeavesRoute DEF Absent, Settles
      <3>5. AtMostOne(command', C)
        BY <1>5, <1>7, <2>2, <3>4, HasAppend
      <3> QED
        BY <1>1, <1>4, <1>6, <3>4, <3>5 DEF Settles, CommitsOf
    <2> QED
      BY <2>3, <2>4
  <1> QED
    BY <1>9, <1>10, <1>11, StepChannel

LEMMA InitSettles == ASSUME Init, NEW k \in Callers PROVE Settles(k)
  <1>1. Absent(RepliesOf(k))
    BY InitAbsent DEF RepliesOf
  <1>2. OneCopy(RepliesOf(k))
    BY <1>1, HasEmpty DEF Init, Absent, OneCopy, AtConn
  <1> QED
    BY <1>1, <1>2, HasEmpty DEF Init, Settles

-----------------------------------------------------------------------------
(* The removal of the route *)

Unbinds ==
    /\ AtMostOne(command, {Removal})
    /\ Has(command, {Removal}) => binding = "queued" /\ busy # Removal
    /\ busy = Removal => binding = "queued"

LEMMA StepUnbinds == ASSUME TypeOK, [Next]_vars, Unbinds PROVE Unbinds'
  <1>1. \/ WorkerDie \/ WorkerRemoveRoute
        \/ binding' = binding \/ binding \in {"bound", "removing"}
    <2>1. CASE \E k \in Callers : CallUnbound(k) \/ CallSend(k) \/ \E a \in Addrs : CallStart(k, a)
      BY <2>1 DEF CallUnbound, CallSend, CallStart, routeVars
    <2>2. CASE Worker
      BY <2>2 DEF Worker, WorkerRecv, WorkerFind, WorkerForward, WorkerRefused, WorkerTransfer,
             WorkerCommit, WorkerWsOpen, WorkerWsClose, WorkerSendClose, routeVars
    <2>3. CASE \E c \in Conns : \/ Conn(c) \/ PeerClose(c) \/ PeerRead(c)
                                \/ \E p \in PeerCalls : PeerCall(p, c)
      BY <2>3 DEF Conn, ConnSendOpen, ConnUpgradeFails, ConnRegister, ConnForward,
             ConnRespond, ConnIncoming, ConnTransfer, ConnExit, ConnDropRx, CleanupClose,
             CleanupRemove, PeerClose, PeerCall, PeerRead, routeVars
    <2>4. CASE Route \/ UNCHANGED vars
      BY <2>4 DEF Route, RouteRecv, RouteReturn, RouteCommit, HandlerPanic, vars,
             routeVars
    <2>5. CASE Hook
      BY <2>5 DEF Hook, HookTakeOpen, HookOpenDone, HookTakeClose, HookCloseDone,
             HookStop, routeVars
    <2>6. CASE Unbind
      BY <2>6 DEF Unbind, UnbindStart, UnbindSend
    <2> QED
      BY <2>1, <2>2, <2>3, <2>4, <2>5, <2>6 DEF Next
  <1>4. Removal.op = "RemoveWsRoute" /\ command \in Seq(Command)
    BY DEF Removal, TypeOK, WorkerOK
  <1>5. CASE WorkerRecv
    <2>1. PICK q, rest : q = Head(command) /\ rest = Tail(command)
      OBVIOUS
    <2>2. command # <<>> /\ command' = rest /\ busy' = q /\ binding' = binding
      BY <1>5, <2>1 DEF WorkerRecv, routeVars
    <2>3. /\ Has(command, {Removal}) <=> q = Removal \/ Has(rest, {Removal})
          /\ AtMostOne(rest, {Removal}) /\ ~(q = Removal /\ Has(rest, {Removal}))
      BY <1>4, <2>1, <2>2, HasTail DEF Unbinds
    <2> QED
      BY <1>1, <2>2, <2>3 DEF Unbinds
  <1>6. CASE WorkerDie
    <2>1. command' = <<>> /\ busy'.op # "RemoveWsRoute"
      BY <1>6 DEF WorkerDie, Idle
    <2> QED
      BY <1>1, <1>4, <2>1, HasEmpty DEF Unbinds
  <1>7. CASE WorkerRemoveRoute
    <2>1. busy = Removal /\ UNCHANGED command /\ busy'.op # "RemoveWsRoute"
      <3>1. busy \in Command \cup Inside \cup {Idle} /\ busy.op = "RemoveWsRoute"
        BY <1>7 DEF WorkerRemoveRoute, TypeOK, WorkerOK
      <3>2. busy = Removal
        BY <3>1, SMT DEF Command, Inside, Idle, Removal
      <3> QED
        BY <1>7, <3>2 DEF WorkerRemoveRoute, Idle
    <2> QED
      BY <1>1, <1>4, <2>1 DEF Unbinds
  <1>8. CASE ~WorkerRecv /\ ~WorkerDie /\ ~WorkerRemoveRoute
    <2>1. busy' = Removal => busy = Removal
      BY <1>4, <1>8, StepBusy
    <2>2. binding = "queued" => binding' = "queued"
      BY <1>1, <1>8
    <2>3. CASE UNCHANGED command \/ command' = <<>>
      BY <1>1, <2>1, <2>2, <2>3, HasEmpty DEF Unbinds
    <2>4. CASE \E e \in Command : Queues(e)
      <3>1. PICK e \in Command : Queues(e)
        BY <2>4
      <3>2. command' = Append(command, e)
        BY <3>1 DEF Queues
      <3>3. CASE e # Removal
        <4>1. AtMostOne(command', {Removal}) /\ (Has(command', {Removal}) => Has(command, {Removal}))
          BY <1>4, <3>2, <3>3, HasAppend DEF Unbinds
        <4> QED
          BY <1>1, <2>1, <2>2, <4>1 DEF Unbinds
      <3>4. CASE e = Removal
        <4>1. binding = "removing" /\ binding' = "queued" /\ busy' = busy
          BY <3>1, <3>4 DEF Queues
        <4>2. ~Has(command, {Removal}) /\ busy # Removal
          BY <4>1 DEF Unbinds
        <4>3. AtMostOne(command', {Removal})
          BY <1>4, <3>2, <4>2, HasAppend DEF Unbinds
        <4> QED
          BY <1>1, <4>1, <4>2, <4>3 DEF Unbinds
      <3> QED
        BY <3>3, <3>4
    <2> QED
      BY <1>8, <2>3, <2>4, StepChannel
  <1> QED
    BY <1>5, <1>6, <1>7, <1>8

RingInv == (\A k \in Callers : Settles(k)) /\ Unbinds

LEMMA InitRings == Init => RingInv
  <1> SUFFICES ASSUME Init PROVE RingInv
    OBVIOUS
  <1>1. \A k \in Callers : Settles(k)
    BY InitSettles
  <1>2. Unbinds
    BY HasEmpty DEF Init, Unbinds, Removal, Idle
  <1> QED
    BY <1>1, <1>2 DEF RingInv

LEMMA RingInvariant == Spec => []RingInv
  <1>1. TypeOK /\ CallsInv /\ RingInv /\ [Next]_vars => RingInv'
    BY StepSettles, StepUnbinds DEF RingInv, CallsInv
  <1> QED
    BY <1>1, InitRings, TypeCorrect, CallsInvariant, PTL DEF Spec

-----------------------------------------------------------------------------
(* Whose message it is *)

MsgOwner(m) == IF m.kind = "Call" THEN <<"peer", m.of>> ELSE <<"call", m.of>>

CommandOwner(e) ==
    CASE e.op \in {"CallRemotely", "CommitReturn"} -> <<"call", e.of>>
      [] e.op = "Transfer" -> MsgOwner(e.item.msg)
      [] e.op \in {"WsOpen", "WsClose"} -> <<"conn", e.conn>>
      [] OTHER -> <<"route", "removal">>

CommandsOf(o) == {e \in Command : CommandOwner(e) = o}
ItemsOf(o) == {i \in Items : MsgOwner(i.msg) = o}

\* The calls with a message in some place between two tasks, or in the hands of the worker.
CallsUnderWay ==
    {k \in Callers : \/ Asked(k) \/ AskedBusy(k) \/ \E c \in Conns : InRx(c, k)
                     \/ Has(command, CommitsOf(k)) \/ ~Absent(RepliesOf(k))}
PeerCallsUnderWay == {p \in PeerCalls : ~Absent(CallsFrom(p))}
EventsUnderWay == {c \in Conns : Has(command, OpenOf(c)) \/ Has(command, CloseOf(c))}
RemovalsUnderWay == {r \in {"removal"} : Has(command, {Removal})}

Owners(calls, peers, conns, removals) ==
    ({"call"} \X calls) \cup ({"peer"} \X peers) \cup ({"conn"} \X conns)
    \cup ({"route"} \X removals)

Load == Owners(CallsUnderWay, PeerCallsUnderWay, EventsUnderWay, RemovalsUnderWay)

LEMMA ItemsOfOwner ==
  /\ \A k \in Callers : ItemsOf(<<"call", k>>) = RepliesOf(k)
  /\ \A p \in PeerCalls : ItemsOf(<<"peer", p>>) = CallsFrom(p)
  /\ \A i \in Items : \/ \E k \in Callers : MsgOwner(i.msg) = <<"call", k>>
                      \/ \E p \in PeerCalls : MsgOwner(i.msg) = <<"peer", p>>
  <1>1. \A i \in Items : \/ i.msg.kind = "Call" /\ i.msg.of \in PeerCalls
                         \/ i.msg.kind = "Ret" /\ i.msg.of \in Callers
    BY SMT DEF Items, FromPeer
  <1>2. \A x, y : <<"call", x>> # <<"peer", y>>
    BY SMT
  <1>3. \A i \in Items : \/ i.msg.kind = "Call" /\ MsgOwner(i.msg) = <<"peer", i.msg.of>>
                         \/ i.msg.kind = "Ret" /\ MsgOwner(i.msg) = <<"call", i.msg.of>>
    BY <1>1 DEF MsgOwner
  <1>4. ASSUME NEW k \in Callers PROVE ItemsOf(<<"call", k>>) = RepliesOf(k)
    <2>1. ASSUME NEW i \in Items
          PROVE  MsgOwner(i.msg) = <<"call", k>> <=> i.msg.kind = "Ret" /\ i.msg.of = k
      <3>1. CASE i.msg.kind = "Call" /\ MsgOwner(i.msg) = <<"peer", i.msg.of>>
        BY <1>2, <3>1
      <3>2. CASE i.msg.kind = "Ret" /\ MsgOwner(i.msg) = <<"call", i.msg.of>>
        BY <3>2
      <3> QED
        BY <1>3, <3>1, <3>2
    <2> QED
      BY <2>1 DEF ItemsOf, RepliesOf
  <1>5. ASSUME NEW p \in PeerCalls PROVE ItemsOf(<<"peer", p>>) = CallsFrom(p)
    <2>1. ASSUME NEW i \in Items
          PROVE  MsgOwner(i.msg) = <<"peer", p>> <=> i.msg.kind = "Call" /\ i.msg.of = p
      <3>1. CASE i.msg.kind = "Call" /\ MsgOwner(i.msg) = <<"peer", i.msg.of>>
        BY <3>1
      <3>2. CASE i.msg.kind = "Ret" /\ MsgOwner(i.msg) = <<"call", i.msg.of>>
        BY <1>2, <3>2
      <3> QED
        BY <1>3, <3>1, <3>2
    <2> QED
      BY <2>1 DEF ItemsOf, CallsFrom
  <1> QED
    BY <1>1, <1>3, <1>4, <1>5

\* The commands of an owner.
LEMMA CommandKinds ==
  ASSUME NEW e \in Command
  PROVE  \/ \E k \in Callers : e \in AsksOf(k) \cup CommitsOf(k) /\ CommandOwner(e) = <<"call", k>>
         \/ /\ e.op = "Transfer" /\ e.item \in Items /\ CommandOwner(e) = MsgOwner(e.item.msg)
            /\ e \in TransfersOf(ItemsOf(CommandOwner(e)))
         \/ \E c \in Conns : e \in OpenOf(c) \cup CloseOf(c) /\ CommandOwner(e) = <<"conn", c>>
         \/ e = Removal /\ CommandOwner(e) = <<"route", "removal">>
  <1>1. CASE e.op = "CallRemotely"
    <2>1. e.of \in Callers /\ e = [op |-> "CallRemotely", of |-> e.of]
      BY <1>1, SMT DEF Command
    <2>2. CommandOwner(e) = <<"call", e.of>>
      BY <1>1 DEF CommandOwner
    <2> QED
      BY <2>1, <2>2 DEF AsksOf
  <1>2. CASE e.op = "CommitReturn"
    <2>1. e.of \in Callers
      BY <1>2, SMT DEF Command
    <2>2. CommandOwner(e) = <<"call", e.of>>
      BY <1>2 DEF CommandOwner
    <2> QED
      BY <1>2, <2>1, <2>2 DEF CommitsOf
  <1>3. CASE e.op = "Transfer"
    <2>1. e.item \in Items /\ e = [op |-> "Transfer", item |-> e.item]
      BY <1>3, SMT DEF Command
    <2>2. CommandOwner(e) = MsgOwner(e.item.msg)
      BY <1>3 DEF CommandOwner
    <2> QED
      BY <1>3, <2>1, <2>2 DEF TransfersOf, ItemsOf
  <1>4. CASE e.op \in {"WsOpen", "WsClose"}
    <2>1. /\ e.conn \in Conns
          /\ \/ e = [op |-> "WsOpen", conn |-> e.conn]
             \/ e = [op |-> "WsClose", conn |-> e.conn]
      BY <1>4, SMT DEF Command
    <2>2. CommandOwner(e) = <<"conn", e.conn>>
      BY <1>4 DEF CommandOwner
    <2> QED
      BY <2>1, <2>2 DEF OpenOf, CloseOf
  <1>5. CASE e = Removal
    BY <1>5 DEF CommandOwner, Removal
  <1>6. \/ e.op \in {"CallRemotely", "CommitReturn", "Transfer", "WsOpen", "WsClose"}
        \/ e = Removal
    BY SMT DEF Command, Removal
  <1> QED
    BY <1>1, <1>2, <1>3, <1>4, <1>5, <1>6

LEMMA CommandsOfOwner ==
  /\ \A k \in Callers : CommandsOf(<<"call", k>>)
         \subseteq AsksOf(k) \cup CommitsOf(k) \cup TransfersOf(RepliesOf(k))
  /\ \A p \in PeerCalls : CommandsOf(<<"peer", p>>) \subseteq TransfersOf(CallsFrom(p))
  /\ \A c \in Conns : CommandsOf(<<"conn", c>>) \subseteq OpenOf(c) \cup CloseOf(c)
  /\ CommandsOf(<<"route", "removal">>) \subseteq {Removal}
  <1>1. \A x, y : /\ <<"call", x>> # <<"conn", y>> /\ <<"call", x>> # <<"route", y>>
                  /\ <<"peer", x>> # <<"conn", y>> /\ <<"peer", x>> # <<"route", y>>
                  /\ <<"conn", x>> # <<"route", y>> /\ <<"call", x>> # <<"peer", y>>
                  /\ <<"call", x>> = <<"call", y>> => x = y
                  /\ <<"peer", x>> = <<"peer", y>> => x = y
                  /\ <<"conn", x>> = <<"conn", y>> => x = y
    BY SMT
  <1>2. \A i \in Items : \/ \E k \in Callers : MsgOwner(i.msg) = <<"call", k>>
                         \/ \E p \in PeerCalls : MsgOwner(i.msg) = <<"peer", p>>
    BY ItemsOfOwner
  <1>3. ASSUME NEW k \in Callers, NEW e \in Command, CommandOwner(e) = <<"call", k>>
        PROVE  e \in AsksOf(k) \cup CommitsOf(k) \cup TransfersOf(RepliesOf(k))
    BY <1>1, <1>3, CommandKinds, ItemsOfOwner
  <1>4. ASSUME NEW p \in PeerCalls, NEW e \in Command, CommandOwner(e) = <<"peer", p>>
        PROVE  e \in TransfersOf(CallsFrom(p))
    BY <1>1, <1>4, CommandKinds, ItemsOfOwner
  <1>5. ASSUME NEW c \in Conns, NEW e \in Command, CommandOwner(e) = <<"conn", c>>
        PROVE  e \in OpenOf(c) \cup CloseOf(c)
    BY <1>1, <1>2, <1>5, CommandKinds
  <1>6. ASSUME NEW e \in Command, CommandOwner(e) = <<"route", "removal">> PROVE e = Removal
    BY <1>1, <1>2, <1>6, CommandKinds
  <1> QED
    BY <1>3, <1>4, <1>5, <1>6 DEF CommandsOf

-----------------------------------------------------------------------------
(* Two messages of one owner are not in a ring *)

Invs == TypeOK /\ HooksInv /\ ReturnsInv /\ CallsInv /\ RingInv

LEMMA OneItem ==
  ASSUME Invs, NEW i \in Items
  PROVE  i \in ItemsOf(MsgOwner(i.msg)) /\ OneCopy(ItemsOf(MsgOwner(i.msg)))
  <1>1. \A k \in Callers : OneCopy(RepliesOf(k))
    BY DEF Invs, RingInv, Settles
  <1>2. \A p \in PeerCalls : OneCopy(CallsFrom(p))
    BY DEF Invs, ReturnsInv, Returns
  <1>3. PICK o : o = MsgOwner(i.msg)
    OBVIOUS
  <1>4. OneCopy(ItemsOf(o))
    <2>1. ASSUME NEW k \in Callers, o = <<"call", k>> PROVE OneCopy(ItemsOf(o))
      <3>1. ItemsOf(o) = RepliesOf(k)
        BY <2>1, ItemsOfOwner
      <3> QED
        BY <1>1, <3>1
    <2>2. ASSUME NEW p \in PeerCalls, o = <<"peer", p>> PROVE OneCopy(ItemsOf(o))
      <3>1. ItemsOf(o) = CallsFrom(p)
        BY <2>2, ItemsOfOwner
      <3> QED
        BY <1>2, <3>1
    <2> QED
      BY <1>3, <2>1, <2>2, ItemsOfOwner
  <1> QED
    BY <1>3, <1>4 DEF ItemsOf

\* A call that has a request on its way has no reply on its way.
LEMMA CallApart ==
  ASSUME Invs, NEW k \in Callers
  PROVE  /\ Asked(k) => ~AskedBusy(k) /\ \A c \in Conns : ~InRx(c, k)
         /\ AskedBusy(k) => \A c \in Conns : ~InRx(c, k)
         /\ Asked(k) \/ AskedBusy(k) \/ (\E c \in Conns : InRx(c, k)) =>
                Absent(RepliesOf(k)) /\ ~Has(command, CommitsOf(k))
         /\ Has(command, CommitsOf(k)) => Absent(RepliesOf(k))
  <1>1. Request(k) /\ Replies(k) /\ Settles(k)
    BY DEF Invs, CallsInv, RingInv
  <1>2. Asked(k) \/ AskedBusy(k) \/ (\E c \in Conns : InRx(c, k)) => runs[k] = 0
    BY <1>1 DEF Request, Unsent
  <1> QED
    BY <1>1, <1>2 DEF Request, Unsent, Replies, Settles

LEMMA AtMostOneOf ==
  ASSUME NEW q, NEW L, NEW M, NEW N, L \subseteq M \cup N,
         AtMostOne(q, M), AtMostOne(q, N), ~(Has(q, M) /\ Has(q, N))
  PROVE  AtMostOne(q, L)
  BY DEF AtMostOne, Has

\* The commands in the channel have different owners.
LEMMA CommandsDiffer ==
  ASSUME Invs, NEW i \in 1 .. Len(command), NEW j \in 1 .. Len(command),
         CommandOwner(command[i]) = CommandOwner(command[j])
  PROVE  i = j
  <1>1. PICK o : o = CommandOwner(command[i])
    OBVIOUS
  <1>2. /\ command[i] \in Command /\ command[j] \in Command
        /\ command[i] \in CommandsOf(o) /\ command[j] \in CommandsOf(o)
    BY <1>1, ElementOfSeq DEF Invs, TypeOK, WorkerOK, CommandsOf
  <1>3. ASSUME NEW k \in Callers, o = <<"call", k>> PROVE AtMostOne(command, CommandsOf(o))
    <2>1. Request(k) /\ Settles(k)
      BY DEF Invs, CallsInv, RingInv
    <2>2. AtMostOne(command, AsksOf(k)) /\ AtMostOne(command, CommitsOf(k))
          /\ AtMostOne(command, TransfersOf(RepliesOf(k)))
      BY <2>1 DEF Request, Settles, OneCopy
    <2>3. /\ Has(command, AsksOf(k)) => /\ ~Has(command, CommitsOf(k))
                                        /\ ~Has(command, TransfersOf(RepliesOf(k)))
          /\ Has(command, CommitsOf(k)) => ~Has(command, TransfersOf(RepliesOf(k)))
      BY CallApart DEF Asked, Absent, InCommand
    <2>4. AtMostOne(command, AsksOf(k) \cup CommitsOf(k))
      BY <2>2, <2>3, AtMostOneOf
    <2>5. ~(Has(command, AsksOf(k) \cup CommitsOf(k)) /\ Has(command, TransfersOf(RepliesOf(k))))
      BY <2>3 DEF Has
    <2> QED
      BY <1>3, <2>2, <2>4, <2>5, AtMostOneOf, CommandsOfOwner
  <1>4. ASSUME NEW p \in PeerCalls, o = <<"peer", p>> PROVE AtMostOne(command, CommandsOf(o))
    <2>1. AtMostOne(command, TransfersOf(CallsFrom(p)))
      BY DEF Invs, ReturnsInv, Returns, OneCopy
    <2>2. CommandsOf(o) \subseteq TransfersOf(CallsFrom(p))
      BY <1>4, CommandsOfOwner
    <2> QED
      BY <2>1, <2>2 DEF AtMostOne
  <1>5. ASSUME NEW c \in Conns, o = <<"conn", c>> PROVE AtMostOne(command, CommandsOf(o))
    <2>1. AtMostOne(command, OpenOf(c)) /\ AtMostOne(command, CloseOf(c))
      BY DEF Invs, HooksInv, HOpen, HClose
    <2>2. Has(command, OpenOf(c)) => connPhase[c] = "handshake"
      BY DEF Invs, HooksInv, HOpen
    <2>3. Has(command, CloseOf(c)) => cleanup[c] # "none"
      BY DEF Invs, HooksInv, HClose, CloseSent, Closing, CleanedUp
    <2>4. cleanup[c] # "none" => connPhase[c] \in {"exited", "gone"}
      BY DEF Invs, HooksInv, HPhase
    <2> QED
      BY <1>5, <2>1, <2>2, <2>3, <2>4, AtMostOneOf, CommandsOfOwner
  <1>6. ASSUME o = <<"route", "removal">> PROVE AtMostOne(command, CommandsOf(o))
    <2>1. AtMostOne(command, {Removal}) /\ CommandsOf(o) \subseteq {Removal}
      BY <1>6, CommandsOfOwner DEF Invs, RingInv, Unbinds
    <2> QED
      BY <2>1 DEF AtMostOne
  <1>7. \/ \E k \in Callers : o = <<"call", k>>
        \/ \E p \in PeerCalls : o = <<"peer", p>>
        \/ \E c \in Conns : o = <<"conn", c>>
        \/ o = <<"route", "removal">>
    BY <1>1, <1>2, CommandKinds, ItemsOfOwner
  <1>8. AtMostOne(command, CommandsOf(o))
    BY <1>3, <1>4, <1>5, <1>6, <1>7
  <1> QED
    BY <1>2, <1>8 DEF AtMostOne

\* A message of the peers that is somewhere else has no command of its owner before it.
LEMMA ItemAlone ==
  ASSUME Invs, NEW n \in Items, NEW M, M = ItemsOf(MsgOwner(n.msg)),
         (\E c \in Conns : AtConn(c, M)) \/ InBusy(M) \/ InStream(M) \/ InRoute(M)
  PROVE  \A i \in 1 .. Len(command) : CommandOwner(command[i]) # MsgOwner(n.msg)
  <1> SUFFICES ASSUME NEW i \in 1 .. Len(command), CommandOwner(command[i]) = MsgOwner(n.msg)
               PROVE  FALSE
    OBVIOUS
  <1>1. ~Has(command, TransfersOf(M)) /\ ~Absent(M)
    BY OneItem DEF OneCopy, InCommand, Absent
  <1>2. command[i] \in Command /\ command[i] \in CommandsOf(MsgOwner(n.msg))
    BY ElementOfSeq DEF Invs, TypeOK, WorkerOK, CommandsOf
  <1>3. ASSUME NEW k \in Callers, MsgOwner(n.msg) = <<"call", k>> PROVE FALSE
    <2>1. M = RepliesOf(k)
      BY <1>3, ItemsOfOwner
    <2>2. ~Has(command, AsksOf(k)) /\ ~Has(command, CommitsOf(k))
      BY <1>1, <2>1, CallApart DEF Asked
    <2>3. command[i] \in AsksOf(k) \cup CommitsOf(k) \cup TransfersOf(M)
      BY <1>2, <1>3, <2>1, CommandsOfOwner
    <2> QED
      BY <1>1, <2>2, <2>3 DEF Has
  <1>4. ASSUME NEW p \in PeerCalls, MsgOwner(n.msg) = <<"peer", p>> PROVE FALSE
    <2>1. command[i] \in TransfersOf(M)
      BY <1>2, <1>4, CommandsOfOwner, ItemsOfOwner
    <2> QED
      BY <1>1, <2>1 DEF Has
  <1> QED
    BY <1>3, <1>4, ItemsOfOwner

\* A request of the server has no command of its call behind it.
LEMMA RequestAlone ==
  ASSUME Invs, NEW k \in Callers, (busy.op = "Forward" /\ busy.of = k) \/ \E c \in Conns : InRx(c, k)
  PROVE  /\ \A i \in 1 .. Len(command) : CommandOwner(command[i]) # <<"call", k>>
         /\ Absent(RepliesOf(k))
  <1>1. AskedBusy(k) \/ \E c \in Conns : InRx(c, k)
    BY DEF AskedBusy
  <1>2. ~Asked(k) /\ Absent(RepliesOf(k)) /\ ~Has(command, CommitsOf(k))
    BY <1>1, CallApart
  <1>3. ASSUME NEW i \in 1 .. Len(command), CommandOwner(command[i]) = <<"call", k>> PROVE FALSE
    <2>1. command[i] \in AsksOf(k) \cup CommitsOf(k) \cup TransfersOf(RepliesOf(k))
      <3>1. command[i] \in Command
        BY ElementOfSeq DEF Invs, TypeOK, WorkerOK
      <3> QED
        BY <1>3, <3>1, CommandsOfOwner DEF CommandsOf
    <2> QED
      BY <1>2, <2>1 DEF Has, Asked, Absent, InCommand
  <1> QED
    BY <1>2, <1>3

-----------------------------------------------------------------------------
(* Counting the owners *)

LEMMA TagCount ==
  ASSUME NEW t, NEW S, IsFiniteSet(S)
  PROVE  IsFiniteSet({t} \X S) /\ Cardinality({t} \X S) <= Cardinality(S)
  <1>1. PICK f : f = [x \in {t} \X S |-> x[2]]
    OBVIOUS
  <1>2. f \in [{t} \X S -> S] /\ \A x, y \in {t} \X S : f[x] = f[y] => x = y
    BY <1>1
  <1>3. f \in Injection({t} \X S, S)
    BY <1>2 DEF Injection, IsInjective
  <1> QED
    BY <1>3, FS_Injection

LEMMA UnionCount ==
  ASSUME NEW S, NEW T, IsFiniteSet(S), IsFiniteSet(T)
  PROVE  /\ IsFiniteSet(S \cup T)
         /\ Cardinality(S \cup T) <= Cardinality(S) + Cardinality(T)
  <1>1. IsFiniteSet(S \cap T) /\ IsFiniteSet(S \cup T)
    BY FS_Subset, FS_Union
  <1>2. /\ Cardinality(S) \in Nat /\ Cardinality(T) \in Nat /\ Cardinality(S \cap T) \in Nat
        /\ Cardinality(S \cup T) \in Nat
    BY <1>1, FS_CardinalityType
  <1>3. Cardinality(S \cup T) = Cardinality(S) + Cardinality(T) - Cardinality(S \cap T)
    BY FS_Union
  <1> QED
    BY <1>1, <1>2, <1>3, SMT

LEMMA OwnersCount ==
  ASSUME NEW A, NEW B, NEW C, NEW D,
         IsFiniteSet(A), IsFiniteSet(B), IsFiniteSet(C), IsFiniteSet(D)
  PROVE  /\ IsFiniteSet(Owners(A, B, C, D))
         /\ Cardinality(Owners(A, B, C, D))
                <= Cardinality(A) + Cardinality(B) + Cardinality(C) + Cardinality(D)
         /\ Cardinality(Owners(A, B, C, D)) \in Nat
  <1>1. PICK a, b, c, d : /\ a = {"call"} \X A /\ b = {"peer"} \X B
                          /\ c = {"conn"} \X C /\ d = {"route"} \X D
    OBVIOUS
  <1>2. /\ IsFiniteSet(a) /\ Cardinality(a) <= Cardinality(A)
        /\ IsFiniteSet(b) /\ Cardinality(b) <= Cardinality(B)
        /\ IsFiniteSet(c) /\ Cardinality(c) <= Cardinality(C)
        /\ IsFiniteSet(d) /\ Cardinality(d) <= Cardinality(D)
    BY <1>1, TagCount
  <1>3. /\ IsFiniteSet(a \cup b) /\ Cardinality(a \cup b) <= Cardinality(a) + Cardinality(b)
    BY <1>2, UnionCount
  <1>4. /\ IsFiniteSet((a \cup b) \cup c)
        /\ Cardinality((a \cup b) \cup c) <= Cardinality(a \cup b) + Cardinality(c)
    BY <1>2, <1>3, UnionCount
  <1>5. /\ IsFiniteSet(((a \cup b) \cup c) \cup d)
        /\ Cardinality(((a \cup b) \cup c) \cup d) <= Cardinality((a \cup b) \cup c) + Cardinality(d)
    BY <1>2, <1>4, UnionCount
  <1>6. Owners(A, B, C, D) = ((a \cup b) \cup c) \cup d
    BY <1>1 DEF Owners
  <1>7. /\ Cardinality(A) \in Nat /\ Cardinality(B) \in Nat /\ Cardinality(C) \in Nat
        /\ Cardinality(D) \in Nat /\ Cardinality(a) \in Nat /\ Cardinality(b) \in Nat
        /\ Cardinality(c) \in Nat /\ Cardinality(d) \in Nat /\ Cardinality(a \cup b) \in Nat
        /\ Cardinality((a \cup b) \cup c) \in Nat
        /\ Cardinality(((a \cup b) \cup c) \cup d) \in Nat
    BY <1>2, <1>3, <1>4, <1>5, FS_CardinalityType
  <1>8. ASSUME NEW u \in Nat, NEW v \in Nat, NEW w \in Nat, NEW p \in Nat, NEW q \in Nat,
               NEW r \in Nat, NEW s \in Nat, NEW x \in Nat, NEW y \in Nat, NEW z \in Nat,
               NEW n \in Nat, p <= u, q <= v, r <= w, s <= x,
               y <= p + q, z <= y + r, n <= z + s
        PROVE  n <= u + v + w + x
    BY <1>8, SMT
  <1> QED
    BY <1>2, <1>3, <1>4, <1>5, <1>6, <1>7, <1>8

\* Two full channels and two messages more, all of different owners.
LEMMA RingCount ==
  ASSUME NEW T, IsFiniteSet(T), NEW n \in Nat,
         NEW f, NEW g, NEW x \in T, NEW y \in T,
         \A i \in 1 .. n : f[i] \in T /\ g[i] \in T,
         \A i, j \in 1 .. n : f[i] = f[j] \/ g[i] = g[j] => i = j,
         \A i, j \in 1 .. n : f[i] # g[j],
         \A i \in 1 .. n : f[i] # x /\ f[i] # y /\ g[i] # x /\ g[i] # y,
         x # y
  PROVE  2 * n + 2 <= Cardinality(T)
  <1>1. PICK h : h = [i \in 1 .. 2 * n + 2 |-> IF i <= n THEN f[i]
                                               ELSE IF i <= 2 * n THEN g[i - n]
                                               ELSE IF i = 2 * n + 1 THEN x ELSE y]
    OBVIOUS
  <1>2. \A i \in 1 .. 2 * n + 2 :
            \/ i \in 1 .. n /\ h[i] = f[i]
            \/ i - n \in 1 .. n /\ h[i] = g[i - n]
            \/ i = 2 * n + 1 /\ h[i] = x
            \/ i = 2 * n + 2 /\ h[i] = y
    BY <1>1, SMT
  <1>3. \A i \in 1 .. 2 * n + 2 : h[i] \in T
    BY <1>2
  <1>4. \A i, j \in 1 .. 2 * n + 2 : h[i] = h[j] => i = j
    <2>1. \A i, j \in 1 .. 2 * n + 2 : i - n = j - n => i = j
      BY SMT
    <2> QED
      BY <1>2, <2>1
  <1>5. h \in Injection(1 .. 2 * n + 2, T)
    BY <1>1, <1>3, <1>4 DEF Injection, IsInjective
  <1>6. 2 * n + 2 \in Int /\ 1 \in Int /\ ~(1 > 2 * n + 2) /\ 2 * n + 2 - 1 + 1 = 2 * n + 2
    BY SMT
  <1>7. Cardinality(1 .. 2 * n + 2) = 2 * n + 2
    BY <1>6, FS_Interval
  <1> QED
    BY <1>5, <1>7, FS_Injection

-----------------------------------------------------------------------------
(* The owners of the messages in a ring *)

LEMMA CommandLoad ==
  ASSUME Invs, NEW i \in 1 .. Len(command) PROVE CommandOwner(command[i]) \in Load
  <1>1. PICK e : e = command[i]
    OBVIOUS
  <1>2. e \in Command
    BY <1>1, ElementOfSeq DEF Invs, TypeOK, WorkerOK
  <1>3. \A M : e \in M => Has(command, M)
    BY <1>1 DEF Has
  <1>4. ASSUME NEW k \in Callers, CommandOwner(e) = <<"call", k>>
        PROVE  k \in CallsUnderWay
    <2>1. e \in AsksOf(k) \cup CommitsOf(k) \cup TransfersOf(RepliesOf(k))
      BY <1>2, <1>4, CommandsOfOwner DEF CommandsOf
    <2> QED
      BY <1>3, <2>1 DEF CallsUnderWay, Asked, Absent, InCommand
  <1>5. ASSUME NEW p \in PeerCalls, CommandOwner(e) = <<"peer", p>>
        PROVE  p \in PeerCallsUnderWay
    <2>1. e \in TransfersOf(CallsFrom(p))
      BY <1>2, <1>5, CommandsOfOwner DEF CommandsOf
    <2> QED
      BY <1>3, <2>1 DEF PeerCallsUnderWay, Absent, InCommand
  <1>6. ASSUME NEW c \in Conns, CommandOwner(e) = <<"conn", c>>
        PROVE  c \in EventsUnderWay
    <2>1. e \in OpenOf(c) \cup CloseOf(c)
      BY <1>2, <1>6, CommandsOfOwner DEF CommandsOf
    <2> QED
      BY <1>3, <2>1 DEF EventsUnderWay
  <1>7. ASSUME CommandOwner(e) = <<"route", "removal">> PROVE "removal" \in RemovalsUnderWay
    <2>1. e = Removal
      BY <1>2, <1>7, CommandsOfOwner DEF CommandsOf
    <2> QED
      BY <1>3, <2>1 DEF RemovalsUnderWay
  <1>8. \/ \E k \in Callers : CommandOwner(e) = <<"call", k>>
        \/ \E p \in PeerCalls : CommandOwner(e) = <<"peer", p>>
        \/ \E c \in Conns : CommandOwner(e) = <<"conn", c>>
        \/ CommandOwner(e) = <<"route", "removal">>
    BY <1>2, CommandKinds, ItemsOfOwner
  <1> QED
    BY <1>1, <1>4, <1>5, <1>6, <1>7, <1>8 DEF Load, Owners

LEMMA ItemLoad ==
  ASSUME NEW n \in Items, ~Absent(ItemsOf(MsgOwner(n.msg))) PROVE MsgOwner(n.msg) \in Load
  <1>1. PICK o : o = MsgOwner(n.msg)
    OBVIOUS
  <1>2. ASSUME NEW k \in Callers, o = <<"call", k>> PROVE o \in Load
    <2>1. ItemsOf(o) = RepliesOf(k)
      BY <1>2, ItemsOfOwner
    <2>2. ~Absent(RepliesOf(k))
      BY <1>1, <2>1
    <2> QED
      BY <1>2, <2>2 DEF Load, Owners, CallsUnderWay
  <1>3. ASSUME NEW p \in PeerCalls, o = <<"peer", p>> PROVE o \in Load
    <2>1. ItemsOf(o) = CallsFrom(p)
      BY <1>3, ItemsOfOwner
    <2>2. ~Absent(CallsFrom(p))
      BY <1>1, <2>1
    <2> QED
      BY <1>3, <2>2 DEF Load, Owners, PeerCallsUnderWay
  <1> QED
    BY <1>1, <1>2, <1>3, ItemsOfOwner

LEMMA RequestLoad ==
  ASSUME NEW k \in Callers, AskedBusy(k) \/ \E c \in Conns : InRx(c, k) PROVE <<"call", k>> \in Load
  BY DEF Load, Owners, CallsUnderWay

\* What a full channel holds.
LEMMA FullChannel ==
  ASSUME NEW S, NEW q \in Seq(S), ~HasRoom(q)
  PROVE  \A i \in 1 .. Cap : i \in 1 .. Len(q) /\ q[i] \in S
  <1>1. Len(q) \in Nat /\ Cap \in Nat /\ Cap <= Len(q)
    BY LenProperties, BoundAssumption, SMT DEF HasRoom
  <1>2. \A i \in 1 .. Cap : i \in 1 .. Len(q)
    BY <1>1, SMT
  <1> QED
    BY <1>2, ElementOfSeq

LEMMA ConnRing ==
  ASSUME Invs, NEW c \in Conns, IsFiniteSet(Load),
         busy.op = "Forward", busy.conn = c, ~HasRoom(rx[c]),
         connPhase[c] = "sending", ~HasRoom(command)
  PROVE  2 * Cap + 2 <= Cardinality(Load)
  <1>1. PICK k \in Callers : k = busy.of
    BY BusyFact DEF Invs, TypeOK
  <1>2. PICK n \in Items : n = [conn |-> c, msg |-> held[c]]
    BY PacketFact DEF Invs, TypeOK, ConnsOK
  <1>3. PICK o : o = MsgOwner(n.msg)
    OBVIOUS
  <1>4. AtConn(c, ItemsOf(o)) /\ OneCopy(ItemsOf(o)) /\ ~Absent(ItemsOf(o))
    <2>1. n \in ItemsOf(o) /\ OneCopy(ItemsOf(o))
      BY <1>3, OneItem
    <2>2. held[c] \in FromPeer /\ held[c] \in Msgs(c, ItemsOf(o))
      BY <1>2, <2>1 DEF Invs, TypeOK, ConnsOK, Msgs
    <2> QED
      BY <2>1, <2>2 DEF AtConn, InHeld, Absent
  <1>5. ASSUME NEW i \in 1 .. Cap
        PROVE  i \in 1 .. Len(command) /\ i \in 1 .. Len(rx[c])
               /\ rx[c][i].of \in Callers /\ rx[c][i] \in RequestsOf(rx[c][i].of)
               /\ InRx(c, rx[c][i].of)
    <2>1. command \in Seq(Command) /\ rx[c] \in Seq(ToPeer)
      BY DEF Invs, TypeOK, WorkerOK, ConnsOK
    <2>2. i \in 1 .. Len(command) /\ i \in 1 .. Len(rx[c]) /\ rx[c][i] \in ToPeer
      BY <2>1, FullChannel
    <2>3. rx[c][i].kind = "Call"
      <3>1. \A p \in PeerCalls : ~Has(rx[c], RetsOf(p))
        BY DEF Invs, ReturnsInv, Returns
      <3>2. \A p \in PeerCalls : rx[c][i] # [kind |-> "Ret", of |-> p]
        BY <2>2, <3>1 DEF Has, RetsOf
      <3> QED
        BY <2>2, <3>2 DEF ToPeer
    <2>4. rx[c][i].of \in Callers
      BY <2>2, <2>3, PacketFact
    <2> QED
      BY <2>2, <2>3, <2>4 DEF RequestsOf, InRx, Has
  <1>6. PICK f : f = [i \in 1 .. Cap |-> CommandOwner(command[i])]
    OBVIOUS
  <1>7. PICK g : g = [i \in 1 .. Cap |-> <<"call", rx[c][i].of>>]
    OBVIOUS
  <1>8. /\ \A j \in Callers : \A i \in 1 .. Len(command) :
               (InRx(c, j) \/ j = k) => CommandOwner(command[i]) # <<"call", j>>
        /\ \A j \in Callers : InRx(c, j) \/ j = k => Absent(RepliesOf(j))
    BY <1>1, RequestAlone
  <1>9. \A j \in Callers : InRx(c, j) \/ j = k => o # <<"call", j>>
    <2>1. ASSUME NEW j \in Callers, InRx(c, j) \/ j = k, o = <<"call", j>> PROVE FALSE
      <3>1. ItemsOf(o) = RepliesOf(j)
        BY <2>1, ItemsOfOwner
      <3>2. Absent(RepliesOf(j))
        BY <1>8, <2>1
      <3> QED
        BY <1>4, <3>1, <3>2
    <2> QED
      BY <2>1
  <1>10. \A i \in 1 .. Len(command) : CommandOwner(command[i]) # o
    BY <1>3, <1>4, ItemAlone
  <1>11. ~InRx(c, k)
    BY <1>1, CallApart DEF AskedBusy
  <1>12. \A i \in 1 .. Cap : f[i] \in Load /\ g[i] \in Load
    BY <1>5, <1>6, <1>7, CommandLoad, RequestLoad
  <1>13. \A i, j \in 1 .. Cap : f[i] = f[j] => i = j
    BY <1>5, <1>6, CommandsDiffer
  <1>14. \A i, j \in 1 .. Cap : g[i] = g[j] => i = j
    <2>1. ASSUME NEW i \in 1 .. Cap, NEW j \in 1 .. Cap, g[i] = g[j] PROVE i = j
      <3>1. PICK m \in Callers : m = rx[c][i].of /\ m = rx[c][j].of
        BY <1>5, <1>7, <2>1
      <3>2. AtMostOne(rx[c], RequestsOf(m))
        BY DEF Invs, CallsInv, Request
      <3> QED
        BY <1>5, <3>1, <3>2 DEF AtMostOne
    <2> QED
      BY <2>1
  <1>15. /\ \A i, j \in 1 .. Cap : f[i] # g[j]
         /\ \A i \in 1 .. Cap : f[i] # <<"call", k>> /\ f[i] # o
    BY <1>5, <1>6, <1>7, <1>8, <1>10
  <1>16. \A i \in 1 .. Cap : g[i] # <<"call", k>> /\ g[i] # o
    <2>1. ASSUME NEW i \in 1 .. Cap PROVE g[i] # <<"call", k>> /\ g[i] # o
      <3>1. PICK m \in Callers : m = rx[c][i].of /\ InRx(c, m) /\ g[i] = <<"call", m>>
        BY <1>5, <1>7
      <3> QED
        BY <1>9, <1>11, <3>1
    <2> QED
      BY <2>1
  <1>17. <<"call", k>> \in Load /\ o \in Load /\ <<"call", k>> # o
    BY <1>1, <1>3, <1>4, <1>9, RequestLoad, ItemLoad DEF AskedBusy
  <1>18. Cap \in Nat
    BY BoundAssumption
  <1>19. PICK x : x = <<"call", k>>
    OBVIOUS
  <1>20. /\ x \in Load /\ o \in Load /\ x # o
         /\ \A i \in 1 .. Cap : f[i] # x /\ f[i] # o /\ g[i] # x /\ g[i] # o
    BY <1>15, <1>16, <1>17, <1>19
  <1> QED
    BY <1>12, <1>13, <1>14, <1>15, <1>18, <1>20, RingCount

LEMMA RouteRing ==
  ASSUME Invs, IsFiniteSet(Load),
         busy.op = "Transfer", ~HasRoom(stream), route # None, route.msg.kind = "Ret",
         ~HasRoom(command)
  PROVE  2 * Cap + 2 <= Cardinality(Load)
  <1>1. PICK b \in Items : b = busy.item /\ busy = [op |-> "Transfer", item |-> b]
    <2>1. busy \in Command \cup Inside \cup {Idle}
      BY DEF Invs, TypeOK, WorkerOK
    <2> QED
      BY <2>1, SMT DEF Command, Inside, Idle
  <1>2. PICK r \in Items : r = route
    BY DEF Invs, TypeOK, RouteOK
  <1>3. PICK x, y : x = MsgOwner(b.msg) /\ y = MsgOwner(r.msg)
    OBVIOUS
  <1>4. /\ OneCopy(ItemsOf(x)) /\ InBusy(ItemsOf(x))
        /\ OneCopy(ItemsOf(y)) /\ InRoute(ItemsOf(y))
    BY <1>1, <1>2, <1>3, OneItem DEF InBusy, InRoute, TransfersOf
  <1>5. PICK f : f = [i \in 1 .. Cap |-> CommandOwner(command[i])]
    OBVIOUS
  <1>6. PICK g : g = [i \in 1 .. Cap |-> MsgOwner(stream[i].msg)]
    OBVIOUS
  <1>7. ASSUME NEW i \in 1 .. Cap
        PROVE  /\ i \in 1 .. Len(command) /\ i \in 1 .. Len(stream) /\ stream[i] \in Items
               /\ stream[i] \in ItemsOf(g[i])
               /\ OneCopy(ItemsOf(g[i])) /\ InStream(ItemsOf(g[i]))
    <2>1. command \in Seq(Command) /\ stream \in Seq(Items)
      BY DEF Invs, TypeOK, WorkerOK, RouteOK
    <2>2. i \in 1 .. Len(command) /\ i \in 1 .. Len(stream) /\ stream[i] \in Items
      BY <2>1, FullChannel
    <2>3. g[i] = MsgOwner(stream[i].msg)
      BY <1>6
    <2>4. stream[i] \in ItemsOf(g[i]) /\ OneCopy(ItemsOf(g[i]))
      BY <2>2, <2>3, OneItem
    <2> QED
      BY <2>2, <2>4 DEF InStream, Has
  <1>8. \A i \in 1 .. Cap : f[i] \in Load /\ g[i] \in Load
    <2>1. ASSUME NEW i \in 1 .. Cap PROVE f[i] \in Load /\ g[i] \in Load
      <3>1. ~Absent(ItemsOf(g[i])) /\ g[i] = MsgOwner(stream[i].msg)
        BY <1>6, <1>7 DEF Absent
      <3>2. ~Absent(ItemsOf(MsgOwner(stream[i].msg)))
        BY <3>1
      <3> QED
        BY <1>5, <1>7, <3>1, <3>2, CommandLoad, ItemLoad
    <2> QED
      BY <2>1
  <1>9. x \in Load /\ y \in Load
    <2>1. ~Absent(ItemsOf(MsgOwner(b.msg))) /\ ~Absent(ItemsOf(MsgOwner(r.msg)))
      BY <1>3, <1>4 DEF Absent
    <2> QED
      BY <1>3, <2>1, ItemLoad
  <1>10. \A i, j \in 1 .. Cap : f[i] = f[j] => i = j
    BY <1>5, <1>7, CommandsDiffer
  <1>11. \A i, j \in 1 .. Cap : g[i] = g[j] => i = j
    <2>1. ASSUME NEW i \in 1 .. Cap, NEW j \in 1 .. Cap, g[i] = g[j] PROVE i = j
      <3>1. PICK M : M = ItemsOf(g[i])
        OBVIOUS
      <3>2. AtMostOne(stream, M)
        BY <1>7, <3>1 DEF OneCopy
      <3>3. stream[i] \in M /\ stream[j] \in M
        BY <1>7, <2>1, <3>1
      <3> QED
        BY <1>7, <3>2, <3>3 DEF AtMostOne
    <2> QED
      BY <2>1
  <1>12. \A i, j \in 1 .. Cap : f[i] # g[j]
    <2>1. ASSUME NEW j \in 1 .. Cap
          PROVE  \A i \in 1 .. Len(command) : CommandOwner(command[i]) # g[j]
      <3>1. g[j] = MsgOwner(stream[j].msg) /\ stream[j] \in Items
        BY <1>6, <1>7
      <3>2. InStream(ItemsOf(g[j]))
        BY <1>7
      <3> QED
        BY <3>1, <3>2, ItemAlone
    <2> QED
      BY <1>5, <1>7, <2>1
  <1>13. \A i \in 1 .. Cap : f[i] # x /\ f[i] # y
    <2>1. \A i \in 1 .. Len(command) : CommandOwner(command[i]) # x
      BY <1>3, <1>4, ItemAlone
    <2>2. \A i \in 1 .. Len(command) : CommandOwner(command[i]) # y
      BY <1>3, <1>4, ItemAlone
    <2> QED
      BY <1>5, <1>7, <2>1, <2>2
  <1>14. \A i \in 1 .. Cap : g[i] # x /\ g[i] # y
    <2>1. ~InStream(ItemsOf(x)) /\ ~InStream(ItemsOf(y))
      BY <1>4 DEF OneCopy
    <2> QED
      BY <1>7, <2>1
  <1>15. x # y
    BY <1>4 DEF OneCopy
  <1>16. Cap \in Nat
    BY BoundAssumption
  <1> QED
    BY <1>8, <1>9, <1>10, <1>11, <1>12, <1>13, <1>14, <1>15, <1>16, RingCount

-----------------------------------------------------------------------------
(* The theorem *)

MessagesUnderWay ==
    Cardinality(CallsUnderWay) + Cardinality(PeerCallsUnderWay)
        + Cardinality(EventsUnderWay) + Cardinality(RemovalsUnderWay)

LEMMA LoadCount ==
  ASSUME IsFiniteSet(Conns), IsFiniteSet(PeerCalls)
  PROVE  /\ IsFiniteSet(Load) /\ Cardinality(Load) \in Nat
         /\ Cardinality(Load) <= MessagesUnderWay /\ MessagesUnderWay \in Nat
  <1>1. IsFiniteSet(RemovalsUnderWay)
    <2>1. RemovalsUnderWay \in SUBSET {"removal"} /\ IsFiniteSet({"removal"})
      BY FS_Singleton DEF RemovalsUnderWay
    <2> QED
      BY <2>1, FS_Subset
  <1>2. /\ IsFiniteSet(CallsUnderWay) /\ IsFiniteSet(PeerCallsUnderWay)
        /\ IsFiniteSet(EventsUnderWay)
    <2>1. /\ CallsUnderWay \in SUBSET Callers /\ PeerCallsUnderWay \in SUBSET PeerCalls
          /\ EventsUnderWay \in SUBSET Conns
      BY DEF CallsUnderWay, PeerCallsUnderWay, EventsUnderWay
    <2> QED
      BY <2>1, CallerAssumption, FS_Subset
  <1>3. /\ Cardinality(CallsUnderWay) \in Nat /\ Cardinality(PeerCallsUnderWay) \in Nat
        /\ Cardinality(EventsUnderWay) \in Nat /\ Cardinality(RemovalsUnderWay) \in Nat
    BY <1>1, <1>2, FS_CardinalityType
  <1>4. MessagesUnderWay \in Nat
    BY <1>3, SMT DEF MessagesUnderWay
  <1> QED
    BY <1>1, <1>2, <1>4, OwnersCount DEF Load, MessagesUnderWay

LEMMA RingsAreFull ==
  ASSUME IsFiniteSet(Conns), IsFiniteSet(PeerCalls), Invs, MessagesUnderWay <= 2 * Cap + 1
  PROVE  NoWorkerConnCycle /\ NoWorkerRouteCycle
  <1>1. IsFiniteSet(Load) /\ ~(2 * Cap + 2 <= Cardinality(Load))
    <2>1. Cap \in Nat
      BY BoundAssumption
    <2> QED
      BY <2>1, LoadCount, SMT
  <1>2. NoWorkerConnCycle
    BY <1>1, ConnRing DEF NoWorkerConnCycle
  <1>3. NoWorkerRouteCycle
    BY <1>1, RouteRing DEF NoWorkerRouteCycle
  <1> QED
    BY <1>2, <1>3

LEMMA InvsInvariant == Spec => []Invs
  BY TypeCorrect, HooksInvariant, ReturnsInvariant, CallsInvariant, RingInvariant, PTL DEF Invs

\* The worker and a connection, or the worker and the route task, wait for each other
\* only when 2 * Cap + 2 calls, peer calls, connection events and removals have a
\* message under way at the same time, however many there are over time: the channels
\* of server.rs and handler.rs hold two messages each, so that it takes six.
THEOREM RingsNeedMessages ==
  ASSUME IsFiniteSet(Conns), IsFiniteSet(PeerCalls)
  PROVE  Spec => [](MessagesUnderWay <= 2 * Cap + 1 => NoWorkerConnCycle /\ NoWorkerRouteCycle)
  <1>1. Invs => (MessagesUnderWay <= 2 * Cap + 1 => NoWorkerConnCycle /\ NoWorkerRouteCycle)
    BY RingsAreFull
  <1> QED
    BY <1>1, InvsInvariant, PTL

=============================================================================
