-------------------------- MODULE ClientWs_proofs --------------------------
(***************************************************************************)
(* Theorems about ClientWs, for every value of its constants: the types, how *)
(* often the hooks run, where a call is and that the client keeps the promise *)
(* of call_remotely.                                                       *)
(***************************************************************************)
EXTENDS ClientWs, Elements

-----------------------------------------------------------------------------
(* What the types of packets, commands and tables give *)

LEMMA IdsFact == NumIds \in Nat /\ 0 \in Ids /\ \A i \in Ids : NextId(i) \in Ids
  <1>1. NumIds \in Nat /\ 0 < NumIds
    BY ClientBoundAssumption, SMT
  <1>2. \A i \in Nat : (i + 1) % NumIds \in 0 .. NumIds - 1
    BY <1>1, SMT
  <1> QED
    BY <1>1, <1>2, SMT DEF Ids, NextId

LEMMA CommandFact ==
  /\ \A k \in Callers : [op |-> "CallRemotely", of |-> k] \in Command
  /\ \A p \in Paths : [op |-> "RemoveWsRoute", path |-> p] \in Command
  /\ \A k \in Callers : [op |-> "Await", of |-> k] \in Inside
  /\ \A k \in Callers, r \in Callers \cup {None} :
         [op |-> "Relay", of |-> k, reply |-> r] \in Inside
  /\ \A q \in Command : q.op = "CallRemotely" =>
         q.of \in Callers /\ q = [op |-> "CallRemotely", of |-> q.of]
  /\ \A q \in Command : q.op = "RemoveWsRoute" => q.path \in Paths
  BY SMT DEF Command, Inside

LEMMA BusyFact ==
  ASSUME WorkerOK
  PROVE  /\ busy.op = "CallRemotely" => busy.of \in Callers
         /\ busy.op = "RemoveWsRoute" => busy.path \in Paths
         /\ busy.op = "Await" => busy.of \in Callers /\ busy = [op |-> "Await", of |-> busy.of]
         /\ busy.op = "Relay" => busy.of \in Callers /\ busy.reply \in Callers \cup {None}
  BY SMT DEF WorkerOK, Command, Inside, Idle

LEMMA PacketFact ==
  /\ \A m \in FromServer : m.kind \in {"Call", "Ret"}
  /\ \A m \in ToServer : m.kind \in {"Call", "Ret"}
  /\ \A m \in FromServer : m.kind = "Call" => m.of \in ServerCalls
  /\ \A m \in FromServer : m.kind = "Ret" =>
         m.of \in Callers /\ m.id \in Ids /\ m = [kind |-> "Ret", id |-> m.id, of |-> m.of]
  /\ \A m \in ToServer : m.kind = "Ret" => m.of \in ServerCalls
  /\ \A m \in ToServer : m.kind = "Call" =>
         m.of \in Callers /\ m.id \in Ids /\ m = [kind |-> "Call", id |-> m.id, of |-> m.of]
  /\ \A i \in Ids, k \in Callers : [kind |-> "Call", id |-> i, of |-> k] \in ToServer
  /\ \A i \in Ids, k \in Callers : [kind |-> "Ret", id |-> i, of |-> k] \in FromServer
  /\ \A s \in ServerCalls : [kind |-> "Ret", of |-> s] \in ToServer
  /\ \A s \in ServerCalls : [kind |-> "Call", of |-> s] \in FromServer
  BY SMT DEF FromServer, ToServer

LEMMA NoMessages ==
  /\ <<>> \in Seq(Command) /\ <<>> \in Seq(Callers) /\ <<>> \in Seq(Hooks)
  /\ <<>> \in Seq(FromServer) /\ <<>> \in Seq(ToServer)
  /\ NoPending \in [Ids -> Callers \cup {None}]
  /\ Elems(<<>>) = {}
  BY EmptySeq, ElemsEmpty DEF NoPending

LEMMA DroppedFact ==
  ASSUME WorkerOK, NEW S PROVE Dropped(S) \in Command \cup Inside \cup {Idle}
  BY BusyFact, CommandFact DEF Dropped, WorkerOK

LEMMA TargetFact == \A k \in Callers : Target[k] \in Paths
  BY PathAssumption

LEMMA CallsKept == ASSUME CallsOK, UNCHANGED callVars PROVE CallsOK'
  BY DEF CallsOK, callVars
LEMMA WorkerKept == ASSUME WorkerOK, UNCHANGED workerVars PROVE WorkerOK'
  BY DEF WorkerOK, workerVars
LEMMA DispatchKept == ASSUME DispatchOK, UNCHANGED dispatchVars PROVE DispatchOK'
  BY DEF DispatchOK, dispatchVars
LEMMA HooksKept == ASSUME HooksOK, UNCHANGED hookVars PROVE HooksOK'
  BY DEF HooksOK, hookVars
LEMMA ServersKept == ASSUME ServersOK, UNCHANGED serverVars PROVE ServersOK'
  BY DEF ServersOK, serverVars

-----------------------------------------------------------------------------
(* Every step preserves the types: calls and the worker *)

LEMMA CallersType ==
  ASSUME TypeOK, NEW k \in Callers, CallStart(k) \/ CallUnbound(k) \/ CallSend(k)
  PROVE  TypeOK'
  <1>1. CASE CallStart(k)
    <2>1. CallsOK'
      BY <1>1, IdsFact, SMT DEF TypeOK, CallsOK, CallStart, Phases
    <2> QED
      BY <1>1, <2>1, WorkerKept, DispatchKept, HooksKept, ServersKept DEF TypeOK, CallStart
  <1>2. CASE CallUnbound(k)
    <2>1. CallsOK'
      BY <1>2, SMT DEF TypeOK, CallsOK, CallUnbound, Phases
    <2> QED
      BY <1>2, <2>1, WorkerKept, DispatchKept, HooksKept, ServersKept DEF TypeOK, CallUnbound
  <1>3. CASE CallSend(k)
    <2>1. CallsOK'
      BY <1>3, SMT DEF TypeOK, CallsOK, CallSend, Phases
    <2>2. command' \in Seq(Command)
      BY <1>3, CommandFact, AppendProperties DEF TypeOK, WorkerOK, CallSend
    <2>3. WorkerOK'
      BY <1>3, <2>2 DEF TypeOK, WorkerOK, CallSend
    <2> QED
      BY <1>3, <2>1, <2>3, DispatchKept, HooksKept, ServersKept DEF TypeOK, CallSend
  <1> QED
    BY <1>1, <1>2, <1>3

LEMMA WorkerRecvType == ASSUME TypeOK, WorkerRecv PROVE TypeOK'
  <1>1. Head(command) \in Command /\ Tail(command) \in Seq(Command)
    BY HeadTailProperties DEF TypeOK, WorkerOK, WorkerRecv
  <1>2. WorkerOK'
    BY <1>1 DEF TypeOK, WorkerOK, WorkerRecv
  <1> QED
    BY <1>2, CallsKept, DispatchKept, HooksKept, ServersKept DEF TypeOK, WorkerRecv

LEMMA WorkerForwardType == ASSUME TypeOK, WorkerForward PROVE TypeOK'
  <1> DEFINE k == busy.of
             p == Target[busy.of]
  <1>1. k \in Callers /\ p \in Paths
    BY BusyFact, TargetFact DEF TypeOK, WorkerForward
  <1>2. busy' \in Command \cup Inside \cup {Idle}
    BY <1>1, CommandFact DEF WorkerForward
  <1>3. WorkerOK'
    BY <1>2 DEF TypeOK, WorkerOK, WorkerForward
  <1>4. CallsOK'
    BY <1>1 DEF TypeOK, CallsOK, WorkerForward, Phases
  <1>5. call_rx' \in [Paths -> Seq(Callers)]
    <2>1. call_rx[p] \in Seq(Callers) /\ Append(call_rx[p], k) \in Seq(Callers)
      BY <1>1, AppendProperties DEF TypeOK, DispatchOK
    <2> QED
      BY <2>1 DEF TypeOK, DispatchOK, WorkerForward
  <1>6. DispatchOK'
    BY <1>5 DEF TypeOK, DispatchOK, WorkerForward
  <1> QED
    BY <1>3, <1>4, <1>6, HooksKept, ServersKept DEF TypeOK, WorkerForward

LEMMA WorkerDieType == ASSUME TypeOK, WorkerDie PROVE TypeOK'
  <1>1. CallsOK'
    BY DEF TypeOK, CallsOK, WorkerDie, Phases
  <1>2. binding' \in [Paths -> {"bound", "removing", "queued", "removed"}]
    BY DEF TypeOK, WorkerOK, WorkerDie
  <1>3. WorkerOK'
    BY <1>2, NoMessages DEF WorkerOK, WorkerDie
  <1> QED
    BY <1>1, <1>3, DispatchKept, HooksKept, ServersKept DEF TypeOK, WorkerDie

LEMMA WorkerRelayType == ASSUME TypeOK, WorkerRelay PROVE TypeOK'
  <1>1. busy.of \in Callers /\ busy.reply \in Callers \cup {None}
    BY BusyFact DEF TypeOK, WorkerRelay
  <1>2. CallsOK'
    BY <1>1 DEF TypeOK, CallsOK, WorkerRelay, Phases
  <1>3. WorkerOK'
    BY DEF TypeOK, WorkerOK, WorkerRelay
  <1> QED
    BY <1>2, <1>3, DispatchKept, HooksKept, ServersKept DEF TypeOK, WorkerRelay

LEMMA WorkerRemoveRouteType == ASSUME TypeOK, WorkerRemoveRoute PROVE TypeOK'
  <1>1. busy.path \in Paths
    BY BusyFact DEF TypeOK, WorkerRemoveRoute
  <1>2. WorkerOK'
    BY <1>1 DEF TypeOK, WorkerOK, WorkerRemoveRoute
  <1>3. aborted' \in [Paths -> BOOLEAN]
    BY <1>1 DEF TypeOK, DispatchOK, WorkerRemoveRoute
  <1>4. DispatchOK'
    BY <1>3 DEF TypeOK, DispatchOK, WorkerRemoveRoute
  <1> QED
    BY <1>2, <1>4, CallsKept, HooksKept, ServersKept DEF TypeOK, WorkerRemoveRoute

-----------------------------------------------------------------------------
(* Every step preserves the types: dispatch tasks *)

LEMMA EndWithType ==
  ASSUME TypeOK, NEW p \in Paths, NEW S, EndWith(p, S),
         UNCHANGED <<aborted, alive, command, binding, hook, ran>>,
         attempt' \in [Paths -> 0 .. MaxRetries],
         \A o \in Paths : o # p => attempt'[o] = attempt[o]
  PROVE  WorkerOK' /\ DispatchOK' /\ HooksOK'
  <1>1. WorkerOK'
    BY DroppedFact DEF TypeOK, WorkerOK, EndWith
  <1>2. DispatchOK'
    BY NoMessages DEF TypeOK, DispatchOK, EndWith
  <1>3. signal' \in [Paths -> [Hooks -> {"none", "sent", "taken"}]]
    BY DEF TypeOK, HooksOK, EndWith, Hooks
  <1>4. HooksOK'
    BY <1>3 DEF TypeOK, HooksOK
  <1> QED
    BY <1>1, <1>2, <1>4

LEMMA EndType ==
  ASSUME TypeOK, NEW p \in Paths, End(p) PROVE CallsOK' /\ WorkerOK' /\ DispatchOK' /\ HooksOK'
  <1>1. attempt' \in [Paths -> 0 .. MaxRetries] /\ attempt' = attempt
    BY DEF TypeOK, DispatchOK, End
  <1> QED
    BY <1>1, EndWithType, CallsKept DEF TypeOK, End

LEMMA HangupType == ASSUME TypeOK, NEW p \in Paths, Hangup(p) PROVE ServersOK'
  BY NoMessages DEF TypeOK, ServersOK, Hangup

LEMMA TryAttemptType ==
  ASSUME TypeOK, NEW p \in Paths, NEW a \in Nat, TryAttempt(p, a), attempt' = [attempt EXCEPT ![p] = a],
         a \in 0 .. MaxRetries,
         UNCHANGED <<aborted, alive, command, binding, hook, ran, callVars, serverVars>>
  PROVE  TypeOK'
  <1>1. /\ attempt' \in [Paths -> 0 .. MaxRetries]
        /\ \A o \in Paths : o # p => attempt'[o] = attempt[o]
    BY DEF TypeOK, DispatchOK
  <1>2. CASE EndWith(p, InQueue(p) \cup Pending(p))
    BY <1>1, <1>2, EndWithType, CallsKept, ServersKept DEF TypeOK
  <1>3. CASE /\ a < MaxRetries
             /\ dispatch' = [dispatch EXCEPT ![p] = "connect"]
             /\ UNCHANGED <<call_rx, pending_requests, handling, busy, signal>>
    <2>1. DispatchOK'
      BY <1>1, <1>3 DEF TypeOK, DispatchOK
    <2> QED
      BY <1>3, <2>1, CallsKept, WorkerKept, HooksKept, ServersKept
         DEF TypeOK, workerVars, hookVars
  <1> QED
    BY <1>2, <1>3 DEF TryAttempt

LEMMA RequestReadyType == ASSUME TypeOK, NEW p \in Paths, RequestReady(p) PROVE TypeOK'
  <1>1. attempt' = [attempt EXCEPT ![p] = 0] /\ 0 \in 0 .. MaxRetries
    BY ClientBoundAssumption DEF TypeOK, DispatchOK, RequestReady
  <1> QED
    BY <1>1, TryAttemptType DEF RequestReady

LEMMA WakeUpType == ASSUME TypeOK, NEW p \in Paths, WakeUp(p) PROVE TypeOK'
  <1>1. attempt[p] \in 0 .. MaxRetries /\ attempt[p] < MaxRetries
    BY DEF TypeOK, DispatchOK, WakeUp
  <1>2. attempt[p] + 1 \in Nat /\ attempt[p] + 1 \in 0 .. MaxRetries
    BY <1>1, ClientBoundAssumption, SMT
  <1>3. attempt' = [attempt EXCEPT ![p] = attempt[p] + 1]
    BY DEF WakeUp
  <1> QED
    BY <1>2, <1>3, TryAttemptType DEF WakeUp

LEMMA ConnectsType ==
  ASSUME TypeOK, NEW p \in Paths, ConnectFails(p) \/ ConnectEnds(p) \/ Connect(p)
  PROVE  TypeOK'
  <1>1. CASE ConnectFails(p)
    <2>1. DispatchOK'
      BY <1>1 DEF TypeOK, DispatchOK, ConnectFails
    <2> QED
      BY <1>1, <2>1, CallsKept, WorkerKept, HooksKept, ServersKept DEF TypeOK, ConnectFails
  <1>2. CASE ConnectEnds(p)
    BY <1>2, EndType, ServersKept DEF TypeOK, ConnectEnds
  <1>3. CASE Connect(p)
    <2>1. DispatchOK'
      BY <1>3 DEF TypeOK, DispatchOK, Connect
    <2>2. HooksOK'
      BY <1>3 DEF TypeOK, HooksOK, Connect, Hooks
    <2>3. ServersOK'
      BY <1>3, NoMessages DEF TypeOK, ServersOK, Connect
    <2> QED
      BY <1>3, <2>1, <2>2, <2>3, CallsKept, WorkerKept DEF TypeOK, Connect
  <1> QED
    BY <1>1, <1>2, <1>3

LEMMA HeadIncoming ==
  ASSUME TypeOK, NEW p \in Paths, incoming[p] # <<>>
  PROVE  /\ incoming[p] \in Seq(FromServer)
         /\ Head(incoming[p]) \in FromServer /\ Tail(incoming[p]) \in Seq(FromServer)
  BY HeadTailProperties DEF TypeOK, ServersOK

LEMMA HeadOutgoing ==
  ASSUME TypeOK, NEW p \in Paths, outgoing[p] # <<>>
  PROVE  /\ outgoing[p] \in Seq(ToServer)
         /\ Head(outgoing[p]) \in ToServer /\ Tail(outgoing[p]) \in Seq(ToServer)
  BY HeadTailProperties DEF TypeOK, ServersOK

LEMMA WrittenType ==
  ASSUME TypeOK, NEW p \in Paths, NEW m \in ToServer
  PROVE  Written(p, m) \in [Paths -> Seq(ToServer)]
  <1>1. outgoing \in [Paths -> Seq(ToServer)] /\ Append(outgoing[p], m) \in Seq(ToServer)
    BY AppendProperties DEF TypeOK, ServersOK
  <1> QED
    BY <1>1 DEF Written

LEMMA ReadCallType == ASSUME TypeOK, NEW p \in Paths, ReadCall(p) PROVE TypeOK'
  <1>1. Head(incoming[p]).of \in ServerCalls /\ Tail(incoming[p]) \in Seq(FromServer)
    BY HeadIncoming, PacketFact DEF ReadCall
  <1>2. DispatchOK'
    BY <1>1, ClientNoneAssumption DEF TypeOK, DispatchOK, ReadCall
  <1>3. ServersOK'
    BY <1>1 DEF TypeOK, ServersOK, ReadCall
  <1> QED
    BY <1>2, <1>3, CallsKept, WorkerKept, HooksKept DEF TypeOK, ReadCall

LEMMA HandlerReturnType == ASSUME TypeOK, NEW p \in Paths, HandlerReturn(p) PROVE TypeOK'
  <1>1. handling[p] \in ServerCalls
    BY DEF TypeOK, DispatchOK, HandlerReturn
  <1>2. DispatchOK'
    BY DEF TypeOK, DispatchOK, HandlerReturn
  <1>3. outgoing' \in [Paths -> Seq(ToServer)]
    BY <1>1, PacketFact, WrittenType DEF HandlerReturn
  <1>4. ServersOK'
    BY <1>3 DEF TypeOK, ServersOK, HandlerReturn
  <1> QED
    BY <1>2, <1>4, CallsKept, WorkerKept, HooksKept DEF TypeOK, HandlerReturn

LEMMA ReadRetType == ASSUME TypeOK, NEW p \in Paths, ReadRet(p) PROVE TypeOK'
  <1> DEFINE msg == Head(incoming[p])
             k == pending_requests[p][msg.id]
  <1>1. msg.of \in Callers /\ msg.id \in Ids /\ Tail(incoming[p]) \in Seq(FromServer)
    BY HeadIncoming, PacketFact DEF ReadRet
  <1>2. k \in Callers \cup {None}
    BY <1>1 DEF TypeOK, DispatchOK
  <1>3. busy' \in Command \cup Inside \cup {Idle}
    BY <1>1, <1>2, CommandFact DEF TypeOK, WorkerOK, ReadRet
  <1>4. WorkerOK'
    BY <1>3 DEF TypeOK, WorkerOK, ReadRet
  <1>5. DispatchOK'
    <2>1. pending_requests' \in [Paths -> [Ids -> Callers \cup {None}]]
      <3>1. pending_requests' = pending_requests
            \/ pending_requests' = [pending_requests EXCEPT ![p][msg.id] = None]
        BY DEF ReadRet
      <3>2. [pending_requests EXCEPT ![p][msg.id] = None] \in [Paths -> [Ids -> Callers \cup {None}]]
        BY <1>1 DEF TypeOK, DispatchOK
      <3> QED
        BY <3>1, <3>2 DEF TypeOK, DispatchOK
    <2> QED
      BY <2>1 DEF TypeOK, DispatchOK, ReadRet
  <1>6. ServersOK'
    BY <1>1 DEF TypeOK, ServersOK, ReadRet
  <1> QED
    BY <1>4, <1>5, <1>6, CallsKept, HooksKept DEF TypeOK, ReadRet

LEMMA TakeCallType == ASSUME TypeOK, NEW p \in Paths, TakeCall(p) PROVE TypeOK'
  <1> DEFINE k == Head(call_rx[p])
  <1>1. k \in Callers /\ Tail(call_rx[p]) \in Seq(Callers) /\ reqId[k] \in Ids
    BY HeadTailProperties DEF TypeOK, CallsOK, DispatchOK, TakeCall
  <1>2. WorkerOK'
    BY DroppedFact DEF TypeOK, WorkerOK, TakeCall
  <1>3. pending_requests' \in [Paths -> [Ids -> Callers \cup {None}]]
    BY <1>1 DEF TypeOK, DispatchOK, TakeCall
  <1>4. DispatchOK'
    BY <1>1, <1>3 DEF TypeOK, DispatchOK, TakeCall
  <1>5. outgoing' \in [Paths -> Seq(ToServer)]
    BY <1>1, PacketFact, WrittenType DEF TakeCall
  <1>6. ServersOK'
    BY <1>5 DEF TypeOK, ServersOK, TakeCall
  <1> QED
    BY <1>2, <1>4, <1>6, CallsKept, HooksKept DEF TypeOK, TakeCall

LEMMA ConnectionLostType == ASSUME TypeOK, NEW p \in Paths, ConnectionLost(p) PROVE TypeOK'
  <1>1. ServersOK' /\ CallsOK'
    BY HangupType, CallsKept DEF TypeOK, ConnectionLost
  <1>2. attempt' \in [Paths -> 0 .. MaxRetries] /\ attempt' = attempt
    BY DEF TypeOK, DispatchOK, ConnectionLost
  <1>3. CASE EndWith(p, InQueue(p) \cup Pending(p))
    BY <1>1, <1>2, <1>3, EndWithType DEF TypeOK, ConnectionLost
  <1>4. CASE /\ dispatch' = [dispatch EXCEPT ![p] = "sleep"]
             /\ pending_requests' = [pending_requests EXCEPT ![p] = NoPending]
             /\ busy' = Dropped(Pending(p))
             /\ UNCHANGED <<call_rx, handling, signal>>
    <2>1. DispatchOK'
      BY <1>4, NoMessages DEF TypeOK, DispatchOK, ConnectionLost
    <2>2. WorkerOK'
      BY <1>4, DroppedFact DEF TypeOK, WorkerOK, ConnectionLost
    <2> QED
      BY <1>1, <1>4, <2>1, <2>2, HooksKept DEF TypeOK, ConnectionLost, hookVars
  <1> QED
    BY <1>3, <1>4 DEF ConnectionLost

LEMMA DispatchType == ASSUME TypeOK, NEW p \in Paths, Dispatch(p) PROVE TypeOK'
  BY RequestReadyType, ConnectsType, WakeUpType, ReadCallType, HandlerReturnType, ReadRetType,
     TakeCallType, ConnectionLostType, EndType, HangupType
     DEF Dispatch, ConnectionEnds, DispatchAborted, HandlerPanic, TypeOK

-----------------------------------------------------------------------------
(* Every step preserves the types: hooks, unbind and servers *)

LEMMA HookType == ASSUME TypeOK, NEW p \in Paths, Hook(p) PROVE TypeOK'
  <1>1. HooksOK'
    <2>1. CASE HookDone(p)
      BY <2>1 DEF TypeOK, HooksOK, HookDone
    <2>2. ASSUME NEW h \in Hooks, HookTake(p, h) PROVE HooksOK'
      <3>1. ran[p] \in Seq(Hooks) /\ Append(ran[p], h) \in Seq(Hooks)
        BY <2>2, AppendProperties DEF TypeOK, HooksOK
      <3> QED
        BY <2>2, <3>1 DEF TypeOK, HooksOK, HookTake
    <2> QED
      BY <2>1, <2>2 DEF Hook
  <1>2. UNCHANGED <<callVars, workerVars, dispatchVars, serverVars>>
    BY DEF Hook, HookDone, HookTake
  <1> QED
    BY <1>1, <1>2, CallsKept, WorkerKept, DispatchKept, ServersKept DEF TypeOK

LEMMA UnbindType == ASSUME TypeOK, NEW p \in Paths, UnbindStart(p) \/ UnbindSend(p) PROVE TypeOK'
  <1>1. command' \in Seq(Command)
    BY CommandFact, AppendProperties DEF TypeOK, WorkerOK, UnbindStart, UnbindSend
  <1>2. WorkerOK'
    BY <1>1 DEF TypeOK, WorkerOK, UnbindStart, UnbindSend
  <1> QED
    BY <1>2, CallsKept, DispatchKept, HooksKept, ServersKept DEF TypeOK, UnbindStart, UnbindSend

LEMMA ServerReadType == ASSUME TypeOK, NEW p \in Paths, ServerRead(p) PROVE TypeOK'
  <1> DEFINE msg == Head(outgoing[p])
  <1>1. msg \in ToServer /\ Tail(outgoing[p]) \in Seq(ToServer) /\ incoming[p] \in Seq(FromServer)
    BY HeadOutgoing DEF TypeOK, ServersOK, ServerRead
  <1>2. CASE /\ msg.kind = "Call"
             /\ runs' = [runs EXCEPT ![msg.of] = @ + 1]
             /\ incoming' = [incoming EXCEPT ![p] =
                    Append(@, [kind |-> "Ret", id |-> msg.id, of |-> msg.of])]
             /\ UNCHANGED returns
    <2>1. /\ Append(incoming[p], [kind |-> "Ret", id |-> msg.id, of |-> msg.of]) \in Seq(FromServer)
          /\ msg.of \in Callers
      BY <1>1, <1>2, PacketFact, AppendProperties
    <2>2. runs' \in [Callers -> Nat]
      BY <1>2, <2>1 DEF TypeOK, ServersOK
    <2> QED
      BY <1>1, <1>2, <2>1, <2>2, CallsKept, WorkerKept, DispatchKept, HooksKept
         DEF TypeOK, ServersOK, ServerRead
  <1>3. CASE /\ msg.kind = "Ret"
             /\ returns' = [returns EXCEPT ![msg.of] = @ + 1]
             /\ UNCHANGED <<runs, incoming>>
    <2>1. msg.of \in ServerCalls
      BY <1>1, <1>3, PacketFact
    <2>2. returns' \in [ServerCalls -> Nat]
      BY <1>3, <2>1 DEF TypeOK, ServersOK
    <2> QED
      BY <1>1, <1>3, <2>2, CallsKept, WorkerKept, DispatchKept, HooksKept
         DEF TypeOK, ServersOK, ServerRead
  <1> QED
    BY <1>2, <1>3 DEF ServerRead

LEMMA ServersType ==
  ASSUME TypeOK, NEW p \in Paths,
         \/ ServerClose(p) \/ LinkBreaks(p) \/ ServerRead(p)
         \/ \E s \in ServerCalls : ServerCall(s, p)
  PROVE  TypeOK'
  <1>1. CASE ServerClose(p) \/ LinkBreaks(p)
    <2>1. ServersOK'
      BY <1>1, NoMessages DEF TypeOK, ServersOK, ServerClose, LinkBreaks
    <2> QED
      BY <1>1, <2>1, CallsKept, WorkerKept, DispatchKept, HooksKept
         DEF TypeOK, ServerClose, LinkBreaks
  <1>2. ASSUME NEW s \in ServerCalls, ServerCall(s, p) PROVE TypeOK'
    <2>1. /\ incoming[p] \in Seq(FromServer)
          /\ Append(incoming[p], [kind |-> "Call", of |-> s]) \in Seq(FromServer)
      BY PacketFact, AppendProperties DEF TypeOK, ServersOK
    <2>2. ServersOK'
      BY <1>2, <2>1 DEF TypeOK, ServersOK, ServerCall
    <2> QED
      BY <1>2, <2>2, CallsKept, WorkerKept, DispatchKept, HooksKept DEF TypeOK, ServerCall
  <1> QED
    BY <1>1, <1>2, ServerReadType

LEMMA InitType == Init => TypeOK
  <1> SUFFICES ASSUME Init PROVE TypeOK
    OBVIOUS
  <1>1. CallsOK
    BY IdsFact DEF Init, CallsOK, Phases
  <1>2. WorkerOK
    BY NoMessages DEF Init, WorkerOK
  <1>3. DispatchOK
    BY NoMessages, ClientBoundAssumption DEF Init, DispatchOK
  <1>4. HooksOK
    BY NoMessages DEF Init, HooksOK
  <1>5. ServersOK
    BY NoMessages DEF Init, ServersOK
  <1> QED
    BY <1>1, <1>2, <1>3, <1>4, <1>5 DEF TypeOK

LEMMA NextType == TypeOK /\ [Next]_vars => TypeOK'
  <1> SUFFICES ASSUME TypeOK, [Next]_vars PROVE TypeOK'
    OBVIOUS
  <1>1. CASE \E k \in Callers : CallStart(k) \/ CallUnbound(k) \/ CallSend(k)
    BY <1>1, CallersType
  <1>2. CASE Worker
    BY <1>2, WorkerRecvType, WorkerForwardType, WorkerDieType, WorkerRelayType,
       WorkerRemoveRouteType DEF Worker
  <1>3. CASE \E p \in Paths :
                \/ Dispatch(p) \/ Hook(p) \/ UnbindStart(p) \/ UnbindSend(p)
                \/ ServerClose(p) \/ LinkBreaks(p) \/ ServerRead(p)
                \/ \E s \in ServerCalls : ServerCall(s, p)
    BY <1>3, DispatchType, HookType, UnbindType, ServersType
  <1>4. CASE UNCHANGED vars
    BY <1>4, CallsKept, WorkerKept, DispatchKept, HooksKept, ServersKept DEF TypeOK, vars
  <1> QED
    BY <1>1, <1>2, <1>3, <1>4 DEF Next

\* Every variable keeps its type: ids stay below NumIds, attempts within their
\* number, and each channel and socket carries only what its senders put in.
THEOREM ClientTypes == Spec => []TypeOK
  BY InitType, NextType, PTL DEF Spec


-----------------------------------------------------------------------------
(* The order of the hooks.  A signal is sent and taken once, and each needs   *)
(* the one before it: "open" is sent by a task that has passed the request    *)
(* hook, and "close" by one that has connected, when it ends.                 *)

Hooked(p) ==
    /\ \A i, j \in 1 .. Len(ran[p]) : ran[p][i] = ran[p][j] => i = j
    /\ \A i \in 1 .. Len(ran[p]) : signal[p][ran[p][i]] = "taken"
    /\ ran[p] # <<>> => ran[p][1] = "request"
    /\ signal[p]["request"] = "taken" => ran[p] # <<>>

Sent(p) ==
    /\ dispatch[p] \notin {"request", "ended"} => signal[p]["request"] = "taken"
    /\ signal[p]["open"] # "none" => signal[p]["request"] = "taken"
    /\ signal[p]["close"] # "none" => /\ signal[p]["open"] # "none"
                                      /\ dispatch[p] = "ended"

HookInv == \A p \in Paths : Hooked(p) /\ Sent(p)

LEMMA HookInvKept == ASSUME HookInv, UNCHANGED <<dispatch, signal, ran>> PROVE HookInv'
  BY DEF HookInv, Hooked, Sent

\* A step of the dispatch task that is not its last changes no signal but "open".
LEMMA DispatchHooked ==
  ASSUME TypeOK, HookInv, NEW p \in Paths, NEW d, UNCHANGED ran,
         dispatch[p] # "ended", dispatch' = [dispatch EXCEPT ![p] = d],
         signal[p]["request"] = "taken",
         \/ signal' = signal
         \/ signal' = [signal EXCEPT ![p]["open"] = IF @ = "none" THEN "sent" ELSE @]
  PROVE  HookInv'
  <1>1. \A q \in Paths, h \in Hooks :
            signal'[q][h] = signal[q][h]
            \/ (q = p /\ h = "open" /\ signal[q][h] = "none" /\ signal'[q][h] = "sent")
    BY DEF TypeOK, HooksOK
  <1>2. \A q \in Paths : dispatch'[q] = IF q = p THEN d ELSE dispatch[q]
    BY DEF TypeOK, DispatchOK
  <1>3. SUFFICES ASSUME NEW q \in Paths PROVE Hooked(q)' /\ Sent(q)'
    BY DEF HookInv
  <1>4. Hooked(q) /\ Sent(q) /\ Sent(p)
    BY DEF HookInv
  <1>5. \A i \in 1 .. Len(ran[q]) : ran[q][i] \in Hooks
    BY ElementOfSeq DEF TypeOK, HooksOK
  <1>6. {"request", "open", "close"} = Hooks
    BY DEF Hooks
  <1>7. Hooked(q)'
    BY <1>1, <1>4, <1>5, <1>6 DEF Hooked
  <1>8. Sent(q)'
    BY <1>1, <1>2, <1>4, <1>6 DEF Sent
  <1> QED
    BY <1>7, <1>8

\* The end of the task, whatever ends it.
LEMMA EndHooked ==
  ASSUME TypeOK, HookInv, NEW p \in Paths, UNCHANGED ran, dispatch[p] # "ended",
         NEW S, EndWith(p, S)
  PROVE  HookInv'
  <1>1. \A q \in Paths, h \in Hooks :
            signal'[q][h] =
                IF q = p /\ h = "close" /\ signal[p]["open"] # "none" THEN "sent"
                ELSE signal[q][h]
    BY DEF TypeOK, HooksOK, EndWith
  <1>2. \A q \in Paths : dispatch'[q] = IF q = p THEN "ended" ELSE dispatch[q]
    BY DEF TypeOK, DispatchOK, EndWith
  <1>3. SUFFICES ASSUME NEW q \in Paths PROVE Hooked(q)' /\ Sent(q)'
    BY DEF HookInv
  <1>4. Hooked(q) /\ Sent(q) /\ Sent(p)
    BY DEF HookInv
  <1>5. \A i \in 1 .. Len(ran[q]) : ran[q][i] \in Hooks
    BY ElementOfSeq DEF TypeOK, HooksOK
  <1>6. {"request", "open", "close"} = Hooks
    BY DEF Hooks
  <1>7. signal[p]["close"] = "none"
    BY <1>4 DEF Sent
  <1>8. Hooked(q)'
    BY <1>1, <1>4, <1>5, <1>6, <1>7 DEF Hooked
  <1>9. Sent(q)'
    BY <1>1, <1>2, <1>4, <1>6 DEF Sent
  <1> QED
    BY <1>8, <1>9

LEMMA DispatchHookInv == ASSUME TypeOK, HookInv, NEW p \in Paths, Dispatch(p) PROVE HookInv'
  <1>1. dispatch[p] # "ended" /\ UNCHANGED ran
    BY DEF Dispatch, RequestReady, ConnectFails, ConnectEnds, Connect, WakeUp, ReadCall,
           HandlerReturn, ReadRet, TakeCall, ConnectionEnds, ConnectionLost,
           DispatchAborted, HandlerPanic, End, hookVars
  <1>2. dispatch[p] # "request" => signal[p]["request"] = "taken"
    BY <1>1 DEF HookInv, Sent
  <1>3. CASE RequestReady(p) \/ WakeUp(p)
    <2>1. CASE dispatch' = [dispatch EXCEPT ![p] = "connect"] /\ UNCHANGED signal
      BY <1>1, <1>2, <1>3, <2>1, DispatchHooked DEF RequestReady, WakeUp
    <2>2. CASE EndWith(p, InQueue(p) \cup Pending(p))
      BY <1>1, <2>2, EndHooked
    <2> QED
      BY <1>3, <2>1, <2>2 DEF RequestReady, WakeUp, TryAttempt
  <1>4. CASE ConnectFails(p) \/ ReadCall(p) \/ HandlerReturn(p)
    <2>1. PICK d : dispatch' = [dispatch EXCEPT ![p] = d] /\ UNCHANGED signal
      BY <1>4 DEF ConnectFails, ReadCall, HandlerReturn, hookVars
    <2>2. signal[p]["request"] = "taken"
      BY <1>2, <1>4 DEF ConnectFails, ReadCall, HandlerReturn
    <2> QED
      BY <1>1, <2>1, <2>2, DispatchHooked
  <1>5. CASE Connect(p)
    BY <1>1, <1>2, <1>5, DispatchHooked DEF Connect
  <1>6. CASE ReadRet(p) \/ TakeCall(p)
    BY <1>6, HookInvKept DEF ReadRet, TakeCall, hookVars
  <1>7. CASE ConnectionLost(p)
    <2>1. CASE dispatch' = [dispatch EXCEPT ![p] = "sleep"] /\ UNCHANGED signal
      BY <1>1, <1>2, <1>7, <2>1, DispatchHooked DEF ConnectionLost
    <2>2. CASE EndWith(p, InQueue(p) \cup Pending(p))
      BY <1>1, <2>2, EndHooked
    <2> QED
      BY <1>7, <2>1, <2>2 DEF ConnectionLost
  <1>8. CASE ConnectEnds(p) \/ ConnectionEnds(p) \/ DispatchAborted(p) \/ HandlerPanic(p)
    BY <1>1, <1>8, EndHooked DEF ConnectEnds, ConnectionEnds, DispatchAborted, HandlerPanic, End
  <1> QED
    BY <1>3, <1>4, <1>5, <1>6, <1>7, <1>8 DEF Dispatch

LEMMA HookTakeHookInv ==
  ASSUME TypeOK, HookInv, NEW p \in Paths, NEW h \in Hooks, HookTake(p, h)
  PROVE  HookInv'
  <1>1. ran[p] \in Seq(Hooks) /\ Len(ran[p]) \in Nat
    BY LenProperties DEF TypeOK, HooksOK
  <1>2. /\ Len(ran'[p]) = Len(ran[p]) + 1
        /\ ran'[p][Len(ran[p]) + 1] = h
        /\ \A i \in 1 .. Len(ran[p]) : ran'[p][i] = ran[p][i]
    <2>1. ran'[p] = Append(ran[p], h)
      BY DEF TypeOK, HooksOK, HookTake
    <2> QED
      BY <1>1, <2>1, AppendProperties
  <1>3. \A i \in 1 .. Len(ran'[p]) : i \in 1 .. Len(ran[p]) \/ i = Len(ran[p]) + 1
    BY <1>1, <1>2
  <1>4. \A q \in Paths, g \in Hooks :
            signal'[q][g] = IF q = p /\ g = h THEN "taken" ELSE signal[q][g]
    BY DEF TypeOK, HooksOK, HookTake
  <1>5. Hooked(p) /\ Sent(p) /\ signal[p][h] = "sent"
    BY DEF HookInv, HookTake
  <1>6. \A i \in 1 .. Len(ran[p]) : ran[p][i] \in Hooks /\ ran[p][i] # h
    BY <1>1, <1>5, ElementOfSeq DEF Hooked
  <1>7. {"request", "open", "close"} = Hooks
    BY DEF Hooks
  <1>8. Hooked(p)'
    <2>1. \A i, j \in 1 .. Len(ran'[p]) : ran'[p][i] = ran'[p][j] => i = j
      <3>1. \A i, j \in 1 .. Len(ran[p]) : ran[p][i] = ran[p][j] => i = j
        BY <1>5 DEF Hooked
      <3> QED
        BY <1>2, <1>3, <1>6, <3>1
    <2>2. \A i \in 1 .. Len(ran'[p]) : signal'[p][ran'[p][i]] = "taken"
      BY <1>2, <1>3, <1>4, <1>5, <1>6 DEF Hooked
    <2>3. ran'[p] # <<>>
      BY <1>1, <1>2
    <2>4. ran'[p][1] = "request"
      <3>1. CASE ran[p] = <<>>
        <4>1. Len(ran[p]) = 0
          BY <3>1
        <4>2. h = "request"
          BY <1>5, <1>7, <3>1 DEF Hooked, Sent
        <4> QED
          BY <1>2, <4>1, <4>2
      <3>2. CASE ran[p] # <<>>
        <4>1. 1 \in 1 .. Len(ran[p])
          BY <1>1, <3>2, EmptySeq
        <4> QED
          BY <1>2, <1>5, <3>2, <4>1 DEF Hooked
      <3> QED
        BY <3>1, <3>2
    <2> QED
      BY <2>1, <2>2, <2>3, <2>4 DEF Hooked
  <1>9. \A q \in Paths : Sent(q)'
    <2>1. dispatch' = dispatch
      BY DEF HookTake, dispatchVars
    <2>2. \A q \in Paths : Sent(q)
      BY DEF HookInv
    <2> QED
      BY <1>4, <1>5, <1>7, <2>1, <2>2 DEF Sent
  <1>10. \A q \in Paths \ {p} : ran'[q] = ran[q] /\ signal'[q] = signal[q] /\ Hooked(q)
    BY DEF TypeOK, HooksOK, HookTake, HookInv
  <1>11. \A q \in Paths : Hooked(q)'
    BY <1>8, <1>10 DEF Hooked
  <1> QED
    BY <1>9, <1>11 DEF HookInv

LEMMA InitHooked == Init => HookInv
  BY DEF Init, HookInv, Hooked, Sent, Hooks

LEMMA NextHooked == TypeOK /\ HookInv /\ [Next]_vars => HookInv'
  <1> SUFFICES ASSUME TypeOK, HookInv, [Next]_vars PROVE HookInv'
    OBVIOUS
  <1>1. CASE \E k \in Callers : CallStart(k) \/ CallUnbound(k) \/ CallSend(k)
    BY <1>1, HookInvKept DEF CallStart, CallUnbound, CallSend, dispatchVars, hookVars
  <1>2. CASE Worker
    BY <1>2, HookInvKept
       DEF Worker, WorkerRecv, WorkerForward, WorkerDie, WorkerRelay, WorkerRemoveRoute,
           dispatchVars, hookVars
  <1>3. ASSUME NEW p \in Paths, Dispatch(p) PROVE HookInv'
    BY <1>3, DispatchHookInv
  <1>4. ASSUME NEW p \in Paths, Hook(p) PROVE HookInv'
    BY <1>4, HookTakeHookInv, HookInvKept DEF Hook, HookDone, dispatchVars
  <1>5. ASSUME NEW p \in Paths,
               \/ UnbindStart(p) \/ UnbindSend(p) \/ ServerClose(p) \/ LinkBreaks(p)
               \/ ServerRead(p) \/ \E s \in ServerCalls : ServerCall(s, p)
        PROVE  HookInv'
    BY <1>5, HookInvKept
       DEF UnbindStart, UnbindSend, ServerClose, LinkBreaks, ServerRead, ServerCall,
           dispatchVars, hookVars
  <1>6. CASE UNCHANGED vars
    BY <1>6, HookInvKept DEF vars, dispatchVars, hookVars
  <1> QED
    BY <1>1, <1>2, <1>3, <1>4, <1>5, <1>6 DEF Next

LEMMA HookInvOnce == TypeOK /\ HookInv => HooksOnce
  <1> SUFFICES ASSUME TypeOK, HookInv, NEW p \in Paths, NEW i \in 1 .. Len(ran[p]),
                      ran[p][i] = "close"
               PROVE  dispatch[p] = "ended" /\ signal[p]["open"] # "none"
    BY DEF HookInv, Hooked, HooksOnce
  <1>1. signal[p]["close"] = "taken"
    BY DEF HookInv, Hooked
  <1> QED
    BY <1>1 DEF HookInv, Sent

\* The hooks of a path run once each at most, however often its connection is
\* lost and made again: none before the request hook, and close only after the
\* task has connected and ended (client/handler.rs:128, client/binding.rs:67-103).
\* Whether open or close comes first is not said, and not fixed by the code.
THEOREM ClientHooksOnce == Spec => []HooksOnce
  <1>1. TypeOK /\ HookInv /\ [Next]_vars => HookInv'
    BY NextHooked
  <1> QED
    BY <1>1, InitHooked, HookInvOnce, ClientTypes, PTL DEF Spec

-----------------------------------------------------------------------------
(***************************************************************************)
(* The call that the worker awaits is in one place only, callers get the   *)
(* reply of their own call, and the client keeps its promise.              *)
(***************************************************************************)

-----------------------------------------------------------------------------
(* Packets of one kind in a socket *)

\* The socket carries no packet of the kind if M is {}, and one if M is {m}.
Lone(q, kind, M) ==
    /\ \A i, j \in 1 .. Len(q) : q[i].kind = kind /\ q[j].kind = kind => i = j
    /\ {m \in Elems(q) : m.kind = kind} = M

LEMMA LoneEmpty == ASSUME NEW kind PROVE Lone(<<>>, kind, {})
  BY ElemsEmpty DEF Lone

LEMMA LoneAppend ==
  ASSUME NEW S, NEW q \in Seq(S), NEW e \in S, NEW kind, NEW M, Lone(q, kind, M)
  PROVE  /\ e.kind # kind => Lone(Append(q, e), kind, M)
         /\ e.kind = kind /\ M = {} => Lone(Append(q, e), kind, {e})
  <1>1. Elems(Append(q, e)) = Elems(q) \cup {e}
    BY ElemsAppend
  <1>2. Len(Append(q, e)) = Len(q) + 1 /\ Len(q) \in Nat
    BY AppendProperties, LenProperties
  <1>3. /\ \A i \in 1 .. Len(q) : Append(q, e)[i] = q[i]
        /\ Append(q, e)[Len(q) + 1] = e
    BY AppendProperties
  <1>4. \A i \in 1 .. Len(Append(q, e)) : i \in 1 .. Len(q) \/ i = Len(q) + 1
    BY <1>2
  <1>5. \A i \in 1 .. Len(q) : q[i].kind = kind => q[i] \in M
    BY DEF Lone, Elems
  <1>6. CASE e.kind # kind
    BY <1>1, <1>3, <1>4, <1>6 DEF Lone
  <1>7. CASE e.kind = kind /\ M = {}
    BY <1>1, <1>3, <1>4, <1>5, <1>7 DEF Lone
  <1> QED
    BY <1>6, <1>7

LEMMA LoneTail ==
  ASSUME NEW S, NEW q \in Seq(S), q # <<>>, NEW kind, NEW M, Lone(q, kind, M)
  PROVE  /\ Head(q).kind # kind => Lone(Tail(q), kind, M)
         /\ Head(q).kind = kind => M = {Head(q)} /\ Lone(Tail(q), kind, {})
  <1>1. Len(q) \in Nat /\ Len(q) > 0 /\ Len(Tail(q)) = Len(q) - 1
    BY HeadTailProperties, EmptySeq, SMT
  <1>2. \A i \in 1 .. Len(Tail(q)) : Tail(q)[i] = q[i + 1] /\ i + 1 \in 1 .. Len(q) /\ i + 1 # 1
    BY <1>1, HeadTailProperties, SMT
  <1>3. Head(q) = q[1] /\ 1 \in 1 .. Len(q)
    BY <1>1, SMT
  <1>4. \A j \in 1 .. Len(q) : j = 1 \/ (j - 1 \in 1 .. Len(Tail(q)) /\ q[j] = Tail(q)[j - 1])
    BY <1>1, HeadTailProperties, SMT
  <1>5. \A i, j \in 1 .. Len(q) : q[i].kind = kind /\ q[j].kind = kind => i = j
    BY DEF Lone
  <1>6. \A i, j \in 1 .. Len(Tail(q)) : i + 1 = j + 1 => i = j
    BY <1>1, SMT
  <1>7. \A i, j \in 1 .. Len(Tail(q)) :
            Tail(q)[i].kind = kind /\ Tail(q)[j].kind = kind => i = j
    BY <1>2, <1>5, <1>6
  <1>8. Elems(q) = {Head(q)} \cup Elems(Tail(q))
    BY <1>2, <1>3, <1>4 DEF Elems
  <1>9. CASE Head(q).kind # kind
    BY <1>7, <1>8, <1>9 DEF Lone
  <1>10. CASE Head(q).kind = kind
    <2>1. \A m \in Elems(Tail(q)) : m.kind # kind
      BY <1>2, <1>3, <1>5, <1>10 DEF Elems
    <2> QED
      BY <1>7, <1>8, <1>10, <2>1 DEF Lone
  <1> QED
    BY <1>9, <1>10

-----------------------------------------------------------------------------
(* The invariant *)

\* A call is the worker's once, after it is in the channel and before it is
\* settled; it has not run before it is sent to a server, and has run when its
\* reply is passed on.
Command1 ==
    /\ \A q \in Elems(command) :
           q.op = "CallRemotely" => phase[q.of] = "waiting" /\ runs[q.of] = 0
    /\ \A i, j \in 1 .. Len(command) :
           command[i] = command[j] /\ command[i].op = "CallRemotely" => i = j

Busy1 ==
    /\ busy.op \in {"CallRemotely", "Await", "Relay"} =>
           /\ phase[busy.of] = "waiting"
           /\ [op |-> "CallRemotely", of |-> busy.of] \notin Elems(command)
    /\ busy.op = "CallRemotely" => runs[busy.of] = 0
    /\ busy.op = "Relay" => busy.reply = None \/ (busy.reply = busy.of /\ runs[busy.of] = 1)
    /\ ~alive => busy = Idle

Counted ==
    \A k \in Callers : /\ runs[k] \in {0, 1}
                       /\ phase[k] \in {"idle", "sending"} => runs[k] = 0

Books == Command1 /\ Busy1 /\ Counted /\ AnswerOwn

\* Only a connected task has a socket.
Offline(p) ==
    dispatch[p] \notin {"open", "handler"} =>
        link[p] = "none" /\ incoming[p] = <<>> /\ outgoing[p] = <<>>

Awaiting(p) == busy.op = "Await" /\ Target[busy.of] = p

\* Where the call is that the worker awaits: in the channel, or noted as pending
\* and on its way to the server, on its way back, or lost with its connection.
Nowhere(p) ==
    /\ call_rx[p] = <<>> /\ pending_requests[p] = NoPending
    /\ Lone(outgoing[p], "Call", {}) /\ Lone(incoming[p], "Ret", {})

InChannel(p, k) ==
    /\ call_rx[p] = <<k>> /\ pending_requests[p] = NoPending
    /\ Lone(outgoing[p], "Call", {}) /\ Lone(incoming[p], "Ret", {})
    /\ runs[k] = 0

OnTheWay(p, k) ==
    /\ call_rx[p] = <<>> /\ pending_requests[p] = [NoPending EXCEPT ![reqId[k]] = k]
    /\ \/ Lone(outgoing[p], "Call", {}) /\ Lone(incoming[p], "Ret", {})
       \/ /\ Lone(outgoing[p], "Call", {[kind |-> "Call", id |-> reqId[k], of |-> k]})
          /\ Lone(incoming[p], "Ret", {})
          /\ runs[k] = 0
       \/ /\ Lone(outgoing[p], "Call", {})
          /\ Lone(incoming[p], "Ret", {[kind |-> "Ret", id |-> reqId[k], of |-> k]})
          /\ runs[k] = 1

InFlight(p) ==
    IF Awaiting(p) THEN InChannel(p, busy.of) \/ OnTheWay(p, busy.of) ELSE Nowhere(p)

CallInv == Books /\ (\A p \in Paths : Offline(p)) /\ (\A p \in Paths : InFlight(p))

-----------------------------------------------------------------------------
(* What the invariant gives, and what keeps its parts *)

\* A dispatch task holds the call that the worker awaits from it, and no other.
LEMMA HeldFact ==
  ASSUME TypeOK, NEW p \in Paths, InFlight(p)
  PROVE  /\ InQueue(p) \cup Pending(p) = IF Awaiting(p) THEN {busy.of} ELSE {}
         /\ Awaiting(p) => busy.of \in Callers /\ busy.of # None
  <1>1. Awaiting(p) => busy.of \in Callers /\ busy.of # None /\ reqId[busy.of] \in Ids
    BY BusyFact, ClientNoneAssumption DEF Awaiting, TypeOK, CallsOK
  <1>2. call_rx[p] = <<>> => InQueue(p) = {}
    BY DEF InQueue
  <1>3. \A k : call_rx[p] = <<k>> => InQueue(p) = {k}
    BY DEF InQueue
  <1>4. pending_requests[p] = NoPending => Pending(p) = {}
    BY DEF Pending, NoPending
  <1>5. \A k \in Callers : pending_requests[p] = [NoPending EXCEPT ![reqId[k]] = k]
                           => Pending(p) = {k}
    BY ClientNoneAssumption DEF Pending, NoPending, TypeOK, CallsOK
  <1>6. CASE Awaiting(p) /\ InChannel(p, busy.of)
    BY <1>1, <1>3, <1>4, <1>6 DEF InChannel
  <1>7. CASE Awaiting(p) /\ OnTheWay(p, busy.of)
    BY <1>1, <1>2, <1>5, <1>7 DEF OnTheWay
  <1>8. CASE ~Awaiting(p)
    BY <1>2, <1>4, <1>8 DEF InFlight, Nowhere
  <1> QED
    BY <1>1, <1>6, <1>7, <1>8 DEF InFlight

LEMMA InFlightKept ==
  ASSUME NEW p \in Paths, InFlight(p),
         call_rx'[p] = call_rx[p], pending_requests'[p] = pending_requests[p],
         outgoing'[p] = outgoing[p], incoming'[p] = incoming[p],
         Awaiting(p)' <=> Awaiting(p),
         Awaiting(p) => /\ busy'.of = busy.of
                        /\ runs'[busy.of] = runs[busy.of] /\ reqId'[busy.of] = reqId[busy.of]
  PROVE  InFlight(p)'
  BY DEF InFlight, Nowhere, InChannel, OnTheWay

\* A step that changes neither channels nor sockets.
LEMMA FlightKept ==
  ASSUME \A p \in Paths : InFlight(p),
         UNCHANGED <<call_rx, pending_requests, outgoing, incoming, runs>>,
         (busy' = busy) \/ (busy.op # "Await" /\ busy'.op # "Await"),
         busy.op = "Await" => reqId'[busy.of] = reqId[busy.of]
  PROVE  \A p \in Paths : InFlight(p)'
  <1> SUFFICES ASSUME NEW p \in Paths PROVE InFlight(p)'
    OBVIOUS
  <1>1. Awaiting(p)' <=> Awaiting(p)
    BY DEF Awaiting
  <1>2. Awaiting(p) => busy' = busy /\ busy.op = "Await"
    BY DEF Awaiting
  <1> QED
    BY <1>1, <1>2, InFlightKept

\* A step of a dispatch task leaves the calls of the others where they are.
LEMMA OthersKept ==
  ASSUME CallInv, NEW p \in Paths, UNCHANGED <<runs, reqId>>,
         \A q \in Paths \ {p} :
             /\ call_rx'[q] = call_rx[q] /\ pending_requests'[q] = pending_requests[q]
             /\ outgoing'[q] = outgoing[q] /\ incoming'[q] = incoming[q],
         (busy' = busy) \/ (Awaiting(p) /\ busy'.op = "Relay")
  PROVE  \A q \in Paths \ {p} : InFlight(q)'
  <1> SUFFICES ASSUME NEW q \in Paths \ {p} PROVE InFlight(q)'
    OBVIOUS
  <1>1. (Awaiting(q)' <=> Awaiting(q)) /\ (Awaiting(q) => busy' = busy)
    BY DEF Awaiting
  <1>2. InFlight(q)
    BY DEF CallInv
  <1> QED
    BY <1>1, <1>2, InFlightKept

LEMMA OfflineKept ==
  ASSUME \A p \in Paths : Offline(p), UNCHANGED <<dispatch, link, incoming, outgoing>>
  PROVE  \A p \in Paths : Offline(p)'
  BY DEF Offline

\* What the worker knows, after a step that settles its call at most.
LEMMA BooksKept ==
  ASSUME Books, UNCHANGED <<phase, answer, command, alive, runs>>,
         \/ busy' = busy
         \/ /\ busy.op = "Await" /\ busy'.op = "Relay" /\ busy'.of = busy.of
            /\ busy'.reply = None \/ (busy'.reply = busy.of /\ runs[busy.of] = 1)
  PROVE  Books'
  <1>1. Command1' /\ Counted' /\ AnswerOwn'
    BY DEF Books, Command1, Counted, AnswerOwn
  <1>2. Busy1'
    BY DEF Books, Busy1, Idle
  <1> QED
    BY <1>1, <1>2 DEF Books

-----------------------------------------------------------------------------
(* The steps of callers and worker *)

LEMMA CallersInv ==
  ASSUME TypeOK, CallInv, NEW k \in Callers, CallStart(k) \/ CallUnbound(k) \/ CallSend(k)
  PROVE  CallInv'
  <1>1. /\ UNCHANGED <<busy, alive, answer, call_rx, pending_requests, outgoing, incoming, runs,
                       dispatch, link>>
        /\ phase[k] # "waiting"
        /\ \A j \in Callers \ {k} : phase'[j] = phase[j] /\ reqId'[j] = reqId[j]
    BY DEF CallStart, CallUnbound, CallSend, workerVars, dispatchVars, serverVars, TypeOK, CallsOK
  <1>2. \A p \in Paths : Offline(p)'
    BY <1>1, OfflineKept DEF CallInv
  <1>3. busy.op \in {"CallRemotely", "Await", "Relay"} =>
            busy.of \in Callers /\ busy.of # k /\ phase'[busy.of] = "waiting"
    BY <1>1, BusyFact DEF CallInv, Books, Busy1, TypeOK
  <1>4. \A p \in Paths : InFlight(p)'
    BY <1>1, <1>3, FlightKept DEF CallInv
  <1>5. \A q \in Elems(command) : q.op = "CallRemotely" =>
            q.of \in Callers /\ q.of # k /\ phase'[q.of] = "waiting" /\ runs'[q.of] = 0
    <2>1. Elems(command) \subseteq Command
      BY ElemsType DEF TypeOK, WorkerOK
    <2> QED
      BY <1>1, <2>1, CommandFact DEF CallInv, Books, Command1
  <1>6. Counted' /\ AnswerOwn'
    BY <1>1 DEF CallInv, Books, Counted, AnswerOwn, CallStart, CallUnbound, CallSend,
                TypeOK, CallsOK
  <1>7. CASE UNCHANGED command
    <2>1. Command1'
      BY <1>1, <1>5, <1>7 DEF CallInv, Books, Command1
    <2>2. Busy1'
      BY <1>1, <1>3, <1>7 DEF CallInv, Books, Busy1
    <2> QED
      BY <1>2, <1>4, <1>6, <2>1, <2>2 DEF CallInv, Books
  <1>8. CASE /\ alive /\ phase[k] = "sending"
             /\ command' = Append(command, [op |-> "CallRemotely", of |-> k])
             /\ phase' = [phase EXCEPT ![k] = "waiting"]
    <2> DEFINE e == [op |-> "CallRemotely", of |-> k]
    <2>1. Elems(command') = Elems(command) \cup {e}
      BY <1>8, CommandFact, ElemsAppend DEF TypeOK, WorkerOK
    <2>2. /\ Len(command') = Len(command) + 1 /\ Len(command) \in Nat
          /\ command'[Len(command) + 1] = e
          /\ \A i \in 1 .. Len(command) : command'[i] = command[i]
      BY <1>8, CommandFact, AppendProperties, LenProperties DEF TypeOK, WorkerOK
    <2>3. \A i \in 1 .. Len(command') : i \in 1 .. Len(command) \/ i = Len(command) + 1
      BY <2>2
    <2>4. \A i \in 1 .. Len(command) : command[i] # e
      BY <1>5 DEF Elems
    <2>5. phase'[k] = "waiting" /\ runs'[k] = 0
      BY <1>1, <1>8 DEF CallInv, Books, Counted, TypeOK, CallsOK
    <2>6. \A q \in Elems(command') :
              q.op = "CallRemotely" => phase'[q.of] = "waiting" /\ runs'[q.of] = 0
      BY <1>5, <2>1, <2>5
    <2>7. \A i, j \in 1 .. Len(command) :
              command[i] = command[j] /\ command[i].op = "CallRemotely" => i = j
      BY DEF CallInv, Books, Command1
    <2>8. \A i, j \in 1 .. Len(command') :
              command'[i] = command'[j] /\ command'[i].op = "CallRemotely" => i = j
      BY <2>2, <2>3, <2>4, <2>7
    <2>9. Command1'
      BY <2>6, <2>8 DEF Command1
    <2>10. Busy1'
      BY <1>1, <1>3, <1>8, <2>1 DEF CallInv, Books, Busy1
    <2> QED
      BY <1>2, <1>4, <1>6, <2>9, <2>10 DEF CallInv, Books
  <1> QED
    BY <1>7, <1>8 DEF CallStart, CallUnbound, CallSend, workerVars

LEMMA WorkerRecvInv == ASSUME TypeOK, CallInv, WorkerRecv PROVE CallInv'
  <1> DEFINE e == Head(command)
  <1>1. /\ Len(command) \in Nat /\ Len(command) > 0 /\ Len(Tail(command)) = Len(command) - 1
        /\ \A i \in 1 .. Len(Tail(command)) : Tail(command)[i] = command[i + 1]
        /\ e = command[1]
    BY HeadTailProperties, EmptySeq DEF TypeOK, WorkerOK, WorkerRecv
  <1>2. \A i \in 1 .. Len(Tail(command)) : i + 1 \in 1 .. Len(command) /\ i + 1 # 1
    BY <1>1
  <1>3. e \in Elems(command) /\ e \in Command /\ Elems(Tail(command)) \subseteq Elems(command)
    BY ElemsHeadTail, ElemsType DEF TypeOK, WorkerOK, WorkerRecv
  <1>4. UNCHANGED <<phase, reqId, runs, alive, answer, call_rx, pending_requests, outgoing,
                    incoming, dispatch, link>>
        /\ busy = Idle /\ busy' = e /\ command' = Tail(command)
    BY DEF WorkerRecv, callVars, dispatchVars, serverVars
  <1>5. e.op \in {"CallRemotely", "RemoveWsRoute"} /\ busy.op = "none"
    BY <1>3, <1>4 DEF Command, Idle
  <1>6. \A p \in Paths : Offline(p)' /\ InFlight(p)'
    BY <1>4, <1>5, OfflineKept, FlightKept DEF CallInv
  <1>7. \A i, j \in 1 .. Len(command) :
            command[i] = command[j] /\ command[i].op = "CallRemotely" => i = j
    BY DEF CallInv, Books, Command1
  <1>8. e.op = "CallRemotely" => e = [op |-> "CallRemotely", of |-> e.of]
    BY <1>3, CommandFact
  <1>9. e.op = "CallRemotely" => e \notin Elems(Tail(command))
    <2>1. 1 \in 1 .. Len(command)
      BY <1>1
    <2> QED
      BY <1>1, <1>2, <1>7, <2>1 DEF Elems
  <1>10. Command1'
    <2>1. \A i, j \in 1 .. Len(Tail(command)) :
              Tail(command)[i] = Tail(command)[j] /\ Tail(command)[i].op = "CallRemotely" => i = j
      <3>1. \A i, j \in 1 .. Len(Tail(command)) : i + 1 = j + 1 => i = j
        BY <1>1
      <3> QED
        BY <1>1, <1>2, <1>7, <3>1
    <2> QED
      BY <1>3, <1>4, <2>1 DEF CallInv, Books, Command1
  <1>11. Busy1'
    <2>1. e.op = "CallRemotely" => phase[e.of] = "waiting" /\ runs[e.of] = 0
      BY <1>3 DEF CallInv, Books, Command1
    <2>2. alive
      BY DEF WorkerRecv
    <2> QED
      BY <1>4, <1>5, <1>8, <1>9, <2>1, <2>2 DEF Busy1
  <1>12. Counted' /\ AnswerOwn'
    BY <1>4 DEF CallInv, Books, Counted, AnswerOwn
  <1> QED
    BY <1>6, <1>10, <1>11, <1>12 DEF CallInv, Books

\* The worker is done with its call, which leaves the phase "waiting".
LEMMA SettledBooks ==
  ASSUME TypeOK, Books, busy.op \in {"CallRemotely", "Relay"},
         UNCHANGED <<command, alive, runs>>, busy' = Idle,
         NEW ph \in {"ok", "failed"}, phase' = [phase EXCEPT ![busy.of] = ph]
  PROVE  Command1' /\ Busy1' /\ Counted'
  <1>1. busy.of \in Callers /\ [op |-> "CallRemotely", of |-> busy.of] \notin Elems(command)
    BY BusyFact DEF TypeOK, Books, Busy1
  <1>2. Elems(command) \subseteq Command
    BY ElemsType DEF TypeOK, WorkerOK
  <1>3. \A q \in Elems(command) : q.op = "CallRemotely" => q.of \in Callers \ {busy.of}
    BY <1>1, <1>2, CommandFact
  <1>4. \A k \in Callers : phase'[k] = IF k = busy.of THEN ph ELSE phase[k]
    BY DEF TypeOK, CallsOK
  <1>5. Command1'
    BY <1>3, <1>4 DEF Books, Command1
  <1>6. Busy1'
    BY DEF Busy1, Idle
  <1>7. Counted'
    BY <1>4 DEF Books, Counted
  <1> QED
    BY <1>5, <1>6, <1>7

LEMMA WorkerForwardInv == ASSUME TypeOK, CallInv, WorkerForward PROVE CallInv'
  <1>1. PICK k, t : k = busy.of /\ t = Target[busy.of]
    OBVIOUS
  <1>2. k \in Callers /\ t \in Paths /\ busy.op = "CallRemotely"
    BY <1>1, BusyFact, TargetFact DEF TypeOK, WorkerForward
  <1>3. UNCHANGED <<reqId, runs, alive, answer, command, pending_requests, outgoing, incoming,
                    dispatch, link>>
    BY DEF WorkerForward, serverVars
  <1>4. \A p \in Paths : Offline(p)'
    BY <1>3, OfflineKept DEF CallInv
  <1>5. CASE /\ call_rx' = [call_rx EXCEPT ![t] = Append(@, k)]
             /\ busy' = [op |-> "Await", of |-> k]
             /\ UNCHANGED phase
    <2>1. \A p \in Paths : Nowhere(p)
      BY <1>2 DEF CallInv, InFlight, Awaiting
    <2>2. call_rx'[t] = <<k>> /\ runs[k] = 0
      <3>1. call_rx'[t] = Append(<<>>, k)
        BY <1>2, <1>5, <2>1 DEF Nowhere, TypeOK, DispatchOK
      <3>2. Append(<<>>, k) = <<k>>
        OBVIOUS
      <3> QED
        BY <1>1, <1>2, <3>1, <3>2 DEF CallInv, Books, Busy1
    <2>3. Awaiting(t)' /\ busy'.of = k
      BY <1>1, <1>5 DEF Awaiting
    <2>4. InChannel(t, k)'
      BY <1>2, <1>3, <2>1, <2>2 DEF Nowhere, InChannel
    <2>5. InFlight(t)'
      BY <2>3, <2>4 DEF InFlight
    <2>6. \A p \in Paths \ {t} : call_rx'[p] = call_rx[p] /\ ~Awaiting(p)'
      BY <1>1, <1>2, <1>5 DEF TypeOK, DispatchOK, Awaiting
    <2>7. \A p \in Paths \ {t} : InFlight(p)'
      BY <1>3, <2>1, <2>6 DEF InFlight, Nowhere
    <2>8. Command1' /\ Counted' /\ AnswerOwn'
      BY <1>3, <1>5 DEF CallInv, Books, Command1, Counted, AnswerOwn
    <2>9. Busy1'
      BY <1>1, <1>2, <1>3, <1>5 DEF CallInv, Books, Busy1, Idle
    <2> QED
      BY <1>4, <2>5, <2>7, <2>8, <2>9 DEF CallInv, Books
  <1>6. CASE /\ busy' = Idle
             /\ phase' = [phase EXCEPT ![k] = "failed"]
             /\ UNCHANGED call_rx
    <2>1. Command1' /\ Busy1' /\ Counted'
      BY <1>1, <1>2, <1>3, <1>6, SettledBooks DEF CallInv
    <2>2. AnswerOwn'
      BY <1>3, <1>6 DEF CallInv, Books, AnswerOwn, TypeOK, CallsOK
    <2>3. \A p \in Paths : InFlight(p)'
      BY <1>2, <1>3, <1>6, FlightKept DEF CallInv, Idle
    <2> QED
      BY <1>4, <2>1, <2>2, <2>3 DEF CallInv, Books
  <1> QED
    BY <1>1, <1>5, <1>6 DEF WorkerForward

LEMMA WorkerDieInv == ASSUME TypeOK, CallInv, WorkerDie PROVE CallInv'
  <1>1. UNCHANGED <<reqId, runs, answer, call_rx, pending_requests, outgoing, incoming,
                    dispatch, link>>
        /\ busy.op = "CallRemotely" /\ busy' = Idle /\ command' = <<>>
    BY DEF WorkerDie, dispatchVars, serverVars
  <1>2. \A p \in Paths : Offline(p)' /\ InFlight(p)'
    BY <1>1, OfflineKept, FlightKept DEF CallInv, Idle
  <1>3. \A k \in Callers : phase'[k] = IF phase[k] = "waiting" THEN "failed" ELSE phase[k]
    BY DEF WorkerDie
  <1>4. Counted' /\ AnswerOwn'
    BY <1>1, <1>3 DEF CallInv, Books, Counted, AnswerOwn
  <1>5. Command1'
    BY <1>1, ElemsEmpty DEF Command1
  <1>6. Busy1'
    BY <1>1 DEF Busy1, Idle
  <1> QED
    BY <1>2, <1>4, <1>5, <1>6 DEF CallInv, Books

\* The reply that is passed on is that of the call, so its id is right.
LEMMA WorkerRelayInv == ASSUME TypeOK, CallInv, WorkerRelay PROVE CallInv'
  <1>1. PICK k : k = busy.of
    OBVIOUS
  <1>2. /\ k \in Callers /\ busy.op = "Relay"
        /\ busy.reply = None \/ (busy.reply = k /\ k # None)
    BY <1>1, BusyFact, ClientNoneAssumption DEF TypeOK, WorkerRelay, CallInv, Books, Busy1
  <1>3. UNCHANGED <<reqId, runs, alive, command, call_rx, pending_requests, outgoing, incoming,
                    dispatch, link>>
        /\ busy' = Idle /\ answer' = [answer EXCEPT ![k] = busy.reply]
    BY <1>1 DEF WorkerRelay, dispatchVars, serverVars
  <1>4. \A p \in Paths : Offline(p)' /\ InFlight(p)'
    BY <1>2, <1>3, OfflineKept, FlightKept DEF CallInv, Idle
  <1>5. \/ phase' = [phase EXCEPT ![k] = "failed"]
        \/ phase' = [phase EXCEPT ![k] = "ok"] /\ busy.reply = k
    BY <1>1, <1>2 DEF WorkerRelay
  <1>6. Command1' /\ Busy1' /\ Counted'
    BY <1>1, <1>2, <1>3, <1>5, SettledBooks DEF CallInv
  <1>7. AnswerOwn'
    BY <1>2, <1>3, <1>5 DEF CallInv, Books, AnswerOwn, TypeOK, CallsOK
  <1> QED
    BY <1>4, <1>6, <1>7 DEF CallInv, Books

\* Steps that only concern the end of a route.
LEMMA RemovalInv ==
  ASSUME TypeOK, CallInv, NEW p \in Paths,
         WorkerRemoveRoute \/ UnbindStart(p) \/ UnbindSend(p)
  PROVE  CallInv'
  <1>1. UNCHANGED <<phase, reqId, runs, answer, alive, call_rx, pending_requests, outgoing,
                    incoming, dispatch, link>>
    BY DEF WorkerRemoveRoute, UnbindStart, UnbindSend, callVars, dispatchVars, serverVars
  <1>2. (UNCHANGED busy) \/ (busy.op = "RemoveWsRoute" /\ busy' = Idle)
    BY DEF WorkerRemoveRoute, UnbindStart, UnbindSend
  <1>3. \A q \in Paths : Offline(q)' /\ InFlight(q)'
    BY <1>1, <1>2, OfflineKept, FlightKept DEF CallInv, Idle
  <1>4. Counted' /\ AnswerOwn'
    BY <1>1 DEF CallInv, Books, Counted, AnswerOwn
  <1>5. CASE UNCHANGED command
    BY <1>1, <1>2, <1>3, <1>4, <1>5 DEF CallInv, Books, Command1, Busy1, Idle
  <1>6. CASE /\ alive /\ command' = Append(command, [op |-> "RemoveWsRoute", path |-> p])
             /\ UNCHANGED busy
    <2> DEFINE e == [op |-> "RemoveWsRoute", path |-> p]
    <2>1. Elems(command') = Elems(command) \cup {e}
      BY <1>6, CommandFact, ElemsAppend DEF TypeOK, WorkerOK
    <2>2. /\ Len(command') = Len(command) + 1 /\ Len(command) \in Nat
          /\ command'[Len(command) + 1] = e
          /\ \A i \in 1 .. Len(command) : command'[i] = command[i]
      BY <1>6, CommandFact, AppendProperties, LenProperties DEF TypeOK, WorkerOK
    <2>3. \A i \in 1 .. Len(command') : i \in 1 .. Len(command) \/ i = Len(command) + 1
      BY <2>2
    <2>4. e.op # "CallRemotely" /\ \A k : e # [op |-> "CallRemotely", of |-> k]
      BY SMT
    <2>5. \A i, j \in 1 .. Len(command) :
              command[i] = command[j] /\ command[i].op = "CallRemotely" => i = j
      BY DEF CallInv, Books, Command1
    <2>6. \A i, j \in 1 .. Len(command') :
              command'[i] = command'[j] /\ command'[i].op = "CallRemotely" => i = j
      BY <2>2, <2>3, <2>4, <2>5
    <2>7. Command1'
      BY <1>1, <2>1, <2>4, <2>6 DEF CallInv, Books, Command1
    <2>8. Busy1'
      BY <1>1, <1>6, <2>1, <2>4 DEF CallInv, Books, Busy1
    <2> QED
      BY <1>3, <1>4, <2>7, <2>8 DEF CallInv, Books
  <1> QED
    BY <1>5, <1>6 DEF WorkerRemoveRoute, UnbindStart, UnbindSend

-----------------------------------------------------------------------------
(* The steps of the dispatch tasks *)

\* What the worker sees of calls that are dropped.
LEMMA DroppedIs ==
  ASSUME TypeOK, NEW p \in Paths, InFlight(p), NEW S, busy' = Dropped(S)
  PROVE  /\ S = {} => busy' = busy
         /\ S = InQueue(p) \cup Pending(p) =>
                IF Awaiting(p)
                THEN busy'.op = "Relay" /\ busy'.of = busy.of /\ busy'.reply = None
                ELSE busy' = busy
  BY HeldFact DEF Dropped, Awaiting

\* The call of the task, if it has one, is dropped, and the socket with it.
LEMMA DropCalls ==
  ASSUME TypeOK, CallInv, NEW p \in Paths,
         UNCHANGED <<phase, reqId, answer, command, alive, runs>>,
         \A q \in Paths \ {p} :
             /\ call_rx'[q] = call_rx[q] /\ pending_requests'[q] = pending_requests[q]
             /\ outgoing'[q] = outgoing[q] /\ incoming'[q] = incoming[q],
         call_rx'[p] = <<>>, pending_requests'[p] = NoPending,
         incoming'[p] = <<>>, outgoing'[p] = <<>>,
         busy' = Dropped(InQueue(p) \cup Pending(p))
  PROVE  Books' /\ (\A q \in Paths : InFlight(q)')
  <1>1. IF Awaiting(p)
        THEN busy'.op = "Relay" /\ busy'.of = busy.of /\ busy'.reply = None
        ELSE busy' = busy
    BY DroppedIs DEF CallInv
  <1>2. Books'
    BY <1>1, BooksKept DEF CallInv, Awaiting
  <1>3. \A q \in Paths \ {p} : InFlight(q)'
    BY <1>1, OthersKept
  <1>4. ~Awaiting(p)'
    BY <1>1 DEF Awaiting
  <1>5. InFlight(p)'
    BY <1>4, LoneEmpty DEF InFlight, Nowhere
  <1> QED
    BY <1>2, <1>3, <1>5

LEMMA EndCalls ==
  ASSUME TypeOK, CallInv, NEW p \in Paths, EndWith(p, InQueue(p) \cup Pending(p)),
         UNCHANGED <<phase, reqId, answer, command, alive>>,
         Hangup(p) \/ (Offline(p) /\ dispatch[p] \notin {"open", "handler"} /\ UNCHANGED serverVars)
  PROVE  CallInv'
  <1>1. /\ UNCHANGED runs
        /\ link'[p] = "none" /\ incoming'[p] = <<>> /\ outgoing'[p] = <<>>
        /\ \A q \in Paths \ {p} :
               link'[q] = link[q] /\ incoming'[q] = incoming[q] /\ outgoing'[q] = outgoing[q]
    BY DEF Hangup, Offline, serverVars, TypeOK, ServersOK
  <1>2. /\ call_rx'[p] = <<>> /\ pending_requests'[p] = NoPending
        /\ \A q \in Paths \ {p} : /\ call_rx'[q] = call_rx[q]
                                  /\ pending_requests'[q] = pending_requests[q]
                                  /\ dispatch'[q] = dispatch[q]
    BY DEF EndWith, TypeOK, DispatchOK
  <1>3. busy' = Dropped(InQueue(p) \cup Pending(p))
    BY DEF EndWith
  <1>4. Books' /\ \A q \in Paths : InFlight(q)'
    BY <1>1, <1>2, <1>3, DropCalls
  <1>5. \A q \in Paths : Offline(q)'
    BY <1>1, <1>2 DEF CallInv, Offline
  <1> QED
    BY <1>4, <1>5 DEF CallInv

\* The task moves on, and its calls stay where they are.
LEMMA TaskMoves ==
  ASSUME TypeOK, CallInv, NEW p \in Paths, NEW d, dispatch' = [dispatch EXCEPT ![p] = d],
         UNCHANGED <<phase, reqId, answer, command, alive, runs, busy, call_rx, pending_requests>>,
         UNCHANGED <<link, incoming, outgoing>>,
         dispatch[p] \notin {"open", "handler"}
  PROVE  CallInv'
  <1>1. \A q \in Paths : dispatch'[q] = IF q = p THEN d ELSE dispatch[q]
    BY DEF TypeOK, DispatchOK
  <1>2. \A q \in Paths : Offline(q)'
    BY <1>1 DEF CallInv, Offline
  <1> QED
    BY <1>2, BooksKept, FlightKept DEF CallInv

LEMMA ConnectingInv ==
  ASSUME TypeOK, CallInv, NEW p \in Paths,
         RequestReady(p) \/ WakeUp(p) \/ ConnectFails(p) \/ ConnectEnds(p)
  PROVE  CallInv'
  <1>1. /\ UNCHANGED <<phase, reqId, answer, command, alive>> /\ UNCHANGED serverVars
        /\ dispatch[p] \notin {"open", "handler"}
    BY DEF RequestReady, WakeUp, ConnectFails, ConnectEnds, End, callVars, workerVars
  <1>2. CASE EndWith(p, InQueue(p) \cup Pending(p))
    BY <1>1, <1>2, EndCalls DEF CallInv
  <1>3. CASE /\ \E d : dispatch' = [dispatch EXCEPT ![p] = d]
             /\ UNCHANGED <<busy, call_rx, pending_requests>>
    BY <1>1, <1>3, TaskMoves DEF serverVars
  <1> QED
    BY <1>2, <1>3 DEF RequestReady, WakeUp, ConnectFails, ConnectEnds, End, TryAttempt, workerVars

LEMMA ConnectInv == ASSUME TypeOK, CallInv, NEW p \in Paths, Connect(p) PROVE CallInv'
  <1>1. /\ UNCHANGED <<phase, reqId, answer, command, alive, busy, runs, call_rx,
                       pending_requests>>
        /\ dispatch[p] = "connect" /\ dispatch'[p] = "open"
        /\ \A q \in Paths \ {p} : dispatch'[q] = dispatch[q] /\ link'[q] = link[q]
        /\ \A q \in Paths \ {p} : incoming'[q] = incoming[q] /\ outgoing'[q] = outgoing[q]
        /\ incoming'[p] = <<>> /\ outgoing'[p] = <<>>
    BY DEF Connect, callVars, workerVars, TypeOK, DispatchOK, ServersOK
  <1>2. incoming' = incoming /\ outgoing' = outgoing
    <2>1. incoming[p] = <<>> /\ outgoing[p] = <<>>
      BY <1>1 DEF CallInv, Offline
    <2> QED
      BY <2>1 DEF Connect, TypeOK, ServersOK
  <1>3. \A q \in Paths : InFlight(q)'
    BY <1>1, <1>2, FlightKept DEF CallInv
  <1>4. \A q \in Paths : Offline(q)'
    BY <1>1 DEF CallInv, Offline
  <1> QED
    BY <1>1, <1>3, <1>4, BooksKept DEF CallInv

\* A socket changes by a packet that is not of a call of the client.
LEMMA SocketKept ==
  ASSUME CallInv, NEW p \in Paths, UNCHANGED <<busy, runs, reqId, call_rx, pending_requests>>,
         \A q \in Paths \ {p} : outgoing'[q] = outgoing[q] /\ incoming'[q] = incoming[q],
         \A M : Lone(outgoing[p], "Call", M) => Lone(outgoing'[p], "Call", M),
         \A M : Lone(incoming[p], "Ret", M) => Lone(incoming'[p], "Ret", M)
  PROVE  \A q \in Paths : InFlight(q)'
  <1>1. \A q \in Paths \ {p} : InFlight(q)'
    BY OthersKept
  <1>2. InFlight(p) /\ (Awaiting(p)' <=> Awaiting(p))
    BY DEF CallInv, Awaiting
  <1>3. InFlight(p)'
    BY <1>2 DEF InFlight, Nowhere, InChannel, OnTheWay
  <1> QED
    BY <1>1, <1>3

LEMMA ReadCallInv == ASSUME TypeOK, CallInv, NEW p \in Paths, ReadCall(p) PROVE CallInv'
  <1>1. incoming[p] \in Seq(FromServer) /\ incoming[p] # <<>> /\ Head(incoming[p]).kind = "Call"
    BY DEF ReadCall, TypeOK, ServersOK
  <1>2. incoming'[p] = Tail(incoming[p]) /\ \A q \in Paths \ {p} : incoming'[q] = incoming[q]
    BY DEF ReadCall, TypeOK, ServersOK
  <1>3. \A M : Lone(incoming[p], "Ret", M) => Lone(incoming'[p], "Ret", M)
    BY <1>1, <1>2, LoneTail
  <1>4. UNCHANGED <<phase, reqId, answer, command, alive, busy, runs, call_rx,
                    pending_requests, link, outgoing>>
    BY DEF ReadCall, callVars, workerVars
  <1>5. \A q \in Paths : InFlight(q)'
    BY <1>2, <1>3, <1>4, SocketKept
  <1>6. \A q \in Paths : Offline(q)'
    BY <1>2, <1>4 DEF ReadCall, CallInv, Offline, TypeOK, DispatchOK
  <1> QED
    BY <1>4, <1>5, <1>6, BooksKept DEF CallInv

LEMMA HandlerReturnInv == ASSUME TypeOK, CallInv, NEW p \in Paths, HandlerReturn(p) PROVE CallInv'
  <1> DEFINE e == [kind |-> "Ret", of |-> handling[p]]
  <1>1. e \in ToServer /\ e.kind # "Call" /\ outgoing[p] \in Seq(ToServer)
    BY PacketFact DEF HandlerReturn, TypeOK, DispatchOK, ServersOK
  <1>2. /\ outgoing'[p] = outgoing[p] \/ outgoing'[p] = Append(outgoing[p], e)
        /\ \A q \in Paths \ {p} : outgoing'[q] = outgoing[q]
    BY DEF HandlerReturn, Written, TypeOK, ServersOK
  <1>3. \A M : Lone(outgoing[p], "Call", M) => Lone(outgoing'[p], "Call", M)
    <2> SUFFICES ASSUME NEW M, Lone(outgoing[p], "Call", M)
                 PROVE  Lone(Append(outgoing[p], e), "Call", M)
      BY <1>2
    <2> HIDE DEF e
    <2> QED
      BY <1>1, LoneAppend
  <1>4. UNCHANGED <<phase, reqId, answer, command, alive, busy, runs, call_rx,
                    pending_requests, link, incoming>>
    BY DEF HandlerReturn, callVars, workerVars
  <1>5. \A q \in Paths : InFlight(q)'
    BY <1>2, <1>3, <1>4, SocketKept
  <1>6. \A q \in Paths : Offline(q)'
    BY <1>2, <1>4 DEF HandlerReturn, CallInv, Offline, TypeOK, DispatchOK
  <1> QED
    BY <1>4, <1>5, <1>6, BooksKept DEF CallInv

\* A reply that arrives is that of the call that the worker awaits.
LEMMA ReadRetInv == ASSUME TypeOK, CallInv, NEW p \in Paths, ReadRet(p) PROVE CallInv'
  <1>1. PICK msg, k : msg = Head(incoming[p]) /\ k = busy.of
    OBVIOUS
  <1>2. incoming[p] \in Seq(FromServer) /\ incoming[p] # <<>> /\ msg.kind = "Ret"
    BY <1>1 DEF ReadRet, TypeOK, ServersOK
  <1>3. \A M : Lone(incoming[p], "Ret", M) => M = {msg} /\ Lone(Tail(incoming[p]), "Ret", {})
    BY <1>1, <1>2, LoneTail
  <1>4. InFlight(p)
    BY DEF CallInv
  <1>5. /\ Awaiting(p) /\ OnTheWay(p, k) /\ runs[k] = 1 /\ Lone(outgoing[p], "Call", {})
        /\ msg = [kind |-> "Ret", id |-> reqId[k], of |-> k]
    <2>1. ~Lone(incoming[p], "Ret", {})
      BY <1>3
    <2>2. Awaiting(p) /\ OnTheWay(p, k)
      BY <1>1, <1>4, <2>1 DEF InFlight, Nowhere, InChannel
    <2>3. /\ runs[k] = 1 /\ Lone(outgoing[p], "Call", {})
          /\ Lone(incoming[p], "Ret", {[kind |-> "Ret", id |-> reqId[k], of |-> k]})
      BY <2>1, <2>2 DEF OnTheWay
    <2>4. {msg} = {[kind |-> "Ret", id |-> reqId[k], of |-> k]}
      BY <1>3, <2>3
    <2> QED
      BY <2>2, <2>3, <2>4
  <1>6. k \in Callers /\ k # None /\ busy = [op |-> "Await", of |-> k] /\ reqId[k] \in Ids
    BY <1>1, <1>5, BusyFact, ClientNoneAssumption DEF Awaiting, TypeOK, CallsOK
  <1>7. call_rx[p] = <<>> /\ pending_requests[p] = [NoPending EXCEPT ![reqId[k]] = k]
    BY <1>5 DEF OnTheWay
  <1>8. pending_requests[p][msg.id] = k
    BY <1>5, <1>6, <1>7 DEF NoPending
  <1>9. /\ pending_requests' = [pending_requests EXCEPT ![p][msg.id] = None]
        /\ busy' = [op |-> "Relay", of |-> k, reply |-> k]
    <2>1. msg.of = k
      BY <1>5
    <2> QED
      BY <1>1, <1>6, <1>8, <2>1 DEF ReadRet
  <1>10. pending_requests'[p] = NoPending
    <2>1. pending_requests'[p] = [pending_requests[p] EXCEPT ![msg.id] = None]
      BY <1>9 DEF TypeOK, DispatchOK
    <2>2. msg.id = reqId[k]
      BY <1>5
    <2> QED
      BY <1>6, <1>7, <2>1, <2>2 DEF NoPending
  <1>11. /\ UNCHANGED <<phase, reqId, answer, command, alive, runs, call_rx, outgoing, link,
                        dispatch>>
         /\ incoming'[p] = Tail(incoming[p])
         /\ \A q \in Paths \ {p} : incoming'[q] = incoming[q]
         /\ \A q \in Paths \ {p} : pending_requests'[q] = pending_requests[q]
    BY <1>9 DEF ReadRet, callVars, TypeOK, DispatchOK, ServersOK
  <1>12. Books'
    BY <1>1, <1>5, <1>6, <1>9, <1>11, BooksKept DEF CallInv, Awaiting
  <1>13. \A q \in Paths \ {p} : InFlight(q)'
    BY <1>5, <1>9, <1>11, OthersKept
  <1>14. Lone(incoming'[p], "Ret", {})
    BY <1>3, <1>4, <1>5, <1>11 DEF OnTheWay
  <1>15. ~Awaiting(p)'
    BY <1>9 DEF Awaiting
  <1>16. InFlight(p)'
    BY <1>5, <1>7, <1>10, <1>11, <1>14, <1>15 DEF InFlight, Nowhere
  <1>17. \A q \in Paths : Offline(q)'
    BY <1>11 DEF ReadRet, CallInv, Offline
  <1> QED
    BY <1>12, <1>13, <1>16, <1>17 DEF CallInv

\* The call in the channel is the one that the worker awaits, and no other is
\* pending: its id is free.
LEMMA TakeCallInv == ASSUME TypeOK, CallInv, NEW p \in Paths, TakeCall(p) PROVE CallInv'
  <1>1. PICK k, i : k = busy.of /\ i = reqId[k]
    OBVIOUS
  <1> DEFINE e == [kind |-> "Call", id |-> i, of |-> k]
  <1>2. InFlight(p) /\ call_rx[p] # <<>>
    BY DEF CallInv, TakeCall
  <1>3. Awaiting(p) /\ InChannel(p, k)
    BY <1>1, <1>2 DEF InFlight, Nowhere, OnTheWay
  <1>4. k \in Callers /\ k # None /\ i \in Ids /\ e \in ToServer
    BY <1>1, <1>3, BusyFact, PacketFact, ClientNoneAssumption DEF Awaiting, TypeOK, CallsOK
  <1>5. Head(call_rx[p]) = k /\ Tail(call_rx[p]) = <<>> /\ pending_requests[p] = NoPending
    BY <1>3 DEF InChannel
  <1>6. /\ outgoing' = Written(p, e)
        /\ pending_requests' = [pending_requests EXCEPT ![p][i] = k]
        /\ busy' = Dropped({pending_requests[p][i]} \ {None})
    BY <1>1, <1>5 DEF TakeCall
  <1>7. busy' = busy
    <2>1. {pending_requests[p][i]} \ {None} = {}
      BY <1>4, <1>5 DEF NoPending
    <2> QED
      BY <1>2, <1>6, <2>1, DroppedIs
  <1>8. /\ UNCHANGED <<phase, reqId, answer, command, alive, runs, link, incoming, dispatch>>
        /\ call_rx'[p] = <<>>
        /\ \A q \in Paths \ {p} : call_rx'[q] = call_rx[q]
    BY <1>5 DEF TakeCall, callVars, TypeOK, DispatchOK
  <1>9. /\ pending_requests'[p] = [NoPending EXCEPT ![i] = k]
        /\ \A q \in Paths \ {p} : pending_requests'[q] = pending_requests[q]
    BY <1>5, <1>6 DEF TypeOK, DispatchOK
  <1>10. /\ outgoing'[p] = outgoing[p] \/ outgoing'[p] = Append(outgoing[p], e)
         /\ \A q \in Paths \ {p} : outgoing'[q] = outgoing[q]
    BY <1>6 DEF Written, TypeOK, ServersOK
  <1>11. Lone(outgoing'[p], "Call", {}) \/ Lone(outgoing'[p], "Call", {e})
    <2>1. outgoing[p] \in Seq(ToServer) /\ Lone(outgoing[p], "Call", {})
      BY <1>3 DEF InChannel, TypeOK, ServersOK
    <2>2. e.kind = "Call"
      OBVIOUS
    <2>3. Lone(Append(outgoing[p], e), "Call", {e})
      BY <1>4, <2>1, <2>2, LoneAppend
    <2> QED
      BY <1>10, <2>1, <2>3
  <1>12. OnTheWay(p, k)'
    BY <1>1, <1>3, <1>8, <1>9, <1>11 DEF InChannel, OnTheWay
  <1>13. InFlight(p)'
    BY <1>1, <1>3, <1>7, <1>12 DEF InFlight, Awaiting
  <1>14. \A q \in Paths \ {p} : InFlight(q)'
    BY <1>7, <1>8, <1>9, <1>10, OthersKept
  <1>15. \A q \in Paths : Offline(q)'
    BY <1>8, <1>10 DEF TakeCall, CallInv, Offline
  <1> QED
    BY <1>7, <1>8, <1>13, <1>14, <1>15, BooksKept DEF CallInv

\* A call that has been taken is dropped with its connection; one that still
\* waits in the channel is kept for the next.
LEMMA ConnectionLostInv ==
  ASSUME TypeOK, CallInv, NEW p \in Paths, ConnectionLost(p)
  PROVE  CallInv'
  <1>1. UNCHANGED <<phase, reqId, answer, command, alive>> /\ Hangup(p)
    BY DEF ConnectionLost, callVars
  <1>2. CASE EndWith(p, InQueue(p) \cup Pending(p))
    BY <1>1, <1>2, EndCalls
  <1>3. CASE /\ dispatch' = [dispatch EXCEPT ![p] = "sleep"]
             /\ pending_requests' = [pending_requests EXCEPT ![p] = NoPending]
             /\ busy' = Dropped(Pending(p))
             /\ UNCHANGED call_rx
    <2>1. /\ UNCHANGED runs
          /\ link'[p] = "none" /\ incoming'[p] = <<>> /\ outgoing'[p] = <<>>
          /\ \A q \in Paths \ {p} :
                 link'[q] = link[q] /\ incoming'[q] = incoming[q] /\ outgoing'[q] = outgoing[q]
      BY <1>1 DEF Hangup, TypeOK, ServersOK
    <2>2. /\ pending_requests'[p] = NoPending
          /\ \A q \in Paths \ {p} : /\ pending_requests'[q] = pending_requests[q]
                                    /\ dispatch'[q] = dispatch[q]
      BY <1>3 DEF TypeOK, DispatchOK
    <2>3. \A q \in Paths : Offline(q)'
      BY <2>1, <2>2 DEF CallInv, Offline
    <2>4. CASE call_rx[p] = <<>>
      <3>1. InQueue(p) = {}
        BY <2>4 DEF InQueue
      <3>2. busy' = Dropped(InQueue(p) \cup Pending(p))
        BY <1>3, <3>1
      <3> QED
        BY <1>1, <1>3, <2>1, <2>2, <2>3, <2>4, <3>2, DropCalls DEF CallInv
    <2>5. CASE call_rx[p] # <<>>
      <3>1. InFlight(p)
        BY DEF CallInv
      <3>2. Awaiting(p) /\ InChannel(p, busy.of)
        BY <2>5, <3>1 DEF InFlight, Nowhere, OnTheWay
      <3>3. Pending(p) = {}
        BY <3>2 DEF InChannel, Pending, NoPending
      <3>4. busy' = busy
        BY <1>3, <3>1, <3>3, DroppedIs
      <3>5. InFlight(p)'
        BY <1>1, <1>3, <2>1, <2>2, <3>2, <3>4, LoneEmpty DEF InFlight, InChannel, Awaiting
      <3>6. \A q \in Paths \ {p} : InFlight(q)'
        BY <1>1, <1>3, <2>1, <2>2, <3>4, OthersKept
      <3> QED
        BY <1>1, <2>1, <2>3, <3>4, <3>5, <3>6, BooksKept DEF CallInv
    <2> QED
      BY <2>4, <2>5
  <1> QED
    BY <1>2, <1>3 DEF ConnectionLost

LEMMA DispatchInv == ASSUME TypeOK, CallInv, NEW p \in Paths, Dispatch(p) PROVE CallInv'
  <1>1. CASE ConnectionEnds(p) \/ DispatchAborted(p) \/ HandlerPanic(p)
    BY <1>1, EndCalls DEF ConnectionEnds, DispatchAborted, HandlerPanic, End, callVars
  <1> QED
    BY <1>1, ConnectingInv, ConnectInv, ReadCallInv, HandlerReturnInv, ReadRetInv, TakeCallInv,
       ConnectionLostInv DEF Dispatch

-----------------------------------------------------------------------------
(* The steps of servers and network *)

\* What is on its way can be lost: a call that is written, or its reply.
LEMMA LostInv ==
  ASSUME TypeOK, CallInv, NEW p \in Paths, ServerClose(p) \/ LinkBreaks(p)
  PROVE  CallInv'
  <1>1. UNCHANGED <<phase, reqId, answer, command, alive, busy, runs, call_rx,
                    pending_requests, dispatch>>
        /\ link[p] = "up"
    BY DEF ServerClose, LinkBreaks, callVars, workerVars, dispatchVars
  <1>2. /\ outgoing'[p] = <<>> /\ (incoming'[p] = incoming[p] \/ incoming'[p] = <<>>)
        /\ \A q \in Paths \ {p} :
               link'[q] = link[q] /\ outgoing'[q] = outgoing[q] /\ incoming'[q] = incoming[q]
    BY DEF ServerClose, LinkBreaks, TypeOK, ServersOK
  <1>3. InFlight(p) /\ (Awaiting(p)' <=> Awaiting(p))
    BY <1>1 DEF CallInv, Awaiting
  <1>4. \A M : Lone(incoming[p], "Ret", M) =>
            Lone(incoming'[p], "Ret", M) \/ Lone(incoming'[p], "Ret", {})
    BY <1>2, LoneEmpty
  <1>5. Lone(outgoing'[p], "Call", {})
    BY <1>2, LoneEmpty
  <1>6. InFlight(p)'
    <2>1. CASE ~Awaiting(p)
      BY <1>1, <1>3, <1>4, <1>5, <2>1 DEF InFlight, Nowhere
    <2>2. CASE Awaiting(p) /\ InChannel(p, busy.of)
      BY <1>1, <1>3, <1>4, <1>5, <2>2 DEF InFlight, InChannel
    <2>3. CASE Awaiting(p) /\ OnTheWay(p, busy.of)
      <3>1. OnTheWay(p, busy.of)'
        BY <1>1, <1>4, <1>5, <2>3 DEF OnTheWay
      <3> QED
        BY <1>1, <1>3, <2>3, <3>1 DEF InFlight
    <2> QED
      BY <1>3, <2>1, <2>2, <2>3 DEF InFlight
  <1>7. \A q \in Paths \ {p} : InFlight(q)'
    BY <1>1, <1>2, OthersKept
  <1>8. \A q \in Paths : Offline(q)'
    BY <1>1, <1>2 DEF CallInv, Offline
  <1> QED
    BY <1>1, <1>6, <1>7, <1>8, BooksKept DEF CallInv

LEMMA Connected ==
  ASSUME CallInv, NEW p \in Paths, link[p] = "up" PROVE dispatch[p] \in {"open", "handler"}
  BY DEF CallInv, Offline

\* The call that a server runs is the one that the worker awaits, and has not run.
LEMMA ServerRunsInv ==
  ASSUME TypeOK, CallInv, NEW p \in Paths, ServerRead(p), Head(outgoing[p]).kind = "Call"
  PROVE  /\ CallInv'
         /\ \E k \in Callers : phase[k] = "waiting" /\ runs[k] = 0
                               /\ runs' = [runs EXCEPT ![k] = 1]
  <1>1. PICK msg, k, i : msg = Head(outgoing[p]) /\ k = busy.of /\ i = reqId[busy.of]
    OBVIOUS
  <1> DEFINE r == [kind |-> "Ret", id |-> i, of |-> k]
  <1>2. /\ outgoing[p] \in Seq(ToServer) /\ outgoing[p] # <<>> /\ msg.kind = "Call"
        /\ incoming[p] \in Seq(FromServer)
    BY <1>1 DEF ServerRead, TypeOK, ServersOK
  <1>3. \A M : Lone(outgoing[p], "Call", M) => M = {msg} /\ Lone(Tail(outgoing[p]), "Call", {})
    BY <1>1, <1>2, LoneTail
  <1>4. ~Lone(outgoing[p], "Call", {}) /\ InFlight(p)
    BY <1>3 DEF CallInv
  <1>5. Awaiting(p) /\ OnTheWay(p, k)
    BY <1>1, <1>4 DEF InFlight, Nowhere, InChannel
  <1>6. /\ runs[k] = 0 /\ Lone(incoming[p], "Ret", {})
        /\ Lone(outgoing[p], "Call", {[kind |-> "Call", id |-> i, of |-> k]})
    BY <1>1, <1>4, <1>5 DEF OnTheWay
  <1>7. msg = [kind |-> "Call", id |-> i, of |-> k]
    BY <1>3, <1>6
  <1>8. k \in Callers /\ i \in Ids /\ r \in FromServer /\ busy.op = "Await"
    BY <1>1, <1>5, BusyFact, PacketFact DEF Awaiting, TypeOK, CallsOK
  <1>9. msg.of = k /\ msg.id = i
    BY <1>7
  <1>10. /\ runs' = [runs EXCEPT ![k] = @ + 1]
         /\ incoming' = [incoming EXCEPT ![p] = Append(@, r)]
         /\ outgoing' = [outgoing EXCEPT ![p] = Tail(@)]
    BY <1>1, <1>2, <1>9 DEF ServerRead
  <1>11. UNCHANGED <<phase, reqId, answer, command, alive, busy, call_rx, pending_requests,
                     dispatch, link>>
    BY DEF ServerRead, callVars, workerVars, dispatchVars
  <1>12. \A j \in Callers : runs'[j] = IF j = k THEN 1 ELSE runs[j]
    BY <1>6, <1>8, <1>10 DEF TypeOK, ServersOK
  <1>13. /\ outgoing'[p] = Tail(outgoing[p]) /\ incoming'[p] = Append(incoming[p], r)
         /\ \A q \in Paths \ {p} : outgoing'[q] = outgoing[q] /\ incoming'[q] = incoming[q]
    BY <1>10 DEF TypeOK, ServersOK
  <1>14. Lone(outgoing'[p], "Call", {}) /\ Lone(incoming'[p], "Ret", {r})
    <2>1. r.kind = "Ret"
      OBVIOUS
    <2>2. Lone(outgoing'[p], "Call", {})
      BY <1>3, <1>6, <1>13
    <2> HIDE DEF r
    <2>3. Lone(Append(incoming[p], r), "Ret", {r})
      BY <1>2, <1>6, <1>8, <2>1, LoneAppend
    <2> QED
      BY <1>13, <2>2, <2>3
  <1>15. InFlight(p)'
    <2>1. OnTheWay(p, k)'
      BY <1>1, <1>5, <1>8, <1>11, <1>12, <1>14 DEF OnTheWay
    <2> QED
      BY <1>1, <1>5, <1>11, <2>1 DEF InFlight, Awaiting
  <1>16. \A q \in Paths \ {p} : InFlight(q)'
    <2> SUFFICES ASSUME NEW q \in Paths \ {p} PROVE InFlight(q)'
      OBVIOUS
    <2>1. Nowhere(q) /\ ~Awaiting(q)'
      BY <1>5, <1>11 DEF CallInv, InFlight, Awaiting
    <2> QED
      BY <1>11, <1>13, <2>1 DEF InFlight, Nowhere
  <1>17. phase[k] = "waiting" /\ [op |-> "CallRemotely", of |-> k] \notin Elems(command)
    BY <1>1, <1>8 DEF CallInv, Books, Busy1
  <1>18. Command1'
    <2>1. Elems(command) \subseteq Command
      BY ElemsType DEF TypeOK, WorkerOK
    <2>2. \A q \in Elems(command) : q.op = "CallRemotely" => q.of \in Callers \ {k}
      BY <1>17, <2>1, CommandFact
    <2> QED
      BY <1>11, <1>12, <2>2 DEF CallInv, Books, Command1
  <1>19. Busy1' /\ Counted' /\ AnswerOwn'
    BY <1>8, <1>11, <1>12, <1>17 DEF CallInv, Books, Busy1, Counted, AnswerOwn
  <1>20. \A q \in Paths : Offline(q)'
    <2>1. link[p] = "up"
      BY DEF ServerRead
    <2> QED
      BY <1>11, <1>13, <2>1, Connected DEF CallInv, Offline
  <1>21. runs' = [runs EXCEPT ![k] = 1]
    BY <1>6, <1>8, <1>10 DEF TypeOK, ServersOK
  <1> QED
    BY <1>6, <1>8, <1>15, <1>16, <1>17, <1>18, <1>19, <1>20, <1>21 DEF CallInv, Books

LEMMA ServerReadRetInv ==
  ASSUME TypeOK, CallInv, NEW p \in Paths, ServerRead(p), Head(outgoing[p]).kind # "Call"
  PROVE  CallInv' /\ UNCHANGED <<phase, runs>>
  <1>1. outgoing[p] \in Seq(ToServer) /\ outgoing[p] # <<>> /\ link[p] = "up"
    BY DEF ServerRead, TypeOK, ServersOK
  <1>2. UNCHANGED <<phase, reqId, answer, command, alive, busy, call_rx, pending_requests,
                    dispatch, link, runs, incoming>>
    BY DEF ServerRead, callVars, workerVars, dispatchVars
  <1>3. outgoing'[p] = Tail(outgoing[p]) /\ \A q \in Paths \ {p} : outgoing'[q] = outgoing[q]
    BY DEF ServerRead, TypeOK, ServersOK
  <1>4. \A M : Lone(outgoing[p], "Call", M) => Lone(outgoing'[p], "Call", M)
    BY <1>1, <1>3, LoneTail
  <1>5. \A q \in Paths : InFlight(q)'
    BY <1>2, <1>3, <1>4, SocketKept
  <1>6. \A q \in Paths : Offline(q)'
    BY <1>1, <1>2, <1>3, Connected DEF CallInv, Offline
  <1> QED
    BY <1>2, <1>5, <1>6, BooksKept DEF CallInv

LEMMA ServerCallInv ==
  ASSUME TypeOK, CallInv, NEW p \in Paths, NEW s \in ServerCalls, ServerCall(s, p)
  PROVE  CallInv'
  <1> DEFINE e == [kind |-> "Call", of |-> s]
  <1>1. incoming[p] \in Seq(FromServer) /\ e \in FromServer /\ e.kind # "Ret" /\ link[p] = "up"
    BY PacketFact DEF ServerCall, TypeOK, ServersOK
  <1>2. UNCHANGED <<phase, reqId, answer, command, alive, busy, call_rx, pending_requests,
                    dispatch, link, runs, outgoing>>
    BY DEF ServerCall, callVars, workerVars, dispatchVars
  <1>3. incoming'[p] = Append(incoming[p], e) /\ \A q \in Paths \ {p} : incoming'[q] = incoming[q]
    BY DEF ServerCall, TypeOK, ServersOK
  <1>4. \A M : Lone(incoming[p], "Ret", M) => Lone(incoming'[p], "Ret", M)
    <2> SUFFICES ASSUME NEW M, Lone(incoming[p], "Ret", M)
                 PROVE  Lone(Append(incoming[p], e), "Ret", M)
      BY <1>3
    <2> HIDE DEF e
    <2> QED
      BY <1>1, LoneAppend
  <1>5. \A q \in Paths : InFlight(q)'
    BY <1>2, <1>3, <1>4, SocketKept
  <1>6. \A q \in Paths : Offline(q)'
    BY <1>1, <1>2, <1>3, Connected DEF CallInv, Offline
  <1> QED
    BY <1>2, <1>5, <1>6, BooksKept DEF CallInv

-----------------------------------------------------------------------------
(* Every step *)

LEMMA UnchangedInv ==
  ASSUME CallInv, UNCHANGED <<callVars, workerVars, dispatchVars, serverVars>>
  PROVE  CallInv'
  BY BooksKept, FlightKept, OfflineKept
     DEF CallInv, callVars, workerVars, dispatchVars, serverVars

LEMMA InitInv == Init => CallInv
  <1> SUFFICES ASSUME Init PROVE CallInv
    OBVIOUS
  <1>1. Command1 /\ Busy1 /\ Counted /\ AnswerOwn
    BY ElemsEmpty DEF Init, Command1, Busy1, Counted, AnswerOwn, Idle
  <1>2. \A p \in Paths : Offline(p)
    BY DEF Init, Offline
  <1>3. \A p \in Paths : InFlight(p)
    BY LoneEmpty DEF Init, InFlight, Awaiting, Nowhere, Idle
  <1> QED
    BY <1>1, <1>2, <1>3 DEF CallInv, Books

LEMMA NextInv == TypeOK /\ CallInv /\ [Next]_vars => CallInv'
  <1> SUFFICES ASSUME TypeOK, CallInv, [Next]_vars PROVE CallInv'
    OBVIOUS
  <1>1. CASE \E k \in Callers : CallStart(k) \/ CallUnbound(k) \/ CallSend(k)
    BY <1>1, CallersInv
  <1>2. CASE WorkerRecv \/ WorkerForward \/ WorkerDie \/ WorkerRelay
    BY <1>2, WorkerRecvInv, WorkerForwardInv, WorkerDieInv, WorkerRelayInv
  <1>3. CASE WorkerRemoveRoute
    <2>1. \E p : p \in Paths
      BY <1>3, BusyFact DEF WorkerRemoveRoute, TypeOK
    <2> QED
      BY <1>3, <2>1, RemovalInv
  <1>4. ASSUME NEW p \in Paths, Dispatch(p) PROVE CallInv'
    BY <1>4, DispatchInv
  <1>5. ASSUME NEW p \in Paths, Hook(p) PROVE CallInv'
    BY <1>5, UnchangedInv DEF Hook, HookDone, HookTake
  <1>6. ASSUME NEW p \in Paths, UnbindStart(p) \/ UnbindSend(p) PROVE CallInv'
    BY <1>6, RemovalInv
  <1>7. ASSUME NEW p \in Paths,
               \/ ServerClose(p) \/ LinkBreaks(p) \/ ServerRead(p)
               \/ \E s \in ServerCalls : ServerCall(s, p)
        PROVE  CallInv'
    BY <1>7, LostInv, ServerRunsInv, ServerReadRetInv, ServerCallInv
  <1>8. CASE UNCHANGED vars
    BY <1>8, UnchangedInv DEF vars
  <1> QED
    BY <1>1, <1>2, <1>3, <1>4, <1>5, <1>6, <1>7, <1>8 DEF Next, Worker

LEMMA ClientInvariant == Spec => [](TypeOK /\ CallInv)
  <1>1. TypeOK /\ CallInv /\ [Next]_vars => CallInv'
    BY NextInv
  <1> QED
    BY <1>1, InitInv, ClientTypes, PTL DEF Spec

LEMMA InvOneInFlight == TypeOK /\ CallInv => OneInFlight
  <1> SUFFICES ASSUME TypeOK, CallInv PROVE OneInFlight
    OBVIOUS
  <1> DEFINE Held == {held \in Paths \X Callers :
                          held[2] \in InQueue(held[1]) \cup Pending(held[1])}
  <1>1. \A p \in Paths :
            InQueue(p) \cup Pending(p) = IF Awaiting(p) THEN {busy.of} ELSE {}
    BY HeldFact DEF CallInv
  <1>2. CASE busy.op = "Await"
    <2>1. busy.of \in Callers /\ Target[busy.of] \in Paths
      BY <1>2, BusyFact, TargetFact DEF TypeOK
    <2>2. Held = {<<Target[busy.of], busy.of>>}
      BY <1>1, <1>2, <2>1 DEF Awaiting
    <2> QED
      BY <1>2, <2>2 DEF OneInFlight
  <1>3. CASE busy.op # "Await"
    <2>1. Held = {}
      BY <1>1, <1>3 DEF Awaiting
    <2> QED
      BY <1>3, <2>1 DEF OneInFlight
  <1> QED
    BY <1>2, <1>3

\* The call whose reply the worker awaits is in the hands of its dispatch task,
\* and no other call is in the hands of any: no oneshot is awaited that nobody
\* can fulfil or drop (client.rs:294-297, client/handler.rs:103-118).
THEOREM ClientOneInFlight == Spec => []OneInFlight
  BY ClientInvariant, InvOneInFlight, PTL

\* A call that returns a value returns the one that was made for it, for any
\* number of ids, and none fails on the check of the id
\* (client/caller.rs:80-87).
THEOREM ClientAnswerOwn == Spec => []AnswerOwn
  <1>1. TypeOK /\ CallInv => AnswerOwn
    BY DEF CallInv, Books
  <1> QED
    BY <1>1, ClientInvariant, PTL

-----------------------------------------------------------------------------
(* The promise of call_remotely *)

Status(k) ==
    CASE phase[k] = "idle" -> "idle"
      [] Active(k) -> "pending"
      [] phase[k] = "ok" -> "ok"
      [] OTHER -> "failed"

Statuses == [k \in Callers |-> Status(k)]

LEMMA StatusFact ==
  ASSUME NEW k \in Callers, phase[k] \in Phases
  PROVE  /\ phase[k] = "idle" => Statuses[k] = "idle"
         /\ phase[k] \in {"sending", "waiting"} => Statuses[k] = "pending"
         /\ phase[k] = "ok" => Statuses[k] = "ok"
         /\ phase[k] \in {"refused", "failed", "mismatch"} => Statuses[k] = "failed"
  BY DEF Phases, Statuses, Status, Active

LEMMA StatusFactNext ==
  ASSUME NEW k \in Callers, phase'[k] \in Phases
  PROVE  /\ phase'[k] = "idle" => Statuses'[k] = "idle"
         /\ phase'[k] \in {"sending", "waiting"} => Statuses'[k] = "pending"
         /\ phase'[k] = "ok" => Statuses'[k] = "ok"
         /\ phase'[k] \in {"refused", "failed", "mismatch"} => Statuses'[k] = "failed"
  BY DEF Phases, Statuses, Status, Active


\* A step that changes the status of no call, and runs none.
LEMMA PromiseStutters ==
  ASSUME Statuses' = Statuses, UNCHANGED runs PROVE UNCHANGED Promise!vars
  BY DEF Promise!vars, Statuses, Status

\* A step that runs no call, and leaves each as it is or fails it, if it had no
\* outcome yet.
LEMMA PromiseFails ==
  ASSUME UNCHANGED runs,
         \A k \in Callers : \/ Statuses'[k] = Statuses[k]
                            \/ Statuses[k] \in {"idle", "pending"} /\ Statuses'[k] = "failed"
  PROVE  Promise!Next
  <1>0. PICK S : S = {k \in Callers : /\ Statuses[k] \in {"idle", "pending"}
                                      /\ Statuses'[k] = "failed"}
    OBVIOUS
  <1>1. Statuses' = [k \in Callers |-> IF k \in S THEN "failed" ELSE Statuses[k]]
    <2>1. \A k \in Callers : Statuses'[k] = IF k \in S THEN "failed" ELSE Statuses[k]
      BY <1>0
    <2>2. Statuses' = [k \in Callers |-> Statuses'[k]]
      BY DEF Statuses
    <2> QED
      BY <2>1, <2>2
  <1>2. \A k \in S : Statuses[k] \in {"idle", "pending"}
    BY <1>0
  <1>3. Promise!Fail(S)
    BY <1>1, <1>2 DEF Promise!Fail, Statuses, Status
  <1>4. S \in SUBSET Callers
    BY <1>0
  <1> QED
    BY <1>3, <1>4 DEF Promise!Next

\* A step that leaves every phase and runs no call.
LEMMA PromiseKeeps ==
  ASSUME UNCHANGED <<phase, runs>> PROVE UNCHANGED Promise!vars
  <1>1. Statuses' = Statuses
    BY DEF Statuses, Status, Active
  <1> QED
    BY <1>1, PromiseStutters

LEMMA CallersPromise ==
  ASSUME TypeOK, TypeOK', NEW k \in Callers, CallStart(k) \/ CallUnbound(k) \/ CallSend(k)
  PROVE  [Promise!Next]_(Promise!vars)
  <1>1. UNCHANGED runs /\ phase[k] \in {"idle", "sending"}
        /\ \A j \in Callers \ {k} : phase'[j] = phase[j]
    BY DEF CallStart, CallUnbound, CallSend, serverVars, TypeOK, CallsOK
  <1>2. \A j \in Callers : phase[j] \in Phases /\ phase'[j] \in Phases
    BY DEF TypeOK, CallsOK
  <1>3. \A j \in Callers \ {k} : Statuses'[j] = Statuses[j]
    BY <1>1 DEF Statuses, Status, Active
  <1>4. CASE CallStart(k)
    <2>1. Statuses[k] = "idle" /\ Statuses'[k] = "pending"
      BY <1>2, <1>4, StatusFact, StatusFactNext DEF CallStart, TypeOK, CallsOK
    <2>2. Statuses' = [Statuses EXCEPT ![k] = "pending"] /\ Statuses[k] = "idle"
      BY <1>3, <2>1 DEF Statuses
    <2>3. Promise!Invoke(k)
      BY <1>1, <2>2 DEF Promise!Invoke, Statuses, Status
    <2> QED
      BY <2>3 DEF Promise!Next
  <1>5. CASE CallUnbound(k) \/ CallSend(k)
    <2>1. Statuses'[k] = Statuses[k] \/ (Statuses[k] \in {"idle", "pending"} /\ Statuses'[k] = "failed")
      BY <1>2, <1>5, StatusFact, StatusFactNext DEF CallUnbound, CallSend, TypeOK, CallsOK
    <2> QED
      BY <1>1, <1>3, <2>1, PromiseFails
  <1> QED
    BY <1>4, <1>5

LEMMA WorkerPromise ==
  ASSUME TypeOK, TypeOK', CallInv, Worker PROVE [Promise!Next]_(Promise!vars)
  <1>1. \A j \in Callers : phase[j] \in Phases /\ phase'[j] \in Phases
    BY DEF TypeOK, CallsOK
  <1>2. UNCHANGED runs
    BY DEF Worker, WorkerRecv, WorkerForward, WorkerDie, WorkerRelay, WorkerRemoveRoute,
           serverVars
  <1>3. CASE UNCHANGED phase
    BY <1>2, <1>3, PromiseKeeps
  <1>4. ASSUME NEW k \in Callers, phase[k] = "waiting", phase' = [phase EXCEPT ![k] = "failed"]
        PROVE  Promise!Next
    <2>1. Statuses[k] = "pending" /\ Statuses'[k] = "failed"
      BY <1>1, <1>4, StatusFact, StatusFactNext DEF TypeOK, CallsOK
    <2>2. \A j \in Callers \ {k} : Statuses'[j] = Statuses[j]
      BY <1>4 DEF Statuses, Status, Active, TypeOK, CallsOK
    <2> QED
      BY <1>2, <2>1, <2>2, PromiseFails
  <1>5. CASE WorkerForward
    <2>1. busy.of \in Callers /\ phase[busy.of] = "waiting"
      BY <1>5, BusyFact DEF WorkerForward, TypeOK, CallInv, Books, Busy1
    <2> QED
      BY <1>3, <1>4, <1>5, <2>1 DEF WorkerForward
  <1>6. CASE WorkerDie
    <2>1. \A j \in Callers : phase'[j] = IF phase[j] = "waiting" THEN "failed" ELSE phase[j]
      BY <1>6 DEF WorkerDie
    <2>2. \A j \in Callers : \/ Statuses'[j] = Statuses[j]
                             \/ Statuses[j] = "pending" /\ Statuses'[j] = "failed"
      <3> SUFFICES ASSUME NEW j \in Callers
                   PROVE  \/ Statuses'[j] = Statuses[j]
                          \/ Statuses[j] = "pending" /\ Statuses'[j] = "failed"
        OBVIOUS
      <3>1. CASE phase[j] = "waiting"
        BY <1>1, <2>1, <3>1, StatusFact, StatusFactNext
      <3>2. CASE phase[j] # "waiting"
        BY <2>1, <3>2 DEF Statuses, Status, Active
      <3> QED
        BY <3>1, <3>2
    <2> QED
      BY <1>2, <2>2, PromiseFails
  <1>7. CASE WorkerRelay
    <2>1. PICK k : k = busy.of
      OBVIOUS
    <2>2. /\ k \in Callers /\ phase[k] = "waiting"
          /\ busy.reply = None \/ (busy.reply = k /\ k # None /\ runs[k] = 1)
      BY <1>7, <2>1, BusyFact, ClientNoneAssumption DEF WorkerRelay, TypeOK, CallInv, Books, Busy1
    <2>3. \/ phase' = [phase EXCEPT ![k] = "failed"]
          \/ phase' = [phase EXCEPT ![k] = "ok"] /\ runs[k] = 1
      BY <1>7, <2>1, <2>2 DEF WorkerRelay
    <2>4. CASE phase' = [phase EXCEPT ![k] = "ok"] /\ runs[k] = 1
      <3>1. Statuses[k] = "pending" /\ Statuses'[k] = "ok"
        BY <1>1, <2>2, <2>4, StatusFact, StatusFactNext DEF TypeOK, CallsOK
      <3>2. \A j \in Callers \ {k} : Statuses'[j] = Statuses[j]
        BY <2>4 DEF Statuses, Status, Active, TypeOK, CallsOK
      <3>3. Statuses' = [Statuses EXCEPT ![k] = "ok"] /\ Statuses[k] = "pending"
        BY <2>2, <3>1, <3>2 DEF Statuses
      <3>4. Promise!Answer(k)
        BY <1>2, <2>4, <3>3 DEF Promise!Answer, Statuses, Status
      <3> QED
        BY <2>2, <3>4 DEF Promise!Next
    <2> QED
      BY <1>4, <2>2, <2>3, <2>4
  <1>8. CASE WorkerRecv \/ WorkerRemoveRoute
    BY <1>3, <1>8 DEF WorkerRecv, WorkerRemoveRoute, callVars
  <1> QED
    BY <1>5, <1>6, <1>7, <1>8 DEF Worker

\* A server runs a call that it has not run before, and that was made.
LEMMA ServerPromise ==
  ASSUME TypeOK, CallInv, NEW p \in Paths, ServerRead(p)
  PROVE  [Promise!Next]_(Promise!vars)
  <1>1. CASE Head(outgoing[p]).kind = "Call"
    <2>1. PICK k \in Callers : phase[k] = "waiting" /\ runs[k] = 0
                               /\ runs' = [runs EXCEPT ![k] = 1]
      BY <1>1, ServerRunsInv
    <2>2. Statuses[k] = "pending"
      BY <2>1, StatusFact DEF Phases
    <2>3. Statuses' = Statuses /\ Statuses[k] # "idle"
      BY <2>2 DEF Statuses, Status, Active, ServerRead, callVars
    <2>4. Promise!Execute(k)
      BY <2>1, <2>3 DEF Promise!Execute, Statuses, Status
    <2> QED
      BY <2>4 DEF Promise!Next
  <1>2. CASE Head(outgoing[p]).kind # "Call"
    BY <1>2, ServerReadRetInv, PromiseKeeps
  <1> QED
    BY <1>1, <1>2

LEMMA StepPromise ==
  TypeOK /\ TypeOK' /\ CallInv /\ [Next]_vars => [Promise!Next]_(Promise!vars)
  <1> SUFFICES ASSUME TypeOK, TypeOK', CallInv, [Next]_vars
               PROVE  [Promise!Next]_(Promise!vars)
    OBVIOUS
  <1>1. CASE \E k \in Callers : CallStart(k) \/ CallUnbound(k) \/ CallSend(k)
    BY <1>1, CallersPromise
  <1>2. CASE Worker
    BY <1>2, WorkerPromise
  <1>3. ASSUME NEW p \in Paths,
               \/ Dispatch(p) \/ Hook(p) \/ UnbindStart(p) \/ UnbindSend(p)
               \/ ServerClose(p) \/ LinkBreaks(p) \/ \E s \in ServerCalls : ServerCall(s, p)
        PROVE  UNCHANGED <<phase, runs>>
    BY <1>3 DEF Dispatch, RequestReady, ConnectFails, ConnectEnds, Connect, WakeUp, ReadCall,
                HandlerReturn, ReadRet, TakeCall, ConnectionEnds, ConnectionLost,
                DispatchAborted, HandlerPanic, End, Hangup, Hook, HookDone, HookTake,
                UnbindStart, UnbindSend, ServerClose, LinkBreaks, ServerCall,
                callVars, serverVars
  <1>4. ASSUME NEW p \in Paths, ServerRead(p) PROVE [Promise!Next]_(Promise!vars)
    BY <1>4, ServerPromise
  <1>5. CASE UNCHANGED vars
    BY <1>5, PromiseKeeps DEF vars, callVars, serverVars
  <1> QED
    BY <1>1, <1>2, <1>3, <1>4, <1>5, PromiseKeeps DEF Next

LEMMA InitPromise == Init => Promise!Init
  <1> SUFFICES ASSUME Init PROVE Promise!Init
    OBVIOUS
  <1>1. \A k \in Callers : Statuses[k] = "idle"
    BY StatusFact DEF Init, Phases
  <1>2. Statuses = [k \in Callers |-> "idle"]
    BY <1>1 DEF Statuses
  <1> QED
    BY <1>2 DEF Init, Promise!Init, Statuses, Status

\* The client keeps the promise of call_remotely over lost connections, new
\* attempts, unbinding and the end of the worker: a server runs a call at most
\* once, a call returns only after that, and an outcome is final
\* (client/caller.rs:46-88, client.rs:288-301).
THEOREM ClientPromiseKept == Spec => PromiseKept
  <1>1. TypeOK /\ TypeOK' /\ CallInv /\ [Next]_vars => [Promise!Next]_(Promise!vars)
    BY StepPromise
  <1> QED
    BY <1>1, InitPromise, ClientInvariant, PTL DEF Spec, PromiseKept, Promise!Spec

=============================================================================
