-------------------------- MODULE ServerRpc_answers -------------------------
(***************************************************************************)
(* The reply that call_remotely returns answers a call with the id and the *)
(* address of the call, for every number of ids, also once they wrap       *)
(* around.  Whether it is the call's own is proved in ServerRpc_messages.  *)
(*                                                                         *)
(* The inductive invariant says of every place a packet can be in (the     *)
(* channels, the sockets, the tasks) that the id it carries is the one its *)
(* call has drawn, and that it travels on connections whose address is the *)
(* target of its call.                                                     *)
(***************************************************************************)
EXTENDS ServerRpc_proofs, Elements

\* The call has drawn an id.
Drawn(k) == phase[k] \notin {"idle", "refused"}

Matches(k, i, a) == k \in Callers /\ Drawn(k) /\ reqId[k] = i /\ target[k] = a

CallMatches(m, a) == m.kind = "Call" => Matches(m.of, m.id, a)
RetMatches(m, a) == m.kind = "Ret" => Matches(m.of, m.id, a)
ItemMatches(i) == RetMatches(i.msg, AddrOf[i.conn])

CommandMatches(q) ==
    /\ q.op = "CallRemotely" => q.of \in Callers /\ Drawn(q.of)
    /\ q.op = "Forward" => q.of \in Callers /\ Drawn(q.of) /\ target[q.of] = AddrOf[q.conn]
    /\ q.op = "Transfer" => ItemMatches(q.item)
    /\ q.op = "CommitReturn" => Matches(q.of, q.id, q.addr)

MRx == \A c \in Conns : \A m \in Elems(rx[c]) : CallMatches(m, AddrOf[c])
MOut == \A c \in Conns : \A m \in Elems(outgoing[c]) : CallMatches(m, AddrOf[c])
MIn == \A c \in Conns : \A m \in Elems(incoming[c]) : RetMatches(m, AddrOf[c])
MHeld == \A c \in Conns : held[c] # None => RetMatches(held[c], AddrOf[c])
MCommand == \A q \in Elems(command) : CommandMatches(q)
MBusy == CommandMatches(busy)
MStream == \A i \in Elems(stream) : ItemMatches(i)
MRoute == route # None => ItemMatches(route)
MPending == \A a \in Addrs, i \in Ids :
    pending_requests[<<a, i>>] # None => Matches(pending_requests[<<a, i>>], i, a)
MConns == \A a \in Addrs : WS_CONNS[a] # None => AddrOf[WS_CONNS[a]] = a
MAnswer == \A k \in Callers :
    /\ phase[k] # "mismatch"
    /\ answer[k] # None =>
           /\ Drawn(k) /\ Drawn(answer[k])
           /\ reqId[answer[k]] = reqId[k] /\ target[answer[k]] = target[k]

Matching ==
    /\ MRx /\ MOut /\ MIn /\ MHeld /\ MCommand /\ MBusy /\ MStream /\ MRoute
    /\ MPending /\ MConns /\ MAnswer

-----------------------------------------------------------------------------
(* What a call has drawn stays *)

Stable ==
    \A k \in Callers : Drawn(k) =>
        Drawn(k)' /\ reqId'[k] = reqId[k] /\ target'[k] = target[k]

LEMMA MatchesStable ==
  ASSUME Stable, NEW k, NEW i, NEW a, Matches(k, i, a)
  PROVE  Matches(k, i, a)'
  BY DEF Stable, Matches

LEMMA CallsUnchanged == ASSUME UNCHANGED callVars PROVE Stable
  BY DEF callVars, Stable, Drawn

\* Failing a set of calls that does not reach the idle ones.
LEMMA FailingStable ==
  ASSUME CallsOK, NEW S, phase' = Failing(S), UNCHANGED <<reqId, target>>
  PROVE  Stable
  BY DEF CallsOK, Failing, Stable, Drawn

LEMMA StepStable == ASSUME TypeOK, [Next]_vars PROVE Stable
  <1> USE DEF TypeOK
  <1>1. CASE \E k \in Callers : \E a \in Addrs : CallStart(k, a)
    BY <1>1, SMT DEF CallStart, CallsOK, Stable, Drawn
  <1>2. CASE \E k \in Callers : CallUnbound(k)
    BY <1>2, SMT DEF CallUnbound, CallsOK, Stable, Drawn
  <1>3. CASE \E k \in Callers : CallSend(k)
    BY <1>3, SMT DEF CallSend, CallsOK, Stable, Drawn, Failing
  <1>4. CASE Worker
    <2>1. CASE WorkerFind
      BY <2>1, FailingStable, SMT DEF WorkerFind, Stable, Drawn
    <2>2. CASE WorkerForward \/ WorkerRefused \/ WorkerDie \/ WorkerWsClose
      BY <2>2, FailingStable DEF WorkerForward, WorkerRefused, WorkerDie, WorkerWsClose
    <2>3. CASE WorkerCommit
      <3> DEFINE k == CallPendingOn(busy.addr, busy.id)
                 p == IF reqId[k] = busy.id THEN "ok" ELSE "mismatch"
      <3>1. p \notin {"idle", "refused"}
        OBVIOUS
      <3>2. phase' = phase \/ phase' = [phase EXCEPT ![k] = p]
        BY <2>3 DEF WorkerCommit
      <3>3. UNCHANGED <<reqId, target>>
        BY <2>3 DEF WorkerCommit
      <3> HIDE DEF p, k
      <3> QED
        BY <3>1, <3>2, <3>3 DEF CallsOK, Stable, Drawn
    <2>4. CASE UNCHANGED callVars
      BY <2>4, CallsUnchanged
    <2> QED
      BY <1>4, <2>1, <2>2, <2>3, <2>4
         DEF Worker, WorkerRecv, WorkerTransfer, WorkerWsOpen, WorkerSendClose,
             WorkerRemoveRoute
  <1>5. CASE UNCHANGED callVars
    BY <1>5, CallsUnchanged
  <1>6. CASE Route \/ Hook \/ Unbind
    BY <1>5, <1>6
       DEF Route, RouteRecv, RouteReturn, RouteCommit, HandlerPanic, Hook, HookTakeOpen,
           HookOpenDone, HookTakeClose, HookCloseDone, HookStop, Unbind, UnbindStart,
           UnbindSend
  <1>7. CASE \E c \in Conns : Conn(c)
    BY <1>5, <1>7
       DEF Conn, ConnSendOpen, ConnUpgradeFails, ConnRegister, ConnForward, ConnRespond,
           ConnIncoming, ConnTransfer, ConnExit, ConnDropRx, CleanupClose, CleanupRemove
  <1>8. CASE \E c \in Conns :
                PeerClose(c) \/ PeerRead(c) \/ \E p \in PeerCalls : PeerCall(p, c)
    BY <1>5, <1>8 DEF PeerClose, PeerRead, PeerCall
  <1>9. CASE UNCHANGED vars
    BY <1>5, <1>9 DEF vars
  <1> QED
    BY <1>1, <1>2, <1>3, <1>4, <1>6, <1>7, <1>8, <1>9 DEF Next

-----------------------------------------------------------------------------
(* A place that does not change stays as it should be *)

LEMMA RxKept == ASSUME Stable, MRx, UNCHANGED rx PROVE MRx'
  BY MatchesStable DEF MRx, CallMatches
LEMMA OutKept == ASSUME Stable, MOut, UNCHANGED outgoing PROVE MOut'
  BY MatchesStable DEF MOut, CallMatches
LEMMA InKept == ASSUME Stable, MIn, UNCHANGED incoming PROVE MIn'
  BY MatchesStable DEF MIn, RetMatches
LEMMA HeldKept == ASSUME Stable, MHeld, UNCHANGED held PROVE MHeld'
  BY MatchesStable DEF MHeld, RetMatches
LEMMA CommandStable ==
  ASSUME Stable, NEW q, CommandMatches(q)
  PROVE  CommandMatches(q)'
  BY MatchesStable DEF CommandMatches, ItemMatches, RetMatches, Stable, Matches
LEMMA CommandKept == ASSUME Stable, MCommand, UNCHANGED command PROVE MCommand'
  BY CommandStable DEF MCommand
LEMMA BusyKept == ASSUME Stable, MBusy, UNCHANGED busy PROVE MBusy'
  BY MatchesStable DEF MBusy, CommandMatches, ItemMatches, RetMatches, Stable, Matches
LEMMA StreamKept == ASSUME Stable, MStream, UNCHANGED stream PROVE MStream'
  BY MatchesStable DEF MStream, ItemMatches, RetMatches
LEMMA RouteItemKept == ASSUME Stable, MRoute, UNCHANGED route PROVE MRoute'
  BY MatchesStable DEF MRoute, ItemMatches, RetMatches
LEMMA PendingKept == ASSUME Stable, MPending, UNCHANGED pending_requests PROVE MPending'
  BY MatchesStable DEF MPending
LEMMA ConnsEntryKept == ASSUME MConns, UNCHANGED WS_CONNS PROVE MConns'
  BY DEF MConns
LEMMA AnswerKept ==
  ASSUME TypeOK, Stable, MAnswer, UNCHANGED answer,
         \A k \in Callers : phase'[k] = "mismatch" => phase[k] = "mismatch"
  PROVE  MAnswer'
  BY NoneAssumption DEF TypeOK, CallsOK, MAnswer, Stable

\* The parts that only the worker, only the connections and only the peers change.
LEMMA NetKept ==
  ASSUME Matching, Stable, UNCHANGED <<rx, outgoing, incoming, held>>
  PROVE  MRx' /\ MOut' /\ MIn' /\ MHeld'
  BY RxKept, OutKept, InKept, HeldKept DEF Matching
LEMMA QueuesKept ==
  ASSUME Matching, Stable, UNCHANGED <<stream, route>>
  PROVE  MStream' /\ MRoute'
  BY StreamKept, RouteItemKept DEF Matching
LEMMA TablesKept ==
  ASSUME Matching, Stable, UNCHANGED <<pending_requests, WS_CONNS>>
  PROVE  MPending' /\ MConns'
  BY PendingKept, ConnsEntryKept DEF Matching
LEMMA CallersKept ==
  ASSUME TypeOK, Matching, Stable, UNCHANGED callVars
  PROVE  MAnswer'
  BY AnswerKept, SMT DEF Matching, callVars

LEMMA FailingKept ==
  ASSUME TypeOK, Stable, MAnswer, UNCHANGED answer, NEW S, phase' = Failing(S)
  PROVE  MAnswer'
  <1>1. \A k \in Callers : phase'[k] = "mismatch" => phase[k] = "mismatch"
    BY DEF Failing, TypeOK, CallsOK
  <1> QED
    BY <1>1, AnswerKept

LEMMA IdleKept == ASSUME busy' = Idle PROVE MBusy'
  BY DEF MBusy, CommandMatches, Idle

-----------------------------------------------------------------------------
(* The steps of callers and worker preserve the matching *)

LEMMA CallStartMatching ==
  ASSUME TypeOK, Matching, Stable, NEW k \in Callers, NEW a \in Addrs,
         CallStart(k, a) \/ CallUnbound(k)
  PROVE  Matching'
  <1>1. UNCHANGED <<answer, workerVars, connVars, routeVars, peerVars>>
    BY DEF CallStart, CallUnbound
  <1>2. \A l \in Callers : phase'[l] = "mismatch" => phase[l] = "mismatch"
    BY DEF CallStart, CallUnbound, TypeOK, CallsOK
  <1>3. MAnswer'
    BY <1>1, <1>2, AnswerKept DEF Matching
  <1>4. MCommand' /\ MBusy'
    BY <1>1, CommandKept, BusyKept DEF Matching, workerVars
  <1> QED
    BY <1>1, <1>3, <1>4, NetKept, QueuesKept, TablesKept
       DEF Matching, workerVars, connVars, routeVars, peerVars

LEMMA CallSendMatching ==
  ASSUME TypeOK, Matching, Stable, NEW k \in Callers, CallSend(k)
  PROVE  Matching'
  <1>1. MAnswer'
    <2>1. \A l \in Callers : phase'[l] = "mismatch" => phase[l] = "mismatch"
      BY DEF CallSend, TypeOK, CallsOK, Failing
    <2> QED
      BY <2>1, AnswerKept DEF Matching, CallSend
  <1>2. MCommand'
    <2>1. CASE UNCHANGED command
      BY <2>1, CommandKept DEF Matching
    <2>2. CASE command' = Append(command, [op |-> "CallRemotely", of |-> k])
      <3> DEFINE e == [op |-> "CallRemotely", of |-> k]
      <3>1. Elems(command') = Elems(command) \cup {e}
        BY <2>2, CommandFact, ElemsAppend DEF TypeOK, WorkerOK
      <3>2. Drawn(k)'
        BY DEF CallSend, Drawn, Stable
      <3>3. CommandMatches(e)'
        BY <3>2 DEF CommandMatches
      <3>4. \A q \in Elems(command) : CommandMatches(q)'
        BY CommandStable DEF Matching, MCommand
      <3> QED
        BY <3>1, <3>3, <3>4 DEF MCommand
    <2> QED
      BY <2>1, <2>2 DEF CallSend
  <1>3. MBusy'
    BY BusyKept DEF Matching, CallSend
  <1> QED
    BY <1>1, <1>2, <1>3, NetKept, QueuesKept, TablesKept
       DEF Matching, CallSend, connVars, routeVars, peerVars

LEMMA WorkerRecvMatching ==
  ASSUME TypeOK, Matching, Stable, WorkerRecv
  PROVE  Matching'
  <1>1. Head(command) \in Elems(command) /\ Elems(Tail(command)) \subseteq Elems(command)
    BY ElemsHeadTail DEF TypeOK, WorkerOK, WorkerRecv
  <1>2. MCommand'
    BY <1>1, CommandStable DEF Matching, MCommand, WorkerRecv
  <1>3. PICK q : q = Head(command)
    OBVIOUS
  <1>4. MBusy'
    <2>1. CommandMatches(q)'
      BY <1>1, <1>3, CommandStable DEF Matching, MCommand
    <2>2. busy' = q
      BY <1>3 DEF WorkerRecv
    <2> QED
      BY <2>1, <2>2 DEF MBusy
  <1> QED
    BY <1>2, <1>4, NetKept, QueuesKept, TablesKept, CallersKept
       DEF Matching, WorkerRecv, connVars, routeVars, peerVars

LEMMA WorkerFindMatching ==
  ASSUME TypeOK, Matching, Stable, WorkerFind
  PROVE  Matching'
  <1> DEFINE k == busy.of
             c == WS_CONNS[target[k]]
  <1>1. k \in Callers /\ Drawn(k) /\ target[k] \in Addrs
    BY BusyFact DEF TypeOK, CallsOK, WorkerFind, Matching, MBusy, CommandMatches
  <1>2. CASE c # None
    <2>1. AddrOf[c] = target[k]
      BY <1>1, <1>2 DEF Matching, MConns
    <2>2. busy' = [op |-> "Forward", of |-> k, conn |-> c] /\ UNCHANGED phase
      BY <1>2 DEF WorkerFind
    <2>3. PICK l, d : l = k /\ d = c
      OBVIOUS
    <2>4. MBusy'
      <3>1. Drawn(l)' /\ target'[l] = AddrOf[d]
        BY <1>1, <2>1, <2>3 DEF Stable
      <3>2. busy' = [op |-> "Forward", of |-> l, conn |-> d]
        BY <2>2, <2>3
      <3> QED
        BY <1>1, <2>3, <3>1, <3>2 DEF MBusy, CommandMatches
    <2>5. MAnswer'
      BY <2>2, AnswerKept DEF Matching, WorkerFind
    <2> QED
      BY <2>4, <2>5, NetKept, QueuesKept, TablesKept, CommandKept
         DEF Matching, WorkerFind, connVars, routeVars, peerVars
  <1>3. CASE c = None
    <2>1. busy' = Idle /\ phase' = Failing({k})
      BY <1>3 DEF WorkerFind
    <2>2. MBusy' /\ MAnswer'
      BY <2>1, IdleKept, FailingKept DEF Matching, WorkerFind
    <2> QED
      BY <2>2, NetKept, QueuesKept, TablesKept, CommandKept
         DEF Matching, WorkerFind, connVars, routeVars, peerVars
  <1> QED
    BY <1>2, <1>3

LEMMA WorkerForwardMatching ==
  ASSUME TypeOK, Matching, Stable, WorkerForward
  PROVE  Matching'
  <1>1. PICK k, d, j, b : k = busy.of /\ d = busy.conn /\ j = reqId[k] /\ b = target[k]
    OBVIOUS
  <1> DEFINE e == [kind |-> "Call", id |-> j, of |-> k]
  <1>2. /\ k \in Callers /\ d \in Conns /\ j \in Ids /\ b \in Addrs
        /\ AddrOf[d] = b /\ Matches(k, j, b)
    BY <1>1, BusyFact
       DEF TypeOK, CallsOK, WorkerForward, Matching, MBusy, CommandMatches, Matches
  <1>3. Matches(k, j, b)'
    BY <1>2, MatchesStable
  <1>4. MRx'
    <2>1. rx' = [rx EXCEPT ![d] = Append(@, e)]
      BY <1>1 DEF WorkerForward
    <2>2. e \in ToPeer
      BY <1>2, PacketFact
    <2>3. Elems(Append(rx[d], e)) = Elems(rx[d]) \cup {e}
      BY <1>2, <2>2, ElemsAppend DEF TypeOK, ConnsOK
    <2>4. \A c \in Conns : rx'[c] = IF c = d THEN Append(rx[c], e) ELSE rx[c]
      BY <2>1 DEF TypeOK, ConnsOK
    <2>5. CallMatches(e, AddrOf[d])'
      BY <1>2, <1>3 DEF CallMatches
    <2>6. \A c \in Conns : \A m \in Elems(rx[c]) : CallMatches(m, AddrOf[c])'
      BY MatchesStable DEF Matching, MRx, CallMatches
    <2>7. SUFFICES ASSUME NEW c \in Conns, NEW m \in Elems(rx'[c])
                   PROVE  CallMatches(m, AddrOf[c])'
      BY DEF MRx
    <2>8. CASE m = e /\ c = d
      BY <2>5, <2>8
    <2>9. CASE m \in Elems(rx[c])
      BY <2>6, <2>9
    <2> QED
      BY <2>3, <2>4, <2>7, <2>8, <2>9
  <1>5. MPending'
    <2>1. \A a \in Addrs, i \in Ids : pending_requests'[<<a, i>>] =
              IF a = b /\ i = j THEN k ELSE pending_requests[<<a, i>>]
      BY <1>1, <1>2 DEF TypeOK, WorkerOK, WorkerForward
    <2>2. \A a \in Addrs, i \in Ids : \A l :
              l = pending_requests[<<a, i>>] /\ l # None => Matches(l, i, a)'
      BY MatchesStable DEF Matching, MPending
    <2>3. SUFFICES ASSUME NEW a \in Addrs, NEW i \in Ids, NEW l,
                          l = pending_requests'[<<a, i>>], l # None
                   PROVE  Matches(l, i, a)'
      BY DEF MPending
    <2>4. CASE a = b /\ i = j
      BY <1>3, <2>1, <2>3, <2>4
    <2> QED
      BY <2>1, <2>2, <2>3, <2>4
  <1>6. MBusy' /\ MAnswer'
    BY IdleKept, FailingKept DEF Matching, WorkerForward
  <1>7. MOut' /\ MIn' /\ MHeld' /\ MCommand' /\ MConns'
    BY OutKept, InKept, HeldKept, CommandKept, ConnsEntryKept
       DEF Matching, WorkerForward, peerVars
  <1> QED
    BY <1>4, <1>5, <1>6, <1>7, QueuesKept DEF Matching, WorkerForward, routeVars

LEMMA WorkerRefusedMatching ==
  ASSUME TypeOK, Matching, Stable, WorkerRefused
  PROVE  Matching'
  <1>1. MBusy' /\ MAnswer' /\ MCommand'
    BY IdleKept, FailingKept, CommandKept DEF Matching, WorkerRefused
  <1> QED
    BY <1>1, NetKept, QueuesKept, TablesKept
       DEF Matching, WorkerRefused, connVars, routeVars, peerVars

LEMMA CommandAppended ==
  ASSUME TypeOK, MCommand, Stable, NEW e \in Command, CommandMatches(e)',
         command' = Append(command, e)
  PROVE  MCommand'
  <1>1. Elems(command') = Elems(command) \cup {e}
    BY ElemsAppend DEF TypeOK, WorkerOK
  <1> QED
    BY <1>1, CommandStable DEF MCommand

\* Commands that carry no call.
LEMMA EventAppended ==
  ASSUME TypeOK, MCommand, Stable, NEW e \in Command,
         e.op \in {"WsOpen", "WsClose", "RemoveWsRoute"},
         command' = Append(command, e) \/ command' = command
  PROVE  MCommand'
  <1>1. CommandMatches(e)'
    BY DEF CommandMatches
  <1> QED
    BY <1>1, CommandAppended, CommandKept

LEMMA WorkerTransferMatching ==
  ASSUME TypeOK, Matching, Stable, WorkerTransfer
  PROVE  Matching'
  <1>1. PICK i : i = busy.item
    OBVIOUS
  <1>2. i \in Items /\ ItemMatches(i)
    BY <1>1, BusyFact DEF TypeOK, WorkerTransfer, Matching, MBusy, CommandMatches
  <1>3. ItemMatches(i)'
    BY <1>2, MatchesStable DEF ItemMatches, RetMatches
  <1>4. MStream'
    <2>1. CASE stream' = Append(stream, i)
      <3>1. Elems(stream') = Elems(stream) \cup {i}
        BY <1>2, <2>1, ElemsAppend DEF TypeOK, RouteOK
      <3>2. \A x \in Elems(stream) : ItemMatches(x)'
        BY MatchesStable DEF Matching, MStream, ItemMatches, RetMatches
      <3> QED
        BY <1>3, <3>1, <3>2 DEF MStream
    <2>2. CASE UNCHANGED stream
      BY <2>2, StreamKept DEF Matching
    <2> QED
      BY <1>1, <2>1, <2>2 DEF WorkerTransfer
  <1>5. MBusy' /\ MCommand' /\ MRoute'
    BY IdleKept, CommandKept, RouteItemKept DEF Matching, WorkerTransfer
  <1> QED
    BY <1>4, <1>5, NetKept, TablesKept, CallersKept
       DEF Matching, WorkerTransfer, connVars, peerVars

LEMMA WorkerDieMatching ==
  ASSUME TypeOK, Matching, Stable, WorkerDie
  PROVE  Matching'
  <1>1. MCommand'
    BY ElemsEmpty DEF MCommand, WorkerDie
  <1>2. MPending' /\ MConns'
    BY ConnsEntryKept DEF MPending, Matching, WorkerDie
  <1>3. MBusy' /\ MAnswer'
    BY IdleKept, FailingKept DEF Matching, WorkerDie
  <1> QED
    BY <1>1, <1>2, <1>3, NetKept, QueuesKept DEF Matching, WorkerDie, peerVars

\* The heart of the matter: the call that is settled and the call that is
\* answered have the id and the address under which the first is pending.
LEMMA WorkerCommitMatching ==
  ASSUME TypeOK, Matching, Stable, WorkerCommit
  PROVE  Matching'
  <1>1. PICK k, b, j, l : k = CallPendingOn(b, j) /\ b = busy.addr /\ j = busy.id /\ l = busy.of
    OBVIOUS
  <1>2. b \in Addrs /\ j \in Ids /\ l \in Callers /\ Matches(l, j, b)
    BY <1>1, BusyFact DEF TypeOK, WorkerCommit, Matching, MBusy, CommandMatches
  <1>3. k # None => Matches(k, j, b)
    BY <1>1, <1>2 DEF CallPendingOn, Matching, MPending
  <1>4. MAnswer'
    <2>1. CASE k # None
      <3>1. phase' = [phase EXCEPT ![k] = "ok"] /\ answer' = [answer EXCEPT ![k] = l]
        BY <1>1, <1>3, <2>1 DEF WorkerCommit, Matches
      <3>2. Matches(k, j, b)' /\ Matches(l, j, b)'
        BY <1>2, <1>3, <2>1, MatchesStable
      <3>3. SUFFICES ASSUME NEW x \in Callers, NEW y, y = answer'[x]
                     PROVE  /\ phase'[x] # "mismatch"
                            /\ y # None => /\ Drawn(x)' /\ Drawn(y)'
                                           /\ reqId'[y] = reqId'[x]
                                           /\ target'[y] = target'[x]
        BY DEF MAnswer, Drawn
      <3>4. CASE x = k
        BY <1>3, <2>1, <3>1, <3>2, <3>3, <3>4 DEF Matches, TypeOK, CallsOK
      <3>5. CASE x # k
        <4>1. y = answer[x] /\ phase'[x] = phase[x] /\ y \in Callers \cup {None}
          BY <3>1, <3>3, <3>5 DEF TypeOK, CallsOK
        <4> QED
          BY <4>1 DEF Matching, MAnswer, Stable
      <3> QED
        BY <3>4, <3>5
    <2>2. CASE k = None
      BY <1>1, <2>2, AnswerKept DEF Matching, WorkerCommit
    <2> QED
      BY <2>1, <2>2
  <1>5. MPending'
    <2>1. \A a \in Addrs, i \in Ids : pending_requests'[<<a, i>>] \in {pending_requests[<<a, i>>], None}
      BY <1>1, <1>2 DEF TypeOK, WorkerOK, WorkerCommit
    <2>2. \A a \in Addrs, i \in Ids : \A x :
              x = pending_requests[<<a, i>>] /\ x # None => Matches(x, i, a)'
      BY MatchesStable DEF Matching, MPending
    <2>3. SUFFICES ASSUME NEW a \in Addrs, NEW i \in Ids, NEW x,
                          x = pending_requests'[<<a, i>>], x # None
                   PROVE  Matches(x, i, a)'
      BY DEF MPending
    <2> QED
      BY <2>1, <2>2, <2>3
  <1>6. MBusy' /\ MCommand' /\ MConns'
    BY IdleKept, CommandKept, ConnsEntryKept DEF Matching, WorkerCommit, connVars
  <1> QED
    BY <1>4, <1>5, <1>6, NetKept, QueuesKept
       DEF Matching, WorkerCommit, connVars, routeVars, peerVars

LEMMA WorkerWsCloseMatching ==
  ASSUME TypeOK, Matching, Stable, WorkerWsClose
  PROVE  Matching'
  <1>1. MPending'
    <2>1. \A a \in Addrs, i \in Ids : pending_requests'[<<a, i>>] \in {pending_requests[<<a, i>>], None}
      BY DEF WorkerWsClose
    <2>2. \A a \in Addrs, i \in Ids : \A x :
              x = pending_requests[<<a, i>>] /\ x # None => Matches(x, i, a)'
      BY MatchesStable DEF Matching, MPending
    <2>3. SUFFICES ASSUME NEW a \in Addrs, NEW i \in Ids, NEW x,
                          x = pending_requests'[<<a, i>>], x # None
                   PROVE  Matches(x, i, a)'
      BY DEF MPending
    <2> QED
      BY <2>1, <2>2, <2>3
  <1>2. MBusy'
    BY DEF WorkerWsClose, MBusy, CommandMatches, Idle
  <1>3. MAnswer' /\ MCommand' /\ MConns'
    BY FailingKept, CommandKept, ConnsEntryKept DEF Matching, WorkerWsClose, connVars
  <1> QED
    BY <1>1, <1>2, <1>3, NetKept, QueuesKept
       DEF Matching, WorkerWsClose, connVars, routeVars, peerVars

\* The steps of the worker that touch no call.
LEMMA WorkerEventMatching ==
  ASSUME TypeOK, Matching, Stable,
         WorkerWsOpen \/ WorkerSendClose \/ WorkerRemoveRoute
  PROVE  Matching'
  <1>1. MBusy'
    BY DEF WorkerWsOpen, WorkerSendClose, WorkerRemoveRoute, MBusy, CommandMatches, Idle
  <1>2. UNCHANGED <<command, pending_requests, WS_CONNS, held, rx, stream, route,
                    callVars, peerVars>>
    BY DEF WorkerWsOpen, WorkerSendClose, WorkerRemoveRoute, connVars, routeVars
  <1> QED
    BY <1>1, <1>2, NetKept, QueuesKept, TablesKept, CallersKept, CommandKept
       DEF Matching, peerVars

-----------------------------------------------------------------------------
(* The steps of the connections preserve the matching *)

\* The steps that send an event, or none.
LEMMA ConnEventMatching ==
  ASSUME TypeOK, Matching, Stable, NEW c \in Conns,
         \/ ConnSendOpen(c) \/ ConnUpgradeFails(c) \/ ConnExit(c) \/ CleanupClose(c)
  PROVE  Matching'
  <1>1. MCommand'
    <2>1. CASE ConnSendOpen(c)
      BY <2>1, EventAppended, CommandFact DEF Matching, ConnSendOpen
    <2>2. CASE CleanupClose(c)
      BY <2>2, EventAppended, CommandFact DEF Matching, CleanupClose
    <2> QED
      BY <2>1, <2>2, CommandKept DEF Matching, ConnUpgradeFails, ConnExit, workerVars
  <1>2. UNCHANGED <<busy, pending_requests, WS_CONNS, held, rx, callVars, routeVars, peerVars>>
    BY DEF ConnSendOpen, ConnUpgradeFails, ConnExit, CleanupClose, workerVars
  <1>3. MBusy'
    BY <1>2, BusyKept DEF Matching
  <1> QED
    BY <1>1, <1>2, <1>3, NetKept, QueuesKept, TablesKept, CallersKept
       DEF Matching, routeVars, peerVars

\* The steps that write the registry.
LEMMA RegistryMatching ==
  ASSUME TypeOK, Matching, Stable, NEW c \in Conns, ConnRegister(c) \/ CleanupRemove(c)
  PROVE  Matching'
  <1>1. MConns'
    <2>1. AddrOf[c] \in Addrs
      BY AddrAssumption
    <2>2. \A a \in Addrs : WS_CONNS'[a] \in {WS_CONNS[a], None} \/ (a = AddrOf[c] /\ WS_CONNS'[a] = c)
      BY <2>1 DEF ConnRegister, CleanupRemove, TypeOK, ConnsOK
    <2> QED
      BY <2>2 DEF Matching, MConns
  <1>2. UNCHANGED <<held, rx, callVars, workerVars, routeVars, peerVars>>
    BY DEF ConnRegister, CleanupRemove
  <1>3. MPending' /\ MCommand' /\ MBusy'
    BY <1>2, PendingKept, CommandKept, BusyKept DEF Matching, workerVars
  <1> QED
    BY <1>1, <1>2, <1>3, NetKept, QueuesKept, CallersKept DEF Matching, routeVars, peerVars

\* What a connection writes to its socket is a return value or comes from rx.
LEMMA WrittenMatching ==
  ASSUME TypeOK, MOut, Stable, NEW c \in Conns, NEW m \in ToPeer,
         CallMatches(m, AddrOf[c]), outgoing' = Written(c, m)
  PROVE  MOut'
  <1>1. \A d \in Conns : \A x \in Elems(outgoing[d]) : CallMatches(x, AddrOf[d])'
    BY MatchesStable DEF MOut, CallMatches
  <1>2. CallMatches(m, AddrOf[c])'
    BY MatchesStable DEF CallMatches
  <1>3. \A d \in Conns : outgoing'[d] = outgoing[d] \/ (d = c /\ outgoing'[d] = Append(outgoing[d], m))
    BY DEF Written, TypeOK, PeersOK
  <1>4. Elems(Append(outgoing[c], m)) = Elems(outgoing[c]) \cup {m}
    BY ElemsAppend DEF TypeOK, PeersOK
  <1>5. SUFFICES ASSUME NEW d \in Conns, NEW x \in Elems(outgoing'[d])
                 PROVE  CallMatches(x, AddrOf[d])'
    BY DEF MOut
  <1>6. CASE x \in Elems(outgoing[d])
    BY <1>1, <1>6
  <1>7. CASE d = c /\ x = m
    BY <1>2, <1>7
  <1>8. \/ Elems(outgoing'[d]) = Elems(outgoing[d])
        \/ d = c /\ Elems(outgoing'[d]) = Elems(outgoing[d]) \cup {m}
    BY <1>3, <1>4
  <1> QED
    BY <1>5, <1>6, <1>7, <1>8

LEMMA ConnForwardMatching ==
  ASSUME TypeOK, Matching, Stable, NEW c \in Conns, ConnForward(c)
  PROVE  Matching'
  <1>1. PICK m : m = Head(rx[c])
    OBVIOUS
  <1>2. m \in ToPeer /\ m \in Elems(rx[c]) /\ Elems(Tail(rx[c])) \subseteq Elems(rx[c])
    BY <1>1, HeadTailProperties, ElemsHeadTail DEF TypeOK, ConnsOK, ConnForward
  <1>3. MOut'
    BY <1>1, <1>2, WrittenMatching DEF Matching, MRx, ConnForward
  <1>4. MRx'
    <2>1. \A d \in Conns : Elems(rx'[d]) \subseteq Elems(rx[d])
      BY <1>2 DEF ConnForward, TypeOK, ConnsOK
    <2>2. \A d \in Conns : \A x \in Elems(rx[d]) : CallMatches(x, AddrOf[d])'
      BY MatchesStable DEF Matching, MRx, CallMatches
    <2> QED
      BY <2>1, <2>2 DEF MRx
  <1>5. MIn' /\ MHeld' /\ MCommand' /\ MBusy'
    BY InKept, HeldKept, CommandKept, BusyKept DEF Matching, ConnForward, workerVars
  <1> QED
    BY <1>3, <1>4, <1>5, QueuesKept, TablesKept, CallersKept
       DEF Matching, ConnForward, workerVars, routeVars

LEMMA ConnRespondMatching ==
  ASSUME TypeOK, Matching, Stable, NEW c \in Conns, ConnRespond(c)
  PROVE  Matching'
  <1>1. PICK p \in PeerCalls : outgoing' = Written(c, [kind |-> "Ret", of |-> p])
    BY DEF ConnRespond, TypeOK, ConnsOK
  <1>2. MOut'
    BY <1>1, PacketFact, WrittenMatching DEF Matching, CallMatches
  <1>3. MRx' /\ MIn' /\ MHeld' /\ MCommand' /\ MBusy'
    BY RxKept, InKept, HeldKept, CommandKept, BusyKept DEF Matching, ConnRespond, workerVars
  <1> QED
    BY <1>2, <1>3, QueuesKept, TablesKept, CallersKept
       DEF Matching, ConnRespond, workerVars, routeVars

LEMMA ConnIncomingMatching ==
  ASSUME TypeOK, Matching, Stable, NEW c \in Conns, ConnIncoming(c)
  PROVE  Matching'
  <1>1. PICK m : m = Head(incoming[c])
    OBVIOUS
  <1>2. m \in Elems(incoming[c]) /\ Elems(Tail(incoming[c])) \subseteq Elems(incoming[c])
    BY <1>1, ElemsHeadTail DEF TypeOK, PeersOK, ConnIncoming
  <1>3. RetMatches(m, AddrOf[c])'
    BY <1>2, MatchesStable DEF Matching, MIn, RetMatches
  <1>4. MIn'
    <2>1. \A d \in Conns : Elems(incoming'[d]) \subseteq Elems(incoming[d])
      BY <1>2 DEF ConnIncoming, TypeOK, PeersOK
    <2>2. \A d \in Conns : \A x \in Elems(incoming[d]) : RetMatches(x, AddrOf[d])'
      BY MatchesStable DEF Matching, MIn, RetMatches
    <2> QED
      BY <2>1, <2>2 DEF MIn
  <1>5. MHeld'
    <2>1. \A d \in Conns : held'[d] = IF d = c THEN m ELSE held[d]
      BY <1>1 DEF ConnIncoming, TypeOK, ConnsOK
    <2>2. \A d \in Conns : \A x : x = held[d] /\ x # None => RetMatches(x, AddrOf[d])'
      BY MatchesStable DEF Matching, MHeld, RetMatches
    <2>3. SUFFICES ASSUME NEW d \in Conns, NEW x, x = held'[d], x # None
                   PROVE  RetMatches(x, AddrOf[d])'
      BY DEF MHeld, RetMatches, Matches, Drawn
    <2> QED
      BY <1>3, <2>1, <2>2, <2>3
  <1>6. MRx' /\ MOut' /\ MCommand' /\ MBusy'
    BY RxKept, OutKept, CommandKept, BusyKept DEF Matching, ConnIncoming, workerVars
  <1> QED
    BY <1>4, <1>5, <1>6, QueuesKept, TablesKept, CallersKept
       DEF Matching, ConnIncoming, workerVars, routeVars

LEMMA HeldCleared ==
  ASSUME TypeOK, MHeld, Stable, NEW c \in Conns, held' = [held EXCEPT ![c] = None]
  PROVE  MHeld'
  <1>1. \A d \in Conns : held'[d] \in {held[d], None}
    BY DEF TypeOK, ConnsOK
  <1>2. \A d \in Conns : \A x : x = held[d] /\ x # None => RetMatches(x, AddrOf[d])'
    BY MatchesStable DEF MHeld, RetMatches
  <1>3. SUFFICES ASSUME NEW d \in Conns, NEW x, x = held'[d], x # None
                 PROVE  RetMatches(x, AddrOf[d])'
    BY DEF MHeld, RetMatches, Matches, Drawn
  <1> QED
    BY <1>1, <1>2, <1>3

LEMMA ConnTransferMatching ==
  ASSUME TypeOK, Matching, Stable, NEW c \in Conns, ConnTransfer(c)
  PROVE  Matching'
  <1>1. PICK m : m = held[c]
    OBVIOUS
  <1>2. m \in FromPeer
    BY <1>1 DEF TypeOK, ConnsOK, ConnTransfer
  <1> DEFINE e == [op |-> "Transfer", item |-> [conn |-> c, msg |-> m]]
  <1>3. e \in Command
    BY <1>2, CommandFact, PacketFact
  <1>4. MCommand'
    <2>1. CASE UNCHANGED command
      BY <2>1, CommandKept DEF Matching
    <2>2. CASE command' = Append(command, e) /\ m # None
      <3>1. RetMatches(m, AddrOf[c])'
        BY <1>1, <2>2, MatchesStable DEF Matching, MHeld, RetMatches
      <3>2. CommandMatches(e)'
        BY <3>1 DEF CommandMatches, ItemMatches
      <3> QED
        BY <1>3, <2>2, <3>2, CommandAppended DEF Matching
    <2> QED
      BY <1>1, <1>2, <2>1, <2>2, NoneAssumption DEF ConnTransfer
  <1>5. MHeld'
    BY HeldCleared DEF Matching, ConnTransfer
  <1>6. MRx' /\ MOut' /\ MIn' /\ MBusy'
    BY RxKept, OutKept, InKept, BusyKept DEF Matching, ConnTransfer, peerVars
  <1> QED
    BY <1>4, <1>5, <1>6, QueuesKept, TablesKept, CallersKept
       DEF Matching, ConnTransfer, routeVars

LEMMA ConnDropRxMatching ==
  ASSUME TypeOK, Matching, Stable, NEW c \in Conns, ConnDropRx(c)
  PROVE  Matching'
  <1>1. MRx'
    <2>1. \A d \in Conns : rx'[d] = <<>> \/ rx'[d] = rx[d]
      BY DEF ConnDropRx, TypeOK, ConnsOK
    <2>2. \A d \in Conns : \A x \in Elems(rx[d]) : CallMatches(x, AddrOf[d])'
      BY MatchesStable DEF Matching, MRx, CallMatches
    <2> QED
      BY <2>1, <2>2, ElemsEmpty DEF MRx
  <1>2. MOut' /\ MIn' /\ MHeld' /\ MCommand' /\ MBusy'
    BY OutKept, InKept, HeldKept, CommandKept, BusyKept
       DEF Matching, ConnDropRx, workerVars, peerVars
  <1> QED
    BY <1>1, <1>2, QueuesKept, TablesKept, CallersKept
       DEF Matching, ConnDropRx, workerVars, routeVars

-----------------------------------------------------------------------------
(* The steps of the route, the hooks and the peers preserve the matching *)

LEMMA RouteRecvMatching ==
  ASSUME TypeOK, Matching, Stable, RouteRecv
  PROVE  Matching'
  <1>1. PICK i : i = Head(stream)
    OBVIOUS
  <1>2. i \in Elems(stream) /\ Elems(Tail(stream)) \subseteq Elems(stream)
    BY <1>1, ElemsHeadTail DEF TypeOK, RouteOK, RouteRecv
  <1>3. \A x \in Elems(stream) : ItemMatches(x)'
    BY MatchesStable DEF Matching, MStream, ItemMatches, RetMatches
  <1>4. MStream'
    BY <1>2, <1>3 DEF MStream, RouteRecv
  <1>5. MRoute'
    <2>1. route' = i /\ ItemMatches(i)'
      BY <1>1, <1>2, <1>3 DEF RouteRecv
    <2> QED
      BY <2>1 DEF MRoute
  <1>6. MCommand' /\ MBusy'
    BY CommandKept, BusyKept DEF Matching, RouteRecv, workerVars
  <1> QED
    BY <1>4, <1>5, <1>6, NetKept, TablesKept, CallersKept
       DEF Matching, RouteRecv, workerVars, connVars, peerVars

LEMMA RouteDoneMatching ==
  ASSUME TypeOK, Matching, Stable, RouteReturn \/ HandlerPanic
  PROVE  Matching'
  <1>1. MStream'
    BY StreamKept, ElemsEmpty DEF Matching, MStream, RouteReturn, HandlerPanic
  <1>2. MRoute'
    BY DEF MRoute, RouteReturn, HandlerPanic
  <1>3. UNCHANGED <<WS_CONNS, held, rx, callVars, workerVars, peerVars>>
    BY DEF RouteReturn, HandlerPanic, connVars
  <1>4. MCommand' /\ MBusy'
    BY <1>3, CommandKept, BusyKept DEF Matching, workerVars
  <1> QED
    BY <1>1, <1>2, <1>3, <1>4, NetKept, TablesKept, CallersKept
       DEF Matching, workerVars, peerVars

LEMMA RouteCommitMatching ==
  ASSUME TypeOK, Matching, Stable, RouteCommit
  PROVE  Matching'
  <1>1. PICK i : i = route
    OBVIOUS
  <1>2. i \in Items /\ i.msg.kind = "Ret" /\ ItemMatches(i)
    BY <1>1 DEF TypeOK, RouteOK, RouteCommit, Matching, MRoute
  <1>3. Matches(i.msg.of, i.msg.id, AddrOf[i.conn])'
    BY <1>2, MatchesStable DEF ItemMatches, RetMatches
  <1>4. MCommand'
    <2>1. CommandMatches(CommitOf(i))'
      BY <1>3 DEF CommandMatches, CommitOf
    <2>2. command' \in {command, Append(command, CommitOf(i))}
      BY <1>1 DEF RouteCommit
    <2>3. PICK e : e = CommitOf(i)
      OBVIOUS
    <2>4. e \in Command /\ CommandMatches(e)'
      BY <1>2, <2>1, <2>3, CommandFact
    <2> QED
      BY <2>2, <2>3, <2>4, CommandAppended, CommandKept DEF Matching
  <1>5. MRoute' /\ MStream' /\ MBusy'
    BY StreamKept, BusyKept DEF Matching, MRoute, RouteCommit
  <1> QED
    BY <1>4, <1>5, NetKept, TablesKept, CallersKept DEF Matching, RouteCommit, connVars, peerVars

LEMMA HookMatching ==
  ASSUME TypeOK, Matching, Stable, Hook \/ Unbind
  PROVE  Matching'
  <1>1. UNCHANGED <<pending_requests, WS_CONNS, held, rx, stream, route, callVars, peerVars>>
    BY DEF Hook, HookTakeOpen, HookOpenDone, HookTakeClose, HookCloseDone, HookStop,
           Unbind, UnbindStart, UnbindSend, workerVars, connVars, routeVars
  <1>2. MBusy'
    BY BusyKept, IdleKept
       DEF Matching, Hook, HookTakeOpen, HookOpenDone, HookTakeClose, HookCloseDone,
           HookStop, Unbind, UnbindStart, UnbindSend, workerVars
  <1>3. MCommand'
    <2>1. CASE UnbindSend
      BY <2>1, EventAppended, CommandFact DEF Matching, UnbindSend
    <2> QED
      BY <2>1, CommandKept
         DEF Matching, Hook, HookTakeOpen, HookOpenDone, HookTakeClose, HookCloseDone,
             HookStop, Unbind, UnbindStart, workerVars
  <1> QED
    BY <1>1, <1>2, <1>3, NetKept, QueuesKept, TablesKept, CallersKept DEF Matching, peerVars

LEMMA PeerReadMatching ==
  ASSUME TypeOK, Matching, Stable, NEW c \in Conns, PeerRead(c)
  PROVE  Matching'
  <1>1. PICK m, e : m = Head(outgoing[c]) /\ e = [kind |-> "Ret", id |-> m.id, of |-> m.of]
    OBVIOUS
  <1>2. /\ m \in ToPeer /\ m \in Elems(outgoing[c])
        /\ Elems(Tail(outgoing[c])) \subseteq Elems(outgoing[c])
    BY <1>1, HeadTailProperties, ElemsHeadTail DEF TypeOK, PeersOK, PeerRead
  <1>3. MOut'
    <2>1. \A d \in Conns : Elems(outgoing'[d]) \subseteq Elems(outgoing[d])
      BY <1>2 DEF PeerRead, TypeOK, PeersOK
    <2>2. \A d \in Conns : \A x \in Elems(outgoing[d]) : CallMatches(x, AddrOf[d])'
      BY MatchesStable DEF Matching, MOut, CallMatches
    <2> QED
      BY <2>1, <2>2 DEF MOut
  <1>4. MIn'
    <2>1. \A d \in Conns : \A x \in Elems(incoming[d]) : RetMatches(x, AddrOf[d])'
      BY MatchesStable DEF Matching, MIn, RetMatches
    <2>2. CASE UNCHANGED incoming
      BY <2>2, InKept DEF Matching
    <2>3. CASE m.kind = "Call" /\ incoming' = [incoming EXCEPT ![c] = Append(@, e)]
      <3>1. e \in FromPeer
        BY <1>1, <1>2, <2>3, PacketFact
      <3>2. Elems(Append(incoming[c], e)) = Elems(incoming[c]) \cup {e}
        BY <3>1, ElemsAppend DEF TypeOK, PeersOK
      <3>3. Matches(m.of, m.id, AddrOf[c])'
        BY <1>2, <2>3, MatchesStable DEF Matching, MOut, CallMatches
      <3>4. RetMatches(e, AddrOf[c])'
        BY <1>1, <3>3 DEF RetMatches
      <3>5. \A d \in Conns : incoming'[d] = IF d = c THEN Append(incoming[c], e) ELSE incoming[d]
        BY <2>3 DEF TypeOK, PeersOK
      <3>6. \A d \in Conns : \A x \in Elems(incoming'[d]) :
                x \in Elems(incoming[d]) \/ (d = c /\ x = e)
        BY <3>2, <3>5
      <3>7. SUFFICES ASSUME NEW d \in Conns, NEW x \in Elems(incoming'[d])
                     PROVE  RetMatches(x, AddrOf[d])'
        BY DEF MIn
      <3> QED
        BY <2>1, <3>4, <3>6, <3>7
    <2> QED
      BY <1>1, <2>2, <2>3 DEF PeerRead
  <1>5. MRx' /\ MHeld' /\ MCommand' /\ MBusy'
    BY RxKept, HeldKept, CommandKept, BusyKept DEF Matching, PeerRead, workerVars, connVars
  <1> QED
    BY <1>3, <1>4, <1>5, QueuesKept, TablesKept, CallersKept
       DEF Matching, PeerRead, workerVars, connVars, routeVars

LEMMA PeerCallMatching ==
  ASSUME TypeOK, Matching, Stable, NEW c \in Conns, NEW p \in PeerCalls, PeerCall(p, c)
  PROVE  Matching'
  <1> DEFINE e == [kind |-> "Call", of |-> p]
  <1>1. MIn'
    <2>1. \A d \in Conns : \A x \in Elems(incoming[d]) : RetMatches(x, AddrOf[d])'
      BY MatchesStable DEF Matching, MIn, RetMatches
    <2>2. Elems(Append(incoming[c], e)) = Elems(incoming[c]) \cup {e}
      BY PacketFact, ElemsAppend DEF TypeOK, PeersOK
    <2>3. \A d \in Conns : incoming'[d] = IF d = c THEN Append(incoming[c], e) ELSE incoming[d]
      BY DEF PeerCall, TypeOK, PeersOK
    <2>4. \A d \in Conns : \A x \in Elems(incoming'[d]) :
              x \in Elems(incoming[d]) \/ (d = c /\ x = e)
      BY <2>2, <2>3
    <2>5. RetMatches(e, AddrOf[c])'
      BY DEF RetMatches
    <2>6. SUFFICES ASSUME NEW d \in Conns, NEW x \in Elems(incoming'[d])
                   PROVE  RetMatches(x, AddrOf[d])'
      BY DEF MIn
    <2> QED
      BY <2>1, <2>4, <2>5, <2>6
  <1>2. MRx' /\ MOut' /\ MHeld' /\ MCommand' /\ MBusy'
    BY RxKept, OutKept, HeldKept, CommandKept, BusyKept
       DEF Matching, PeerCall, workerVars, connVars
  <1> QED
    BY <1>1, <1>2, QueuesKept, TablesKept, CallersKept
       DEF Matching, PeerCall, workerVars, connVars, routeVars

LEMMA PeerCloseMatching ==
  ASSUME TypeOK, Matching, Stable, NEW c \in Conns, PeerClose(c)
  PROVE  Matching'
  <1>1. \A d \in Conns : /\ incoming'[d] = incoming[d] \/ incoming'[d] = <<>>
                         /\ outgoing'[d] = outgoing[d] \/ outgoing'[d] = <<>>
    BY DEF PeerClose, TypeOK, PeersOK
  <1>2. MIn'
    <2>1. \A d \in Conns : \A x \in Elems(incoming[d]) : RetMatches(x, AddrOf[d])'
      BY MatchesStable DEF Matching, MIn, RetMatches
    <2> QED
      BY <1>1, <2>1, ElemsEmpty DEF MIn
  <1>3. MOut'
    <2>1. \A d \in Conns : \A x \in Elems(outgoing[d]) : CallMatches(x, AddrOf[d])'
      BY MatchesStable DEF Matching, MOut, CallMatches
    <2> QED
      BY <1>1, <2>1, ElemsEmpty DEF MOut
  <1>4. MRx' /\ MHeld' /\ MCommand' /\ MBusy'
    BY RxKept, HeldKept, CommandKept, BusyKept DEF Matching, PeerClose, workerVars, connVars
  <1> QED
    BY <1>2, <1>3, <1>4, QueuesKept, TablesKept, CallersKept
       DEF Matching, PeerClose, workerVars, connVars, routeVars

-----------------------------------------------------------------------------

LEMMA InitMatching == Init => Matching
  <1> SUFFICES ASSUME Init PROVE Matching
    OBVIOUS
  <1>1. MRx /\ MOut /\ MIn /\ MCommand /\ MStream
    BY ElemsEmpty DEF Init, MRx, MOut, MIn, MCommand, MStream
  <1>2. MHeld /\ MBusy /\ MRoute /\ MPending /\ MAnswer
    BY DEF Init, MHeld, MBusy, MRoute, MPending, MAnswer, CommandMatches, Idle
  <1>3. MConns
    BY DEF Init, MConns
  <1> QED
    BY <1>1, <1>2, <1>3 DEF Matching

LEMMA NextMatching == ASSUME TypeOK, Matching, [Next]_vars PROVE Matching'
  <1> Stable
    BY StepStable
  <1>1. CASE \E k \in Callers :
                (\E a \in Addrs : CallStart(k, a)) \/ CallUnbound(k) \/ CallSend(k)
    BY <1>1, CallStartMatching, CallSendMatching, AddrAssumption
  <1>2. CASE Worker
    BY <1>2, WorkerRecvMatching, WorkerFindMatching, WorkerForwardMatching,
       WorkerRefusedMatching, WorkerTransferMatching, WorkerDieMatching,
       WorkerCommitMatching, WorkerWsCloseMatching, WorkerEventMatching DEF Worker
  <1>3. CASE Route
    BY <1>3, RouteRecvMatching, RouteDoneMatching, RouteCommitMatching DEF Route
  <1>4. CASE Hook \/ Unbind
    BY <1>4, HookMatching
  <1>5. CASE \E c \in Conns : Conn(c)
    BY <1>5, ConnEventMatching, RegistryMatching, ConnForwardMatching, ConnRespondMatching,
       ConnIncomingMatching, ConnTransferMatching, ConnDropRxMatching DEF Conn
  <1>6. CASE \E c \in Conns :
                PeerClose(c) \/ PeerRead(c) \/ \E p \in PeerCalls : PeerCall(p, c)
    BY <1>6, PeerCloseMatching, PeerReadMatching, PeerCallMatching
  <1>7. CASE UNCHANGED vars
    BY <1>7, NetKept, QueuesKept, TablesKept, CallersKept, CommandKept, BusyKept
       DEF Matching, vars, workerVars, connVars, routeVars, peerVars
  <1> QED
    BY <1>1, <1>2, <1>3, <1>4, <1>5, <1>6, <1>7 DEF Next

LEMMA MatchingInvariant == Spec => [](TypeOK /\ Matching)
  <1>1. TypeOK /\ Matching /\ [Next]_vars => Matching'
    BY NextMatching
  <1> QED
    BY <1>1, TypeCorrect, InitMatching, PTL DEF Spec

\* The reply a call returns has the id and the address of the call, and the last
\* check of call_remotely (caller.rs) never fails, for every number of ids,
\* calls and connections and every capacity of the channels.
THEOREM AnswersMatch == Spec => []AnswerMatches
  <1>1. Matching => AnswerMatches
    BY DEF Matching, MAnswer, AnswerMatches
  <1> QED
    BY <1>1, MatchingInvariant, PTL

=============================================================================
