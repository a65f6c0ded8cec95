-------------------------- MODULE ServerRoutes_proofs --------------------------
(***************************************************************************)
(* Theorems about ServerRoutes, for every value of its constants: the types, *)
(* that the tables of a server agree, and where its requests go.           *)
(***************************************************************************)
EXTENDS ServerRoutes, Elements

-----------------------------------------------------------------------------
(* What the types of commands, channels and oneshots give *)

LEMMA CommandFact ==
  /\ \A b \in Binders : [op |-> "add", of |-> b] \in Command
  /\ \A b \in Binders : [op |-> "remove", of |-> b] \in Command
  /\ \A r \in Requests : [op |-> "request", of |-> r] \in Command
  /\ \A q \in Command : \/ q.op \in {"add", "remove"} /\ q.of \in Binders
                        \/ q.op = "request" /\ q.of \in Requests
  /\ \A q \in Command : q = [op |-> q.op, of |-> q.of]
  BY SMT DEF Command

LEMMA EnqueueFact ==
  ASSUME WorkerOK, NEW op, NEW x, [op |-> op, of |-> x] \in Command, Enqueue(op, x)
  PROVE  /\ command' \in Seq(Command) /\ Len(command') <= Cap
         /\ Elems(command') = Elems(command) \cup {[op |-> op, of |-> x]}
  <1>1. command \in Seq(Command) /\ Len(command) \in Nat /\ Cap \in Nat
    BY RouteBoundAssumption, LenProperties DEF WorkerOK
  <1>2. Len(command') = Len(command) + 1 /\ command' \in Seq(Command)
    BY <1>1, AppendProperties DEF Enqueue
  <1> QED
    BY <1>1, <1>2, ElemsAppend, SMT DEF Enqueue

LEMMA TakeFact ==
  ASSUME WorkerOK, NEW op, NEW x, Taking(op, x)
  PROVE  /\ command \in Seq(Command) /\ command # <<>>
         /\ [op |-> op, of |-> x] \in Elems(command)
         /\ [op |-> op, of |-> x] \in Command
         /\ Tail(command) \in Seq(Command) /\ Len(Tail(command)) <= Cap
         /\ Elems(Tail(command)) \subseteq Elems(command)
         /\ busy = None /\ alive
  <1>1. command \in Seq(Command) /\ Len(command) \in Nat /\ Cap \in Nat /\ command # <<>>
    BY RouteBoundAssumption, LenProperties DEF WorkerOK, Taking
  <1>2. Tail(command) \in Seq(Command) /\ Len(Tail(command)) = Len(command) - 1
    BY <1>1, HeadTailProperties
  <1>3. Head(command) \in Elems(command) /\ Elems(Tail(command)) \subseteq Elems(command)
    BY <1>1, ElemsHeadTail
  <1>4. Head(command) \in Command
    BY <1>1, HeadTailProperties
  <1>5. Len(Tail(command)) <= Cap
    BY <1>1, <1>2, SMT DEF WorkerOK
  <1> QED
    BY <1>1, <1>2, <1>3, <1>4, <1>5 DEF Taking, Idle

LEMMA AnsweredFact ==
  ASSUME RequestsOK, NEW rs, NEW v \in {"404", "500"} \cup Binders
  PROVE  /\ Answered(rs, v) \in [Requests -> {"idle", "waiting", "gone", "404", "500"} \cup Binders]
         /\ \A r \in Requests :
               \/ Answered(rs, v)[r] = outcome[r]
               \/ outcome[r] = "waiting" /\ Answered(rs, v)[r] = v
  BY DEF Answered, RequestsOK

LEMMA NoMessages ==
  /\ <<>> \in Seq(Command) /\ <<>> \in Seq(Requests)
  /\ Len(<<>>) = 0 /\ Elems(<<>>) = {} /\ Cap \in Nat /\ 0 <= Cap
  BY EmptySeq, ElemsEmpty, RouteBoundAssumption, SMT

LEMMA DieFact ==
  ASSUME TypeOK, NEW rs, Die(rs), UNCHANGED <<phase, BIND_SENDERS, body, cancelled, started, seen>>
  PROVE  WorkerOK' /\ BindersOK' /\ RequestsOK'
  <1>1. WorkerOK'
    <2>1. command' \in Seq(Command) /\ Len(command') <= Cap
      BY NoMessages DEF Die
    <2>2. handlers' \in [Keys -> Binders \cup {None}]
      BY DEF Die
    <2> QED
      BY <2>1, <2>2 DEF WorkerOK, Die
  <1>2. BindersOK'
    BY DEF TypeOK, BindersOK, Die
  <1>3. RequestsOK'
    BY AnsweredFact DEF TypeOK, RequestsOK, Die
  <1> QED
    BY <1>1, <1>2, <1>3

LEMMA WorkerKept == ASSUME WorkerOK, UNCHANGED workerVars PROVE WorkerOK'
  BY DEF WorkerOK, workerVars
LEMMA BindersKept == ASSUME BindersOK, UNCHANGED binderVars PROVE BindersOK'
  BY DEF BindersOK, binderVars
LEMMA TasksKept == ASSUME TasksOK, UNCHANGED taskVars PROVE TasksOK'
  BY DEF TasksOK, taskVars
LEMMA RequestsKept == ASSUME RequestsOK, UNCHANGED requestVars PROVE RequestsOK'
  BY DEF RequestsOK, requestVars

-----------------------------------------------------------------------------
(* Every step preserves the types *)

LEMMA BindSpawnType == ASSUME TypeOK, NEW b \in Binders, BindSpawn(b) PROVE TypeOK'
  <1>1. BindersOK'
    BY SMT DEF TypeOK, BindersOK, BindSpawn, Phases
  <1>2. TasksOK'
    BY SMT DEF TypeOK, TasksOK, BindSpawn
  <1> QED
    BY <1>1, <1>2, WorkerKept, RequestsKept DEF TypeOK, BindSpawn

LEMMA BindSendType == ASSUME TypeOK, NEW b \in Binders, BindSend(b) PROVE TypeOK'
  <1>1. WorkerOK'
    BY EnqueueFact, CommandFact DEF TypeOK, WorkerOK, BindSend
  <1>2. BindersOK'
    BY SMT DEF TypeOK, BindersOK, BindSend, Phases
  <1> QED
    BY <1>1, <1>2, TasksKept, RequestsKept DEF TypeOK, BindSend

LEMMA BindUnsentType == ASSUME TypeOK, NEW b \in Binders, BindUnsent(b) PROVE TypeOK'
  <1>1. BindersOK'
    BY SMT DEF TypeOK, BindersOK, BindUnsent, Phases
  <1> QED
    BY <1>1, WorkerKept, TasksKept, RequestsKept DEF TypeOK, BindUnsent

LEMMA BindCheckType == ASSUME TypeOK, NEW b \in Binders, BindCheck(b) PROVE TypeOK'
  <1>1. BindersOK'
    BY SMT DEF TypeOK, BindersOK, BindCheck, Phases
  <1> QED
    BY <1>1, WorkerKept, TasksKept, RequestsKept DEF TypeOK, BindCheck

LEMMA BindReturnType == ASSUME TypeOK, NEW b \in Binders, BindReturn(b) PROVE TypeOK'
  <1>1. BindersOK'
    BY SMT DEF TypeOK, BindersOK, BindReturn, Phases
  <1> QED
    BY <1>1, WorkerKept, TasksKept, RequestsKept DEF TypeOK, BindReturn

LEMMA UnbindStartType == ASSUME TypeOK, NEW b \in Binders, UnbindStart(b) PROVE TypeOK'
  <1>1. BindersOK'
    BY SMT DEF TypeOK, BindersOK, UnbindStart, Phases
  <1> QED
    BY <1>1, WorkerKept, TasksKept, RequestsKept DEF TypeOK, UnbindStart

LEMMA UnbindSendType == ASSUME TypeOK, NEW b \in Binders, UnbindSend(b) PROVE TypeOK'
  <1>1. WorkerOK'
    BY EnqueueFact, CommandFact DEF TypeOK, WorkerOK, UnbindSend
  <1>2. BindersOK'
    BY SMT DEF TypeOK, BindersOK, UnbindSend, Phases
  <1> QED
    BY <1>1, <1>2, TasksKept, RequestsKept DEF TypeOK, UnbindSend

LEMMA UnbindReturnType == ASSUME TypeOK, NEW b \in Binders, UnbindReturn(b) PROVE TypeOK'
  <1>1. BindersOK'
    BY SMT DEF TypeOK, BindersOK, UnbindReturn, Phases
  <1> QED
    BY <1>1, WorkerKept, TasksKept, RequestsKept DEF TypeOK, UnbindReturn

LEMMA WorkerAddType == ASSUME TypeOK, NEW b \in Binders, WorkerAdd(b) PROVE TypeOK'
  <1>1. CASE ~(handlers[Key[b]] = None) /\ phase[b] = "refused" /\ Die({})
    BY <1>1, DieFact, TasksKept DEF TypeOK, WorkerAdd
  <1>2. CASE /\ command' = Tail(command)
             /\ handlers' = [handlers EXCEPT ![Key[b]] = IF handlers[Key[b]] = None THEN b ELSE @]
             /\ ret' = [ret EXCEPT ![b] = IF handlers[Key[b]] = None THEN "ok" ELSE "err"]
             /\ UNCHANGED <<alive, busy, outcome>>
    <2>1. command' \in Seq(Command) /\ Len(command') <= Cap
      BY <1>2, TakeFact DEF TypeOK, WorkerAdd
    <2>3. WorkerOK'
      BY <1>2, <2>1 DEF TypeOK, WorkerOK
    <2>2. BindersOK'
      BY <1>2, SMT DEF TypeOK, BindersOK, WorkerAdd
    <2> QED
      BY <1>2, <2>2, <2>3, TasksKept, RequestsKept DEF TypeOK, WorkerAdd, requestVars
  <1> QED
    BY <1>1, <1>2 DEF WorkerAdd

LEMMA WorkerRemoveType == ASSUME TypeOK, NEW b \in Binders, WorkerRemove(b) PROVE TypeOK'
  <1>1. WorkerOK'
    BY TakeFact DEF TypeOK, WorkerOK, WorkerRemove
  <1>2. BindersOK'
    BY SMT DEF TypeOK, BindersOK, WorkerRemove
  <1>3. Key[b] \in Keys
    BY RouteAssumption
  <1>4. TasksOK'
    BY <1>3, SMT DEF TypeOK, TasksOK, WorkerOK, WorkerRemove
  <1> QED
    BY <1>1, <1>2, <1>4, RequestsKept DEF TypeOK, WorkerRemove

LEMMA RouteFact ==
  ASSUME WorkerOK, Route # None
  PROVE  Route \in Binders /\ \E k \in {"http", "default"} : Route = handlers[k]
  BY DEF WorkerOK, Route, Keys

LEMMA WorkerRequestType == ASSUME TypeOK, NEW r \in Requests, WorkerRequest(r) PROVE TypeOK'
  <1>1. WorkerOK'
    <2>1. command' \in Seq(Command) /\ Len(command') <= Cap
      BY TakeFact DEF TypeOK, WorkerRequest
    <2>2. busy' \in (Requests \X Binders) \cup {None}
      BY RouteFact DEF TypeOK, WorkerOK, WorkerRequest
    <2> QED
      BY <2>1, <2>2 DEF TypeOK, WorkerOK, WorkerRequest
  <1>2. RequestsOK'
    BY AnsweredFact DEF TypeOK, RequestsOK, WorkerRequest
  <1> QED
    BY <1>1, <1>2, BindersKept, TasksKept DEF TypeOK, WorkerRequest

LEMMA WorkerDeliverType == ASSUME TypeOK, WorkerDeliver PROVE TypeOK'
  <1> DEFINE r == busy[1]
             b == busy[2]
  <1>1. r \in Requests /\ b \in Binders
    BY DEF TypeOK, WorkerOK, WorkerDeliver
  <1>2. CASE /\ Len(chan[b]) < Cap
             /\ chan' = [chan EXCEPT ![b] = Append(@, r)]
             /\ busy' = None
             /\ UNCHANGED <<alive, command, handlers, ret, outcome>>
    <2>1. chan[b] \in Seq(Requests) /\ Append(chan[b], r) \in Seq(Requests)
      BY <1>1, AppendProperties DEF TypeOK, TasksOK
    <2>2. Len(Append(chan[b], r)) <= Cap
      BY <1>1, <1>2, <2>1, AppendProperties, LenProperties, RouteBoundAssumption, SMT
    <2>3. TasksOK'
      BY <1>1, <1>2, <2>1, <2>2 DEF TypeOK, TasksOK, WorkerDeliver
    <2>4. WorkerOK'
      BY <1>2 DEF TypeOK, WorkerOK
    <2> QED
      BY <1>2, <2>3, <2>4, BindersKept, RequestsKept
         DEF TypeOK, WorkerDeliver, binderVars, requestVars
  <1>3. CASE Die({r}) /\ UNCHANGED chan
    BY <1>3, DieFact, TasksKept DEF TypeOK, WorkerDeliver, taskVars
  <1> QED
    BY <1>2, <1>3 DEF WorkerDeliver

LEMMA TaskRecvType == ASSUME TypeOK, NEW b \in Binders, TaskRecv(b) PROVE TypeOK'
  <1>1. /\ Head(chan[b]) \in Requests /\ Tail(chan[b]) \in Seq(Requests)
        /\ Len(Tail(chan[b])) = Len(chan[b]) - 1 /\ Len(chan[b]) \in Nat /\ Len(chan[b]) <= Cap
    BY HeadTailProperties, LenProperties DEF TypeOK, TasksOK, TaskRecv
  <1>2. Len(Tail(chan[b])) <= Cap
    BY <1>1, RouteBoundAssumption, SMT
  <1>3. TasksOK'
    BY <1>1, <1>2, RouteNoneAssumption DEF TypeOK, TasksOK, TaskRecv
  <1> QED
    BY <1>3, WorkerKept, BindersKept, RequestsKept DEF TypeOK, TaskRecv

LEMMA TaskStartType == ASSUME TypeOK, NEW b \in Binders, TaskStart(b) PROVE TypeOK'
  <1>1. TasksOK' /\ current[b] \in Requests
    BY DEF TypeOK, TasksOK, TaskStart
  <1>2. RequestsOK'
    BY <1>1 DEF TypeOK, RequestsOK, TaskStart
  <1> QED
    BY <1>1, <1>2, WorkerKept, BindersKept DEF TypeOK, TaskStart

LEMMA TaskCancelType == ASSUME TypeOK, NEW b \in Binders, TaskCancel(b) PROVE TypeOK'
  <1>1. TasksOK'
    BY DEF TypeOK, TasksOK, TaskCancel, Done
  <1> QED
    BY <1>1, WorkerKept, BindersKept, RequestsKept DEF TypeOK, TaskCancel

LEMMA TaskRespondType == ASSUME TypeOK, NEW b \in Binders, TaskRespond(b) PROVE TypeOK'
  <1>1. TasksOK'
    BY DEF TypeOK, TasksOK, TaskRespond, Done
  <1>2. RequestsOK'
    BY AnsweredFact DEF TypeOK, RequestsOK, TaskRespond
  <1> QED
    BY <1>1, <1>2, WorkerKept, BindersKept DEF TypeOK, TaskRespond

LEMMA EndAsType ==
  ASSUME TypeOK, NEW b \in Binders, NEW how \in {"ended", "panicked"}, EndAs(b, how)
  PROVE  TypeOK'
  <1>1. TasksOK'
    BY NoMessages DEF TypeOK, TasksOK, EndAs
  <1>2. RequestsOK'
    BY AnsweredFact DEF TypeOK, RequestsOK, EndAs
  <1> QED
    BY <1>1, <1>2, WorkerKept, BindersKept DEF TypeOK, EndAs

LEMMA TaskType == ASSUME TypeOK, NEW b \in Binders, Task(b) PROVE TypeOK'
  BY TaskRecvType, TaskStartType, TaskCancelType, TaskRespondType, EndAsType
     DEF Task, TaskPanic, TaskAborted, TaskEnds

LEMMA RequestSendType == ASSUME TypeOK, NEW r \in Requests, RequestSend(r) PROVE TypeOK'
  <1>1. WorkerOK'
    BY EnqueueFact, CommandFact DEF TypeOK, WorkerOK, RequestSend
  <1>2. RequestsOK'
    BY SMT DEF TypeOK, RequestsOK, RequestSend
  <1> QED
    BY <1>1, <1>2, BindersKept, TasksKept DEF TypeOK, RequestSend

LEMMA BodyEndsType == ASSUME TypeOK, NEW r \in Requests, BodyEnds(r) PROVE TypeOK'
  <1>1. RequestsOK'
    BY DEF TypeOK, RequestsOK, BodyEnds
  <1> QED
    BY <1>1, WorkerKept, BindersKept, TasksKept DEF TypeOK, BodyEnds

LEMMA ConnectionGoneType == ASSUME TypeOK, NEW r \in Requests, ConnectionGone(r) PROVE TypeOK'
  <1>1. RequestsOK'
    BY DEF TypeOK, RequestsOK, ConnectionGone
  <1> QED
    BY <1>1, WorkerKept, BindersKept, TasksKept DEF TypeOK, ConnectionGone

LEMMA HolderFact ==
  ASSUME NEW k \in Keys
  PROVE  \/ Holder(k) = None
         \/ Holder(k) \in Established /\ Key[Holder(k)] = k
  BY DEF Holder

LEMMA InitType == Init => TypeOK
  <1> SUFFICES ASSUME Init PROVE TypeOK
    OBVIOUS
  <1>1. WorkerOK
    BY HolderFact, NoMessages, RouteAssumption DEF Init, WorkerOK
  <1>2. BindersOK
    BY HolderFact, RouteAssumption DEF Init, BindersOK, Phases, Keys
  <1>3. TasksOK
    BY NoMessages DEF Init, TasksOK
  <1>4. RequestsOK
    BY DEF Init, RequestsOK
  <1> QED
    BY <1>1, <1>2, <1>3, <1>4 DEF TypeOK

LEMMA NextType == TypeOK /\ [Next]_vars => TypeOK'
  <1> SUFFICES ASSUME TypeOK, [Next]_vars PROVE TypeOK'
    OBVIOUS
  <1>1. CASE Worker
    BY <1>1, WorkerAddType, WorkerRemoveType, WorkerRequestType, WorkerDeliverType DEF Worker
  <1>2. CASE \E b \in Binders :
                \/ BindSpawn(b) \/ BindSend(b) \/ BindUnsent(b)
                \/ BindCheck(b) \/ BindReturn(b)
                \/ UnbindStart(b) \/ UnbindSend(b) \/ UnbindReturn(b)
                \/ Task(b)
    BY <1>2, BindSpawnType, BindSendType, BindUnsentType, BindCheckType, BindReturnType,
       UnbindStartType, UnbindSendType, UnbindReturnType, TaskType
  <1>3. CASE \E r \in Requests : RequestSend(r) \/ BodyEnds(r) \/ ConnectionGone(r)
    BY <1>3, RequestSendType, BodyEndsType, ConnectionGoneType
  <1>4. CASE UNCHANGED vars
    BY <1>4, WorkerKept, BindersKept, TasksKept, RequestsKept DEF TypeOK, vars
  <1> QED
    BY <1>1, <1>2, <1>3, <1>4 DEF Next

\* Every variable keeps its type: the channels stay within their capacity and
\* carry only what their senders put in, and a task that collects a body or runs
\* a handler has a request in its hands (server.rs:330-566).
THEOREM RouteTypes == Spec => []TypeOK
  BY InitType, NextType, PTL DEF Spec

-----------------------------------------------------------------------------
(***************************************************************************)
(* That the tables of a server agree: a binding that succeeded is in force *)
(* until it is undone, and only a path bound twice or a handler that       *)
(* panicked ends the worker.                                               *)
(*                                                                         *)
(* The inductive invariant says what a command on its way implies of its   *)
(* binder, what an entry of a table implies of its task, and which binders *)
(* the entry of their path belongs to.                                     *)
(***************************************************************************)

\* A command of a binder is in the channel once, while the binder waits for it.
Once(q) == \A i, j \in 1 .. Len(q) : q[i] = q[j] /\ q[i].op # "request" => i = j

Awaited ==
    \A q \in Elems(command) :
        /\ q.op = "add" =>
               phase[q.of] \in {"checking", "waiting", "refused"} /\ ret[q.of] = "none"
        /\ q.op = "remove" => phase[q.of] = "leaving" /\ ret[q.of] = "none"

\* Oneshots are used up, and a binder that has not started has left no trace.
Fresh ==
    \A b \in Binders :
        /\ phase[b] \in {"idle", "spawned", "bound", "unbinding"} => ret[b] = "none"
        /\ phase[b] = "idle" => task[b] = "none"
        /\ phase[b] \in {"idle", "spawned"} => b \notin aborted /\ task[b] # "ended"

Serving(b) == phase[b] \notin {"idle", "spawned"} /\ b \notin aborted /\ task[b] # "ended"

\* What is in a table, or will be, has a task that was not told to end.
ServingQueued == \A q \in Elems(command) : q.op = "add" => Serving(q.of)
ServingEntries ==
    \A k \in Keys : handlers[k] # None =>
        /\ Key[handlers[k]] = k
        /\ Serving(handlers[k])
        /\ [op |-> "add", of |-> handlers[k]] \notin Elems(command)
ServingBusy == busy # None => handlers[Key[busy[2]]] = busy[2]

\* The binders an entry belongs to: at most one of each key.
Claims(b) ==
    \/ phase[b] \in {"bound", "unbinding"}
    \/ phase[b] \in {"checking", "waiting"} /\ ret[b] = "ok"
    \/ phase[b] = "leaving" /\ ret[b] = "none"

Claimed == alive => \A b \in Binders : Claims(b) => handlers[Key[b]] = b
Sender == \A b \in Binders : Ws(b) /\ phase[b] \in {"waiting", "bound"} => BIND_SENDERS = b

Gone(b) == phase[b] = "unbound" \/ (phase[b] = "leaving" /\ ret[b] = "ok")
Removed == \A b \in Binders : Gone(b) => handlers[Key[b]] # b

Dead == ~alive => command = <<>> /\ busy = None

Tables ==
    /\ Once(command) /\ Awaited /\ Fresh
    /\ ServingQueued /\ ServingEntries /\ ServingBusy
    /\ Claimed /\ Sender /\ Removed
    /\ Dead /\ EndsOnlyByFaults

-----------------------------------------------------------------------------
(* Commands that are in the channel once *)

LEMMA OnceAppend ==
  ASSUME NEW S, NEW q \in Seq(S), NEW e \in S, Once(q), e \notin Elems(q) \/ e.op = "request"
  PROVE  Once(Append(q, e))
  <1>1. Len(q) \in Nat /\ Len(Append(q, e)) = Len(q) + 1 /\ Append(q, e)[Len(q) + 1] = e
    BY AppendProperties, LenProperties
  <1>2. \A i \in 1 .. Len(q) : Append(q, e)[i] = q[i]
    BY AppendProperties
  <1>3. \A i \in 1 .. Len(q) : q[i] \in Elems(q)
    BY DEF Elems
  <1>4. 1 .. Len(q) + 1 = 1 .. Len(q) \cup {Len(q) + 1}
    BY <1>1, SMT
  <1> QED
    BY <1>1, <1>2, <1>3, <1>4 DEF Once

LEMMA OnceTail ==
  ASSUME NEW S, NEW q \in Seq(S), q # <<>>, Once(q)
  PROVE  /\ Once(Tail(q))
         /\ Head(q).op # "request" => Head(q) \notin Elems(Tail(q))
  <1>1. Len(q) \in Nat /\ Len(q) > 0 /\ Len(Tail(q)) = Len(q) - 1
    BY HeadTailProperties, EmptySeq, SMT
  <1>2. \A i \in 1 .. Len(Tail(q)) : Tail(q)[i] = q[i + 1] /\ i + 1 \in 1 .. Len(q) /\ i \in Nat
    BY <1>1, HeadTailProperties, SMT
  <1>3. Head(q) = q[1] /\ 1 \in 1 .. Len(q)
    BY <1>1, SMT
  <1>4. Once(Tail(q))
    <2> SUFFICES ASSUME NEW i \in 1 .. Len(Tail(q)), NEW j \in 1 .. Len(Tail(q)),
                        Tail(q)[i] = Tail(q)[j], Tail(q)[i].op # "request"
                 PROVE  i = j
      BY DEF Once
    <2>1. i + 1 = j + 1
      BY <1>2 DEF Once
    <2> QED
      BY <1>2, <2>1, SMT
  <1>5. ASSUME Head(q).op # "request", NEW i \in 1 .. Len(Tail(q)), Head(q) = Tail(q)[i]
        PROVE  FALSE
    <2>1. i + 1 = 1
      BY <1>2, <1>3, <1>5 DEF Once
    <2>2. i \in Nat /\ i > 0
      BY <1>1, SMT
    <2> QED
      BY <2>1, <2>2, SMT
  <1> QED
    BY <1>4, <1>5 DEF Elems

\* What the tables keep when a command is sent, and when one is taken.
LEMMA QueueSend ==
  ASSUME TypeOK, Tables, NEW op, NEW x, [op |-> op, of |-> x] \in Command,
         op = "request" \/ [op |-> op, of |-> x] \notin Elems(command), Enqueue(op, x)
  PROVE  Once(command')
  BY OnceAppend DEF TypeOK, WorkerOK, Tables, Enqueue

LEMMA QueueTake ==
  ASSUME TypeOK, Tables, NEW op, NEW x, Taking(op, x)
  PROVE  /\ Once(Tail(command))
         /\ op # "request" => [op |-> op, of |-> x] \notin Elems(Tail(command))
  BY TakeFact, OnceTail DEF TypeOK, Tables, Taking

LEMMA CommandOf ==
  ASSUME TypeOK, NEW q \in Elems(command)
  PROVE  /\ q \in Command
         /\ q.op # "request" => q.of \in Binders
         /\ q = [op |-> q.op, of |-> q.of]
  BY ElemsType, CommandFact DEF TypeOK, WorkerOK

LEMMA KeyFact == \A b \in Binders : Key[b] \in Keys
  BY RouteAssumption

LEMMA EntryFact ==
  ASSUME TypeOK, NEW k \in Keys
  PROVE  handlers[k] = None \/ handlers[k] \in Binders
  BY DEF TypeOK, WorkerOK

-----------------------------------------------------------------------------
(* The steps of binders *)

LEMMA BindSpawnTables ==
  ASSUME TypeOK, Tables, NEW b \in Binders, BindSpawn(b)
  PROVE  Tables'
  <1>1. /\ phase' = [phase EXCEPT ![b] = "spawned"] /\ phase[b] = "idle"
        /\ task' = [task EXCEPT ![b] = "idle"]
        /\ UNCHANGED <<alive, command, handlers, busy, ret, BIND_SENDERS, aborted>>
        /\ phase \in [Binders -> Phases]
        /\ task \in [Binders -> {"none", "idle", "body", "handler", "ended", "panicked"}]
    BY DEF BindSpawn, workerVars, TypeOK, BindersOK, TasksOK
  <1>2. \A q \in Elems(command) : q.of \in Binders \/ q.op = "request"
    BY CommandOf
  <1>3. Awaited'
    BY <1>1, <1>2 DEF Tables, Awaited
  <1>4. ServingQueued'
    BY <1>1, <1>2 DEF Tables, ServingQueued, Serving
  <1>5. ServingEntries'
    BY <1>1, EntryFact DEF Tables, ServingEntries, Serving
  <1>6. Fresh' /\ Claimed' /\ Sender' /\ Removed'
    BY <1>1 DEF Tables, Fresh, Claimed, Claims, Sender, Removed, Gone
  <1>7. Once(command') /\ ServingBusy' /\ Dead'
    BY <1>1 DEF Tables, ServingBusy, Dead
  <1>8. EndsOnlyByFaults'
    BY <1>1 DEF Tables, Fresh, EndsOnlyByFaults
  <1> QED
    BY <1>3, <1>4, <1>5, <1>6, <1>7, <1>8 DEF Tables

LEMMA BindSendTables ==
  ASSUME TypeOK, Tables, NEW b \in Binders, BindSend(b)
  PROVE  Tables'
  <1> DEFINE e == [op |-> "add", of |-> b]
  <1>1. e \notin Elems(command) /\ \A k \in Keys : handlers[k] # b
    BY RouteNoneAssumption DEF Tables, Awaited, ServingEntries, Serving, BindSend, AtSend
  <1>2. Elems(command') = Elems(command) \cup {e} /\ Once(command')
    BY <1>1, EnqueueFact, CommandFact, QueueSend DEF TypeOK, BindSend
  <1>3. ret[b] = "none" /\ b \notin aborted /\ task[b] # "ended"
    BY DEF Tables, Fresh, BindSend, AtSend
  <1>4. /\ phase' = [phase EXCEPT ![b] = IF Ws(b) THEN "checking" ELSE "waiting"]
        /\ UNCHANGED <<alive, handlers, busy, ret, BIND_SENDERS, task, aborted>>
        /\ alive /\ phase[b] \in {"idle", "spawned"}
        /\ phase \in [Binders -> Phases]
    BY DEF BindSend, AtSend, taskVars, TypeOK, BindersOK
  <1>5. \A q \in Elems(command) : q.of \in Binders \/ q.op = "request"
    BY CommandOf
  <1>6. Awaited'
    BY <1>2, <1>3, <1>4, <1>5 DEF Tables, Awaited
  <1>7. Fresh'
    BY <1>3, <1>4 DEF Tables, Fresh
  <1>8. ServingQueued'
    BY <1>2, <1>3, <1>4, <1>5 DEF Tables, ServingQueued, Serving
  <1>9. ServingEntries'
    BY <1>1, <1>2, <1>4, EntryFact DEF Tables, ServingEntries, Serving
  <1>10. Claimed'
    BY <1>3, <1>4 DEF Tables, Claimed, Claims
  <1>11. Sender'
    BY <1>4 DEF Tables, Sender, Ws
  <1>12. Removed'
    BY <1>4 DEF Tables, Removed, Gone
  <1>13. ServingBusy' /\ Dead' /\ EndsOnlyByFaults'
    BY <1>4 DEF Tables, ServingBusy, Dead, EndsOnlyByFaults
  <1> QED
    BY <1>2, <1>6, <1>7, <1>8, <1>9, <1>10, <1>11, <1>12, <1>13 DEF Tables

LEMMA BindUnsentTables ==
  ASSUME TypeOK, Tables, NEW b \in Binders, BindUnsent(b)
  PROVE  Tables'
  <1>1. /\ phase' = [phase EXCEPT ![b] = "failed"] /\ phase[b] \in {"idle", "spawned"} /\ ~alive
        /\ UNCHANGED <<alive, command, handlers, busy, ret, BIND_SENDERS, task, aborted>>
        /\ phase \in [Binders -> Phases]
    BY DEF BindUnsent, AtSend, workerVars, taskVars, TypeOK, BindersOK
  <1>2. command = <<>> /\ Elems(command) = {}
    BY <1>1, ElemsEmpty DEF Tables, Dead
  <1>3. Awaited' /\ ServingQueued' /\ Once(command')
    BY <1>1, <1>2 DEF Tables, Awaited, ServingQueued
  <1>4. Fresh' /\ Removed' /\ Sender' /\ Claimed'
    BY <1>1 DEF Tables, Fresh, Removed, Gone, Sender, Claimed
  <1>5. ServingEntries'
    BY <1>1, EntryFact DEF Tables, ServingEntries, Serving
  <1>6. ServingBusy' /\ Dead' /\ EndsOnlyByFaults'
    BY <1>1 DEF Tables, ServingBusy, Dead, EndsOnlyByFaults
  <1> QED
    BY <1>3, <1>4, <1>5, <1>6 DEF Tables

\* What a step of a binder that sends nothing keeps, when it only moves on from
\* where it is and its oneshot is used up or untouched.
LEMMA BinderMoves ==
  ASSUME TypeOK, Tables, NEW b \in Binders, NEW p \in Phases,
         phase' = [phase EXCEPT ![b] = p],
         phase[b] \notin {"idle", "spawned"}, p \notin {"idle", "spawned"},
         phase[b] \in {"checking", "waiting"} /\ ret[b] = "none" => p \in {"waiting", "refused"},
         phase[b] = "leaving" /\ ret[b] = "none" => p = "leaving",
         phase[b] # "refused",
         \/ ret' = ret /\ (p \in {"bound", "unbinding"} => ret[b] = "none")
         \/ ret' = [ret EXCEPT ![b] = "none"] /\ ret[b] # "none",
         UNCHANGED <<alive, command, handlers, busy, task, aborted>>
  PROVE  /\ Once(command') /\ Awaited' /\ Fresh'
         /\ ServingQueued' /\ ServingEntries' /\ ServingBusy'
         /\ Dead' /\ EndsOnlyByFaults'
  <1>1. /\ phase \in [Binders -> Phases]
        /\ ret \in [Binders -> {"none", "ok", "err", "dropped"}]
    BY DEF TypeOK, BindersOK
  <1>2. \A q \in Elems(command) : q.of \in Binders \/ q.op = "request"
    BY CommandOf
  <1>3. Awaited'
    BY <1>1, <1>2 DEF Tables, Awaited
  <1>4. Fresh'
    BY <1>1 DEF Tables, Fresh
  <1>5. ServingQueued'
    BY <1>1, <1>2 DEF Tables, ServingQueued, Serving
  <1>6. ServingEntries'
    BY <1>1, EntryFact DEF Tables, ServingEntries, Serving
  <1>7. EndsOnlyByFaults'
    BY <1>1 DEF Tables, EndsOnlyByFaults
  <1> QED
    BY <1>3, <1>4, <1>5, <1>6, <1>7 DEF Tables, ServingBusy, Dead

LEMMA BindCheckTables ==
  ASSUME TypeOK, Tables, NEW b \in Binders, BindCheck(b)
  PROVE  Tables'
  <1> DEFINE p == IF BIND_SENDERS = None THEN "waiting" ELSE "refused"
  <1>1. /\ phase' = [phase EXCEPT ![b] = p] /\ phase[b] = "checking"
        /\ BIND_SENDERS' = IF BIND_SENDERS = None THEN b ELSE BIND_SENDERS
        /\ UNCHANGED <<alive, command, handlers, busy, ret, task, aborted>>
        /\ phase \in [Binders -> Phases]
    BY DEF BindCheck, workerVars, taskVars, TypeOK, BindersOK
  <1>2. /\ Once(command') /\ Awaited' /\ Fresh'
        /\ ServingQueued' /\ ServingEntries' /\ ServingBusy'
        /\ Dead' /\ EndsOnlyByFaults'
    BY <1>1, BinderMoves DEF Phases
  <1>3. Claimed'
    BY <1>1 DEF Tables, Claimed, Claims
  <1>4. Sender'
    BY <1>1, RouteNoneAssumption DEF Tables, Sender, Ws
  <1>5. Removed'
    BY <1>1 DEF Tables, Removed, Gone
  <1> QED
    BY <1>2, <1>3, <1>4, <1>5 DEF Tables

LEMMA BindReturnTables ==
  ASSUME TypeOK, Tables, NEW b \in Binders, BindReturn(b)
  PROVE  Tables'
  <1> DEFINE p == IF ret[b] = "ok" THEN "bound" ELSE "failed"
  <1>1. /\ phase' = [phase EXCEPT ![b] = p] /\ phase[b] = "waiting"
        /\ ret[b] # "none" /\ ret' = [ret EXCEPT ![b] = "none"]
        /\ UNCHANGED <<alive, command, handlers, busy, BIND_SENDERS, task, aborted>>
        /\ phase \in [Binders -> Phases]
        /\ ret \in [Binders -> {"none", "ok", "err", "dropped"}]
    BY DEF BindReturn, workerVars, taskVars, TypeOK, BindersOK
  <1>2. /\ Once(command') /\ Awaited' /\ Fresh'
        /\ ServingQueued' /\ ServingEntries' /\ ServingBusy'
        /\ Dead' /\ EndsOnlyByFaults'
    BY <1>1, BinderMoves DEF Phases
  <1>3. Claimed'
    BY <1>1 DEF Tables, Claimed, Claims
  <1>4. Sender'
    BY <1>1 DEF Tables, Sender, Ws
  <1>5. Removed'
    BY <1>1 DEF Tables, Removed, Gone
  <1> QED
    BY <1>2, <1>3, <1>4, <1>5 DEF Tables

LEMMA UnbindStartTables ==
  ASSUME TypeOK, Tables, NEW b \in Binders, UnbindStart(b)
  PROVE  Tables'
  <1>1. /\ phase' = [phase EXCEPT ![b] = "unbinding"] /\ phase[b] = "bound" /\ Ws(b)
        /\ BIND_SENDERS' = None
        /\ UNCHANGED <<alive, command, handlers, busy, ret, task, aborted>>
        /\ phase \in [Binders -> Phases]
    BY DEF UnbindStart, workerVars, taskVars, TypeOK, BindersOK
  <1>2. ret[b] = "none"
    BY <1>1 DEF Tables, Fresh
  <1>3. /\ Once(command') /\ Awaited' /\ Fresh'
        /\ ServingQueued' /\ ServingEntries' /\ ServingBusy'
        /\ Dead' /\ EndsOnlyByFaults'
    BY <1>1, <1>2, BinderMoves DEF Phases
  <1>4. Claimed'
    BY <1>1 DEF Tables, Claimed, Claims
  <1>5. Sender'
    <2>1. \A c \in Binders : Ws(c) /\ phase[c] \in {"waiting", "bound"} => c = b
      BY <1>1 DEF Tables, Sender
    <2> QED
      BY <1>1, <2>1 DEF Sender, Ws
  <1>6. Removed'
    BY <1>1 DEF Tables, Removed, Gone
  <1> QED
    BY <1>3, <1>4, <1>5, <1>6 DEF Tables

LEMMA UnbindReturnTables ==
  ASSUME TypeOK, Tables, NEW b \in Binders, UnbindReturn(b)
  PROVE  Tables'
  <1> DEFINE p == IF ret[b] = "ok" THEN "unbound" ELSE "lost"
  <1>1. /\ phase' = [phase EXCEPT ![b] = p] /\ phase[b] = "leaving"
        /\ ret[b] # "none" /\ ret' = [ret EXCEPT ![b] = "none"]
        /\ UNCHANGED <<alive, command, handlers, busy, BIND_SENDERS, task, aborted>>
        /\ phase \in [Binders -> Phases]
        /\ ret \in [Binders -> {"none", "ok", "err", "dropped"}]
    BY DEF UnbindReturn, workerVars, taskVars, TypeOK, BindersOK
  <1>2. /\ Once(command') /\ Awaited' /\ Fresh'
        /\ ServingQueued' /\ ServingEntries' /\ ServingBusy'
        /\ Dead' /\ EndsOnlyByFaults'
    BY <1>1, BinderMoves DEF Phases
  <1>3. Claimed'
    BY <1>1 DEF Tables, Claimed, Claims
  <1>4. Sender'
    BY <1>1 DEF Tables, Sender, Ws
  <1>5. Removed'
    BY <1>1 DEF Tables, Removed, Gone
  <1> QED
    BY <1>2, <1>3, <1>4, <1>5 DEF Tables

LEMMA UnbindSendTables ==
  ASSUME TypeOK, Tables, NEW b \in Binders, UnbindSend(b)
  PROVE  Tables'
  <1> DEFINE e == [op |-> "remove", of |-> b]
             p == IF alive THEN "leaving" ELSE "lost"
  <1>1. /\ phase' = [phase EXCEPT ![b] = p] /\ phase[b] \in {"bound", "unbinding"}
        /\ UNCHANGED <<alive, handlers, busy, ret, BIND_SENDERS, task, aborted>>
        /\ phase \in [Binders -> Phases]
        /\ \/ alive /\ Enqueue("remove", b)
           \/ ~alive /\ UNCHANGED command
    BY DEF UnbindSend, Leaving, taskVars, TypeOK, BindersOK
  <1>2. ret[b] = "none"
    BY <1>1 DEF Tables, Fresh
  <1>3. /\ e \notin Elems(command)
        /\ [op |-> "add", of |-> b] \notin Elems(command)
    BY <1>1 DEF Tables, Awaited
  <1>4. Once(command') /\ Elems(command') \subseteq Elems(command) \cup {e}
    BY <1>1, <1>3, EnqueueFact, CommandFact, QueueSend DEF TypeOK, Tables
  <1>5. \A q \in Elems(command) : /\ q.of \in Binders \/ q.op = "request"
                                  /\ q = [op |-> q.op, of |-> q.of]
    BY CommandOf
  <1>6. Awaited'
    <2>1. CASE alive
      BY <1>1, <1>2, <1>3, <1>4, <1>5, <2>1 DEF Tables, Awaited
    <2>2. CASE ~alive
      BY <1>1, <2>2, ElemsEmpty DEF Tables, Awaited, Dead
    <2> QED
      BY <2>1, <2>2
  <1>7. Fresh'
    BY <1>1, <1>2 DEF Tables, Fresh
  <1>8. ServingQueued'
    BY <1>1, <1>4, <1>5 DEF Tables, ServingQueued, Serving
  <1>9. ServingEntries'
    BY <1>1, <1>4, EntryFact DEF Tables, ServingEntries, Serving
  <1>10. Claimed'
    BY <1>1, <1>2 DEF Tables, Claimed, Claims
  <1>11. Sender'
    BY <1>1 DEF Tables, Sender, Ws
  <1>12. Removed'
    BY <1>1, <1>2 DEF Tables, Removed, Gone
  <1>13. ServingBusy' /\ Dead'
    BY <1>1 DEF Tables, ServingBusy, Dead
  <1>14. EndsOnlyByFaults'
    BY <1>1 DEF Tables, EndsOnlyByFaults
  <1> QED
    BY <1>4, <1>6, <1>7, <1>8, <1>9, <1>10, <1>11, <1>12, <1>13, <1>14 DEF Tables

-----------------------------------------------------------------------------
(* The steps of the worker *)

LEMMA DieTables ==
  ASSUME TypeOK, Tables, NEW rs, Die(rs), UNCHANGED <<phase, BIND_SENDERS, task, aborted>>,
         \E b \in Binders : phase[b] = "refused" \/ task[b] = "panicked"
  PROVE  Tables'
  <1>1. /\ alive' = FALSE /\ command' = <<>> /\ busy' = None
        /\ handlers' = [k \in Keys |-> None]
        /\ Elems(command') = {}
    BY ElemsEmpty DEF Die
  <1>2. \A b \in Binders :
            \/ ret'[b] = ret[b]
            \/ phase[b] \in {"checking", "waiting", "leaving"} /\ ret'[b] = "dropped"
    BY DEF Die
  <1>3. Once(command')
    <2>1. \A i \in 1 .. Len(<<>>) : FALSE
      BY EmptySeq, SMT
    <2> QED
      BY <1>1, <2>1 DEF Once
  <1>4. Awaited' /\ ServingQueued' /\ ServingBusy' /\ Dead'
    BY <1>1 DEF Awaited, ServingQueued, ServingBusy, Dead
  <1>5. Fresh'
    BY <1>2 DEF Tables, Fresh
  <1>6. ServingEntries' /\ Claimed'
    BY <1>1 DEF ServingEntries, Claimed
  <1>7. Sender'
    BY DEF Tables, Sender
  <1>8. Removed'
    BY <1>1, KeyFact, RouteNoneAssumption DEF Removed
  <1>9. EndsOnlyByFaults'
    BY DEF EndsOnlyByFaults
  <1> QED
    BY <1>3, <1>4, <1>5, <1>6, <1>7, <1>8, <1>9 DEF Tables

LEMMA WorkerAddTables ==
  ASSUME TypeOK, Tables, NEW b \in Binders, WorkerAdd(b)
  PROVE  Tables'
  <1> DEFINE e == [op |-> "add", of |-> b]
             k == Key[b]
             vacant == handlers[k] = None
  <1>1. /\ Taking("add", b)
        /\ UNCHANGED <<phase, BIND_SENDERS, task, aborted>>
        /\ phase \in [Binders -> Phases]
        /\ ret \in [Binders -> {"none", "ok", "err", "dropped"}]
        /\ handlers \in [Keys -> Binders \cup {None}]
    BY DEF WorkerAdd, taskVars, TypeOK, WorkerOK, BindersOK
  <1>2. /\ e \in Elems(command) /\ e \notin Elems(Tail(command))
        /\ Elems(Tail(command)) \subseteq Elems(command) /\ Once(Tail(command))
        /\ alive /\ busy = None
    BY <1>1, TakeFact, QueueTake DEF TypeOK
  <1>3. /\ phase[b] \in {"checking", "waiting", "refused"} /\ ret[b] = "none"
        /\ Serving(b) /\ k \in Keys
    BY <1>2, KeyFact DEF Tables, Awaited, ServingQueued
  <1>4. \A q \in Elems(command) : /\ q.of \in Binders \/ q.op = "request"
                                  /\ q = [op |-> q.op, of |-> q.of]
    BY CommandOf
  <1>5. CASE ~vacant /\ phase[b] = "refused" /\ Die({})
    BY <1>1, <1>5, DieTables
  <1>6. CASE /\ command' = Tail(command)
             /\ handlers' = [handlers EXCEPT ![k] = IF vacant THEN b ELSE @]
             /\ ret' = [ret EXCEPT ![b] = IF vacant THEN "ok" ELSE "err"]
             /\ UNCHANGED <<alive, busy, outcome>>
    <2>1. Awaited'
      BY <1>1, <1>2, <1>3, <1>4, <1>6 DEF Tables, Awaited
    <2>2. Fresh'
      BY <1>1, <1>3, <1>6 DEF Tables, Fresh
    <2>3. ServingQueued'
      BY <1>1, <1>2, <1>6 DEF Tables, ServingQueued, Serving
    <2>4. ServingEntries'
      BY <1>1, <1>2, <1>3, <1>6 DEF Tables, ServingEntries, Serving
    <2>5. Claimed'
      <3> SUFFICES ASSUME NEW c \in Binders, Claims(c)'
                   PROVE  handlers'[Key[c]] = c
        BY DEF Claimed
      <3>1. CASE c = b
        BY <1>1, <1>3, <1>6, <3>1 DEF Claims, Tables, Claimed
      <3>2. CASE c # b
        <4>1. handlers[Key[c]] = c /\ c # None
          BY <1>1, <1>2, <1>6, <3>2, RouteNoneAssumption DEF Claims, Tables, Claimed
        <4> QED
          BY <1>1, <1>3, <1>6, <4>1, KeyFact
      <3> QED
        BY <3>1, <3>2
    <2>6. Removed'
      BY <1>1, <1>3, <1>6, KeyFact, RouteNoneAssumption DEF Tables, Removed, Gone
    <2>7. Sender' /\ ServingBusy' /\ Dead' /\ EndsOnlyByFaults'
      BY <1>1, <1>2, <1>6 DEF Tables, Sender, ServingBusy, Dead, EndsOnlyByFaults
    <2> QED
      BY <1>2, <1>6, <2>1, <2>2, <2>3, <2>4, <2>5, <2>6, <2>7 DEF Tables
  <1> QED
    BY <1>5, <1>6 DEF WorkerAdd

LEMMA WorkerRemoveTables ==
  ASSUME TypeOK, Tables, NEW b \in Binders, WorkerRemove(b)
  PROVE  Tables'
  <1> DEFINE e == [op |-> "remove", of |-> b]
             k == Key[b]
  <1>1. /\ Taking("remove", b)
        /\ UNCHANGED <<alive, busy, phase, BIND_SENDERS, task>>
        /\ phase \in [Binders -> Phases]
        /\ ret \in [Binders -> {"none", "ok", "err", "dropped"}]
        /\ handlers \in [Keys -> Binders \cup {None}]
    BY DEF WorkerRemove, TypeOK, WorkerOK, BindersOK
  <1>2. /\ e \in Elems(command) /\ e \notin Elems(Tail(command))
        /\ Elems(Tail(command)) \subseteq Elems(command) /\ Once(Tail(command))
        /\ alive /\ busy = None
    BY <1>1, TakeFact, QueueTake DEF TypeOK
  <1>3. phase[b] = "leaving" /\ ret[b] = "none" /\ k \in Keys
    BY <1>2, KeyFact DEF Tables, Awaited
  <1>4. handlers[k] = b /\ b # None
    BY <1>2, <1>3, RouteNoneAssumption DEF Tables, Claimed, Claims
  <1>5. /\ command' = Tail(command)
        /\ handlers' = [handlers EXCEPT ![k] = None]
        /\ ret' = [ret EXCEPT ![b] = "ok"]
        /\ aborted' \subseteq aborted \cup {b}
    BY <1>4 DEF WorkerRemove
  <1>6. \A q \in Elems(command) : /\ q.of \in Binders \/ q.op = "request"
                                  /\ q = [op |-> q.op, of |-> q.of]
    BY CommandOf
  <1>7. Awaited'
    BY <1>1, <1>2, <1>3, <1>5, <1>6 DEF Tables, Awaited
  <1>8. Fresh'
    BY <1>1, <1>3, <1>5 DEF Tables, Fresh
  <1>9. ServingQueued'
    BY <1>1, <1>2, <1>3, <1>5, <1>6 DEF Tables, ServingQueued, Serving, Awaited
  <1>10. ServingEntries'
    BY <1>1, <1>2, <1>3, <1>5 DEF Tables, ServingEntries, Serving
  <1>11. Claimed'
    <2> SUFFICES ASSUME NEW c \in Binders, Claims(c)'
                 PROVE  handlers'[Key[c]] = c
      BY DEF Claimed
    <2>1. c # b
      BY <1>1, <1>3, <1>5 DEF Claims
    <2>2. handlers[Key[c]] = c
      BY <1>1, <1>2, <1>5, <2>1 DEF Claims, Tables, Claimed
    <2> QED
      BY <1>1, <1>4, <1>5, <2>1, <2>2, KeyFact
  <1>12. Removed'
    BY <1>1, <1>3, <1>5, KeyFact, RouteNoneAssumption DEF Tables, Removed, Gone
  <1>13. Sender' /\ ServingBusy' /\ Dead' /\ EndsOnlyByFaults'
    BY <1>1, <1>2, <1>5 DEF Tables, Sender, ServingBusy, Dead, EndsOnlyByFaults
  <1> QED
    BY <1>2, <1>5, <1>7, <1>8, <1>9, <1>10, <1>11, <1>12, <1>13 DEF Tables

LEMMA WorkerRequestTables ==
  ASSUME TypeOK, Tables, NEW r \in Requests, WorkerRequest(r)
  PROVE  Tables'
  <1>1. /\ Taking("request", r) /\ command' = Tail(command)
        /\ UNCHANGED <<alive, handlers, phase, ret, BIND_SENDERS, task, aborted>>
        /\ busy' = busy \/ (Route # None /\ busy' = <<r, Route>>)
    BY DEF WorkerRequest, binderVars, taskVars
  <1>2. /\ Elems(Tail(command)) \subseteq Elems(command) /\ Once(Tail(command))
        /\ alive /\ busy = None
    BY <1>1, TakeFact, QueueTake DEF TypeOK
  <1>3. ServingBusy'
    <2>1. CASE busy' = busy
      BY <1>1, <1>2, <2>1 DEF ServingBusy
    <2>2. CASE Route # None /\ busy' = <<r, Route>>
      <3>1. PICK k \in {"http", "default"} : Route = handlers[k]
        BY <2>2, RouteFact DEF TypeOK
      <3>2. Key[Route] = k
        BY <2>2, <3>1 DEF Tables, ServingEntries, Keys
      <3>3. busy'[2] = Route
        BY <2>2
      <3> QED
        BY <1>1, <3>1, <3>2, <3>3 DEF ServingBusy
    <2> QED
      BY <1>1, <2>1, <2>2
  <1>4. Awaited' /\ ServingQueued' /\ ServingEntries'
    BY <1>1, <1>2 DEF Tables, Awaited, ServingQueued, ServingEntries, Serving
  <1>5. Fresh' /\ Claimed' /\ Sender' /\ Removed'
    BY <1>1 DEF Tables, Fresh, Claimed, Claims, Sender, Removed, Gone
  <1>6. Dead' /\ EndsOnlyByFaults'
    BY <1>1, <1>2 DEF Dead, EndsOnlyByFaults
  <1> QED
    BY <1>1, <1>2, <1>3, <1>4, <1>5, <1>6 DEF Tables

\* The worker meets no task that has ended, but for one whose handler panicked.
LEMMA WorkerDeliverTables ==
  ASSUME TypeOK, Tables, WorkerDeliver
  PROVE  Tables'
  <1> DEFINE r == busy[1]
             b == busy[2]
  <1>1. /\ r \in Requests /\ b \in Binders /\ busy # None /\ alive
        /\ UNCHANGED <<phase, BIND_SENDERS, task, aborted>>
    BY DEF TypeOK, WorkerOK, WorkerDeliver
  <1>2. CASE busy' = None /\ UNCHANGED <<alive, command, handlers, ret>>
    <2>1. Awaited' /\ ServingQueued' /\ ServingEntries' /\ Once(command')
      BY <1>1, <1>2 DEF Tables, Awaited, ServingQueued, ServingEntries, Serving
    <2>2. Fresh' /\ Claimed' /\ Sender' /\ Removed'
      BY <1>1, <1>2 DEF Tables, Fresh, Claimed, Claims, Sender, Removed, Gone
    <2>3. ServingBusy' /\ Dead' /\ EndsOnlyByFaults'
      BY <1>1, <1>2 DEF ServingBusy, Dead, EndsOnlyByFaults
    <2> QED
      BY <2>1, <2>2, <2>3 DEF Tables
  <1>3. CASE Ended(b) /\ Die({r})
    <2>1. handlers[Key[b]] = b /\ Key[b] \in Keys /\ b # None
      BY <1>1, KeyFact, RouteNoneAssumption DEF Tables, ServingBusy
    <2>2. Serving(b)
      BY <2>1 DEF Tables, ServingEntries
    <2>3. task[b] = "panicked"
      BY <1>3, <2>2 DEF Ended, Serving
    <2> QED
      BY <1>1, <1>3, <2>3, DieTables
  <1> QED
    BY <1>2, <1>3 DEF WorkerDeliver

-----------------------------------------------------------------------------
(* The steps of route tasks and requests *)

LEMMA TaskFact ==
  ASSUME TypeOK, NEW b \in Binders, Task(b)
  PROVE  /\ task[b] \in {"idle", "body", "handler"}
         /\ \E how \in {"idle", "body", "handler", "ended", "panicked"} :
                /\ task' = [task EXCEPT ![b] = how]
                /\ how = "ended" =>
                       \/ b \in aborted
                       \/ handlers[Key[b]] # b /\ ~Queued("add", b) /\ phase[b] # "spawned"
         /\ UNCHANGED <<alive, command, handlers, busy, phase, ret, BIND_SENDERS, aborted>>
  BY DEF Task, TaskRecv, TaskStart, TaskCancel, TaskRespond, TaskPanic, TaskAborted, TaskEnds,
         EndAs, Done, workerVars, binderVars

LEMMA TaskTables ==
  ASSUME TypeOK, Tables, NEW b \in Binders, Task(b)
  PROVE  Tables'
  <1>1. /\ task[b] \in {"idle", "body", "handler"}
        /\ UNCHANGED <<alive, command, handlers, busy, phase, ret, BIND_SENDERS, aborted>>
        /\ task \in [Binders -> {"none", "idle", "body", "handler", "ended", "panicked"}]
    BY TaskFact DEF TypeOK, TasksOK
  <1>2. PICK how \in {"idle", "body", "handler", "ended", "panicked"} :
            /\ task' = [task EXCEPT ![b] = how]
            /\ how = "ended" =>
                   \/ b \in aborted
                   \/ handlers[Key[b]] # b /\ ~Queued("add", b) /\ phase[b] # "spawned"
    BY TaskFact
  <1>3. Queued("add", b) <=> [op |-> "add", of |-> b] \in Elems(command)
    BY DEF Queued, Elems
  <1>4. \A q \in Elems(command) : q.op # "request" => q.of \in Binders
    BY CommandOf
  <1>5. Serving(b) /\ how = "ended" =>
            /\ \A q \in Elems(command) : ~(q.op = "add" /\ q.of = b)
            /\ \A k \in Keys : handlers[k] # b
    <2> SUFFICES ASSUME Serving(b), how = "ended"
                 PROVE  /\ \A q \in Elems(command) : ~(q.op = "add" /\ q.of = b)
                        /\ \A k \in Keys : handlers[k] # b
      OBVIOUS
    <2>1. handlers[Key[b]] # b /\ ~Queued("add", b)
      BY <1>2 DEF Serving
    <2>2. \A q \in Elems(command) : q = [op |-> q.op, of |-> q.of]
      BY CommandOf
    <2>3. \A k \in Keys : handlers[k] # b
      BY <2>1, RouteNoneAssumption DEF Tables, ServingEntries
    <2> QED
      BY <1>3, <2>1, <2>2, <2>3
  <1>6. ServingQueued'
    BY <1>1, <1>2, <1>4, <1>5 DEF Tables, ServingQueued, Serving
  <1>7. ServingEntries'
    BY <1>1, <1>2, <1>5, EntryFact DEF Tables, ServingEntries, Serving
  <1>8. Fresh'
    BY <1>1, <1>2 DEF Tables, Fresh
  <1>9. Awaited' /\ Once(command') /\ Claimed' /\ Sender' /\ Removed' /\ ServingBusy' /\ Dead'
    BY <1>1 DEF Tables, Awaited, Claimed, Claims, Sender, Removed, Gone, ServingBusy, Dead
  <1>10. EndsOnlyByFaults'
    BY <1>1, <1>2 DEF Tables, EndsOnlyByFaults
  <1> QED
    BY <1>6, <1>7, <1>8, <1>9, <1>10 DEF Tables

LEMMA RequestTables ==
  ASSUME TypeOK, Tables, NEW r \in Requests,
         RequestSend(r) \/ BodyEnds(r) \/ ConnectionGone(r)
  PROVE  Tables'
  <1> DEFINE e == [op |-> "request", of |-> r]
  <1>1. /\ UNCHANGED <<alive, handlers, busy, phase, ret, BIND_SENDERS, task, aborted>>
        /\ command' = command \/ (alive /\ Enqueue("request", r))
    BY DEF RequestSend, BodyEnds, ConnectionGone, workerVars, binderVars, taskVars
  <1>2. /\ Once(command') /\ Elems(command') \subseteq Elems(command) \cup {e}
        /\ ~alive => command' = command
    BY <1>1, EnqueueFact, CommandFact, QueueSend DEF TypeOK, Tables
  <1>3. Awaited' /\ ServingQueued' /\ ServingEntries'
    BY <1>1, <1>2 DEF Tables, Awaited, ServingQueued, ServingEntries, Serving
  <1>4. Fresh' /\ Claimed' /\ Sender' /\ Removed'
    BY <1>1 DEF Tables, Fresh, Claimed, Claims, Sender, Removed, Gone
  <1>5. ServingBusy' /\ Dead' /\ EndsOnlyByFaults'
    BY <1>1, <1>2 DEF Tables, ServingBusy, Dead, EndsOnlyByFaults
  <1> QED
    BY <1>2, <1>3, <1>4, <1>5 DEF Tables

-----------------------------------------------------------------------------

LEMMA InitTables == Init => Tables
  <1> SUFFICES ASSUME Init PROVE Tables
    OBVIOUS
  <1>1. /\ alive = TRUE /\ command = <<>> /\ busy = None /\ aborted = {}
        /\ Elems(command) = {}
        /\ handlers = [k \in Keys |-> Holder(k)]
        /\ phase = [b \in Binders |-> IF b \in Established THEN "bound" ELSE "idle"]
        /\ ret = [b \in Binders |-> "none"]
        /\ BIND_SENDERS = Holder("ws")
        /\ task = [b \in Binders |-> IF b \in Established /\ ~Ws(b) THEN "idle" ELSE "none"]
    BY ElemsEmpty DEF Init
  <1>2. Once(command)
    <2>1. \A i \in 1 .. Len(<<>>) : FALSE
      BY EmptySeq, SMT
    <2> QED
      BY <1>1, <2>1 DEF Once
  <1>3. \A b \in Established : Holder(Key[b]) = b
    <2> SUFFICES ASSUME NEW b \in Established PROVE Holder(Key[b]) = b
      OBVIOUS
    <2>1. Holder(Key[b]) \in Established /\ Key[Holder(Key[b])] = Key[b]
      BY DEF Holder
    <2> QED
      BY <2>1, RouteAssumption
  <1>4. ServingEntries
    BY <1>1, HolderFact, RouteAssumption DEF ServingEntries, Serving
  <1>5. Claimed /\ Sender
    BY <1>1, <1>3, KeyFact DEF Claimed, Claims, Sender, Ws
  <1>6. Awaited /\ Fresh /\ ServingQueued /\ ServingBusy /\ Removed /\ Dead /\ EndsOnlyByFaults
    BY <1>1 DEF Awaited, Fresh, ServingQueued, ServingBusy, Removed, Gone, Dead,
                EndsOnlyByFaults
  <1> QED
    BY <1>2, <1>4, <1>5, <1>6 DEF Tables

LEMMA NextTables == TypeOK /\ Tables /\ [Next]_vars => Tables'
  <1> SUFFICES ASSUME TypeOK, Tables, [Next]_vars PROVE Tables'
    OBVIOUS
  <1>1. CASE Worker
    BY <1>1, WorkerAddTables, WorkerRemoveTables, WorkerRequestTables, WorkerDeliverTables
       DEF Worker
  <1>2. CASE \E b \in Binders :
                \/ BindSpawn(b) \/ BindSend(b) \/ BindUnsent(b)
                \/ BindCheck(b) \/ BindReturn(b)
                \/ UnbindStart(b) \/ UnbindSend(b) \/ UnbindReturn(b)
                \/ Task(b)
    BY <1>2, BindSpawnTables, BindSendTables, BindUnsentTables, BindCheckTables, BindReturnTables,
       UnbindStartTables, UnbindSendTables, UnbindReturnTables, TaskTables
  <1>3. CASE \E r \in Requests : RequestSend(r) \/ BodyEnds(r) \/ ConnectionGone(r)
    BY <1>3, RequestTables
  <1>4. CASE UNCHANGED vars
    BY <1>4 DEF vars, workerVars, binderVars, taskVars, Tables, Once, Awaited, Fresh,
                ServingQueued, ServingEntries, ServingBusy, Serving, Claimed, Claims,
                Sender, Removed, Gone, Dead, EndsOnlyByFaults
  <1> QED
    BY <1>1, <1>2, <1>3, <1>4 DEF Next

\* The tables agree in every state of every server.
THEOREM TablesAgree == Spec => [](TypeOK /\ Tables)
  BY InitType, NextType, InitTables, NextTables, PTL DEF Spec

\* A binding that has succeeded is in force until it is undone, for any number
\* of bindings of a path, tried, refused and undone in any order
\* (server.rs:99-120, 174, 186-196, 405-424).
THEOREM BindingsServe == Spec => []BoundServes
  <1>1. Tables => BoundServes
    BY DEF Tables, Claimed, Claims, Sender, BoundServes
  <1> QED
    BY <1>1, TablesAgree, PTL

\* The worker ends only of a path that was bound twice or of a handler that
\* panicked (server.rs:405-415, 538-542).
THEOREM WorkerEndsOnlyByFaults == Spec => []EndsOnlyByFaults
  <1>1. Tables => EndsOnlyByFaults
    BY DEF Tables
  <1> QED
    BY <1>1, TablesAgree, PTL

-----------------------------------------------------------------------------
(***************************************************************************)
(* Where the requests of a server go: to the handlers that should get them *)
(* and nowhere once their client has gone.                                 *)
(*                                                                         *)
(* The inductive invariant follows a request through every place from      *)
(* which it can reach a handler, and relates each place to the routes that *)
(* were bound and unbound when the request was sent.                       *)
(***************************************************************************)

\* The handler of b has the request, had it, or is about to get it.
Reaches(b, r) ==
    \/ busy # None /\ busy[1] = r /\ busy[2] = b
    \/ r \in Elems(chan[b])
    \/ current[b] = r
    \/ started[r] = b

Since == {"bound", "unbinding", "leaving", "unbound", "lost"}

Sent == \A q \in Elems(command) : q.op = "request" => outcome[q.of] # "idle"

Unsent ==
    \A r \in Requests : outcome[r] = "idle" =>
        /\ \A b \in Binders : ~Reaches(b, r)
        /\ seen[r].bound = {} /\ seen[r].unbound = {}

SeenUnbound ==
    \A r \in Requests : \A b \in seen[r].unbound : phase[b] = "unbound" /\ ~Reaches(b, r)

SeenBound ==
    \A r \in Requests : \A b \in seen[r].bound :
        /\ phase[b] \in Since /\ ~Ws(b)
        /\ phase[b] = "bound" =>
               /\ outcome[r] # "404"
               /\ Key[b] = "http" =>
                      \A d \in Binders : Key[d] = "default" => ~Reaches(d, r)

Cancelled == \A r \in cancelled : outcome[r] = "gone"

Traced == Sent /\ Unsent /\ SeenUnbound /\ SeenBound /\ Cancelled

-----------------------------------------------------------------------------
(* What a step can do to a request *)

Takes(r) == Taking("request", r)
Sends(r) ==
    /\ outcome[r] = "idle" /\ outcome'[r] \in {"waiting", "500"}
    /\ phase' = phase
    /\ seen'[r] = [bound |-> {b \in Binders : ~Ws(b) /\ phase[b] = "bound"},
                   unbound |-> {b \in Binders : ~Ws(b) /\ phase[b] = "unbound"}]

\* A request moves on from place to place; the worker alone gives it a handler.
Moves == \A b \in Binders, r \in Requests : Reaches(b, r)' => Reaches(b, r) \/ (Takes(r) /\ Route = b)

\* It is answered once, with "not found" by the worker alone.
Replies ==
    \A r \in Requests :
        \/ outcome'[r] = outcome[r]
        \/ /\ outcome[r] = "waiting" /\ outcome'[r] # "idle"
           /\ outcome'[r] = "404" => Takes(r) /\ Route = None
        \/ Sends(r)

Records == \A r \in Requests : seen'[r] = seen[r] \/ Sends(r)

\* Commands come of what is sent.
Commands ==
    \A q \in Elems(command') :
        \/ q \in Elems(command)
        \/ q.op # "request"
        \/ q.of \in Requests /\ Sends(q.of)

Cancels ==
    \A r \in cancelled' : r \in cancelled \/ (r \in Requests /\ outcome'[r] = "gone")
Starts == \A r \in cancelled : started'[r] = started[r]

Effects == Moves /\ Replies /\ Records /\ Commands /\ Cancels /\ Starts

\* How a binder goes on.
Phase ==
    \A b \in Binders :
        /\ phase[b] \in Since => phase'[b] \in Since
        /\ phase[b] = "unbound" => phase'[b] = "unbound"
        /\ phase[b] \in Since /\ phase'[b] = "bound" => phase[b] = "bound"

LEMMA AnsweredReplies ==
  ASSUME TypeOK, NEW rs, NEW v \in {"500"} \cup Binders, outcome' = Answered(rs, v)
  PROVE  Replies
  <1>1. v # "404" /\ v # "idle"
    BY RouteNoneAssumption
  <1> QED
    BY <1>1, AnsweredFact DEF TypeOK, Replies

LEMMA BindersEffects ==
  ASSUME TypeOK, Tables, NEW b \in Binders,
         \/ BindSpawn(b) \/ BindSend(b) \/ BindUnsent(b)
         \/ BindCheck(b) \/ BindReturn(b)
         \/ UnbindStart(b) \/ UnbindSend(b) \/ UnbindReturn(b)
  PROVE  Effects /\ Phase
  <1>1. UNCHANGED <<busy, chan, current, requestVars>>
    BY DEF BindSpawn, BindSend, BindUnsent, BindCheck, BindReturn, UnbindStart, UnbindSend, UnbindReturn,
           workerVars, taskVars
  <1>2. \/ command' = command
        \/ \E op \in {"add", "remove"} : Enqueue(op, b)
    BY DEF BindSpawn, BindSend, BindUnsent, BindCheck, BindReturn, UnbindStart, UnbindSend, UnbindReturn,
           workerVars
  <1>3. Commands
    <2>1. CASE command' = command
      BY <2>1 DEF Commands
    <2>2. ASSUME NEW op \in {"add", "remove"}, Enqueue(op, b) PROVE Commands
      <3>1. Elems(command') = Elems(command) \cup {[op |-> op, of |-> b]}
        BY <2>2, EnqueueFact, CommandFact DEF TypeOK
      <3> QED
        BY <3>1 DEF Commands
    <2> QED
      BY <1>2, <2>1, <2>2
  <1>4. Moves /\ Replies /\ Records /\ Cancels /\ Starts
    BY <1>1 DEF Moves, Reaches, Replies, Records, Cancels, Starts, requestVars
  <1>5. Phase
    BY DEF Phase, Since, TypeOK, BindersOK, Leaving,
           BindSpawn, BindSend, AtSend, BindUnsent, BindCheck, BindReturn, UnbindStart, UnbindSend, UnbindReturn
  <1> QED
    BY <1>3, <1>4, <1>5 DEF Effects

LEMMA TakesCommands ==
  ASSUME TypeOK, NEW op, NEW x, Taking(op, x), command' = Tail(command) PROVE Commands
  BY TakeFact DEF TypeOK, Commands

LEMMA DieEffects ==
  ASSUME TypeOK, NEW rs, Die(rs), UNCHANGED <<phase, chan, current, started, seen, cancelled>>
  PROVE  Effects /\ Phase
  <1>1. Elems(command') = {} /\ busy' = None
    BY ElemsEmpty DEF Die
  <1>2. Replies
    BY AnsweredReplies DEF Die
  <1>3. Moves /\ Records /\ Commands /\ Cancels /\ Starts /\ Phase
    BY <1>1 DEF Moves, Reaches, Records, Commands, Cancels, Starts, Phase, Since
  <1> QED
    BY <1>2, <1>3 DEF Effects

LEMMA WorkerEffects == ASSUME TypeOK, Worker PROVE Effects /\ Phase
  <1>1. ASSUME NEW b \in Binders, WorkerAdd(b) PROVE Effects /\ Phase
    <2>1. CASE Die({})
      BY <1>1, <2>1, DieEffects DEF WorkerAdd, taskVars
    <2>2. CASE command' = Tail(command) /\ UNCHANGED <<alive, busy, outcome>>
      <3>1. Commands
        BY <1>1, <2>2, TakesCommands DEF WorkerAdd
      <3> QED
        BY <1>1, <2>2, <3>1 DEF Effects, Moves, Reaches, Replies, Records, Cancels, Starts, Phase,
           WorkerAdd, taskVars
    <2> QED
      BY <1>1, <2>1, <2>2 DEF WorkerAdd
  <1>2. ASSUME NEW b \in Binders, WorkerRemove(b) PROVE Effects /\ Phase
    <2>1. Commands
      BY <1>2, TakesCommands DEF WorkerRemove
    <2> QED
      BY <1>2, <2>1 DEF Effects, Moves, Reaches, Replies, Records, Cancels, Starts, Phase,
         WorkerRemove, requestVars
  <1>3. ASSUME NEW r \in Requests, WorkerRequest(r) PROVE Effects /\ Phase
    <2>1. /\ Takes(r) /\ command' = Tail(command) /\ busy = None
          /\ UNCHANGED <<phase, chan, current, started, seen, cancelled>>
      BY <1>3 DEF WorkerRequest, Takes, Taking, Idle, binderVars, taskVars
    <2>2. Commands
      BY <2>1, TakesCommands DEF Takes
    <2>3. CASE Route = None /\ outcome' = Answered({r}, "404") /\ UNCHANGED busy
      <3>1. Replies
        BY <2>1, <2>3, RouteNoneAssumption DEF Replies, Answered, TypeOK, RequestsOK
      <3> QED
        BY <2>1, <2>2, <2>3, <3>1 DEF Effects, Moves, Reaches, Records, Cancels, Starts, Phase
    <2>4. CASE Route # None /\ busy' = <<r, Route>> /\ UNCHANGED outcome
      <3>1. Moves
        BY <2>1, <2>4 DEF Moves, Reaches
      <3> QED
        BY <2>1, <2>2, <2>4, <3>1 DEF Effects, Replies, Records, Cancels, Starts, Phase
    <2> QED
      BY <1>3, <2>3, <2>4 DEF WorkerRequest
  <1>4. ASSUME WorkerDeliver PROVE Effects /\ Phase
    <2> DEFINE r == busy[1]
               b == busy[2]
    <2>1. r \in Requests /\ b \in Binders /\ busy # None
      BY <1>4 DEF TypeOK, WorkerOK, WorkerDeliver
    <2>2. CASE /\ chan' = [chan EXCEPT ![b] = Append(@, r)] /\ busy' = None
               /\ UNCHANGED <<alive, command, handlers, ret, outcome>>
      <3>1. /\ chan \in [Binders -> Seq(Requests)]
            /\ UNCHANGED <<phase, current, started, seen, cancelled>>
        BY <1>4 DEF WorkerDeliver, TypeOK, TasksOK
      <3>2. Elems(Append(chan[b], r)) = Elems(chan[b]) \cup {r}
        BY <2>1, <3>1, ElemsAppend
      <3>3. Moves
        BY <2>1, <2>2, <3>1, <3>2 DEF Moves, Reaches
      <3> QED
        BY <2>2, <3>1, <3>3 DEF Effects, Replies, Records, Commands, Cancels, Starts, Phase
    <2>3. CASE Die({r}) /\ UNCHANGED chan
      BY <1>4, <2>3, DieEffects DEF WorkerDeliver
    <2> QED
      BY <1>4, <2>2, <2>3 DEF WorkerDeliver
  <1> QED
    BY <1>1, <1>2, <1>3, <1>4 DEF Worker

LEMMA EndAsEffects ==
  ASSUME TypeOK, NEW b \in Binders, NEW how, EndAs(b, how)
  PROVE  Effects /\ Phase
  <1>1. /\ Elems(<<>>) = {}
        /\ UNCHANGED <<command, busy, phase, started, seen, cancelled>>
        /\ chan' = [chan EXCEPT ![b] = <<>>] /\ current' = [current EXCEPT ![b] = None]
        /\ chan \in [Binders -> Seq(Requests)] /\ current \in [Binders -> Requests \cup {None}]
    BY ElemsEmpty DEF EndAs, workerVars, binderVars, TypeOK, TasksOK
  <1>2. Replies
    BY AnsweredReplies DEF EndAs
  <1>3. Moves
    BY <1>1, RouteNoneAssumption DEF Moves, Reaches
  <1> QED
    BY <1>1, <1>2, <1>3 DEF Effects, Records, Commands, Cancels, Starts, Phase

LEMMA TaskEffects == ASSUME TypeOK, NEW b \in Binders, Task(b) PROVE Effects /\ Phase
  <1>1. /\ chan \in [Binders -> Seq(Requests)]
        /\ current \in [Binders -> Requests \cup {None}]
        /\ started \in [Requests -> Binders \cup {None}]
    BY DEF TypeOK, TasksOK, RequestsOK
  <1>2. CASE TaskRecv(b)
    <2>1. Head(chan[b]) \in Elems(chan[b]) /\ Elems(Tail(chan[b])) \subseteq Elems(chan[b])
      BY <1>1, <1>2, ElemsHeadTail DEF TaskRecv
    <2>2. Moves
      BY <1>1, <1>2, <2>1 DEF Moves, Reaches, TaskRecv, workerVars, requestVars
    <2> QED
      BY <1>2, <2>2 DEF Effects, Replies, Records, Commands, Cancels, Starts, Phase,
         TaskRecv, workerVars, binderVars, requestVars
  <1>3. CASE TaskStart(b)
    <2>1. Moves
      BY <1>1, <1>3 DEF Moves, Reaches, TaskStart, workerVars
    <2>2. Starts
      BY <1>1, <1>3 DEF Starts, TaskStart, TypeOK, RequestsOK
    <2> QED
      BY <1>3, <2>1, <2>2 DEF Effects, Replies, Records, Commands, Cancels, Phase,
         TaskStart, workerVars, binderVars
  <1>4. CASE TaskCancel(b)
    <2>1. Moves
      BY <1>1, <1>4, RouteNoneAssumption DEF Moves, Reaches, TaskCancel, Done, workerVars, requestVars
    <2> QED
      BY <1>4, <2>1 DEF Effects, Replies, Records, Commands, Cancels, Starts, Phase,
         TaskCancel, workerVars, binderVars, requestVars
  <1>5. CASE TaskRespond(b)
    <2>1. Moves
      BY <1>1, <1>5, RouteNoneAssumption DEF Moves, Reaches, TaskRespond, Done, workerVars
    <2>2. Replies
      BY <1>5, AnsweredReplies DEF TaskRespond
    <2> QED
      BY <1>5, <2>1, <2>2 DEF Effects, Records, Commands, Cancels, Starts, Phase,
         TaskRespond, workerVars, binderVars
  <1>6. CASE TaskPanic(b) \/ TaskAborted(b) \/ TaskEnds(b)
    BY <1>6, EndAsEffects DEF TaskPanic, TaskAborted, TaskEnds
  <1> QED
    BY <1>2, <1>3, <1>4, <1>5, <1>6 DEF Task

LEMMA RequestsEffects ==
  ASSUME TypeOK, NEW r \in Requests, RequestSend(r) \/ BodyEnds(r) \/ ConnectionGone(r)
  PROVE  Effects /\ Phase
  <1>1. /\ UNCHANGED <<busy, phase, chan, current, started>>
        /\ outcome \in [Requests -> {"idle", "waiting", "gone", "404", "500"} \cup Binders]
        /\ seen \in [Requests -> [bound : SUBSET Binders, unbound : SUBSET Binders]]
    BY DEF RequestSend, BodyEnds, ConnectionGone, workerVars, binderVars, taskVars,
           TypeOK, RequestsOK
  <1>2. Moves /\ Starts /\ Phase
    BY <1>1 DEF Moves, Reaches, Starts, Phase
  <1>3. CASE RequestSend(r)
    <2>1. Sends(r) /\ \A o \in Requests : o # r => outcome'[o] = outcome[o] /\ seen'[o] = seen[o]
      BY <1>1, <1>3 DEF RequestSend, Sends
    <2>2. Commands
      <3>1. Elems(command') \subseteq Elems(command) \cup {[op |-> "request", of |-> r]}
        BY <1>3, EnqueueFact, CommandFact DEF RequestSend, TypeOK
      <3> QED
        BY <2>1, <3>1 DEF Commands
    <2> QED
      BY <1>2, <1>3, <2>1, <2>2 DEF Effects, Replies, Records, Cancels, RequestSend
  <1>4. CASE BodyEnds(r)
    BY <1>2, <1>4 DEF Effects, Replies, Records, Commands, Cancels, BodyEnds, workerVars
  <1>5. CASE ConnectionGone(r)
    <2>1. Replies
      BY <1>1, <1>5 DEF Replies, ConnectionGone
    <2>2. Cancels
      BY <1>1, <1>5 DEF Cancels, ConnectionGone
    <2> QED
      BY <1>2, <1>5, <2>1, <2>2 DEF Effects, Records, Commands, ConnectionGone, workerVars
  <1> QED
    BY <1>3, <1>4, <1>5

LEMMA NextEffects == ASSUME TypeOK, Tables, [Next]_vars PROVE Effects /\ Phase
  <1>1. CASE UNCHANGED vars
    BY <1>1 DEF vars, workerVars, binderVars, taskVars, requestVars,
                Effects, Moves, Reaches, Replies, Records, Commands, Cancels, Starts, Phase
  <1> QED
    BY <1>1, WorkerEffects, BindersEffects, TaskEffects, RequestsEffects DEF Next

-----------------------------------------------------------------------------
(* Every step keeps the requests on their way *)

LEMMA TakesFact ==
  ASSUME TypeOK, Tables, Traced, NEW r \in Requests, Takes(r)
  PROVE  alive /\ outcome[r] # "idle"
  <1>1. [op |-> "request", of |-> r] \in Elems(command) /\ alive
    BY TakeFact DEF Takes, TypeOK
  <1> QED
    BY <1>1 DEF Traced, Sent

\* The route of a request is in a table, and a route that is bound goes first.
LEMMA RouteIs ==
  ASSUME TypeOK, Tables
  PROVE  /\ Route # None => handlers[Key[Route]] = Route
         /\ alive => \A b \in Binders : phase[b] = "bound" /\ ~Ws(b) =>
                /\ Route # None
                /\ Key[b] = "http" => Route = b
  <1>1. Route # None => handlers[Key[Route]] = Route
    <2> SUFFICES ASSUME Route # None PROVE handlers[Key[Route]] = Route
      OBVIOUS
    <2>1. PICK k \in {"http", "default"} : Route = handlers[k]
      BY RouteFact DEF TypeOK
    <2>2. Key[Route] = k
      BY <2>1 DEF Tables, ServingEntries, Keys
    <2> QED
      BY <2>1, <2>2
  <1>2. ASSUME alive, NEW b \in Binders, phase[b] = "bound", ~Ws(b)
        PROVE  Route # None /\ (Key[b] = "http" => Route = b)
    <2>1. handlers[Key[b]] = b /\ b # None /\ Key[b] \in {"http", "default"}
      BY <1>2, KeyFact, RouteNoneAssumption DEF Tables, Claimed, Claims, Ws, Keys
    <2> QED
      BY <2>1 DEF Route
  <1> QED
    BY <1>1, <1>2

LEMMA NextTraced == TypeOK /\ Tables /\ Traced /\ [Next]_vars => Traced'
  <1> SUFFICES ASSUME TypeOK, Tables, Traced, [Next]_vars PROVE Traced'
    OBVIOUS
  <1>1. Moves /\ Replies /\ Records /\ Commands /\ Cancels /\ Phase
    BY NextEffects DEF Effects
  <1>2. \A r \in Requests : /\ outcome'[r] = "idle" => outcome[r] = "idle" /\ seen'[r] = seen[r]
                            /\ outcome[r] = "idle" => ~Takes(r)
    BY <1>1, TakesFact DEF Replies, Records, Sends
  <1>3. Sent'
    <2> SUFFICES ASSUME NEW q \in Elems(command'), q.op = "request"
                 PROVE  outcome'[q.of] # "idle"
      BY DEF Sent
    <2>1. CASE q \in Elems(command)
      <3>1. q.of \in Requests /\ outcome[q.of] # "idle"
        BY <2>1, CommandOf, CommandFact DEF Traced, Sent
      <3> QED
        BY <1>2, <3>1
    <2>2. CASE q.of \in Requests /\ Sends(q.of)
      BY <2>2 DEF Sends
    <2> QED
      BY <1>1, <2>1, <2>2 DEF Commands
  <1>4. Unsent'
    BY <1>1, <1>2 DEF Traced, Unsent, Moves
  <1>5. SeenUnbound'
    <2> SUFFICES ASSUME NEW r \in Requests, NEW b \in seen'[r].unbound
                 PROVE  phase'[b] = "unbound" /\ ~Reaches(b, r)'
      BY DEF SeenUnbound
    <2>1. b \in Binders
      BY NextType DEF TypeOK, RequestsOK
    <2>2. CASE Sends(r)
      <3>1. phase'[b] = "unbound" /\ ~Reaches(b, r) /\ ~Takes(r)
        BY <1>2, <2>1, <2>2 DEF Sends, Traced, Unsent
      <3> QED
        BY <1>1, <2>1, <3>1 DEF Moves
    <2>3. CASE seen'[r] = seen[r]
      <3>1. phase[b] = "unbound" /\ ~Reaches(b, r)
        BY <2>3 DEF Traced, SeenUnbound
      <3>2. Route # b
        BY <2>1, <3>1, RouteIs, RouteNoneAssumption DEF Tables, Removed, Gone
      <3> QED
        BY <1>1, <2>1, <3>1, <3>2 DEF Moves, Phase
    <2> QED
      BY <1>1, <2>2, <2>3 DEF Records
  <1>6. SeenBound'
    <2> SUFFICES ASSUME NEW r \in Requests, NEW b \in seen'[r].bound
                 PROVE  /\ phase'[b] \in Since /\ ~Ws(b)
                        /\ phase'[b] = "bound" =>
                               /\ outcome'[r] # "404"
                               /\ Key[b] = "http" =>
                                      \A d \in Binders : Key[d] = "default" => ~Reaches(d, r)'
      BY DEF SeenBound, Ws
    <2>1. b \in Binders
      BY NextType DEF TypeOK, RequestsOK
    <2>2. CASE Sends(r)
      <3>1. /\ phase'[b] = "bound" /\ ~Ws(b) /\ outcome'[r] # "404" /\ ~Takes(r)
            /\ \A d \in Binders : ~Reaches(d, r)
        BY <1>2, <2>1, <2>2 DEF Sends, Traced, Unsent
      <3> QED
        BY <1>1, <3>1 DEF Moves, Since
    <2>3. CASE seen'[r] = seen[r]
      <3>1. phase[b] \in Since /\ ~Ws(b) /\ phase'[b] \in Since
        BY <1>1, <2>1, <2>3 DEF Traced, SeenBound, Phase
      <3>2. ASSUME phase'[b] = "bound"
            PROVE  /\ outcome'[r] # "404"
                   /\ Key[b] = "http" =>
                          \A d \in Binders : Key[d] = "default" => ~Reaches(d, r)'
        <4>1. phase[b] = "bound"
          BY <1>1, <2>1, <3>1, <3>2 DEF Phase
        <4>2. Takes(r) => Route # None /\ (Key[b] = "http" => Route = b)
          BY <2>1, <3>1, <4>1, RouteIs, TakesFact
        <4>3. outcome'[r] # "404"
          BY <1>1, <2>3, <4>1, <4>2 DEF Replies, Sends, Traced, SeenBound
        <4>4. ASSUME Key[b] = "http", NEW d \in Binders, Key[d] = "default" PROVE ~Reaches(d, r)'
          BY <1>1, <2>3, <4>1, <4>2, <4>4 DEF Moves, Traced, SeenBound
        <4> QED
          BY <4>3, <4>4
      <3> QED
        BY <3>1, <3>2
    <2> QED
      BY <1>1, <2>2, <2>3 DEF Records
  <1>7. Cancelled'
    BY <1>1 DEF Cancelled, Cancels, Replies, Sends, Traced, TypeOK, RequestsOK
  <1> QED
    BY <1>3, <1>4, <1>5, <1>6, <1>7 DEF Traced

LEMMA InitTraced == Init => Traced
  <1> SUFFICES ASSUME Init PROVE Traced
    OBVIOUS
  <1>1. Elems(command) = {} /\ \A b \in Binders : Elems(chan[b]) = {}
    BY ElemsEmpty DEF Init
  <1>2. Unsent
    BY <1>1, RouteNoneAssumption DEF Init, Unsent, Reaches
  <1> QED
    BY <1>1, <1>2 DEF Init, Traced, Sent, SeenUnbound, SeenBound, Cancelled

LEMMA Always == Spec => [](TypeOK /\ Tables /\ Traced)
  BY InitType, NextType, InitTables, NextTables, InitTraced, NextTraced, PTL DEF Spec

\* For any routes and requests, a handler sees only requests that its route
\* should get, and a request whose path stays bound is not answered "not found"
\* (server.rs:538-546, 443-448, 559-565).
THEOREM RequestsRoutedRight == Spec => []RoutedRight
  <1>1. TypeOK /\ Tables /\ Traced => RoutedRight
    <2> SUFFICES ASSUME TypeOK, Traced, NEW r \in Requests
                 PROVE  /\ started[r] \notin seen[r].unbound
                        /\ \A b \in seen[r].bound :
                               phase[b] = "bound" =>
                                   /\ outcome[r] # "404"
                                   /\ started[r] # None /\ Key[started[r]] = "default"
                                      => Key[b] # "http"
      BY DEF RoutedRight
    <2>1. started[r] \in Binders \cup {None} /\ seen[r].unbound \subseteq Binders
      BY DEF TypeOK, RequestsOK
    <2>2. started[r] \in Binders => Reaches(started[r], r)
      BY DEF Reaches
    <2>3. started[r] \notin seen[r].unbound
      BY <2>1, <2>2 DEF Traced, SeenUnbound
    <2> QED
      BY <2>1, <2>2, <2>3 DEF Traced, SeenBound
  <1> QED
    BY <1>1, Always, PTL

\* Nothing is begun or answered for a client that has gone, in any number of
\* queues and whatever order cancellations and answers come in
\* (server.rs:359-371, server/handler.rs:116-121).
THEOREM GoneStaysQuiet == Spec => NothingForTheGone
  <1>1. TypeOK /\ Tables /\ Traced /\ [Next]_vars =>
            [\A r \in cancelled : started'[r] = started[r] /\ outcome'[r] = outcome[r]]_vars
    <2> SUFFICES ASSUME TypeOK, Tables, Traced, [Next]_vars, NEW r \in cancelled
                 PROVE  started'[r] = started[r] /\ outcome'[r] = outcome[r]
      OBVIOUS
    <2>1. r \in Requests /\ outcome[r] = "gone"
      BY DEF TypeOK, RequestsOK, Traced, Cancelled
    <2> QED
      BY <2>1, NextEffects DEF Effects, Starts, Replies, Sends
  <1> QED
    BY <1>1, Always, PTL DEF Spec, NothingForTheGone

=============================================================================
