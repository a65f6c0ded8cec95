----------------------------- MODULE ServerRoutes -----------------------------
(***************************************************************************)
(* The routes of an edgy-s server and the HTTP requests that use them:     *)
(* binding and unbinding (server.rs, server/binding.rs), the worker that   *)
(* keeps the route tables (server.rs), the task of each route and the      *)
(* futures of http_dispatch (server/handler.rs).  There is one path for    *)
(* each kind of route: what binders of different paths share, the worker   *)
(* and its channel, binders of different kinds share too.                  *)
(***************************************************************************)
EXTENDS Naturals, Sequences, FiniteSets

CONSTANTS
    Binders,     \* the bindings made: each binds its handler once
    Key,         \* the route of each: "ws", "http" or "default"
    Requests,    \* the HTTP requests
    Cap,         \* capacity of the channels: mpsc_channel(2)
    Established, \* binders whose route is bound from the start
    MayUnbind,   \* binders that may unbind
    MayPanic,    \* binders whose handler may panic
    MayDrop,     \* requests whose connection may be lost
    None

Keys == {"ws", "http", "default"}
Ws(b) == Key[b] = "ws"

ASSUME RouteAssumption ==
    /\ Key \in [Binders -> Keys]
    /\ Established \subseteq Binders
    /\ MayUnbind \subseteq Binders /\ MayPanic \subseteq Binders
    /\ MayDrop \subseteq Requests
    /\ \A b, c \in Established : Key[b] = Key[c] => b = c
ASSUME RouteBoundAssumption == Cap \in Nat \ {0}
ASSUME RouteNoneAssumption ==
    /\ None \notin Binders \cup Requests
    /\ Binders \cap {"idle", "waiting", "gone", "404", "500"} = {}

VARIABLES
    \* the worker: its channel, its tables, and the request it is handing on
    alive, command, handlers, busy,
    \* the binders: where each is, and the oneshot it awaits
    phase, ret, BIND_SENDERS,
    \* the task of each route: its channel and the request it is at
    task, chan, current, aborted,
    \* the requests: outcome, body, cancelled connection
    outcome, body, cancelled,
    \* history: who has started a request, and the routes it found when sent
    started, seen

workerVars == <<alive, command, handlers, busy>>
binderVars == <<phase, ret, BIND_SENDERS>>
taskVars == <<task, chan, current, aborted>>
requestVars == <<outcome, body, cancelled, started, seen>>
vars == <<workerVars, binderVars, taskVars, requestVars>>

-----------------------------------------------------------------------------
(* State *)

Command ==
    [op : {"add", "remove"}, of : Binders] \cup [op : {"request"}, of : Requests]

Phases == {"idle", "spawned", "checking", "waiting", "bound", "failed", "refused",
           "unbinding", "leaving", "unbound", "lost"}

WorkerOK ==
    /\ alive \in BOOLEAN
    /\ command \in Seq(Command) /\ Len(command) <= Cap
    /\ handlers \in [Keys -> Binders \cup {None}]
    /\ busy \in (Requests \X Binders) \cup {None}

BindersOK ==
    /\ phase \in [Binders -> Phases]
    /\ ret \in [Binders -> {"none", "ok", "err", "dropped"}]
    /\ BIND_SENDERS \in Binders \cup {None}

TasksOK ==
    /\ task \in [Binders -> {"none", "idle", "body", "handler", "ended", "panicked"}]
    /\ chan \in [Binders -> Seq(Requests)]
    /\ \A b \in Binders : Len(chan[b]) <= Cap
    /\ current \in [Binders -> Requests \cup {None}]
    /\ \A b \in Binders : task[b] \in {"body", "handler"} => current[b] # None
    /\ aborted \in SUBSET Binders

RequestsOK ==
    /\ outcome \in [Requests -> {"idle", "waiting", "gone", "404", "500"} \cup Binders]
    /\ body \in [Requests -> {"arriving", "whole", "cut"}]
    /\ cancelled \in SUBSET Requests
    /\ started \in [Requests -> Binders \cup {None}]
    /\ seen \in [Requests -> [bound : SUBSET Binders, unbound : SUBSET Binders]]

TypeOK == WorkerOK /\ BindersOK /\ TasksOK /\ RequestsOK

Holder(k) ==
    IF \E b \in Established : Key[b] = k
    THEN CHOOSE b \in Established : Key[b] = k
    ELSE None

\* The established routes have been bound; nothing has been requested.  A body
\* that comes over a connection that stays is as good as there from the start.
Init ==
    /\ alive = TRUE
    /\ command = <<>>
    /\ handlers = [k \in Keys |-> Holder(k)]
    /\ busy = None
    /\ phase = [b \in Binders |-> IF b \in Established THEN "bound" ELSE "idle"]
    /\ ret = [b \in Binders |-> "none"]
    /\ BIND_SENDERS = Holder("ws")
    /\ task = [b \in Binders |-> IF b \in Established /\ ~Ws(b) THEN "idle" ELSE "none"]
    /\ chan = [b \in Binders |-> <<>>]
    /\ current = [b \in Binders |-> None]
    /\ aborted = {}
    /\ outcome = [r \in Requests |-> "idle"]
    /\ body = [r \in Requests |-> IF r \in MayDrop THEN "arriving" ELSE "whole"]
    /\ cancelled = {}
    /\ started = [r \in Requests |-> None]
    /\ seen = [r \in Requests |-> [bound |-> {}, unbound |-> {}]]

\* Fault: an unbounded channel.
EnqueueUnbounded(op, x) == command' = Append(command, [op |-> op, of |-> x])

Enqueue(op, x) ==
    /\ Len(command) < Cap
    /\ command' = Append(command, [op |-> op, of |-> x])

Queued(op, x) == \E i \in 1 .. Len(command) : command[i] = [op |-> op, of |-> x]

\* Requests whose oneshot is answered with v; the future of a lost connection
\* is gone and hears nothing.
Answered(rs, v) ==
    [r \in Requests |-> IF r \in rs /\ outcome[r] = "waiting" THEN v ELSE outcome[r]]

-----------------------------------------------------------------------------
(* Binding and unbinding *)

\* add_route of an HTTP route spawns its task first, before there is room for
\* the command.  (The task of a WebSocket route is in ServerRpc.)
BindSpawn(b) ==
    /\ phase[b] = "idle" /\ ~Ws(b)
    /\ phase' = [phase EXCEPT ![b] = "spawned"]
    /\ task' = [task EXCEPT ![b] = "idle"]
    /\ UNCHANGED <<workerVars, ret, BIND_SENDERS, chan, current, aborted, requestVars>>

\* Where add_route awaits room for its command.
AtSend(b) == phase[b] = IF Ws(b) THEN "idle" ELSE "spawned"

BindSend(b) ==
    /\ AtSend(b)
    /\ alive
    /\ Enqueue("add", b)
    /\ phase' = [phase EXCEPT ![b] = IF Ws(b) THEN "checking" ELSE "waiting"]
    /\ UNCHANGED <<alive, handlers, busy, ret, BIND_SENDERS, taskVars, requestVars>>

\* The receiver of the command channel is gone: the command is dropped, with
\* the only sender of the task.
BindUnsent(b) ==
    /\ AtSend(b)
    /\ ~alive
    /\ phase' = [phase EXCEPT ![b] = "failed"]
    /\ UNCHANGED <<workerVars, ret, BIND_SENDERS, taskVars, requestVars>>

\* A path that BIND_SENDERS holds is refused, with a command already sent
\* whose oneshot and stream nobody listens to any more.
BindCheck(b) ==
    /\ phase[b] = "checking"
    /\ IF BIND_SENDERS = None
       THEN /\ BIND_SENDERS' = b
            /\ phase' = [phase EXCEPT ![b] = "waiting"]
       ELSE /\ phase' = [phase EXCEPT ![b] = "refused"]
            /\ UNCHANGED BIND_SENDERS
    /\ UNCHANGED <<workerVars, ret, taskVars, requestVars>>

BindReturn(b) ==
    /\ phase[b] = "waiting"
    /\ ret[b] # "none"
    /\ phase' = [phase EXCEPT ![b] = IF ret[b] = "ok" THEN "bound" ELSE "failed"]
    /\ ret' = [ret EXCEPT ![b] = "none"]
    /\ UNCHANGED <<workerVars, BIND_SENDERS, taskVars, requestVars>>

\* remove_route of a WebSocket route begins with BIND_SENDERS.
UnbindStart(b) ==
    /\ b \in MayUnbind /\ Ws(b)
    /\ phase[b] = "bound"
    /\ BIND_SENDERS' = None
    /\ phase' = [phase EXCEPT ![b] = "unbinding"]
    /\ UNCHANGED <<workerVars, ret, taskVars, requestVars>>

Leaving(b) ==
    \/ phase[b] = "unbinding"
    \/ phase[b] = "bound" /\ b \in MayUnbind /\ ~Ws(b)

UnbindSend(b) ==
    /\ Leaving(b)
    /\ IF alive
       THEN /\ Enqueue("remove", b)
            /\ phase' = [phase EXCEPT ![b] = "leaving"]
       ELSE /\ phase' = [phase EXCEPT ![b] = "lost"]
            /\ UNCHANGED command
    /\ UNCHANGED <<alive, handlers, busy, ret, BIND_SENDERS, taskVars, requestVars>>

UnbindReturn(b) ==
    /\ phase[b] = "leaving"
    /\ ret[b] # "none"
    /\ phase' = [phase EXCEPT ![b] = IF ret[b] = "ok" THEN "unbound" ELSE "lost"]
    /\ ret' = [ret EXCEPT ![b] = "none"]
    /\ UNCHANGED <<workerVars, BIND_SENDERS, taskVars, requestVars>>

-----------------------------------------------------------------------------
(* The worker *)

Idle == alive /\ busy = None

Taking(op, x) ==
    /\ Idle
    /\ command # <<>>
    /\ Head(command) = [op |-> op, of |-> x]

\* Fault: the oneshots of queued commands are kept with the channel.
DieSilently(rs) ==
    /\ alive' = FALSE
    /\ command' = <<>>
    /\ handlers' = [k \in Keys |-> None]
    /\ busy' = None
    /\ outcome' = Answered(rs, "500")
    /\ UNCHANGED ret

\* The worker returns with an error: the tables go with the senders they hold,
\* the queued commands with their oneshots; the tasks of routes are not aborted.
Die(rs) ==
    LET lost == rs \cup {r \in Requests : Queued("request", r)}
    IN /\ alive' = FALSE
       /\ command' = <<>>
       /\ handlers' = [k \in Keys |-> None]
       /\ busy' = None
       /\ ret' = [b \in Binders |->
              IF phase[b] \in {"checking", "waiting", "leaving"} /\ ret[b] = "none"
              THEN "dropped" ELSE ret[b]]
       /\ outcome' = Answered(lost, "500")

\* Fault: the new handler replaces the one that is bound.
WorkerAddReplaces(b) ==
    /\ Taking("add", b)
    /\ command' = Tail(command)
    /\ handlers' = [handlers EXCEPT ![Key[b]] = b]
    /\ ret' = [ret EXCEPT ![b] = "ok"]
    /\ UNCHANGED <<alive, busy, phase, BIND_SENDERS, taskVars, requestVars>>

\* An error that cannot be returned to the binder ends the worker, success may.
WorkerAdd(b) ==
    LET vacant == handlers[Key[b]] = None
    IN /\ Taking("add", b)
       /\ \/ /\ ~vacant /\ phase[b] = "refused"
             /\ Die({})
          \/ /\ vacant \/ phase[b] # "refused"
             /\ command' = Tail(command)
             /\ handlers' = [handlers EXCEPT ![Key[b]] = IF vacant THEN b ELSE @]
             /\ ret' = [ret EXCEPT ![b] = IF vacant THEN "ok" ELSE "err"]
             /\ UNCHANGED <<alive, busy, outcome>>
       /\ UNCHANGED <<phase, BIND_SENDERS, taskVars, body, cancelled, started, seen>>

\* Fault: the task is aborted, its sender stays in the table.
WorkerRemoveTask(b) ==
    /\ Taking("remove", b)
    /\ command' = Tail(command)
    /\ ret' = [ret EXCEPT ![b] = "ok"]
    /\ aborted' = aborted \cup {c \in {handlers[Key[b]]} \ {None} : ~Ws(c)}
    /\ UNCHANGED <<alive, handlers, busy, phase, BIND_SENDERS,
                   task, chan, current, requestVars>>

\* A route is removed by its key; the task of an HTTP route is aborted.
WorkerRemove(b) ==
    LET entry == handlers[Key[b]]
    IN /\ Taking("remove", b)
       /\ command' = Tail(command)
       /\ handlers' = [handlers EXCEPT ![Key[b]] = None]
       /\ ret' = [ret EXCEPT ![b] = IF entry = None THEN "err" ELSE "ok"]
       /\ aborted' = aborted \cup {c \in {entry} \ {None} : ~Ws(c)}
       /\ UNCHANGED <<alive, busy, phase, BIND_SENDERS, task, chan, current, requestVars>>

\* Fault: the default route goes first.
RouteDefault ==
    IF handlers["default"] # None THEN handlers["default"] ELSE handlers["http"]

\* The route of a request: its path, or else the default route.
Route == IF handlers["http"] # None THEN handlers["http"] ELSE handlers["default"]

WorkerRequest(r) ==
    /\ Taking("request", r)
    /\ command' = Tail(command)
    /\ IF Route = None
       THEN /\ outcome' = Answered({r}, "404")
            /\ UNCHANGED busy
       ELSE /\ busy' = <<r, Route>>
            /\ UNCHANGED outcome
    /\ UNCHANGED <<alive, handlers, binderVars, taskVars, body, cancelled, started, seen>>

Ended(b) == task[b] \in {"ended", "panicked"}

\* The worker waits for room in the channel of the route, and ends with an
\* error when the task of the route has ended.
WorkerDeliver ==
    /\ alive /\ busy # None
    /\ LET r == busy[1]  b == busy[2]
       IN \/ /\ ~Ended(b)
             /\ Len(chan[b]) < Cap
             /\ chan' = [chan EXCEPT ![b] = Append(@, r)]
             /\ busy' = None
             /\ UNCHANGED <<alive, command, handlers, ret, outcome>>
          \/ /\ Ended(b)
             /\ Die({r})
             /\ UNCHANGED chan
    /\ UNCHANGED <<phase, BIND_SENDERS, task, current, aborted,
                   body, cancelled, started, seen>>

Worker ==
    \/ \E b \in Binders : WorkerAdd(b) \/ WorkerRemove(b)
    \/ \E r \in Requests : WorkerRequest(r)
    \/ WorkerDeliver

-----------------------------------------------------------------------------
(* The task of a route *)

TaskRecv(b) ==
    /\ task[b] = "idle"
    /\ chan[b] # <<>>
    /\ current' = [current EXCEPT ![b] = Head(chan[b])]
    /\ chan' = [chan EXCEPT ![b] = Tail(@)]
    /\ task' = [task EXCEPT ![b] = "body"]
    /\ UNCHANGED <<workerVars, binderVars, aborted, requestVars>>

Done(b) ==
    /\ task' = [task EXCEPT ![b] = "idle"]
    /\ current' = [current EXCEPT ![b] = None]

\* Fault: the handler runs without a look at the cancellation.
TaskStartAnyway(b) ==
    /\ task[b] = "body"
    /\ body[current[b]] # "arriving"
    /\ task' = [task EXCEPT ![b] = "handler"]
    /\ started' = [started EXCEPT ![current[b]] = b]
    /\ UNCHANGED <<workerVars, binderVars, chan, current, aborted,
                   outcome, body, cancelled, seen>>

\* The body has been collected, whole or as far as it came.  The select that
\* follows looks at the cancellation before it polls the handler.
TaskStart(b) ==
    /\ task[b] = "body"
    /\ body[current[b]] # "arriving"
    /\ current[b] \notin cancelled
    /\ task' = [task EXCEPT ![b] = "handler"]
    /\ started' = [started EXCEPT ![current[b]] = b]
    /\ UNCHANGED <<workerVars, binderVars, chan, current, aborted,
                   outcome, body, cancelled, seen>>

TaskCancel(b) ==
    /\ \/ task[b] = "handler"
       \/ task[b] = "body" /\ body[current[b]] # "arriving"
    /\ current[b] \in cancelled
    /\ Done(b)
    /\ UNCHANGED <<workerVars, binderVars, chan, aborted, requestVars>>

TaskRespond(b) ==
    /\ task[b] = "handler"
    /\ current[b] \notin cancelled
    /\ outcome' = Answered({current[b]}, b)
    /\ Done(b)
    /\ UNCHANGED <<workerVars, binderVars, chan, aborted, body, cancelled, started, seen>>


\* The task ends and drops its channel and the oneshots in it.
EndAs(b, how) ==
    /\ task' = [task EXCEPT ![b] = how]
    /\ outcome' = Answered({current[b]} \cup {chan[b][i] : i \in 1 .. Len(chan[b])}, "500")
    /\ current' = [current EXCEPT ![b] = None]
    /\ chan' = [chan EXCEPT ![b] = <<>>]
    /\ UNCHANGED <<workerVars, binderVars, aborted, body, cancelled, started, seen>>

TaskPanic(b) ==
    /\ task[b] = "handler"
    /\ b \in MayPanic
    /\ EndAs(b, "panicked")

TaskAborted(b) ==
    /\ task[b] \in {"idle", "body", "handler"}
    /\ b \in aborted
    /\ EndAs(b, "ended")

\* Fault: only an abort ends the task.
TaskEndsAborted(b) == b \in aborted /\ task[b] = "idle" /\ EndAs(b, "ended")

\* The last sender of the channel is in the table, in a queued command, or
\* still with the binder.
TaskEnds(b) ==
    /\ task[b] = "idle"
    /\ chan[b] = <<>>
    /\ phase[b] # "spawned"
    /\ handlers[Key[b]] # b
    /\ ~Queued("add", b)
    /\ busy # None => busy[2] # b
    /\ EndAs(b, "ended")

Task(b) ==
    \/ TaskRecv(b) \/ TaskStart(b) \/ TaskCancel(b) \/ TaskRespond(b)
    \/ TaskPanic(b) \/ TaskAborted(b) \/ TaskEnds(b)

-----------------------------------------------------------------------------
(* Requests and their connections *)

\* http_dispatch; without a worker the request is answered at once.
RequestSend(r) ==
    /\ outcome[r] = "idle"
    /\ IF alive
       THEN /\ Enqueue("request", r)
            /\ outcome' = [outcome EXCEPT ![r] = "waiting"]
       ELSE /\ outcome' = [outcome EXCEPT ![r] = "500"]
            /\ UNCHANGED command
    /\ seen' = [seen EXCEPT ![r] =
           [bound |-> {b \in Binders : ~Ws(b) /\ phase[b] = "bound"},
            unbound |-> {b \in Binders : ~Ws(b) /\ phase[b] = "unbound"}]]
    /\ UNCHANGED <<alive, handlers, busy, binderVars, taskVars, body, cancelled, started>>

\* The body of a request comes to its end, or its connection breaks before.
BodyEnds(r) ==
    /\ outcome[r] # "idle" /\ body[r] = "arriving"
    /\ \E end \in {"whole", "cut"} : body' = [body EXCEPT ![r] = end]
    /\ UNCHANGED <<workerVars, binderVars, taskVars, outcome, cancelled, started, seen>>

\* The connection is dropped with the future of its request; the drop of
\* WebHandler cancels what was requested on it.
ConnectionGone(r) ==
    /\ r \in MayDrop
    /\ outcome[r] = "waiting"
    /\ outcome' = [outcome EXCEPT ![r] = "gone"]
    /\ cancelled' = cancelled \cup {r}
    /\ body' = [body EXCEPT ![r] = IF @ = "arriving" THEN "cut" ELSE @]
    /\ UNCHANGED <<workerVars, binderVars, taskVars, started, seen>>

-----------------------------------------------------------------------------
(* The specification *)

Next ==
    \/ Worker
    \/ \E b \in Binders :
           \/ BindSpawn(b) \/ BindSend(b) \/ BindUnsent(b)
           \/ BindCheck(b) \/ BindReturn(b)
           \/ UnbindStart(b) \/ UnbindSend(b) \/ UnbindReturn(b)
           \/ Task(b)
    \/ \E r \in Requests : RequestSend(r) \/ BodyEnds(r) \/ ConnectionGone(r)

Spec == Init /\ [][Next]_vars

\* Every task keeps being polled, handlers return, and a body that has begun to
\* arrive comes to an end one way or the other.  Nobody has to bind, unbind,
\* request, panic or hang up.
Fairness ==
    /\ WF_vars(Worker)
    /\ \A b \in Binders :
           /\ WF_vars(\/ phase[b] = "spawned" /\ (BindSend(b) \/ BindUnsent(b))
                      \/ BindCheck(b) \/ BindReturn(b) \/ UnbindReturn(b)
                      \/ phase[b] = "unbinding" /\ UnbindSend(b))
           /\ WF_vars(Task(b))
    /\ \A r \in Requests : WF_vars(BodyEnds(r))

FairSpec == Spec /\ Fairness

-----------------------------------------------------------------------------
(* Properties *)

\* A binding that has succeeded is in force until it is undone: the table holds
\* its handler and BIND_SENDERS its command channel, whatever other bindings of
\* the same path are tried, refused or undone meanwhile
\* (server.rs:99-120, 174, 186-196, 405-424).
BoundServes ==
    \A b \in Binders :
        alive /\ phase[b] = "bound" =>
            /\ handlers[Key[b]] = b
            /\ Ws(b) => BIND_SENDERS = b

\* The worker ends only of a path that was bound twice or of a handler that
\* panicked: no order of unbinding, aborting, cancelling and delivering ends it
\* (server.rs:405-415, 538-542).
EndsOnlyByFaults ==
    ~alive => \E b \in Binders : phase[b] = "refused" \/ task[b] = "panicked"

\* A handler sees only requests that its route should get: none that was sent
\* after the route had been unbound, and the default handler none for which the
\* path was bound all along; such a request does not end as not found either
\* (server.rs:538-546, 443-448, 559-565).
RoutedRight ==
    \A r \in Requests :
        /\ started[r] \notin seen[r].unbound
        /\ \A b \in seen[r].bound :
               phase[b] = "bound" =>
                   /\ outcome[r] # "404"
                   /\ started[r] # None /\ Key[started[r]] = "default" => Key[b] # "http"

\* Nothing is begun or answered for a client that has gone, although its request
\* may still be in two queues (server.rs:359-371, server/handler.rs:116-121).
NothingForTheGone ==
    [][\A r \in cancelled : started'[r] = started[r] /\ outcome'[r] = outcome[r]]_vars


\* Binding and unbinding return, also when the worker ends meanwhile
\* (server.rs:174, 197, 227, 246, 266; server/binding.rs:196-206).
BindingsReturn ==
    []<>(\A b \in Binders : phase[b] \notin {"spawned", "waiting", "unbinding", "leaving"})

\* The task of an HTTP route does not outlive its binding, whether it was refused,
\* unbound or lost with the worker (server.rs:336, 446, 562).
RouteTasksEnd ==
    []<>(\A b \in Binders :
             phase[b] \in {"failed", "refused", "unbound", "lost"} =>
                 task[b] \in {"none", "ended", "panicked"})

\* "Runs the server, accepting incoming connections until aborted."
\* (server.rs:288)  It does not: binding a path twice can end the worker, and
\* with it the server (server.rs:405-415, 298).
KeepsServing == alive

=============================================================================
