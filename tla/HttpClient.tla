------------------------------ MODULE HttpClient ------------------------------
(***************************************************************************)
(* The HTTP side of an edgy-s client: binding a path and its dispatch task *)
(* (client.rs, client/handler.rs, client/binding.rs), http_request with    *)
(* its retries (client/request.rs), the bodies it sends and the way a      *)
(* server reads them (types/stream.rs).  Frames and Queries are what the   *)
(* bytes and the arguments go through.                                     *)
(***************************************************************************)
EXTENDS Frames, Queries

CONSTANTS
    Calls,       \* the calls of http_request
    Inputs,      \* what each call may be made with
    Names,       \* the names of arguments a server asks for, none of them empty
    Characters,  \* what names, values and queries are made of
    Binders,     \* the bindings of the path, in turn
    Established, \* the binding that is made from the start, or None
    MayUnbind,   \* bindings that may be undone
    MayBreak,    \* calls whose connections may break
    Cap,         \* capacity of the channel: mpsc_channel(16)
    MaxRetries,  \* attempts of a call
    None

Token == {"literal", "encoded"} \X Characters

Input ==
    [mode : {"null", "bytes", "raw", "framed"}, items : Seq(Seq(Byte)),
     base : Seq(Token), arguments : Seq(Seq(Characters) \X Seq(Characters))]

ASSUME ClientAssumption ==
    /\ \A c \in Calls : Inputs[c] \subseteq Input
    /\ \A c \in Calls : \A i \in Inputs[c] : i.mode = "bytes" => Len(i.items) = 1
    /\ {"=", "&"} \subseteq Characters
    /\ Established \in Binders \cup {None}
    /\ MayUnbind \subseteq Binders /\ MayBreak \subseteq Calls
ASSUME ClientBoundAssumption == Cap \in Nat \ {0} /\ MaxRetries \in Nat \ {0}
ASSUME ClientNamesAssumption == <<>> \notin Names
ASSUME ClientNoneAssumption == None \notin Binders \cup Calls

VARIABLES
    \* HTTP_BINDING_SENDERS of the path, the bindings and their tasks
    registry, binding, task, queue, current,
    \* the calls: where each is, whose sender it has, the attempt, the URI
    call, config, attempt, input, query,
    \* the body of the attempt: chunks to send, bytes under way, bytes buffered
    rest, wire, buffer,
    \* what the server has read in each attempt, and how its reading ended
    served

bindingVars == <<registry, binding, task, queue, current>>
callVars == <<call, config, attempt, input, query>>
bodyVars == <<rest, wire, buffer, served>>
vars == <<bindingVars, callVars, bodyVars>>

Ends == {"open", "clean", "incomplete", "lost", "left"}

TypeOK ==
    /\ registry \in Binders \cup {None}
    /\ binding \in [Binders -> {"idle", "bound", "refused", "unbinding", "unbound"}]
    /\ task \in [Binders -> BOOLEAN]
    /\ queue \in [Binders -> Seq(Calls)]
    /\ \A b \in Binders : Len(queue[b]) <= Cap
    /\ current \in [Binders -> Calls \cup {None}]
    /\ call \in [Calls -> {"idle", "sending", "waiting", "failing", "sleeping",
                           "reading", "returned", "failed"}]
    /\ config \in [Calls -> Binders \cup {None}]
    /\ attempt \in [Calls -> 1 .. MaxRetries]
    /\ input \in [Calls -> Input \cup {None}]
    /\ \A c \in Calls : input[c] \in Inputs[c] \cup {None}
    /\ query \in [Calls -> Seq(Token)]
    /\ rest \in [Calls -> Seq(Seq(Byte))]
    /\ wire \in [Calls -> Seq(Byte)]
    /\ buffer \in [Calls -> Seq(Byte)]
    /\ served \in [Calls -> Seq([items : Seq(Seq(Byte)), end : Ends])]
    /\ \A c \in Calls : Len(served[c]) <= attempt[c]

Init ==
    /\ registry = Established
    /\ binding = [b \in Binders |-> IF b = Established THEN "bound" ELSE "idle"]
    /\ task = [b \in Binders |-> b = Established]
    /\ queue = [b \in Binders |-> <<>>]
    /\ current = [b \in Binders |-> None]
    /\ call = [c \in Calls |-> "idle"]
    /\ config = [c \in Calls |-> None]
    /\ attempt = [c \in Calls |-> 1]
    /\ input = [c \in Calls |-> None]
    /\ query = [c \in Calls |-> <<>>]
    /\ rest = [c \in Calls |-> <<>>]
    /\ wire = [c \in Calls |-> <<>>]
    /\ buffer = [c \in Calls |-> <<>>]
    /\ served = [c \in Calls |-> <<>>]

-----------------------------------------------------------------------------
(* Binding *)

\* add_route spawns the task first and aborts it when the path is taken.
Bind(b) ==
    /\ binding[b] = "idle"
    /\ LET free == registry = None
       IN /\ binding' = [binding EXCEPT ![b] = IF free THEN "bound" ELSE "refused"]
          /\ registry' = IF free THEN b ELSE registry
          /\ task' = [task EXCEPT ![b] = free]
    /\ UNCHANGED <<queue, current, callVars, bodyVars>>

\* The calls whose oneshot the task of a binding holds.
Held(b) == {current[b]} \cup {queue[b][i] : i \in DOMAIN queue[b]}

\* The reading of the current attempt comes to an end.
EndedWith(c, items, end) ==
    [served EXCEPT ![c] = Front(@) \o <<[items |-> Last(@).items \o items, end |-> end]>>]

\* The connection of an attempt is gone: what is under way is lost.  A body that
\* is collected is handed on as far as it came, a framed stream yields an error.
Lost(c) ==
    /\ served' = IF Last(served[c]).end # "open" THEN served
                 ELSE EndedWith(c, IF input[c].mode = "bytes" THEN <<buffer[c]>> ELSE <<>>,
                                "lost")
    /\ wire' = [wire EXCEPT ![c] = <<>>]
    /\ buffer' = [buffer EXCEPT ![c] = <<>>]

\* Fault: only the requests that wait in the channel fail.
UnbindQueued(b) ==
    /\ binding[b] = "bound" /\ b \in MayUnbind
    /\ binding' = [binding EXCEPT ![b] = "unbinding"]
    /\ task' = [task EXCEPT ![b] = FALSE]
    /\ call' = [c \in Calls |-> IF c \in Held(b) \ {current[b]} THEN "failing" ELSE call[c]]
    /\ queue' = [queue EXCEPT ![b] = <<>>]
    /\ current' = [current EXCEPT ![b] = None]
    /\ UNCHANGED <<registry, config, attempt, input, query, bodyVars>>

\* unbind aborts the task, with its channel, its request and their oneshots;
\* remove_route, behind a lock, comes after.
Unbind(b) ==
    /\ binding[b] = "bound" /\ b \in MayUnbind
    /\ binding' = [binding EXCEPT ![b] = "unbinding"]
    /\ task' = [task EXCEPT ![b] = FALSE]
    /\ call' = [c \in Calls |-> IF c \in Held(b) THEN "failing" ELSE call[c]]
    /\ queue' = [queue EXCEPT ![b] = <<>>]
    /\ current' = [current EXCEPT ![b] = None]
    /\ IF current[b] = None THEN UNCHANGED <<served, wire, buffer>> ELSE Lost(current[b])
    /\ UNCHANGED <<registry, config, attempt, input, query, rest>>

UnbindRemove(b) ==
    /\ binding[b] = "unbinding"
    /\ binding' = [binding EXCEPT ![b] = "unbound"]
    /\ registry' = None
    /\ UNCHANGED <<task, queue, current, callVars, bodyVars>>

-----------------------------------------------------------------------------
(* http_request *)

\* The chunks of a body in the order hyper polls them.
Chunks(i) ==
    IF i.mode = "framed" THEN [k \in DOMAIN i.items |-> Framed(i.items[k])] ELSE i.items

Orders(names) == {o \in [1 .. Cardinality(names) -> names] : IsInjective(o)}

\* The sender of the path is cloned, the handler sets the arguments, and the
\* body becomes a streaming body, once for all attempts.
CallStart(c) ==
    /\ call[c] = "idle"
    /\ IF registry = None
       THEN /\ call' = [call EXCEPT ![c] = "failed"]
            /\ UNCHANGED <<config, input, query, rest>>
       ELSE \E i \in Inputs[c] :
            LET params == ParamsOf(i.arguments)
            IN /\ call' = [call EXCEPT ![c] = "sending"]
               /\ config' = [config EXCEPT ![c] = registry]
               /\ input' = [input EXCEPT ![c] = i]
               /\ \E order \in Orders(DOMAIN params) :
                      query' = [query EXCEPT ![c] = AppendQuery(i.base, params, order)]
               /\ rest' = [rest EXCEPT ![c] = Chunks(i)]
    /\ UNCHANGED <<bindingVars, attempt, wire, buffer, served>>

\* Fault: a channel without a bound.
CallSendUnbounded(c) ==
    /\ call[c] = "sending" /\ task[config[c]]
    /\ queue' = [queue EXCEPT ![config[c]] = Append(@, c)]
    /\ call' = [call EXCEPT ![c] = "waiting"]
    /\ UNCHANGED <<registry, binding, task, current, config, attempt, input, query, bodyVars>>

\* The send waits for room, and fails when the task is gone.
CallSend(c) ==
    /\ call[c] = "sending"
    /\ IF task[config[c]]
       THEN /\ Len(queue[config[c]]) < Cap
            /\ queue' = [queue EXCEPT ![config[c]] = Append(@, c)]
            /\ call' = [call EXCEPT ![c] = "waiting"]
       ELSE /\ call' = [call EXCEPT ![c] = "failing"]
            /\ UNCHANGED queue
    /\ UNCHANGED <<registry, binding, task, current, config, attempt, input, query, bodyVars>>

\* Any error is retried while attempts are left.
CallRetry(c) ==
    /\ call[c] = "failing"
    /\ IF attempt[c] < MaxRetries
       THEN /\ call' = [call EXCEPT ![c] = "sleeping"]
            /\ attempt' = [attempt EXCEPT ![c] = @ + 1]
       ELSE /\ call' = [call EXCEPT ![c] = "failed"]
            /\ UNCHANGED attempt
    /\ UNCHANGED <<bindingVars, config, input, query, bodyVars>>

CallWake(c) ==
    /\ call[c] = "sleeping"
    /\ call' = [call EXCEPT ![c] = "sending"]
    /\ UNCHANGED <<bindingVars, config, attempt, input, query, bodyVars>>

\* The body of the answer has come to its end, whole or as far as it came.
CallReturn(c) ==
    /\ call[c] = "reading"
    /\ call' = [call EXCEPT ![c] = "returned"]
    /\ UNCHANGED <<bindingVars, config, attempt, input, query, bodyVars>>

-----------------------------------------------------------------------------
(* The dispatch task and the connection of its request *)

\* Fault: every attempt starts the stream again.
TaskTakeRestart(b) ==
    /\ task[b] /\ current[b] = None /\ queue[b] # <<>>
    /\ LET c == Head(queue[b])
       IN /\ current' = [current EXCEPT ![b] = c]
          /\ rest' = [rest EXCEPT ![c] = Chunks(input[c])]
          /\ served' = [served EXCEPT ![c] = Append(@, [items |-> <<>>, end |-> "open"])]
    /\ queue' = [queue EXCEPT ![b] = Tail(@)]
    /\ UNCHANGED <<registry, binding, task, callVars, wire, buffer>>

\* The task is at one request at a time.  The clones of a stream share it, and
\* the next attempt goes on where the last one stopped; bytes start afresh.
TaskTake(b) ==
    /\ task[b] /\ current[b] = None /\ queue[b] # <<>>
    /\ LET c == Head(queue[b])
       IN /\ current' = [current EXCEPT ![b] = c]
          /\ rest' = [rest EXCEPT ![c] =
                 IF input[c].mode = "bytes" THEN Chunks(input[c]) ELSE @]
          /\ served' = [served EXCEPT ![c] = Append(@, [items |-> <<>>, end |-> "open"])]
    /\ queue' = [queue EXCEPT ![b] = Tail(@)]
    /\ UNCHANGED <<registry, binding, task, callVars, wire, buffer>>

InProgress(c) == \E b \in Binders : current[b] = c
Reading(c) == InProgress(c) /\ Last(served[c]).end = "open"

\* hyper polls the body, whose chunks join on the wire.
Upload(c) ==
    /\ InProgress(c)
    /\ rest[c] # <<>>
    /\ wire' = [wire EXCEPT ![c] = @ \o Head(rest[c])]
    /\ rest' = [rest EXCEPT ![c] = Tail(@)]
    /\ UNCHANGED <<bindingVars, callVars, buffer, served>>

Framing(c) == input[c].mode = "framed"

\* A chunk of any size arrives: an item of a raw stream, otherwise more of the
\* buffer, which a framed stream fills only while it has no whole frame.
ServerChunk(c) ==
    /\ Reading(c)
    /\ Framing(c) => ~HasFrame(buffer[c])
    /\ \E n \in 1 .. Len(wire[c]) :
           LET chunk == SubSeq(wire[c], 1, n)
           IN /\ wire' = [wire EXCEPT ![c] = SubSeq(@, n + 1, Len(@))]
              /\ IF input[c].mode = "raw"
                 THEN /\ served' = EndedWith(c, <<chunk>>, "open")
                      /\ UNCHANGED buffer
                 ELSE /\ buffer' = [buffer EXCEPT ![c] = @ \o chunk]
                      /\ UNCHANGED served
    /\ UNCHANGED <<bindingVars, callVars, rest>>

ServerItem(c) ==
    /\ Reading(c) /\ Framing(c)
    /\ HasFrame(buffer[c])
    /\ served' = EndedWith(c, <<FirstItem(buffer[c])>>, "open")
    /\ buffer' = [buffer EXCEPT ![c] = AfterFrame(@)]
    /\ UNCHANGED <<bindingVars, callVars, rest, wire>>

\* The body is over; part of a frame in the buffer is an error.
ServerEnd(c) ==
    /\ Reading(c)
    /\ rest[c] = <<>> /\ wire[c] = <<>>
    /\ Framing(c) => ~HasFrame(buffer[c])
    /\ served' = IF Framing(c)
                 THEN EndedWith(c, <<>>, IF buffer[c] = <<>> THEN "clean" ELSE "incomplete")
                 ELSE EndedWith(c, IF input[c].mode = "bytes" THEN <<buffer[c]>> ELSE <<>>,
                                "clean")
    /\ buffer' = [buffer EXCEPT ![c] = <<>>]
    /\ UNCHANGED <<bindingVars, callVars, rest, wire>>

\* The head of the answer, with a stream of its body, which the caller reads
\* while the task goes on.  The server need not have read to the end.
Respond(b) ==
    /\ current[b] # None
    /\ LET c == current[b]
       IN /\ call' = [call EXCEPT ![c] = "reading"]
          /\ served' = IF Reading(c) THEN EndedWith(c, <<>>, "left") ELSE served
          /\ wire' = [wire EXCEPT ![c] = <<>>]
          /\ buffer' = [buffer EXCEPT ![c] = <<>>]
    /\ current' = [current EXCEPT ![b] = None]
    /\ UNCHANGED <<registry, binding, task, queue, config, attempt, input, query, rest>>

\* The connection fails, at the connect or later, perhaps when the server has
\* read everything and only its answer is lost.
Break(b) ==
    /\ current[b] \in MayBreak
    /\ call' = [call EXCEPT ![current[b]] = "failing"]
    /\ Lost(current[b])
    /\ current' = [current EXCEPT ![b] = None]
    /\ UNCHANGED <<registry, binding, task, queue, config, attempt, input, query, rest>>

-----------------------------------------------------------------------------
(* The specification *)

Next ==
    \/ \E b \in Binders :
           \/ Bind(b) \/ Unbind(b) \/ UnbindRemove(b)
           \/ TaskTake(b) \/ Respond(b) \/ Break(b)
    \/ \E c \in Calls :
           \/ CallStart(c) \/ CallSend(c) \/ CallRetry(c) \/ CallWake(c) \/ CallReturn(c)
           \/ Upload(c) \/ ServerChunk(c) \/ ServerItem(c) \/ ServerEnd(c)

Spec == Init /\ [][Next]_vars

\* Every task keeps being polled, and a server answers and brings its answer to
\* an end; nobody has to bind, call or unbind, and no connection has to break.
Fairness ==
    /\ \A b \in Binders : WF_vars(TaskTake(b) \/ Respond(b))
    /\ \A c \in Calls : WF_vars(CallSend(c) \/ CallRetry(c) \/ CallWake(c) \/ CallReturn(c))

FairSpec == Spec /\ Fairness

-----------------------------------------------------------------------------
(* Properties *)

\* However the network cuts and joins chunks, and wherever a connection breaks,
\* a server reads items that were written, next to each other and in their
\* order; the end is clean only behind the last one, and never in the middle of
\* a frame.  Items have the size their prefix allows
\* (types/frame.rs:182-192, types/stream.rs:386-416).
FramesInOrder ==
    \A c \in Calls : \A k \in DOMAIN served[c] :
        LET items == input[c].items  read == served[c][k]
        IN Framing(c) /\ (\A i \in DOMAIN items : Fits(items[i])) =>
            /\ read.end # "incomplete"
            /\ \E skip \in 0 .. Len(items) - Len(read.items) :
                   /\ read.items = SubSeq(items, skip + 1, skip + Len(read.items))
                   /\ k = 1 => skip = 0
                   /\ read.end = "clean" => skip + Len(read.items) = Len(items)

\* Segments of a whole that follow each other and may leave gaps.
InTurn(segments, whole) ==
    \E from \in [DOMAIN segments -> 0 .. Len(whole)] : \A i \in DOMAIN segments :
        /\ from[i] + Len(segments[i]) <=
               IF i + 1 \in DOMAIN segments THEN from[i + 1] ELSE Len(whole)
        /\ segments[i] = SubSeq(whole, from[i] + 1, from[i] + Len(segments[i]))

\* Retries repeat nothing of a stream: what the attempts read are segments of
\* what was given, one behind the other, in items as long as they fit their
\* prefix and in bytes otherwise.  A body of bytes is sent whole in every attempt
\* (client/request.rs:225-238, types/stream.rs:123-137).
NothingRepeated ==
    \A c \in Calls : served[c] # <<>> =>
        LET items == input[c].items
            read == [k \in DOMAIN served[c] |-> served[c][k].items]
        IN CASE input[c].mode = "bytes" ->
                    \A k \in DOMAIN read :
                        /\ \A j \in DOMAIN read[k] : IsPrefix(read[k][j], items[1])
                        /\ served[c][k].end = "clean" => read[k] = items
             [] input[c].mode = "framed" /\ (\A i \in DOMAIN items : Fits(items[i])) ->
                    InTurn(read, items)
             [] OTHER ->
                    InTurn(FlattenSeq(read), FlattenSeq(Chunks(input[c])))

\* The arguments of a request reach the server as they were set, whatever
\* characters they have and in whatever order the map yields them, behind those
\* of the base URL; or, of a request whose arguments make the URI too long, none
\* of them does.  The three ways to read an argument agree wherever the first
\* value can be decoded (utils.rs:163-195, server/conn.rs:110-188).
ArgumentsArrive ==
    \A c \in Calls : Reading(c) =>
        LET base == input[c].base
            params == ParamsOf(input[c].arguments)
            tooLong == \E order \in Orders(DOMAIN params) :
                           Size(Appended(base, params, order)) > MaxQuery
            carried == IF query[c] = base /\ tooLong THEN {} ELSE DOMAIN params
        IN \A n \in Names :
            /\ Arguments(query[c], n) =
                   Arguments(base, n) \o (IF n \in carried THEN <<params[n]>> ELSE <<>>)
            /\ Argument(query[c], n) # {} =>
                   /\ Argument(query[c], n) = {Arguments(query[c], n)[1]}
                   /\ Argument(query[c], n) = {AllArguments(query[c])[n]}

\* A request returns, with an answer or an error, also when its path is unbound
\* meanwhile or every attempt fails (client/request.rs:227-278).
RequestReturns ==
    []<>(\A c \in Calls : call[c] \in {"idle", "returned", "failed"})

=============================================================================
