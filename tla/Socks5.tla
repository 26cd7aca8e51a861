------------------------------- MODULE Socks5 -------------------------------
(***************************************************************************)
(* The local SOCKS5 server (internal/socks5): the accept loop of Run, a    *)
(* goroutine for each client, two more for the directions of its stream,   *)
(* and shutdown, which Close, the end of the context and the end of Run    *)
(* all call.  Service sees of it only that Run starts and ends; the        *)
(* streams to the campus come from Session's DialTCP.                      *)
(***************************************************************************)
EXTENDS Naturals, FiniteSets

CONSTANTS
    Clients,          \* connections that clients open
    MaxConnections, MaxDials

ASSUME Socks5Assumption ==
    /\ IsFiniteSet(Clients)
    /\ MaxConnections \in Nat \ {0} /\ MaxDials \in 1 .. MaxConnections

VARIABLES
    started, closed,     \* Run was called; shutdown was called
    ctx,                 \* Run's context is done
    listening,           \* the listener is open
    srv, accepted,       \* the accept loop; the connection it has in hand
    down, list,          \* the callers of shutdown; what each has to close
    connections,         \* the map of connections
    slots,               \* dialSlots in use
    pc,                  \* the goroutine of each client
    client, upstream,    \* its two sockets
    dir                  \* the two copies of relay

server == <<started, closed, ctx, listening, srv, accepted, down, list>>
conns  == <<connections, slots, pc, client, upstream, dir>>
vars   == <<server, conns>>

nobody     == "nobody"
Closers    == {"close", "context", "run"}
Directions == {"up", "back"}
NoCopies   == [d \in Directions |-> "off"]
Handling   == {"negotiate", "request", "dial", "reply", "relay", "second", "leave", "shut"}

Init ==
    /\ started = FALSE /\ closed = FALSE /\ ctx = FALSE /\ listening = TRUE
    /\ srv = "off" /\ accepted = nobody
    /\ down = [a \in Closers |-> "idle"] /\ list = [a \in Closers |-> {}]
    /\ connections = {} /\ slots = 0
    /\ pc = [c \in Clients |-> "new"] /\ dir = [c \in Clients |-> NoCopies]
    /\ client = [c \in Clients |-> "none"] /\ upstream = [c \in Clients |-> "none"]

Shut(s, C) == [c \in Clients |-> IF c \in C /\ s[c] = "open" THEN "closed" ELSE s[c]]

-----------------------------------------------------------------------------
(* Run and its accept loop.                                                  *)

RunFrame == UNCHANGED <<closed, listening, list>>

Run ==
    /\ srv = "off"
    /\ IF closed THEN srv' = "refused" /\ UNCHANGED started
                 ELSE srv' = "accept" /\ started' = TRUE
    /\ UNCHANGED <<ctx, accepted, down, conns>> /\ RunFrame

\* The parent of Run's context is done.
CancelParent ==
    /\ started /\ ~ctx /\ ctx' = TRUE
    /\ UNCHANGED <<started, srv, accepted, down, conns>> /\ RunFrame

Accept(c) ==
    /\ srv = "accept" /\ listening /\ pc[c] = "new"
    /\ srv' = "register" /\ accepted' = c /\ client' = [client EXCEPT ![c] = "open"]
    /\ UNCHANGED <<started, ctx, down, connections, slots, pc, upstream, dir>> /\ RunFrame

\* Under the mutex: a server that is closed or full takes no more.
Register ==
    LET c == accepted IN
    /\ srv = "register" /\ srv' = "accept" /\ accepted' = nobody
    /\ IF closed \/ Cardinality(connections) >= MaxConnections
       THEN /\ pc' = [pc EXCEPT ![c] = "over"] /\ client' = Shut(client, {c})
            /\ UNCHANGED connections
       ELSE /\ connections' = connections \cup {c} /\ pc' = [pc EXCEPT ![c] = "negotiate"]
            /\ UNCHANGED client
    /\ UNCHANGED <<started, ctx, down, slots, upstream, dir>> /\ RunFrame

\* Mutant: Run leaves the clients of a listener that has failed to themselves.
AcceptFailsOnly ==
    /\ srv = "accept" /\ srv' = "wait" /\ UNCHANGED down
    /\ UNCHANGED <<started, ctx, accepted, conns>> /\ RunFrame

\* The listener is closed, or has failed; the deferred function begins.
AcceptFails ==
    /\ srv = "accept" /\ srv' = "stop"
    /\ down' = [down EXCEPT !["run"] = "mark", !["context"] = IF @ = "idle" THEN "done" ELSE @]
    /\ UNCHANGED <<started, ctx, accepted, conns>> /\ RunFrame

RunStopped ==
    /\ srv = "stop" /\ down["run"] = "done" /\ srv' = "wait"
    /\ UNCHANGED <<started, ctx, accepted, down, conns>> /\ RunFrame

\* Mutant: done is closed before the workers have ended.
WaitForNobody ==
    /\ srv = "wait" /\ srv' = "done"
    /\ UNCHANGED <<started, ctx, accepted, down, conns>> /\ RunFrame

WaitWorkers ==
    /\ srv = "wait" /\ (\A c \in Clients : pc[c] \notin Handling) /\ srv' = "done"
    /\ UNCHANGED <<started, ctx, accepted, down, conns>> /\ RunFrame

-----------------------------------------------------------------------------
(* shutdown, by whoever comes first; for the others it is nothing.            *)

DownFrame == UNCHANGED <<started, srv, accepted, connections, slots, pc, upstream, dir>>

\* context.AfterFunc on Run's context.
ContextDone ==
    /\ ctx /\ down["context"] = "idle" /\ down' = [down EXCEPT !["context"] = "mark"]
    /\ UNCHANGED <<closed, ctx, listening, list, client>> /\ DownFrame

Close ==
    /\ down["close"] = "idle" /\ down' = [down EXCEPT !["close"] = "mark"]
    /\ UNCHANGED <<closed, ctx, listening, list, client>> /\ DownFrame

\* Under the mutex.
MarkClosed(a) ==
    /\ down[a] = "mark" /\ closed' = TRUE
    /\ IF closed THEN down' = [down EXCEPT ![a] = "done"] /\ UNCHANGED list
                 ELSE down' = [down EXCEPT ![a] = "cut"] /\ list' = [list EXCEPT ![a] = connections]
    /\ UNCHANGED <<ctx, listening, client>> /\ DownFrame

\* Outside it: cancel the context, close the listener and what was in the map.
CloseAll(a) ==
    /\ down[a] = "cut" /\ down' = [down EXCEPT ![a] = "done"]
    /\ ctx' = (ctx \/ started) /\ listening' = FALSE
    /\ client' = Shut(client, list[a]) /\ list' = [list EXCEPT ![a] = {}]
    /\ UNCHANGED closed /\ DownFrame

\* Close waits for the end of a Run that was started.
CloseReturns ==
    /\ down["close"] = "done" /\ (started => srv = "done")
    /\ down' = [down EXCEPT !["close"] = "returned"]
    /\ UNCHANGED <<closed, ctx, listening, list, client>> /\ DownFrame

-----------------------------------------------------------------------------
(* handle.                                                                   *)

Goto(c, to) == pc' = [pc EXCEPT ![c] = to]

\* The method and, where configured, the password; whatever is wrong, too slow or
\* not acceptable ends the connection.
negotiate(c) ==
    /\ pc[c] = "negotiate"
    /\ (client[c] = "open" /\ Goto(c, "request")) \/ Goto(c, "leave")
    /\ UNCHANGED <<server, connections, slots, client, upstream, dir>>

\* The request and its address: one that is bad or not supported is answered as
\* far as it can be; a good one takes a slot for its dial, if one is free.
ReadRequest(c) ==
    /\ pc[c] = "request"
    /\ \/ client[c] = "open" /\ slots < MaxDials /\ Goto(c, "dial") /\ slots' = slots + 1
       \/ Goto(c, "leave") /\ UNCHANGED slots
    /\ UNCHANGED <<server, connections, client, upstream, dir>>

\* connect: a stream or an error, at the latest when its time is over; the slot is
\* given back first, then a failure answered.
Connect(c) ==
    /\ pc[c] = "dial" /\ slots' = slots - 1
    /\ \/ upstream' = [upstream EXCEPT ![c] = "open"] /\ Goto(c, "reply")
       \/ Goto(c, "leave") /\ UNCHANGED upstream
    /\ UNCHANGED <<server, connections, client, dir>>

\* context.AfterFunc on both sockets, from the end of the dial on.
StreamCancelled(c) ==
    /\ pc[c] \in {"reply", "relay", "second"} /\ ctx
    /\ client[c] = "open" \/ upstream[c] = "open"
    /\ client' = Shut(client, {c}) /\ upstream' = Shut(upstream, {c})
    /\ UNCHANGED <<server, connections, slots, pc, dir>>

\* successReply; then relay starts its two copies.
Reply(c) ==
    /\ pc[c] = "reply"
    /\ \/ client[c] = "open" /\ Goto(c, "relay") /\ dir' = [dir EXCEPT ![c] = [d \in Directions |-> "copy"]]
       \/ Goto(c, "leave") /\ UNCHANGED dir
    /\ UNCHANGED <<server, connections, slots, client, upstream>>

\* A copy ends: with the end of its source, which is passed on as the end of the
\* other side's input, or with an error.
CopyEOF(c, d) ==
    /\ dir[c][d] = "copy" /\ client[c] = "open" /\ upstream[c] = "open"
    /\ dir' = [dir EXCEPT ![c][d] = "eof"]
    /\ UNCHANGED <<server, connections, slots, pc, client, upstream>>

CopyFails(c, d) ==
    /\ dir[c][d] = "copy" /\ dir' = [dir EXCEPT ![c][d] = "error"]
    /\ UNCHANGED <<server, connections, slots, pc, client, upstream>>

\* Mutant: an error is only reported.
FirstResultOnly(c) ==
    /\ pc[c] = "relay" /\ (\E d \in Directions : dir[c][d] \in {"eof", "error"})
    /\ Goto(c, "second") /\ UNCHANGED <<client, upstream>>
    /\ UNCHANGED <<server, connections, slots, dir>>

\* The first result: an error closes both sockets, an end of data does not.
FirstResult(c) ==
    /\ pc[c] = "relay"
    /\ \E d \in Directions :
        /\ dir[c][d] \in {"eof", "error"}
        /\ client'   = IF dir[c][d] = "error" THEN Shut(client, {c}) ELSE client
        /\ upstream' = IF dir[c][d] = "error" THEN Shut(upstream, {c}) ELSE upstream
    /\ Goto(c, "second")
    /\ UNCHANGED <<server, connections, slots, dir>>

SecondResult(c) ==
    /\ pc[c] = "second" /\ (\A d \in Directions : dir[c][d] # "copy") /\ Goto(c, "leave")
    /\ UNCHANGED <<server, connections, slots, client, upstream, dir>>

\* The deferred functions: of handle (the stream is closed), of the worker (the
\* entry is removed, the client's socket closed, the worker gone).
Leave(c) ==
    /\ pc[c] = "leave" /\ Goto(c, "shut")
    /\ upstream' = Shut(upstream, {c}) /\ connections' = connections \ {c}
    /\ dir' = [dir EXCEPT ![c] = NoCopies]
    /\ UNCHANGED <<server, slots, client>>

CloseClient(c) ==
    /\ pc[c] = "shut" /\ Goto(c, "over") /\ client' = Shut(client, {c})
    /\ UNCHANGED <<server, connections, slots, upstream, dir>>

-----------------------------------------------------------------------------
RunStep    == Register \/ RunStopped \/ WaitWorkers \/ (~listening /\ AcceptFails)
DownStep(a) == MarkClosed(a) \/ CloseAll(a)
HandlerStep(c) == negotiate(c) \/ ReadRequest(c) \/ Connect(c) \/ Reply(c) \/ FirstResult(c) 
                  \/ SecondResult(c) \/ Leave(c) \/ CloseClient(c)

\* Everything has ended.
Over ==
    /\ srv \in {"done", "refused"} /\ (\A a \in Closers : down[a] \in {"idle", "done", "returned"})
    /\ UNCHANGED vars

Next ==
    \/ Run \/ CancelParent \/ RunStep \/ AcceptFails \/ Close \/ ContextDone \/ CloseReturns \/ Over
    \/ \E a \in Closers : DownStep(a)
    \/ \E c \in Clients : Accept(c) \/ HandlerStep(c) \/ StreamCancelled(c)
    \/ \E c \in Clients, d \in Directions : CopyEOF(c, d) \/ CopyFails(c, d)

Spec == Init /\ [][Next]_vars

\* Fairness: goroutines go on.  Reading a request and dialling have deadlines; a
\* copy ends when one of its sockets is closed, otherwise only its peers can end
\* it.  Nobody is obliged to connect, to close or to cancel.
Fairness ==
    /\ WF_vars(RunStep) /\ WF_vars(ContextDone) /\ WF_vars(CloseReturns)
    /\ \A a \in Closers : WF_vars(DownStep(a))
    /\ \A c \in Clients :
        /\ WF_vars(HandlerStep(c)) /\ WF_vars(StreamCancelled(c))
        /\ \A d \in Directions :
              WF_vars((client[c] = "closed" \/ upstream[c] = "closed") /\ CopyFails(c, d))

FairSpec == Spec /\ Fairness

-----------------------------------------------------------------------------
(* Properties.                                                               *)

Sockets == {c \in Clients : client[c] = "open" \/ upstream[c] = "open"}

TypeServer ==
    /\ srv \in {"off", "accept", "register", "stop", "wait", "done", "refused"}
    /\ accepted \in Clients \cup {nobody}
    /\ down \in [Closers -> {"idle", "mark", "cut", "done", "returned"}]
    /\ list \in [Closers -> SUBSET Clients]
TypeClients ==
    /\ connections \subseteq Clients /\ slots \in Nat
    /\ pc \in [Clients -> Handling \cup {"new", "over"}]
    /\ client \in [Clients -> {"none", "open", "closed"}]
    /\ upstream \in [Clients -> {"none", "open", "closed"}]
    /\ dir \in [Clients -> [Directions -> {"off", "copy", "eof", "error"}]]

\* Every variable keeps its type.
TypeOK == TypeServer /\ TypeClients

\* When Close returns, or Run has closed done, nothing of the server is left: no
\* socket, no entry and no slot, whatever was being accepted, dialled or
\* copied; and the limits were never exceeded.
DoneIsClean ==
    /\ srv = "done" \/ down["close"] = "returned"
         => Sockets = {} /\ connections = {} /\ slots = 0 /\ closed
    /\ Cardinality(connections) <= MaxConnections /\ slots <= MaxDials

\* Its inductive form.  Run is started once, and what it waits for has begun: shutdown has
\* marked the server closed before the workers are waited for ...
ServerInv ==
    /\ started <=> srv \notin {"off", "refused"}
    /\ srv = "refused" => closed
    /\ srv \notin {"stop", "wait", "done"} => down["run"] = "idle"
    /\ down["run"] # "returned" /\ down["context"] # "returned"
    /\ down["run"] \in {"cut", "done"} => closed
    /\ down["close"] \in {"cut", "done", "returned"} => closed
    /\ srv \in {"wait", "done"} => down["run"] = "done"
    /\ down["close"] = "returned" => (started => srv = "done")

\* ... a slot belongs to a dial, an entry to a goroutine that will remove it, within the
\* limits ...
Dialling == {c \in Clients : pc[c] = "dial"}
SlotsInv == slots = Cardinality(Dialling) /\ slots <= MaxDials
EntriesInv ==
    /\ connections = {c \in Clients : pc[c] \in Handling \ {"shut"}}
    /\ Cardinality(connections) <= MaxConnections

\* ... a socket that is open has a goroutine that will close it, and Run waits for that ...
SocketsInv ==
    /\ srv = "register" => accepted \in Clients /\ pc[accepted] = "new"
    /\ \A c \in Clients :
        /\ client[c] = "open" => pc[c] \in Handling \/ (srv = "register" /\ accepted = c)
        /\ upstream[c] = "open" => pc[c] \in {"reply", "relay", "second", "leave"}
        /\ pc[c] \in Handling => started /\ srv # "done"

\* ... and as long as nobody ends it, a stream without an error has both its sockets.
StreamIsOpen ==
    \A c \in Clients :
        /\ pc[c] \in {"relay", "second"} /\ \A d \in Directions : dir[c][d] # "error"
        /\ ~closed /\ ~ctx
        => client[c] = "open" /\ upstream[c] = "open"
StreamInv ==
    /\ StreamIsOpen
    /\ \A c \in Clients : ~closed /\ ~ctx =>
        /\ pc[c] \in {"negotiate", "request", "dial", "reply"} => client[c] = "open"
        /\ pc[c] = "reply" => upstream[c] = "open"
    /\ ~closed => \A a \in Closers : down[a] # "cut"
    /\ srv = "register" => client[accepted] = "open"
    /\ \A a \in Closers : \A c \in list[a] : pc[c] # "new"

\* The server ends: after Close, after the end of its context, and when its
\* listener fails while clients are connected.
ServerEnds ==
    /\ started /\ (closed \/ ctx \/ srv \in {"stop", "wait"}) ~> srv = "done"
    /\ down["close"] # "idle" ~> down["close"] = "returned"

\* A stream that has ended in one direction keeps the other until that ends too;
\* one that has failed in one direction ends in both and gives up its place.
HalfCloseIsKept ==
    /\ []StreamIsOpen
    /\ \A c \in Clients : (\E d \in Directions : dir[c][d] = "error") ~> (pc[c] = "over")
=============================================================================
