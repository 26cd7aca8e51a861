------------------------------- MODULE Daemon -------------------------------
(***************************************************************************)
(* The service processes together with the command lines that talk to      *)
(* them: the IPC server's connections (internal/service/server.go), the    *)
(* client's calls (internal/ipc/client.go) and the commands that start,    *)
(* replace and use a service process (cmd/njuvpn).                         *)
(*                                                                         *)
(* A call is two exchanges on one connection: a ping that has to name the  *)
(* expected configuration, then the command.  The server handles each      *)
(* connection in a goroutine of its own; between any two of its steps the  *)
(* process may be asked to shut down.                                      *)
(***************************************************************************)
EXTENDS Endpoint

CONSTANTS
    Clients,          \* command lines that are run
    Plans,            \* what they may be, together: subset of [Clients -> AllGoals]
    MaxConnections,   \* connections the server accepts at a time (64 in the code)
    MaxConns          \* bound: connections open at a time, on both sides

AllGoals == {"start", "stop", "resources", "restart"}

ASSUME DaemonAssumption ==
    Plans \subseteq [Clients -> AllGoals] /\ MaxConnections \in Nat \ {0} /\ MaxConns \in Nat \ {0}

VARIABLES
    conn,      \* connections: both ends
    res,       \* the connection that holds the place for a resources answer
    cut,       \* Wait has lost patience and closed what was left
    cli        \* command lines

vars == <<endpointVars, conn, res, cut, cli>>

Conns  == 1..MaxConns
NoConn == [peer |-> nobody, srv |-> "closed", late |-> FALSE, here |-> FALSE,
           in |-> "none", out |-> "none", owed |-> FALSE]

\* cmdStart, cmdRestart, cmdStop, cmdResources: what a command line does first.
Begin(g) == [stage |-> CASE g = "start" -> "ensure" [] g = "restart" -> "shutdown" [] OTHER -> "command",
             goal |-> g, why |-> "none", call |-> "none", use |-> nobody, child |-> nobody, asked |-> nobody]

\* Handler phases: backlog and closed, and the points between which others can
\* take a step; "start" is between the read of the state and svc.Start.
HandlerPhases == {"backlog", "arm", "read", "start", "write", "closed"}
Running(c)    == conn[c].srv \notin {"backlog", "closed"}
Handlers(p)   == {c \in Conns : conn[c].peer = p /\ Running(c)}
Closing(p)    == dpc[p] \in Stopping

Stages == {"ensure", "ready", "adopt", "shutdown", "gone", "command", "done", "failed"}
Quick  == {"ensure", "ready", "adopt"}    \* a ping of these stages is one step
Calls  == {"shutdown", "gone", "command"}  \* a call of these is followed step by step

TypeProcesses ==
    /\ dpc \in [Daemons -> Phases] /\ lock \in Daemons \cup {nobody} /\ sock \in Daemons \cup {nobody, leftover}
    /\ file \in Identity /\ mem \in [Daemons -> Identity]
    /\ login \in [Daemons -> BOOLEAN] /\ lost \subseteq Daemons /\ quit \in [Daemons -> BOOLEAN]
    /\ faults \in Nat

Conn == [peer : Daemons \cup {nobody}, srv : HandlerPhases, late : BOOLEAN,
         here : BOOLEAN, in : {"none", "ping", "shutdown"} \cup AllGoals,
         out : {"none", "200", "400", "409", "500"}, owed : BOOLEAN]

TypeConnections ==
    conn \in [Conns -> Conn] /\ res \in [Daemons -> Conns \cup {nobody}] /\ cut \in [Daemons -> BOOLEAN]

Whys == {"none", "ok", "notRunning", "disconnect", "mismatch", "timeout", "exited", "400", "409", "500"}

TypeClients ==
    cli \in [Clients -> [stage : Stages, goal : AllGoals, why : Whys,
                         call : {"none", "pinged", "asked"}, use : Conns \cup {nobody},
                         child : Daemons \cup {nobody}, asked : Daemons \cup {nobody}]]

\* The server's connections are within its limit (connSlots).
WithinLimit == \A p \in Daemons : Cardinality(Handlers(p)) <= MaxConnections

TypeOK == TypeProcesses /\ TypeConnections /\ TypeClients /\ WithinLimit

Init ==
    /\ EndpointInit
    /\ conn = [c \in Conns |-> NoConn]
    /\ res = [p \in Daemons |-> nobody] /\ cut = [p \in Daemons |-> FALSE]
    /\ \E goal \in Plans : cli = [k \in Clients |-> Begin(goal[k])]

(***************************************************************************)
(* The server's side of a connection.  A handler that ends frees its       *)
(* place; the client finds the connection closed.                          *)
(***************************************************************************)
\* A connection in a new state; nothing is left of one that both ends have closed.
Update(c, r) == [conn EXCEPT ![c] = IF r.srv = "closed" /\ ~r.here THEN NoConn ELSE r]

Handler(c, to) == conn' = Update(c, [conn[c] EXCEPT !.srv = to])

\* What is left of the connections cs when their server side is closed: answers
\* that were written stay readable.
Closed(cs) == [c \in Conns |->
    IF c \notin cs THEN conn[c]
    ELSE IF conn[c].here THEN [conn[c] EXCEPT !.srv = "closed", !.out = IF @ # "none" /\ ~conn[c].owed THEN @ ELSE "none"]
    ELSE NoConn]

\* Mutant: the limit is forgotten.
ServeUnlimited(c) ==
    /\ conn[c].srv = "backlog" /\ dpc[conn[c].peer] \in Serving \cup {"unlink"}
    /\ Handler(c, IF Closing(conn[c].peer) THEN "closed" ELSE "arm")
    /\ UNCHANGED <<endpointVars, res, cut, cli>>

\* Serve: a connection beyond the limit, or one that comes while the server is
\* closing, is closed at once; the others go to the handler's loop.
Serve(c) ==
    LET p == conn[c].peer IN
    /\ conn[c].srv = "backlog" /\ dpc[p] \in Serving \cup {"unlink"}
    /\ Handler(c, IF Closing(p) \/ Cardinality(Handlers(p)) >= MaxConnections THEN "closed" ELSE "arm")
    /\ UNCHANGED <<endpointVars, res, cut, cli>>

\* handle, top of the loop: a server that is not closing begins a request by
\* setting the idle deadline, also over the one that Shutdown has set meanwhile.
ArmDeadline(c) ==
    /\ conn[c].srv = "arm"
    /\ conn' = Update(c, [conn[c] EXCEPT !.late = FALSE, !.srv = IF cut[conn[c].peer] THEN "closed" ELSE "read"])
    /\ UNCHANGED <<endpointVars, res, cut, cli>>

\* ReadRequest fails.  Any error but the end of the stream, and so a deadline
\* that has passed, is answered 400 before the connection is closed.
ReadFails(c) ==
    LET over == cut[conn[c].peer] \/ (~conn[c].here /\ conn[c].in = "none") IN
    /\ conn[c].srv = "read" /\ (over \/ conn[c].late)
    /\ conn' = Update(c, [conn[c] EXCEPT !.srv = "closed", !.out = IF over THEN @ ELSE "400"])
    /\ UNCHANGED <<endpointVars, res, cut, cli>>

\* ReadRequest succeeds and dispatch executes the request.
Take(c, request) ==
    /\ conn[c].srv = "read" /\ conn[c].in = request
    /\ ~conn[c].late /\ ~cut[conn[c].peer]

Answer(c, code) == conn' = [conn EXCEPT ![c].out = code, ![c].in = "none", ![c].srv = "write", ![c].owed = TRUE]

DispatchPing(c) ==
    /\ Take(c, "ping") /\ Answer(c, "200")
    /\ UNCHANGED <<endpointVars, res, cut, cli>>

\* requestShutdown before the answer: the answer confirms it.
DispatchShutdown(c) ==
    /\ Take(c, "shutdown") /\ Answer(c, "200")
    /\ quit' = [quit EXCEPT ![conn[c].peer] = TRUE]
    /\ UNCHANGED <<dpc, lock, sock, file, mem, login, lost, faults, res, cut, cli>>

\* svc.Stop, which succeeds also when the logout does not; a service that is being
\* closed refuses.
DispatchStop(c) ==
    LET p == conn[c].peer IN
    /\ Take(c, "stop") /\ Answer(c, IF dpc[p] = "serve" THEN "200" ELSE "409")
    /\ IF dpc[p] = "serve" THEN Logout(p) ELSE UNCHANGED <<login, lost, faults>>
    /\ UNCHANGED <<dpc, lock, sock, file, mem, quit, res, cut, cli>>

\* One resources answer at a time is encoded and written.
DispatchResources(c) ==
    LET p == conn[c].peer IN
    /\ Take(c, "resources") /\ Answer(c, IF res[p] = nobody /\ login[p] THEN "200" ELSE "409")
    /\ res' = IF res[p] = nobody THEN [res EXCEPT ![p] = c] ELSE res
    /\ UNCHANGED <<endpointVars, cut, cli>>

\* start, first half: a tunnel that is up is a success.
DispatchStart(c) ==
    /\ Take(c, "start")
    /\ IF login[conn[c].peer] THEN Answer(c, "200")
                              ELSE conn' = [conn EXCEPT ![c].in = "none", ![c].srv = "start"]
    /\ UNCHANGED <<endpointVars, res, cut, cli>>

\* ... second half: the actor executes Start when its turn comes.  One that fails may
\* have been accepted by the server all the same.
StartActs(c) ==
    LET p == conn[c].peer IN
    /\ conn[c].srv = "start"
    /\ \/ /\ dpc[p] = "serve" /\ ~login[p] /\ Answer(c, "200")
          /\ login' = [login EXCEPT ![p] = TRUE] /\ UNCHANGED <<lost, faults>>
       \/ /\ dpc[p] = "serve" /\ ~login[p] /\ Fault /\ Answer(c, "500")
          /\ lost' \in {lost, lost \cup {p}} /\ UNCHANGED login
       \/ /\ dpc[p] # "serve" \/ login[p]
          /\ Answer(c, "409") /\ UNCHANGED <<login, lost, faults>>
    /\ UNCHANGED <<dpc, lock, sock, file, mem, quit, res, cut, cli>>

\* writeResponse, the end of reply (the place for a resources answer is given
\* back) and the check at the top of the loop: no request is begun once the server
\* is closing.
WriteResponse(c) ==
    LET p == conn[c].peer
        gone == cut[p] \/ ~conn[c].here
    IN
    /\ conn[c].srv = "write"
    /\ conn' = Update(c, [conn[c] EXCEPT !.srv = IF gone \/ Closing(p) THEN "closed" ELSE "arm",
                                         !.out = IF gone THEN "none" ELSE @, !.owed = gone])
    /\ res' = IF res[p] = c THEN [res EXCEPT ![p] = nobody] ELSE res
    /\ UNCHANGED <<endpointVars, cut, cli>>

\* The client says nothing for idleTimeout.
IdleTimeout(c) ==
    /\ conn[c].srv = "read" /\ conn[c].in = "none" /\ ~conn[c].late /\ Fault
    /\ conn' = [conn EXCEPT ![c].late = TRUE]
    /\ UNCHANGED <<dpc, lock, sock, file, mem, login, lost, quit, res, cut, cli>>

(***************************************************************************)
(* The rest of Shutdown and Wait.                                          *)
(***************************************************************************)
\* Closing the listener resets the connections nobody has accepted.
ShutListener(p) ==
    /\ CloseListener(p) \/ AbandonListener(p)
    /\ conn' = Closed({c \in Conns : conn[c].peer = p /\ conn[c].srv = "backlog"})
    /\ UNCHANGED <<res, cut, cli>>

\* The read deadline of every registered connection is set to now.
ExpireReads(p) ==
    /\ dpc[p] = "expire" /\ Goto(p, "wait")
    /\ conn' = [c \in Conns |-> IF c \in Handlers(p) THEN [conn[c] EXCEPT !.late = TRUE] ELSE conn[c]]
    /\ UNCHANGED <<lock, sock, file, mem, login, lost, quit, faults, res, cut, cli>>

\* Mutant: the process does not wait for its handlers.
WaitDoneAtOnce(p) ==
    /\ dpc[p] = "wait" /\ Goto(p, "exited")
    /\ conn' = Closed(Handlers(p))
    /\ UNCHANGED <<lock, sock, file, mem, login, lost, quit, faults, res, cut, cli>>

\* Wait: all handlers have ended, and the process with them ...
WaitDone(p) ==
    /\ dpc[p] = "wait" /\ Handlers(p) = {} /\ Goto(p, "exited")
    /\ quit' = [quit EXCEPT ![p] = FALSE]
    /\ UNCHANGED <<lock, sock, file, mem, login, lost, faults, conn, res, cut, cli>>

\* Mutant: the connections that are left are never closed.
WaitForever(p) == FALSE

\* ... or three seconds have passed and the connections are closed.
WaitTimeout(p) ==
    /\ dpc[p] = "wait" /\ Handlers(p) # {} /\ ~cut[p]
    /\ cut' = [cut EXCEPT ![p] = TRUE]
    /\ UNCHANGED <<endpointVars, conn, res, cli>>

Dies(p) ==
    /\ Kill(p)
    /\ conn' = Closed({c \in Conns : conn[c].peer = p})
    /\ res' = [res EXCEPT ![p] = nobody]
    /\ UNCHANGED <<cut, cli>>

(***************************************************************************)
(* Client.CallContext.                                                     *)
(***************************************************************************)
Request(k) == IF cli[k].stage = "shutdown" THEN "shutdown" ELSE cli[k].goal

Reachable == Listening(sock)

\* What the command does with the outcome of a call made in its present stage:
\* ensureService, waitServiceReady, pingUntil, waitServiceGone, cmdRestart, finish.
Ready(k)   == IF cli[k].goal = "restart" THEN "done" ELSE "command"
Outcome(k, o) ==
    LET s == cli[k].stage IN
    CASE s = "ensure" -> IF o = "ok" THEN Ready(k) ELSE IF o = "notRunning" THEN "ready" ELSE "failed"
      [] s \in {"ready", "adopt"} -> IF o = "ok" THEN Ready(k) ELSE IF o = "mismatch" THEN "failed" ELSE s
      [] s = "shutdown" -> IF o = "ok" THEN "gone" ELSE IF o = "notRunning" THEN "ensure" ELSE "failed"
      [] s = "gone" -> IF o = "notRunning" THEN "ensure"
                       ELSE IF o \in {"ok", "disconnect"} THEN "gone" ELSE "failed"
      [] OTHER -> IF o = "ok" \/ (o = "notRunning" /\ cli[k].goal = "stop") THEN "done" ELSE "failed"

\* A command line that has ended: only how is remembered.
Ended(k, to, o) == [Begin(cli[k].goal) EXCEPT !.stage = to, !.why = IF to = "failed" THEN o ELSE "none"]

\* The call of k ends with outcome o and the client closes the connection.  A
\* start that finds nobody spawns a process.
EndCall(k, o) ==
    LET c      == cli[k].use
        spawns == cli[k].stage = "ensure" /\ o = "notRunning"
        to     == Outcome(k, o)
    IN
    /\ conn' = IF c = nobody THEN conn ELSE Update(c, [conn[c] EXCEPT !.here = FALSE, !.out = "none"])
    /\ IF spawns THEN \E p \in Daemons : Spawn(p) /\ cli' = [cli EXCEPT ![k].stage = to, ![k].child = p]
       ELSE /\ cli' = [cli EXCEPT ![k] =
                  IF to \in {"done", "failed"} THEN Ended(k, to, o)
                  ELSE [cli[k] EXCEPT !.call = "none", !.use = nobody, !.stage = to,
                                      !.asked = IF cli[k].stage = "shutdown" /\ o = "ok" THEN conn[c].peer ELSE cli[k].asked]]
            /\ UNCHANGED <<dpc, mem>>
    /\ UNCHANGED <<lock, sock, file, login, lost, quit, res, cut>>

\* dialContext: nobody there, or a connection in the listener's backlog on which
\* the ping is sent.
DialFails(k) ==
    /\ cli[k].stage \in Calls /\ cli[k].call = "none" /\ ~Reachable
    /\ EndCall(k, "notRunning") /\ UNCHANGED faults

Dial(k) ==
    /\ cli[k].stage \in Calls /\ cli[k].call = "none" /\ Reachable
    /\ \E c \in Conns :
        /\ conn[c] = NoConn /\ \A d \in 1..(c - 1) : conn[d] # NoConn
        /\ conn' = [conn EXCEPT ![c] = [NoConn EXCEPT !.peer = sock, !.srv = "backlog", !.here = TRUE, !.in = "ping"]]
        /\ cli' = [cli EXCEPT ![k].call = "pinged", ![k].use = c]
    /\ UNCHANGED <<endpointVars, res, cut>>

ServerClosed(k) == conn[cli[k].use].srv = "closed"
\* An answer is there once its handler has written it.
Answered(k)     == LET r == conn[cli[k].use] IN r.out # "none" /\ r.srv # "write"

\* The ping is answered 200 with the identity of the configuration, which every
\* process of this endpoint has.  A ping ends here ...
PingAnswered(k) ==
    /\ cli[k].call = "pinged" /\ Answered(k) /\ conn[cli[k].use].out = "200"
    /\ cli[k].stage = "gone"
    /\ EndCall(k, "ok") /\ UNCHANGED faults

\* ... other commands send their request.
SendRequest(k) ==
    /\ cli[k].call = "pinged" /\ Answered(k) /\ conn[cli[k].use].out = "200"
    /\ cli[k].stage # "gone" /\ ~ServerClosed(k)
    /\ conn' = [conn EXCEPT ![cli[k].use].in = Request(k), ![cli[k].use].out = "none"]
    /\ cli' = [cli EXCEPT ![k].call = "asked"]
    /\ UNCHANGED <<endpointVars, res, cut>>

\* Any other answer to the ping is taken for a foreign process.
PingRefused(k) ==
    /\ cli[k].call = "pinged" /\ Answered(k) /\ conn[cli[k].use].out # "200"
    /\ EndCall(k, "mismatch") /\ UNCHANGED faults

ReadAnswer(k) ==
    /\ cli[k].call = "asked" /\ Answered(k)
    /\ EndCall(k, IF conn[cli[k].use].out = "200" THEN "ok" ELSE conn[cli[k].use].out) /\ UNCHANGED faults

\* The connection is closed: writing the request fails, or reading finds the end.
Disconnected(k) ==
    /\ cli[k].call # "none" /\ ServerClosed(k)
    /\ \/ ~Answered(k)
       \/ cli[k].call = "pinged" /\ conn[cli[k].use].out = "200" /\ cli[k].stage # "gone"
    /\ EndCall(k, "disconnect") /\ UNCHANGED faults

\* pingService in ensureService, waitServiceReady and pingUntil, as one step: a
\* process that serves answers; one that listens but does not accept yet lets the
\* ping time out; one that is closing its listener has closed the connection, or
\* answered it 400 because its read deadline was set.
Ping(k) ==
    /\ cli[k].stage \in Quick
    /\ \E o \in IF ~Reachable THEN {"notRunning"}
               ELSE IF dpc[sock] \in Serving THEN {"ok"}
               ELSE IF dpc[sock] = "unlink" THEN {"disconnect", "mismatch"} ELSE {"timeout"} :
        EndCall(k, o)
    /\ UNCHANGED faults

\* The call's time is up: the context closes the connection.
CallTimeout(k) ==
    /\ cli[k].call # "none" /\ Fault
    /\ EndCall(k, "timeout")

\* waitServiceReady sees that the process it started has exited: it may have lost
\* against another one, which gets a little time to answer.
ChildExited(k) ==
    /\ cli[k].stage = "ready" /\ dpc[cli[k].child] \in Dead
    /\ cli' = [cli EXCEPT ![k].stage = "adopt", ![k].child = nobody]
    /\ UNCHANGED <<endpointVars, conn, res, cut>>

\* The time of waitServiceReady, pingUntil or waitServiceGone is up.
StageTimeout(k) ==
    /\ cli[k].stage \in {"ready", "adopt", "gone"} /\ cli[k].call = "none" /\ Fault
    /\ cli' = [cli EXCEPT ![k] = Ended(k, "failed", IF cli[k].stage = "adopt" THEN "exited" ELSE "timeout")]
    /\ UNCHANGED <<dpc, lock, sock, file, mem, login, lost, quit, conn, res, cut>>

(***************************************************************************)
(* Specification.                                                          *)
(***************************************************************************)
Frame == UNCHANGED <<conn, res, cut, cli>>

ServerStep(p) ==
    \/ (StartStep(p) \/ BeginQuit(p) \/ CloseSvc(p) \/ ReleaseLease(p)) /\ Frame
    \/ ShutListener(p) \/ ExpireReads(p) \/ WaitDone(p) \/ WaitTimeout(p)

HandlerStep(c) ==
    \/ Serve(c) \/ ArmDeadline(c) \/ ReadFails(c)
    \/ DispatchPing(c) \/ DispatchShutdown(c) \/ DispatchStop(c) \/ DispatchResources(c)
    \/ DispatchStart(c) \/ StartActs(c) \/ WriteResponse(c)

ClientStep(k) ==
    \/ Ping(k) \/ DialFails(k) \/ Dial(k) \/ PingAnswered(k) \/ SendRequest(k)
    \/ PingRefused(k) \/ ReadAnswer(k) \/ Disconnected(k) \/ ChildExited(k)

\* Every command line has ended, or would need one process more than the bound.
Finished ==
    /\ \A k \in Clients : \/ cli[k].stage \in {"done", "failed"}
                          \/ cli[k].stage = "ensure" /\ \A p \in Daemons : dpc[p] # "off"
    /\ UNCHANGED vars

Next ==
    \/ \E p \in Daemons : ServerStep(p) \/ Dies(p) \/ (StartFails(p) /\ Frame) \/ (Signal(p) /\ Frame)
    \/ \E c \in Conns : HandlerStep(c) \/ IdleTimeout(c)
    \/ \E k \in Clients : ClientStep(k) \/ CallTimeout(k) \/ StageTimeout(k)
    \/ Finished

Spec == Init /\ [][Next]_vars

\* Every goroutine of a service process that can take a step takes it.  Nothing is
\* assumed of the command lines, which the user may stop at any point.
Fairness ==
    /\ \A p \in Daemons : WF_vars(ServerStep(p))
    /\ \A c \in Conns : WF_vars(HandlerStep(c))

FairSpec == Spec /\ Fairness

(***************************************************************************)
(* Properties.                                                             *)
(***************************************************************************)
\* Two processes never hold the account's login together: the lease, the order
\* in which RunServer takes a process down and the kernel's release of a dead
\* process's lock hand it over through nobody (server.go, RunServer's comment).  A
\* login that a killed process or a failed logout left on the server is nobody's, and
\* no process waits for the server to forget it.
Account == INSTANCE Slot WITH Holders <- Daemons, held <- {p \in Daemons : login[p]}, lost <- lost
OneLoginPerAccount == Account!Spec

\* What was written into the configuration file as device id or key is never
\* replaced, not even by a process killed in the middle, and a process that
\* serves works with what the file says.
IdentityIsStable ==
    /\ [][/\ file.dev # NoId => file'.dev = file.dev
          /\ file.key # NoId => file'.key = file.key]_file
    /\ [](\A p \in Daemons : dpc[p] \in Serving => complete(file) /\ mem[p] = file)

\* The endpoint tells the truth.  A process that serves can be found: the name
\* leads to its socket and the lock is its own, whatever others have probed,
\* removed or closed.  And one that cannot be found any more has no login: it has
\* logged out, or tried to, or was killed, so that restart may go on to start the next one.
EndpointTellsTheTruth ==
    /\ \A p \in Daemons : dpc[p] \in Serving => sock = p /\ lock = p
    /\ \A k \in Clients : cli[k].stage \in {"ensure", "ready", "adopt"} /\ cli[k].asked # nobody
                            => ~login[cli[k].asked] /\ dpc[cli[k].asked] \notin Serving

\* Its inductive form.  Who holds the lease is told by where a process is; only the
\* holder's socket can have the endpoint's name while it listens, and only a process
\* that serves is logged in ...
LeaseInv ==
    /\ \A p \in Daemons : dpc[p] \in Leasing <=> lock = p
    /\ \A p \in Daemons : Listening(p) => sock = p
    /\ \A p \in Daemons : login[p] => dpc[p] \in Serving

\* ... whoever has a handler, or has written an answer, has got as far as serving and
\* never serves again once it has stopped: so has the one a restart has asked.
Served(p) == p \in Daemons /\ dpc[p] \in Serving \cup Stopping \cup Dead
AskedInv ==
    /\ \A c \in Conns :
        /\ conn[c].srv # "closed" => conn[c].peer \in Daemons
        /\ Running(c) \/ conn[c].out # "none" => Served(conn[c].peer)
    /\ \A k \in Clients :
        /\ cli[k].call # "none" => cli[k].use \in Conns /\ cli[k].stage \in Calls
        /\ cli[k].asked # nobody => Served(cli[k].asked)
        /\ cli[k].asked # nobody /\ cli[k].stage \in Quick => dpc[cli[k].asked] \notin Serving

\* The inductive form of IdentityIsStable: what is about to be renamed over the
\* file says all that the file says.
IdentityInv ==
    \A p \in Daemons :
        /\ dpc[p] \in Serving \cup {"new"} => complete(file) /\ mem[p] = file
        /\ dpc[p] = "rename" =>
            /\ complete(mem[p])
            /\ file.dev # NoId => mem[p].dev = file.dev
            /\ file.key # NoId => mem[p].key = file.key

\* A request that was carried out is answered: its handler ends without having
\* written the answer only if the client has left, the process was killed, or
\* Wait had given it its time.
ExecutedIsAnswered ==
    \A c \in Conns : conn[c].srv = "closed" /\ conn[c].owed /\ conn[c].here
                       => cut[conn[c].peer] \/ dpc[conn[c].peer] = "killed"

\* Its inductive form: no answer is owed between two requests.
OwedInv ==
    /\ \A c \in Conns : conn[c].owed => conn[c].peer \in Daemons /\ conn[c].srv \in {"write", "closed"}
    /\ ExecutedIsAnswered

\* A process that was asked to leave does: neither an idle client nor a deadline
\* that was overwritten keeps it.
QuitEnds == \A p \in Daemons : (quit[p] /\ Alive(p)) ~> (dpc[p] \in Dead)
=============================================================================
