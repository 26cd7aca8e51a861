------------------------------ MODULE Session ------------------------------
(***************************************************************************)
(* One login (ztna.Session) and the connections that live on it.  It is    *)
(* made by newSession, which walks through the server's chain of            *)
(* authentication steps; from then on several goroutines share it:          *)
(*                                                                         *)
(*   - the owner of the L3 endpoint: StartL3, later StopL3;                *)
(*   - Run, which keeps the tunnel connection alive;                       *)
(*   - every DialTCP of the proxy, and the streams these return;           *)
(*   - Close, which may come at any time.                                  *)
(*                                                                         *)
(* Whoever learns from the server that the login is gone calls invalidate. *)
(* What the code does under the session's mutex is one step; dialling, the  *)
(* closing of sockets and the waits of Close are steps of their own.        *)
(***************************************************************************)
EXTENDS Naturals, FiniteSets

CONSTANTS
    Dialers,      \* calls of DialTCP, each for one stream
    MaxFailures,  \* maxReconnectFailures
    MaxAttempts,  \* maxTCPDialAttempts
    MaxHops,      \* the limit of continueAuth
    MaxConns      \* bound: tunnel connections that are made

ASSUME SessionAssumption ==
    /\ IsFiniteSet(Dialers) /\ "l3" \notin Dialers /\ "run" \notin Dialers
    /\ MaxFailures \in Nat \ {0} /\ MaxAttempts \in Nat \ {0} /\ MaxHops \in Nat \ {0}
    /\ MaxConns \in Nat

VARIABLES
    login,              \* the authentication chain: place, service, hops, handed out
    devicesOnly,        \* a login for a device operation only
    ticket,             \* the password was accepted
    slot,               \* the server counts this login (or may: nobody has told it otherwise)
    table,              \* the resources are known
    closed, ended,      \* Close was called; the context is cancelled
    failure,            \* the server has ended the login
    active, runDone,    \* the published tunnel connection; the channel of Run
    made, open, lost,   \* tunnel connections: how many, not closed, told "login gone"
    registered,         \* tcpConnections
    sockets,            \* streams whose socket is open
    dials,              \* the wait group
    dialer, owner, run,
    closer,             \* Close: where it is, what it still has to close, closeErr
    inv                 \* what an invalidate in progress still has to close

chain  == <<login, devicesOnly, ticket>>
life   == <<closed, ended, failure>>
tunnel == <<active, runDone, made, open, lost>>
tcp    == <<registered, sockets>>
vars   == <<chain, slot, table, life, tunnel, tcp, dials, dialer, owner, run, closer, inv>>

nil      == 0
NoRun    == [pc |-> "off", conn |-> nil, failures |-> 0, cancelled |-> FALSE]
NoOwner  == [pc |-> "idle", conn |-> nil]
NoKill   == [conn |-> nil, streams |-> {}]
Services == {"", "auth/authCheck", "auth/sms", "auth/sendSms", "other"}
Callers  == Dialers \cup {"l3", "run"}

Init ==
    /\ login = [pc |-> "config", service |-> "", hops |-> 0, out |-> FALSE]
    /\ devicesOnly \in BOOLEAN /\ ticket = FALSE /\ slot = FALSE /\ table = FALSE
    /\ closed = FALSE /\ ended = FALSE /\ failure = FALSE
    /\ active = nil /\ runDone = "none" /\ made = 0 /\ open = {} /\ lost = {}
    /\ registered = {} /\ sockets = {} /\ dials = 0
    /\ dialer = [d \in Dialers |-> [pc |-> "idle", tries |-> 0]]
    /\ owner = NoOwner /\ run = NoRun
    /\ closer = [pc |-> "idle", conn |-> nil, streams |-> {}, err |-> FALSE]
    /\ inv = [p \in Callers |-> NoKill]

-----------------------------------------------------------------------------
(* Logging in.                                                               *)

LoginFrame == UNCHANGED <<devicesOnly, life, tunnel, tcp, dials, dialer, owner, run, inv>>

\* Mutant: the error is returned and nothing else.
LoginFailsOnly == login' = [login EXCEPT !.pc = "failed"] /\ UNCHANGED closer

\* A login that fails before anybody else has the session is closed on the spot;
\* later it is for its owner to close it.
LoginFails ==
    /\ login' = [login EXCEPT !.pc = "failed"]
    /\ closer' = IF login.out THEN closer ELSE [closer EXCEPT !.pc = "mark"]

\* A request of the login: it fails, or the login goes on at next.
Asks(from, next) ==
    /\ login.pc = from
    /\ \/ LoginFails
       \/ login' \in {[login EXCEPT !.pc = pc] : pc \in next} /\ UNCHANGED closer
    /\ UNCHANGED <<ticket, slot, table>> /\ LoginFrame

\* The server may say that it counts this client as logged in; then nothing is left to do, and
\* there is no ticket.  (The request for its manifest, before this one, may fail.)
authConfig ==
    /\ login.pc = "config"
    /\ \/ LoginFails /\ UNCHANGED slot
       \/ login' = [login EXCEPT !.pc = "method"] /\ UNCHANGED <<slot, closer>>
       \/ login' = [login EXCEPT !.pc = "chain"] /\ slot' = TRUE /\ UNCHANGED closer
    /\ UNCHANGED <<ticket, table>> /\ LoginFrame

\* The server may offer no login by password, or none of the configured domain.
pickPasswordMethod == Asks("method", {"password"})

\* The server may have accepted a password and its answer be lost, or lack a ticket.
passwordLogin ==
    /\ login.pc = "password"
    /\ \/ LoginFails /\ slot' \in BOOLEAN /\ UNCHANGED ticket
       \/ /\ login' = [login EXCEPT !.pc = "env"] /\ ticket' = TRUE /\ slot' = TRUE
          /\ UNCHANGED closer
    /\ UNCHANGED table /\ LoginFrame

\* The next service is the one the answer to the password named.
reportEnv ==
    /\ login.pc = "env"
    /\ \/ LoginFails
       \/ \E service \in Services :
             login' = [login EXCEPT !.pc = "chain", !.service = service] /\ UNCHANGED closer
    /\ UNCHANGED <<ticket, slot, table>> /\ LoginFrame

\* One turn of continueAuth, and where its caller goes on.
continueAuth ==
    /\ login.pc = "chain"
    /\ \/ (login.hops = MaxHops \/ login.service \in {"other", "auth/sendSms"}) /\ LoginFails
       \/ /\ login.hops < MaxHops /\ login.service = "auth/authCheck" /\ UNCHANGED closer
          /\ login' = [login EXCEPT !.pc = "check", !.hops = @ + 1]
       \/ /\ login.hops < MaxHops /\ login.service = "auth/sms" /\ UNCHANGED closer
          /\ login' = [login EXCEPT !.pc = "sms", !.hops = 0, !.out = TRUE]
       \/ /\ login.hops < MaxHops /\ login.service = "" /\ UNCHANGED closer
          /\ login' = [login EXCEPT !.pc = IF devicesOnly THEN "ready" ELSE "info",
                                    !.hops = 0, !.out = @ \/ devicesOnly]
    /\ UNCHANGED <<ticket, slot, table>> /\ LoginFrame

\* What an answer means that names a service, or only the id of an SMS.
authStepFromData(service, hasID) ==
    IF service = "auth/sendSms" \/ (service = "" /\ hasID) THEN "auth/sms" ELSE service

authCheck ==
    /\ login.pc = "check"
    /\ \/ LoginFails
       \/ \E service \in Services, hasID \in BOOLEAN :
             /\ login' = [login EXCEPT !.pc = "chain", !.service = authStepFromData(service, hasID)]
             /\ UNCHANGED closer
    /\ UNCHANGED <<ticket, slot, table>> /\ LoginFrame

\* Auth, while the server waits for a code.
Auth ==
    /\ login.pc = "sms" /\ login' = [login EXCEPT !.pc = "submit"]
    /\ UNCHANGED <<ticket, slot, table, closer>> /\ LoginFrame

\* A code that is refused leaves everything as it is.
submitSMS ==
    /\ login.pc = "submit" /\ UNCHANGED <<ticket, slot, table, closer>>
    /\ \/ login' = [login EXCEPT !.pc = "sms"]
       \/ \E service \in Services, hasID \in BOOLEAN :
             login' = [login EXCEPT !.pc = "chain", !.service = authStepFromData(service, hasID)]
    /\ LoginFrame

\* prepare: two requests, then the table is parsed and published.
onlineInfo     == Asks("info", {"resource"})
clientResource == Asks("resource", {"prepare"})

prepare ==
    /\ login.pc = "prepare"
    /\ \/ LoginFails /\ UNCHANGED table
       \/ /\ ~closed /\ table' = TRUE
          /\ login' = [login EXCEPT !.pc = "ready", !.out = TRUE] /\ UNCHANGED closer
    /\ UNCHANGED <<ticket, slot>> /\ LoginFrame

-----------------------------------------------------------------------------
(* invalidate: under the lock the failure is recorded, the context cancelled   *)
(* and a list made of what is open; that is closed afterwards.                 *)

invalidate(p) ==
    \/ (failure \/ closed) /\ UNCHANGED <<ended, failure, inv>>
    \/ /\ ~failure /\ ~closed
       /\ failure' = TRUE /\ ended' = TRUE
       /\ inv' = [inv EXCEPT ![p] = [conn |-> active, streams |-> registered]]

CloseListed(p) ==
    /\ open' = open \ {inv[p].conn}
    /\ lost' = lost \cup ({inv[p].conn} \cap open)
    /\ sockets' = sockets \ inv[p].streams /\ registered' = registered \ inv[p].streams
    /\ inv' = [inv EXCEPT ![p] = NoKill]

-----------------------------------------------------------------------------
(* The L3 endpoint: StartL3 and StopL3, called in turn, by the caller of Close.  *)

OwnerFrame == UNCHANGED <<chain, slot, table, closed, dialer, closer>>

StartL3 ==
    /\ owner.pc = "idle" /\ ~closed /\ ~ended /\ table /\ active = nil /\ runDone = "none"
    /\ owner' = [owner EXCEPT !.pc = "dial"] /\ dials' = dials + 1
    /\ UNCHANGED <<ended, failure, tunnel, tcp, run, inv>> /\ OwnerFrame

\* probeNodes and handshakeTunnel.
L3Dial ==
    /\ owner.pc = "dial"
    /\ \/ owner' = NoOwner /\ dials' = dials - 1 /\ UNCHANGED <<made, open, ended, failure, inv>>
       \/ /\ owner' = [owner EXCEPT !.pc = "kill"]
          /\ invalidate("l3") /\ UNCHANGED <<made, open, dials>>
       \/ /\ made < MaxConns /\ made' = made + 1 /\ open' = open \cup {made + 1}
          /\ owner' = [pc |-> "publish", conn |-> made + 1]
          /\ UNCHANGED <<dials, ended, failure, inv>>
    /\ UNCHANGED <<active, runDone, lost, tcp, run>> /\ OwnerFrame

L3Kill ==
    /\ owner.pc = "kill" /\ owner' = NoOwner /\ dials' = dials - 1
    /\ CloseListed("l3")
    /\ UNCHANGED <<ended, failure, active, runDone, made, run>> /\ OwnerFrame

\* A connection that comes too late (also: for the command that wanted it) is closed.
L3Publish ==
    /\ owner.pc = "publish" /\ dials' = dials - 1
    /\ \/ owner' = NoOwner /\ open' = open \ {owner.conn} /\ UNCHANGED active
       \/ /\ ~closed /\ ~ended /\ active' = owner.conn
          /\ owner' = [pc |-> "attach", conn |-> nil] /\ UNCHANGED open
    /\ UNCHANGED <<ended, failure, runDone, made, lost, tcp, run, inv>> /\ OwnerFrame

\* The bearer is attached and Run started, or nothing comes of it.
RunTunnel ==
    /\ owner.pc = "attach"
    /\ \/ owner' = [owner EXCEPT !.pc = "running"] /\ run' = [NoRun EXCEPT !.pc = "start"]
       \/ owner' = [owner EXCEPT !.pc = "stop"] /\ UNCHANGED run
    /\ UNCHANGED <<ended, failure, tunnel, tcp, dials, inv>> /\ OwnerFrame

\* runCancel; the wait for Run.
CancelRun ==
    /\ owner.pc = "running"
    /\ owner' = [owner EXCEPT !.pc = "join"] /\ run' = [run EXCEPT !.cancelled = TRUE]
    /\ UNCHANGED <<ended, failure, tunnel, tcp, dials, inv>> /\ OwnerFrame

JoinRun ==
    /\ owner.pc = "join" /\ run.pc = "off" /\ owner' = [owner EXCEPT !.pc = "stop"]
    /\ run' = NoRun
    /\ UNCHANGED <<ended, failure, tunnel, tcp, dials, inv>> /\ OwnerFrame

\* Mutant: the channel of the last Run stays.
StopL3KeepsRun ==
    /\ owner.pc = "stop" /\ closer.pc = "idle"
    /\ owner' = [pc |-> "drop", conn |-> active] /\ active' = nil
    /\ UNCHANGED <<ended, failure, runDone, made, open, lost, tcp, dials, run, inv>> /\ OwnerFrame

StopL3 ==
    /\ owner.pc = "stop" /\ closer.pc = "idle"
    /\ owner' = [pc |-> "drop", conn |-> active] /\ active' = nil /\ runDone' = "none"
    /\ UNCHANGED <<ended, failure, made, open, lost, tcp, dials, run, inv>> /\ OwnerFrame

StopL3Close ==
    /\ owner.pc = "drop" /\ owner' = NoOwner /\ open' = open \ {owner.conn}
    /\ UNCHANGED <<ended, failure, active, runDone, made, lost, tcp, dials, run, inv>> /\ OwnerFrame

-----------------------------------------------------------------------------
(* Run.                                                                      *)

RunFrame == UNCHANGED <<chain, slot, table, closed, tcp, dials, dialer, owner, closer, made>>
runOver  == ended \/ run.cancelled
Return   == run' = [NoRun EXCEPT !.cancelled = run.cancelled]

RunStart ==
    /\ run.pc = "start"
    /\ \/ closed /\ Return /\ UNCHANGED runDone
       \/ ~closed /\ runDone' = "open" /\ run' = [run EXCEPT !.pc = "load"]
    /\ UNCHANGED <<ended, failure, active, open, lost, inv>> /\ RunFrame

RunLoad ==
    /\ run.pc = "load"
    /\ \/ active = nil /\ Return /\ runDone' = "closed"
       \/ active # nil /\ run' = [run EXCEPT !.pc = "wait", !.conn = active] /\ UNCHANGED runDone
    /\ UNCHANGED <<ended, failure, active, open, lost, inv>> /\ RunFrame

\* Cancelled, or the connection is down; either way it is closed.
RunWait ==
    /\ run.pc = "wait" /\ (runOver \/ run.conn \notin open)
    /\ open' = open \ {run.conn}
    /\ \/ runOver /\ Return /\ runDone' = "closed" /\ UNCHANGED <<ended, failure, inv>>
       \/ /\ ~runOver /\ run.conn \in lost /\ invalidate("run")
          /\ run' = [run EXCEPT !.pc = "kill"] /\ UNCHANGED runDone
       \/ /\ ~runOver /\ run.conn \notin lost
          /\ run' = [run EXCEPT !.pc = "redial", !.conn = nil]
          /\ UNCHANGED <<ended, failure, runDone, inv>>
    /\ UNCHANGED <<active, lost>> /\ RunFrame

RunKill ==
    /\ run.pc = "kill" /\ Return /\ runDone' = "closed" /\ CloseListed("run")
    /\ UNCHANGED <<chain, slot, table, life, active, made, dials, dialer, owner, closer>>

\* One attempt on the next node.
RunDial ==
    /\ run.pc = "redial"
    /\ \/ runOver /\ Return /\ runDone' = "closed" /\ UNCHANGED <<ended, failure, active, made, open, inv>>
       \/ /\ ~runOver /\ made < MaxConns /\ made' = made + 1 /\ open' = open \cup {made + 1}
          /\ run' = [run EXCEPT !.pc = "publish", !.conn = made + 1]
          /\ UNCHANGED <<ended, failure, active, runDone, inv>>
       \/ /\ ~runOver /\ invalidate("run") /\ run' = [run EXCEPT !.pc = "kill"]
          /\ UNCHANGED <<active, runDone, made, open>>
       \/ /\ ~runOver /\ run.failures + 1 < MaxFailures
          /\ run' = [run EXCEPT !.failures = @ + 1]
          /\ UNCHANGED <<ended, failure, active, runDone, made, open, inv>>
       \/ /\ ~runOver /\ run.failures + 1 = MaxFailures
          /\ active' = nil /\ Return /\ runDone' = "closed"
          /\ UNCHANGED <<ended, failure, made, open, inv>>
    /\ UNCHANGED <<chain, slot, table, closed, lost, tcp, dials, dialer, owner, closer>>

RunPublish ==
    /\ run.pc = "publish"
    /\ \/ /\ closed \/ runOver
          /\ Return /\ runDone' = "closed" /\ open' = open \ {run.conn} /\ UNCHANGED active
       \/ /\ ~closed /\ ~runOver /\ active' = run.conn
          /\ run' = [run EXCEPT !.pc = "load", !.conn = nil, !.failures = 0]
          /\ UNCHANGED <<runDone, open>>
    /\ UNCHANGED <<ended, failure, lost, inv>> /\ RunFrame

\* The published connection goes down by itself, for whatever reason.
LinkDies(c) ==
    /\ c \in open /\ c = active /\ open' = open \ {c}
    /\ lost' \in {lost, lost \cup {c}}
    /\ UNCHANGED <<chain, slot, table, life, active, runDone, made, tcp, dials, dialer, owner, run,
                   closer, inv>>

-----------------------------------------------------------------------------
(* DialTCP and its streams.                                                  *)

DialFrame == UNCHANGED <<chain, slot, table, closed, active, runDone, made, owner, run, closer>>

At(pc) == [pc |-> pc, tries |-> 0]

DialTCP(d) ==
    /\ dialer[d].pc = "idle" /\ ~closed /\ ~ended /\ table
    /\ dialer' = [dialer EXCEPT ![d].pc = "dial"] /\ dials' = dials + 1
    /\ UNCHANGED <<ended, failure, open, lost, tcp, inv>> /\ DialFrame

\* One attempt: one (address, node) pair.
dialTCPNode(d) ==
    /\ dialer[d].pc = "dial"
    /\ \/ /\ dialer' = [dialer EXCEPT ![d] = At("publish")] /\ sockets' = sockets \cup {d}
          /\ UNCHANGED <<dials, ended, failure, inv>>
       \/ /\ dialer' = [dialer EXCEPT ![d] = At("kill")] /\ invalidate(d)
          /\ UNCHANGED <<sockets, dials>>
       \/ /\ ~ended /\ dialer[d].tries + 1 < MaxAttempts
          /\ dialer' = [dialer EXCEPT ![d].tries = @ + 1]
          /\ UNCHANGED <<sockets, dials, ended, failure, inv>>
       \/ /\ dialer' = [dialer EXCEPT ![d] = At("over")] /\ dials' = dials - 1
          /\ UNCHANGED <<sockets, ended, failure, inv>>
    /\ UNCHANGED <<open, lost, registered>> /\ DialFrame

DialKill(d) ==
    /\ dialer[d].pc = "kill" /\ dialer' = [dialer EXCEPT ![d].pc = "over"] /\ dials' = dials - 1
    /\ CloseListed(d)
    /\ UNCHANGED <<ended, failure>> /\ DialFrame

\* Mutant: only Close is looked for.
DialPublishClosedOnly(d) ==
    /\ dialer[d].pc = "publish"
    /\ \/ dialer' = [dialer EXCEPT ![d].pc = "discard"] /\ UNCHANGED <<registered, dials>>
       \/ /\ ~closed /\ registered' = registered \cup {d}
          /\ dialer' = [dialer EXCEPT ![d].pc = "open"] /\ dials' = dials - 1
    /\ UNCHANGED <<ended, failure, open, lost, sockets, inv>> /\ DialFrame

\* Mutant: the wait group is released twice.
DialPublishDone(d) ==
    /\ dialer[d].pc = "publish" /\ dials' = dials - 1
    /\ \/ dialer' = [dialer EXCEPT ![d].pc = "discard"] /\ UNCHANGED registered
       \/ /\ ~closed /\ ~ended /\ registered' = registered \cup {d}
          /\ dialer' = [dialer EXCEPT ![d].pc = "open"]
    /\ UNCHANGED <<ended, failure, open, lost, sockets, inv>> /\ DialFrame

\* The session takes the stream, or (its caller gave up, or too late) it is closed.
DialPublish(d) ==
    /\ dialer[d].pc = "publish"
    /\ \/ dialer' = [dialer EXCEPT ![d].pc = "discard"] /\ UNCHANGED <<registered, dials>>
       \/ /\ ~closed /\ ~ended /\ registered' = registered \cup {d}
          /\ dialer' = [dialer EXCEPT ![d].pc = "open"] /\ dials' = dials - 1
    /\ UNCHANGED <<ended, failure, open, lost, sockets, inv>> /\ DialFrame

DialDiscard(d) ==
    /\ dialer[d].pc = "discard" /\ sockets' = sockets \ {d}
    /\ dialer' = [dialer EXCEPT ![d].pc = "over"] /\ dials' = dials - 1
    /\ UNCHANGED <<ended, failure, open, lost, registered, inv>> /\ DialFrame

\* TCPConn.Close by the user of the stream: first the socket, then the entry.
StreamClose(d) ==
    /\ dialer[d].pc = "open" /\ sockets' = sockets \ {d}
    /\ dialer' = [dialer EXCEPT ![d].pc = "forget"]
    /\ UNCHANGED <<ended, failure, open, lost, registered, dials, inv>> /\ DialFrame

StreamForget(d) ==
    /\ dialer[d].pc = "forget" /\ registered' = registered \ {d}
    /\ dialer' = [dialer EXCEPT ![d].pc = "over"]
    /\ UNCHANGED <<ended, failure, open, lost, sockets, dials, inv>> /\ DialFrame

-----------------------------------------------------------------------------
(* Close.                                                                    *)

CloseFrame == UNCHANGED <<chain, table, failure, runDone, made, lost, dials, dialer, owner, run, inv>>
GoOn(from, to) == closer.pc = from /\ closer' = [closer EXCEPT !.pc = to]

\* The caller does not close the session in the middle of its own StopL3, and does not
\* stop what it is closing: the service's actor does both.  StartL3 may be under way.
CloseCalled ==
    /\ login.out /\ owner.pc # "drop" /\ GoOn("idle", "mark")
    /\ UNCHANGED <<slot, closed, ended, active, open, tcp>> /\ CloseFrame

CloseMark ==
    /\ closer.pc = "mark"
    /\ closed' = TRUE /\ ended' = TRUE /\ active' = nil
    /\ closer' = [closer EXCEPT !.pc = "streams", !.conn = active, !.streams = registered]
    /\ UNCHANGED <<slot, open, tcp>> /\ CloseFrame

CloseStreams ==
    /\ closer.pc = "streams" /\ closer' = [closer EXCEPT !.pc = "dials", !.streams = {}]
    /\ sockets' = sockets \ closer.streams /\ registered' = registered \ closer.streams
    /\ UNCHANGED <<slot, closed, ended, active, open>> /\ CloseFrame

\* Mutant: calls that are still dialling are not waited for.
CloseDialsNoWait ==
    /\ GoOn("dials", "conn")
    /\ UNCHANGED <<slot, closed, ended, active, open, tcp>> /\ CloseFrame

CloseDials ==
    /\ dials = 0 /\ GoOn("dials", "conn")
    /\ UNCHANGED <<slot, closed, ended, active, open, tcp>> /\ CloseFrame

CloseTunnel ==
    /\ closer.pc = "conn" /\ closer' = [closer EXCEPT !.pc = "run", !.conn = nil]
    /\ open' = open \ {closer.conn}
    /\ UNCHANGED <<slot, closed, ended, active, tcp>> /\ CloseFrame

CloseRun ==
    /\ runDone # "open" /\ GoOn("run", "logout")
    /\ UNCHANGED <<slot, closed, ended, active, open, tcp>> /\ CloseFrame

\* Only a login with a ticket is logged out.  That is tried once: when it errs or runs into
\* controlTimeout the server may or may not have ended the login, and Close says so.
logout ==
    /\ closer.pc = "logout"
    /\ \/ ~ticket /\ slot' = slot /\ closer' = [closer EXCEPT !.pc = "done"]
       \/ ticket /\ slot' = FALSE /\ closer' = [closer EXCEPT !.pc = "done"]
       \/ ticket /\ slot' \in {slot, FALSE} /\ closer' = [closer EXCEPT !.pc = "done", !.err = TRUE]
    /\ UNCHANGED <<closed, ended, active, open, tcp>> /\ CloseFrame

-----------------------------------------------------------------------------
LoginSteps == authConfig \/ pickPasswordMethod \/ passwordLogin \/ reportEnv \/ continueAuth \/ authCheck
              \/ Auth \/ submitSMS \/ onlineInfo \/ clientResource \/ prepare
OwnerSteps == StartL3 \/ L3Dial \/ L3Kill \/ L3Publish \/ RunTunnel \/ CancelRun \/ JoinRun
              \/ StopL3 \/ StopL3Close
RunSteps   == RunStart \/ RunLoad \/ RunWait \/ RunKill \/ RunDial \/ RunPublish
DialSteps(d) == DialTCP(d) \/ dialTCPNode(d) \/ DialKill(d) \/ DialPublish(d) \/ DialDiscard(d)
                \/ StreamClose(d) \/ StreamForget(d)
CloseSteps == CloseMark \/ CloseStreams \/ CloseDials \/ CloseTunnel \/ CloseRun \/ logout

Next == \/ LoginSteps \/ OwnerSteps \/ RunSteps \/ CloseSteps \/ CloseCalled
        \/ \E d \in Dialers : DialSteps(d)
        \/ \E c \in 1 .. MaxConns : LinkDies(c)

Spec == Init /\ [][Next]_vars

\* Fairness: dialling, closing and Run go on (every wait of theirs has a timeout
\* or ends with the session's context), and so does a Close that was called.  Users,
\* the service and the failure of links are not assumed to act.
Fairness ==
    /\ WF_vars(CloseSteps) /\ WF_vars(RunSteps)
    /\ WF_vars(L3Dial \/ L3Kill \/ L3Publish \/ StopL3Close)
    /\ \A d \in Dialers : WF_vars(dialTCPNode(d) \/ DialKill(d) \/ DialPublish(d) \/ DialDiscard(d))

FairSpec == Spec /\ Fairness

-----------------------------------------------------------------------------
(* Properties.                                                               *)

TypeLogin ==
    login \in [pc : {"config", "method", "password", "env", "chain", "check", "sms", "submit",
                     "info", "resource", "prepare", "ready", "failed"},
               service : Services, hops : 0 .. MaxHops, out : BOOLEAN]
TypeFlags ==
    /\ devicesOnly \in BOOLEAN /\ ticket \in BOOLEAN /\ slot \in BOOLEAN /\ table \in BOOLEAN
    /\ closed \in BOOLEAN /\ ended \in BOOLEAN /\ failure \in BOOLEAN
TypeTunnel ==
    /\ made \in Nat /\ active \in Nat /\ runDone \in {"none", "open", "closed"}
    /\ open \subseteq Nat /\ lost \subseteq Nat
    /\ owner \in [pc : {"idle", "dial", "kill", "publish", "attach", "running", "join", "stop", "drop"},
                  conn : Nat]
    /\ run \in [pc : {"off", "start", "load", "wait", "kill", "redial", "publish"}, conn : Nat,
                failures : Nat, cancelled : BOOLEAN]
TypeTCP ==
    /\ registered \subseteq Dialers /\ sockets \subseteq Dialers /\ dials \in Nat
    /\ dialer \in [Dialers -> [pc : {"idle", "dial", "kill", "publish", "discard", "open", "forget",
                                     "over"}, tries : Nat]]
    /\ closer \in [pc : {"idle", "mark", "streams", "dials", "conn", "run", "logout", "done"},
                   conn : Nat, streams : SUBSET Dialers, err : BOOLEAN]
    /\ inv \in [Callers -> [conn : Nat, streams : SUBSET Dialers]]

\* Every variable keeps its type; in particular the wait group of the dials does
\* not go below zero, at which it would panic.
TypeOK == TypeLogin /\ TypeFlags /\ TypeTunnel /\ TypeTCP

\* No socket is lost: a tunnel connection that is open is published or in the hands
\* of somebody who is about to publish or close it, and so is a stream; and whatever
\* Close found going on, nothing of the session is left when it returns: no
\* connection, no stream, no dial, no Run, and no login on the server that it had a ticket
\* for, unless it returns the error of the logout.
LoggedOut == slot /\ ticket => closer.err
ClosedIsClean ==
    /\ \A c \in open : c \in {active, owner.conn, run.conn, closer.conn} \ {nil}
    /\ \A d \in sockets : d \in registered \/ dialer[d].pc \in {"publish", "discard"}
    /\ closer.pc = "done" => open = {} /\ sockets = {} /\ dials = 0 /\ runDone # "open" /\ LoggedOut

\* Its inductive form.  The wait group counts the calls that dial ...
Pending == {d \in Dialers : dialer[d].pc \in {"dial", "kill", "publish", "discard"}}
           \cup {p \in {"l3"} : owner.pc \in {"dial", "kill", "publish"}}
DialsInv == dials = Cardinality(Pending)

\* ... a login that was not handed out has no table, no endpoint and no Close but its own ...
LoginInv ==
    /\ login.pc \in {"config", "method", "password", "env"} => ~login.out
    /\ ~login.out /\ login.pc # "failed" => closer.pc = "idle"
    /\ table => login.out
    /\ owner.pc # "idle" => table

\* ... every tunnel connection that is open is in one pair of hands, and Run leaves a
\* connection only when it is closed ...
Connections == {active, owner.conn, run.conn, closer.conn} \ {nil}
HandsInv ==
    /\ \A c \in open : c \in Connections
    /\ active <= made /\ owner.conn <= made /\ run.conn <= made
    /\ owner.conn # nil => owner.pc \in {"publish", "drop"}
    /\ owner.pc \in {"idle", "dial", "kill", "publish", "drop"} => active = nil
    /\ owner.pc \in {"idle", "dial", "kill", "publish", "drop", "attach"} => runDone = "none"
    /\ run.pc # "off" => owner.pc \in {"running", "join"}
    /\ run.conn # nil => run.pc \in {"wait", "kill", "publish"}
    /\ run.pc \notin {"off", "start"} => runDone = "open"
    /\ run.pc = "wait" => active \in {run.conn, nil}
    /\ run.pc \in {"kill", "redial", "publish"} => active \notin open
    /\ run.pc = "kill" => run.conn \notin open

\* ... and so is every stream ...
StreamsInv ==
    \A d \in sockets : /\ d \in registered \/ dialer[d].pc \in {"publish", "discard"}
                       /\ dialer[d].pc # "forget"

\* ... and each step of Close leaves nothing behind that could come back.
CloseInv ==
    /\ closed <=> closer.pc \notin {"idle", "mark"}
    /\ closed => active = nil
    /\ closer.pc \notin {"streams", "dials", "conn"} => closer.conn = nil
    /\ closer.pc = "streams" => registered \subseteq closer.streams
    /\ closer.pc \in {"dials", "conn", "run", "logout", "done"} => registered = {}
    /\ closer.pc \in {"conn", "run", "logout", "done"} => dials = 0
    /\ closer.pc \in {"logout", "done"} => runDone # "open"
    /\ closer.pc # "idle" => owner.pc # "drop"

\* The last of them is the logout.
LogoutInv == closer.pc = "done" => LoggedOut

\* StartL3 never finds the remains of an earlier L3 task: stopped is startable.
L3CanRestart == owner.pc = "idle" /\ ~closed => active = nil /\ runDone = "none"

\* Once the server has ended the login everything that uses it is closed, also
\* what was still being dialled when the news came, and without a Close.
EndedFallsSilent == failure ~> (open = {} /\ sockets = {})

\* Close ends, whatever is going on; and a login that fails before anybody has the
\* session is closed on the spot and, if its password was accepted and answered with a
\* ticket, logged out (or that was tried): nobody else could do it.
CloseEnds ==
    /\ closer.pc # "idle" ~> closer.pc = "done"
    /\ (login.pc = "failed" /\ ~login.out) ~> (closer.pc = "done" /\ LoggedOut)
=============================================================================
