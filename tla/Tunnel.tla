------------------------------- MODULE Tunnel -------------------------------
(***************************************************************************)
(* One tunnel connection from the choice of its node to its end            *)
(* (internal/ztna/node.go and tunnel.go); Session sees of it only that a   *)
(* dial gives a connection or fails, and that a connection may go down.    *)
(*                                                                         *)
(*   - probeNodes: workers dial all candidates, the first that answers is  *)
(*     chosen, the others are closed;                                      *)
(*   - or, on a reconnect, the dial of one node, directly or through the   *)
(*     configured proxy (internal/dial/dial.go), step by step;             *)
(*   - handshakeTunnel on the chosen connection, with a goroutine that     *)
(*     turns a cancellation into a deadline in the past;                   *)
(*   - the connection's own goroutines: readLoop, heartbeatLoop, authLoop, *)
(*     and the bearer that sends through it; each may close it.            *)
(***************************************************************************)
EXTENDS Naturals

CONSTANTS
    Nodes,         \* number of candidate nodes
    MaxProbes,     \* maxConcurrentProbes
    MissLimit      \* heartbeatMissLimit

ASSUME TunnelAssumption ==
    Nodes \in Nat \ {0} /\ MaxProbes \in Nat \ {0} /\ MissLimit \in Nat \ {0}

VARIABLES
    parent, pctx, hctx,     \* contexts that are done: the caller's, of the probes, of the handshake
    jobs,                   \* nodes handed to workers
    worker,                 \* probe workers
    results,                \* the channel of results, of capacity one
    pc, received, got,      \* the caller: StartL3 or Run
    open,                   \* nodes to which a connection is open
    watcher, stopped,       \* watchCancel's goroutine; its done channel is closed
    deadline,               \* of the chosen connection
    link, by, cause,        \* closeOnce: not yet, under way (by whom), over; why
    task,                   \* the connection's goroutines
    writeMu,                \* who holds it
    gap, quiet              \* heartbeatGap; heartbeats really sent since the last frame

contexts == <<parent, pctx, hctx>>
probing  == <<jobs, worker, results>>
caller   == <<pc, received, got>>
shaking  == <<watcher, stopped, deadline>>
running  == <<link, by, cause, task, writeMu, gap, quiet>>
vars     == <<contexts, probing, caller, open, shaking, running>>

nil      == 0
Workers  == 1 .. (IF MaxProbes < Nodes THEN MaxProbes ELSE Nodes)
NoResult == [node |-> nil, ok |-> FALSE]
Loops    == {"read", "heartbeat", "auth"}      \* what the wait group counts
Tasks    == Loops \cup {"uplink"}

Probing     == {"receive", "cancel", "join", "drain"}
Dialling    == {"dial", "http", "CONNECT", "socks5", "arm", "socks5Handshake", "unwatchProxy",
                "leaveProxy", "dialled", "tls"}
Handshaking == Dialling \cup {"request", "answer", "unwatch", "check", "clear"}

TypeProbes ==
    /\ jobs \in 0..Nodes /\ results \in [node : 0..Nodes, ok : BOOLEAN]
    /\ worker \in [Workers -> [pc : {"next", "dial", "reached", "refused", "sendConn", "sendError", "done"},
                               node : 0..Nodes]]
    /\ received \in 0..Nodes /\ got \in 0..Nodes /\ open \subseteq 1..Nodes

TypeCaller ==
    /\ parent \in BOOLEAN /\ pctx \in BOOLEAN /\ hctx \in BOOLEAN
    /\ pc \in Probing \cup Handshaking \cup {"publish", "up", "close", "failed", "gone"}
    /\ watcher \in {"off", "watching", "acting", "joined"} /\ stopped \in BOOLEAN
    /\ deadline \in {"none", "set", "now"}

TypeLink ==
    /\ link \in {"open", "closing", "closed"} /\ by \in Tasks \cup {"nobody", "caller"}
    /\ cause \in {"none", "error", "heartbeat", "asked"}
    /\ task \in [Tasks -> {"off", "wait", "lock", "write", "count", "load", "close", "dead", "done"}]
    /\ writeMu \in Tasks \cup {"nobody"} /\ gap \in Nat /\ quiet \in Nat

TypeOK == TypeProbes /\ TypeCaller /\ TypeLink

\* StartL3 begins with the probes, a reconnect of Run with one node.
Init ==
    /\ parent = FALSE /\ pctx = FALSE /\ hctx = FALSE
    /\ jobs = 0 /\ results = NoResult /\ received = 0 /\ open = {}
    /\ \/ pc = "receive" /\ got = nil /\ worker = [w \in Workers |-> [pc |-> "next", node |-> nil]]
       \/ pc = "dial" /\ got = 1 /\ worker = [w \in Workers |-> [pc |-> "done", node |-> nil]]
    /\ watcher = "off" /\ stopped = FALSE /\ deadline = "none"
    /\ link = "open" /\ by = "nobody" /\ cause = "none"
    /\ task = [t \in Tasks |-> "off"] /\ writeMu = "nobody" /\ gap = 0 /\ quiet = 0

-----------------------------------------------------------------------------
(* The environment: cancellations and timeouts.                              *)

CtxFrame == UNCHANGED <<probing, caller, open, shaking, running>>

\* The command or the session that wants the connection is over.
CancelParent ==
    /\ pc \in Probing \cup Handshaking \cup {"publish"} /\ ~parent
    /\ parent' = TRUE /\ pctx' = TRUE /\ hctx' = TRUE /\ CtxFrame

ProbeTimeout     == pc \in Probing /\ ~pctx /\ pctx' = TRUE /\ UNCHANGED <<parent, hctx>> /\ CtxFrame
HandshakeTimeout == pc \in Handshaking /\ ~hctx /\ hctx' = TRUE /\ UNCHANGED <<parent, pctx>> /\ CtxFrame

-----------------------------------------------------------------------------
(* probeNodes.                                                               *)

WorkerFrame == UNCHANGED <<contexts, caller, shaking, running>>
Worker(w, to) == worker' = [worker EXCEPT ![w].pc = to]
Ended(w)      == worker' = [worker EXCEPT ![w] = [pc |-> "done", node |-> nil]]

\* The next address, unless there is none or the context is done.
TakeJob(w) ==
    /\ worker[w].pc = "next"
    /\ IF jobs < Nodes
       THEN /\ jobs' = jobs + 1
            /\ IF pctx THEN Ended(w) ELSE worker' = [worker EXCEPT ![w] = [pc |-> "dial", node |-> jobs + 1]]
       ELSE Ended(w) /\ UNCHANGED jobs
    /\ UNCHANGED <<results, open>> /\ WorkerFrame

\* fn is dialNodeTLS: it gives out a connection only if its context was not done
\* after the TLS handshake, and closes what it gives up.
dialNodeTLS(w) ==
    /\ worker[w].pc = "dial"
    /\ \/ ~pctx /\ Worker(w, "reached") /\ open' = open \cup {worker[w].node}
       \/ Worker(w, "refused") /\ UNCHANGED open
    /\ UNCHANGED <<jobs, results>> /\ WorkerFrame

\* A late result is closed by the worker itself.
CheckProbe(w) ==
    /\ worker[w].pc \in {"reached", "refused"}
    /\ IF pctx THEN Ended(w) /\ open' = open \ {worker[w].node}
               ELSE Worker(w, IF worker[w].pc = "reached" THEN "sendConn" ELSE "sendError") /\ UNCHANGED open
    /\ UNCHANGED <<jobs, results>> /\ WorkerFrame

Sending(w) == worker[w].pc \in {"sendConn", "sendError"}

SendResult(w) ==
    /\ Sending(w) /\ results = NoResult
    /\ results' = [node |-> worker[w].node, ok |-> worker[w].pc = "sendConn"]
    /\ Worker(w, "next")
    /\ UNCHANGED <<jobs, open>> /\ WorkerFrame

\* Mutant: nobody may be there to receive any more.
SendCannotCancel(w) == FALSE

SendCancelled(w) ==
    /\ Sending(w) /\ pctx /\ Ended(w) /\ open' = open \ {worker[w].node}
    /\ UNCHANGED <<jobs, results>> /\ WorkerFrame

ReceiverFrame == UNCHANGED <<parent, hctx, jobs, worker, shaking, running>>

\* The loop that waits for the first good result.
ReceiveResult ==
    /\ pc = "receive" /\ results # NoResult /\ results' = NoResult
    /\ IF ~pctx /\ results.ok
       THEN got' = results.node /\ pc' = "cancel" /\ UNCHANGED <<received, open>>
       ELSE /\ open' = open \ {results.node} /\ received' = received + 1 /\ UNCHANGED got
            /\ pc' = IF pctx \/ received + 1 = Nodes THEN "cancel" ELSE "receive"
    /\ UNCHANGED pctx /\ ReceiverFrame

ReceiveCancelled ==
    /\ pc = "receive" /\ pctx /\ pc' = "cancel"
    /\ UNCHANGED <<pctx, results, received, got, open>> /\ ReceiverFrame

\* The deferred function: cancel, wait for the workers, close what is left.
CancelProbes ==
    /\ pc = "cancel" /\ pctx' = TRUE /\ pc' = "join"
    /\ UNCHANGED <<results, received, got, open>> /\ ReceiverFrame

JoinWorkers ==
    /\ pc = "join" /\ (\A w \in Workers : worker[w].pc = "done") /\ pc' = "drain"
    /\ UNCHANGED <<pctx, results, received, got, open>> /\ ReceiverFrame

Chosen == IF got = nil THEN "failed" ELSE "request"

\* Mutant: what is in the channel is left there.
DrainNothing ==
    /\ pc = "drain" /\ pc' = Chosen /\ results' = NoResult /\ received' = 0
    /\ UNCHANGED <<pctx, got, open>> /\ ReceiverFrame

DrainResults ==
    /\ pc = "drain" /\ pc' = Chosen /\ results' = NoResult /\ received' = 0
    /\ open' = open \ {results.node}
    /\ UNCHANGED <<pctx, got>> /\ ReceiverFrame

-----------------------------------------------------------------------------
(* dialTunnel and handshakeTunnel.                                           *)

ShakeFrame == UNCHANGED <<contexts, probing, received, running>>

\* The connection is closed and the call fails; the deferred stopCancelWatch has
\* waited for the watcher.
GiveUp ==
    /\ pc' = "failed" /\ open' = open \ {got} /\ got' = nil
    /\ watcher' = "off" /\ deadline' = "none"

\* dialTunnel: the node itself is dialled, or the proxy: an HTTP one (dialProxy) or
\* a SOCKS5 one.
dialTunnel ==
    /\ pc = "dial"
    /\ \/ ~hctx /\ pc' \in {"dialled", "http", "socks5"} /\ open' = open \cup {got} /\ UNCHANGED got
       \/ pc' = "failed" /\ got' = nil /\ UNCHANGED open
    /\ UNCHANGED shaking /\ ShakeFrame

\* The HTTP dialler sets its deadline, then watches the context ...
httpProxyDialer ==
    /\ pc = "http" /\ pc' = "CONNECT" /\ deadline' = "set" /\ watcher' = "watching"
    /\ UNCHANGED <<got, open, stopped>> /\ ShakeFrame

\* ... the SOCKS5 dialler watches first: a cancellation that comes in between is
\* overwritten by the deadline and not heard before that.
socks5ProxyDialer ==
    /\ pc = "socks5" /\ pc' = "arm" /\ watcher' = "watching"
    /\ UNCHANGED <<got, open, stopped, deadline>> /\ ShakeFrame

ArmProxy ==
    /\ pc = "arm" /\ pc' = "socks5Handshake" /\ deadline' = "set"
    /\ UNCHANGED <<got, open, stopped, watcher>> /\ ShakeFrame

\* An exchange with the other end: it succeeds, or fails; with a deadline in the
\* past it fails.  On a failure the deferred functions stop the watcher.
Exchange(from, to) ==
    /\ pc = from /\ stopped' = TRUE
    /\ \/ deadline # "now" /\ pc' = to /\ UNCHANGED <<got, open, watcher, deadline>>
       \/ GiveUp
    /\ ShakeFrame

CONNECT         == Exchange("CONNECT", "unwatchProxy")
socks5Handshake == Exchange("socks5Handshake", "unwatchProxy")

\* stop() of watchContext, which waits for its goroutine; then the context is
\* looked at and the deadline cleared.
StopWatch(from, to) ==
    /\ pc = from /\ watcher = "joined" /\ pc' = to
    /\ UNCHANGED <<got, open, shaking>> /\ ShakeFrame

watchContext == StopWatch("unwatchProxy", "leaveProxy")

LeaveProxy ==
    /\ pc = "leaveProxy" /\ UNCHANGED stopped
    /\ \/ ~hctx /\ pc' = "dialled" /\ deadline' = "none" /\ UNCHANGED <<got, open, watcher>>
       \/ GiveUp
    /\ ShakeFrame

\* dialWithContext: what was dialled for a context that is done is closed.
dialWithContext ==
    /\ pc = "dialled" /\ UNCHANGED stopped
    /\ IF hctx THEN GiveUp ELSE pc' = "tls" /\ UNCHANGED <<got, open, watcher, deadline>>
    /\ ShakeFrame

\* The rest of dialNodeTLS.
TLSHandshake ==
    /\ pc = "tls" /\ UNCHANGED stopped
    /\ \/ ~hctx /\ pc' = "request" /\ UNCHANGED <<got, open, watcher, deadline>>
       \/ GiveUp
    /\ ShakeFrame

\* The deadline, the watcher, the request.
SendHandshake ==
    /\ pc = "request" /\ stopped' = FALSE
    /\ \/ /\ pc' = "answer" /\ deadline' = "set" /\ watcher' = "watching"
          /\ UNCHANGED <<got, open>>
       \/ GiveUp
    /\ ShakeFrame

\* watchCancel's goroutine: it learns of the cancellation first and acts on it later.
WatcherSees ==
    /\ watcher = "watching" /\ hctx /\ watcher' = "acting"
    /\ UNCHANGED <<pc, got, open, stopped, deadline>> /\ ShakeFrame

WatcherActs ==
    /\ watcher = "acting" /\ watcher' = "joined" /\ deadline' = "now"
    /\ UNCHANGED <<pc, got, open, stopped>> /\ ShakeFrame

WatcherStops ==
    /\ watcher = "watching" /\ stopped /\ watcher' = "joined"
    /\ UNCHANGED <<pc, got, open, stopped, deadline>> /\ ShakeFrame

readHandshake == Exchange("answer", "unwatch")

\* Mutant: the watcher is told to stop and not waited for.
stopCancelWatchNoJoin ==
    /\ pc = "unwatch" /\ pc' = "check"
    /\ UNCHANGED <<got, open, shaking>> /\ ShakeFrame

stopCancelWatch == StopWatch("unwatch", "check")

CheckHandshake ==
    /\ pc = "check" /\ UNCHANGED stopped
    /\ IF hctx THEN GiveUp ELSE pc' = "clear" /\ UNCHANGED <<got, open, watcher, deadline>>
    /\ ShakeFrame

ClearDeadline ==
    /\ pc = "clear" /\ UNCHANGED stopped
    /\ \/ pc' = "publish" /\ deadline' = "none" /\ UNCHANGED <<got, open, watcher>>
       \/ GiveUp
    /\ ShakeFrame

-----------------------------------------------------------------------------
(* start, close and the goroutines in between.                               *)

LinkFrame == UNCHANGED <<contexts, probing, received, shaking>>

\* The session takes the connection and starts it, or it comes too late.
start ==
    /\ pc = "publish" /\ UNCHANGED <<got, open, link, by, cause, writeMu, gap, quiet>>
    /\ \/ pc' = "up" /\ task' = [t \in Tasks |-> "wait"]
       \/ pc' = "close" /\ UNCHANGED task
    /\ LinkFrame

\* What goroutine t does next; at "close" it calls close.
Go(t, to) == task' = [task EXCEPT ![t] = to]
TaskFrame == UNCHANGED <<pc, got>> /\ LinkFrame
After(t)  == IF t = "uplink" THEN "wait" ELSE "done"

\* close: the first caller closes the channel, then the socket.  Others wait for
\* it in closeOnce.  t is "caller" for the session.
BeginClose(t, why) ==
    /\ link = "open" /\ link' = "closing" /\ by' = t /\ cause' = why
    /\ UNCHANGED <<open, task, writeMu, gap, quiet>> /\ TaskFrame

CloseSocket ==
    /\ link = "closing" /\ link' = "closed" /\ by' = "nobody" /\ open' = open \ {got}
    /\ UNCHANGED <<cause, task, writeMu, gap, quiet>> /\ TaskFrame

\* close returns, also to those who came second; a writer releases the mutex.
CloseReturns(t) ==
    /\ task[t] \in {"close", "dead"} /\ link = "closed"
    /\ Go(t, After(t)) /\ writeMu' = IF writeMu = t THEN "nobody" ELSE writeMu
    /\ UNCHANGED <<open, link, by, cause, gap, quiet>> /\ TaskFrame

Closing(t) ==
    \/ task[t] = "close" /\ BeginClose(t, "error")
    \/ task[t] = "dead" /\ BeginClose(t, "heartbeat")
    \/ by = t /\ CloseSocket
    \/ CloseReturns(t)

\* write: the mutex, the check of the channel, the write itself.  A heartbeat
\* that was sent counts as unanswered from here on.
Writers == {"heartbeat", "auth", "uplink"}

LockWrite(t) ==
    /\ task[t] = "lock" /\ writeMu = "nobody"
    /\ IF link = "open" THEN Go(t, "write") /\ writeMu' = t
                        ELSE Go(t, "close") /\ UNCHANGED writeMu
    /\ UNCHANGED <<open, link, by, cause, gap, quiet>> /\ TaskFrame

Write(t) ==
    /\ task[t] = "write"
    /\ \/ /\ got \in open /\ writeMu' = "nobody"
          /\ Go(t, IF t = "heartbeat" THEN "count" ELSE "wait")
          /\ quiet' = IF t = "heartbeat" THEN quiet + 1 ELSE quiet
       \/ Go(t, "close") /\ UNCHANGED <<writeMu, quiet>>
    /\ UNCHANGED <<open, link, by, cause, gap>> /\ TaskFrame

\* Something to send: a tick of the heartbeat, a flow to be authorised, a packet
\* (as long as the bearer's callback is registered).
Wake(t) ==
    /\ t \in Writers /\ task[t] = "wait" /\ (t = "uplink" => link # "closed") /\ Go(t, "lock")
    /\ UNCHANGED <<open, link, by, cause, writeMu, gap, quiet>> /\ TaskFrame

\* The case <-t.closeCh of the two loops.
SeeClosed(t) ==
    /\ t \in {"heartbeat", "auth"} /\ task[t] = "wait" /\ link # "open" /\ Go(t, "done")
    /\ UNCHANGED <<open, link, by, cause, writeMu, gap, quiet>> /\ TaskFrame

\* Mutant: the check comes before the count, and so one tick late.
CheckBeforeCount ==
    /\ task["heartbeat"] = "count" /\ gap' = gap + 1
    /\ Go("heartbeat", IF gap >= MissLimit THEN "dead" ELSE "wait")
    /\ UNCHANGED <<open, link, by, cause, writeMu, quiet>> /\ TaskFrame

\* heartbeatGap.Add, then Load: readLoop may store zero before either.
CountHeartbeat ==
    /\ task["heartbeat"] = "count" /\ gap' = gap + 1 /\ Go("heartbeat", "load")
    /\ UNCHANGED <<open, link, by, cause, writeMu, quiet>> /\ TaskFrame

LoadGap ==
    /\ task["heartbeat"] = "load" /\ Go("heartbeat", IF gap >= MissLimit THEN "dead" ELSE "wait")
    /\ UNCHANGED <<open, link, by, cause, writeMu, gap, quiet>> /\ TaskFrame

\* readLoop: a frame clears the count and is handled; one that makes no sense, or
\* says that the login is gone, ends the connection.
ReadFrame ==
    /\ task["read"] = "wait" /\ got \in open /\ gap' = 0 /\ quiet' = 0
    /\ Go("read", "wait") \/ Go("read", "close")
    /\ UNCHANGED <<open, link, by, cause, writeMu>> /\ TaskFrame

\* An answer to an authorisation makes readLoop itself write the waiting packets.
ReadLoopWrites ==
    /\ task["read"] = "wait" /\ got \in open /\ gap' = 0 /\ quiet' = 0 /\ Go("read", "lock")
    /\ UNCHANGED <<open, link, by, cause, writeMu>> /\ TaskFrame

\* The read fails: the socket is closed, here or there, or its deadline has passed.
ReadFails ==
    /\ task["read"] = "wait" /\ Go("read", "close")
    /\ UNCHANGED <<open, link, by, cause, writeMu, gap, quiet>> /\ TaskFrame

\* Close, by the session: close, then the wait for the three loops.
CloseCalled ==
    /\ pc = "up" /\ pc' = "close"
    /\ UNCHANGED <<got, open, running>> /\ LinkFrame

CallerCloses ==
    \/ pc = "close" /\ BeginClose("caller", "asked")
    \/ by = "caller" /\ CloseSocket

WaitLoops ==
    /\ pc = "close" /\ link = "closed" /\ \A t \in Loops : task[t] \in {"off", "done"}
    /\ pc' = "gone" /\ UNCHANGED <<got, open, running>> /\ LinkFrame

-----------------------------------------------------------------------------
ProbeStep(w) == TakeJob(w) \/ dialNodeTLS(w) \/ CheckProbe(w) \/ SendResult(w) \/ SendCancelled(w)
CallerStep   == ReceiveResult \/ ReceiveCancelled \/ CancelProbes \/ JoinWorkers \/ DrainResults
                \/ dialTunnel \/ httpProxyDialer \/ CONNECT \/ socks5ProxyDialer \/ ArmProxy \/ socks5Handshake
                \/ watchContext \/ LeaveProxy \/ dialWithContext \/ TLSHandshake \/ SendHandshake \/ readHandshake \/ stopCancelWatch \/ CheckHandshake
                \/ ClearDeadline \/ start \/ CallerCloses \/ WaitLoops
WatcherStep  == WatcherSees \/ WatcherActs \/ WatcherStops
TaskStep(t)  == LockWrite(t) \/ Write(t) \/ SeeClosed(t) \/ Closing(t)
HeartbeatStep == CountHeartbeat \/ LoadGap

\* The call has failed, or the connection was closed and its goroutines are gone.
Over == pc \in {"failed", "gone"} /\ UNCHANGED vars

Next ==
    \/ CancelParent \/ ProbeTimeout \/ HandshakeTimeout
    \/ \E w \in Workers : ProbeStep(w)
    \/ CallerStep \/ WatcherStep
    \/ \E t \in Tasks : TaskStep(t) \/ Wake(t)
    \/ HeartbeatStep \/ ReadFrame \/ ReadLoopWrites \/ ReadFails
    \/ CloseCalled \/ Over

Spec == Init /\ [][Next]_vars

\* Fairness: goroutines that can go on do.  A dial, a handshake or a write ends, by
\* its deadline if by nothing else; a socket that is closed wakes its reader.  The
\* peer is not obliged to answer, nor anybody to cancel, close or send.
Fairness ==
    /\ \A w \in Workers : WF_vars(ProbeStep(w))
    /\ WF_vars(CallerStep) /\ WF_vars(WatcherStep)
    /\ \A t \in Tasks : WF_vars(TaskStep(t))
    /\ WF_vars(HeartbeatStep) /\ WF_vars(link = "closed" /\ ReadFails)

FairSpec == Spec /\ Fairness

-----------------------------------------------------------------------------
(* Properties.                                                               *)

\* No connection is lost: when probeNodes has returned at most the chosen one is
\* open, and none when the call has failed or the connection was closed, whichever
\* of receiver, worker and drain had it when the context was done (node.go).
NothingLeaks ==
    /\ pc \notin Probing => open \subseteq {got}
    /\ pc \in {"failed", "gone"} => open = {}

\* Its inductive form: while the probes run every open connection is in somebody's
\* hands, a worker's, the channel's or the caller's; later nobody dials any more.
InHand(n) ==
    \/ n \in {got, results.node}
    \/ \E w \in Workers : worker[w].pc \in {"reached", "sendConn"} /\ worker[w].node = n

LeakInv ==
    /\ \A n \in open : InHand(n)
    /\ \A w \in Workers : worker[w].pc \notin {"next", "done"} => worker[w].node # nil
    /\ pc = "receive" => got = nil /\ received < Nodes
    /\ pc = "dial" => got # nil
    /\ pc \notin Probing \ {"drain"} => \A w \in Workers : worker[w].pc = "done"
    /\ pc \notin Probing => open \subseteq {got}
    /\ pc \in {"dial", "failed"} \/ link = "closed" => open = {}
    /\ pc \notin {"up", "close", "gone"} => link = "open" /\ \A t \in Tasks : task[t] = "off"
    /\ pc = "gone" => link = "closed"

\* A connection is handed over as a clean one, by the proxy's dialler to TLS and
\* after the handshake to the tunnel: the goroutine that watched the context is
\* gone, so that it cannot set a deadline in the past under what runs on the
\* connection by then (handshakeTunnel's comment on the order).
HandoverIsClean ==
    /\ pc \in {"dialled", "tls", "request"} => deadline = "none" /\ watcher \in {"off", "joined"}
    /\ pc \in {"publish", "up"} => deadline = "none" /\ watcher = "joined"

\* Its inductive form: the watcher is joined before its outcome is looked at.
HandoverInv ==
    /\ HandoverIsClean
    /\ pc \in Probing \cup {"dial", "http", "socks5"} => deadline = "none" /\ watcher = "off"
    /\ pc \in {"leaveProxy", "check", "clear"} => watcher = "joined"

\* A peer that says nothing is given up after MissLimit heartbeats, never later,
\* and never while it talks: the counter lags behind by one heartbeat at most, when
\* a frame comes between its writing and its count.
DeathIsTimely ==
    /\ [](quiet <= MissLimit)
    /\ [][task'["heartbeat"] = "dead" /\ task["heartbeat"] # "dead" => quiet + 1 >= MissLimit]_vars

\* Its inductive form: between the write and the count of a heartbeat the counter may
\* be one behind, after a frame in that gap it is one ahead.
GapInv ==
    LET h == task["heartbeat"] IN
    /\ h = "count" => gap <= quiet /\ quiet <= gap + 1
    /\ h # "count" => quiet <= gap /\ gap <= quiet + 1
    /\ gap <= MissLimit
    /\ h \in {"off", "wait", "lock", "write", "count"} => gap < MissLimit

\* Every call returns: a dial gives a connection or fails, and Close ends with the
\* three loops gone.
EveryCallReturns ==
    /\ pc \in Probing \cup Handshaking ~> pc \in {"up", "close", "failed"}
    /\ pc = "close" ~> pc = "gone"
=============================================================================
