------------------------------ MODULE Service ------------------------------
(***************************************************************************)
(* The service actor (internal/service): one goroutine owns the shared     *)
(* campus session, executes every command and every report in turn, and    *)
(* starts, stops and waits for the goroutines that serve the two data      *)
(* endpoints.  Everything else runs concurrently with it:                  *)
(*                                                                         *)
(*   - callers of Start, Auth, Stop, ... (IPC connections) and Close;      *)
(*   - the L3 task (runTunnel), the SOCKS task, the session watcher;       *)
(*   - the timer that limits the wait for a verification code;             *)
(*   - the deadline of a queued or running command.                        *)
(*                                                                         *)
(* The actor is sequential but blocks: on control-plane I/O (a login takes *)
(* minutes), on an SMS, on the goroutines it cancelled.  Each place where  *)
(* it can block, and each place where it reads a flag another goroutine    *)
(* writes, is a value of pc; what happens between two of them is one step. *)
(***************************************************************************)
EXTENDS Naturals, Sequences

CONSTANTS
    Stoppers,    \* concurrent callers of Stop
    Closer,      \* the one caller of Close (closeOnce)
    CfgWG,       \* cfg.WireGuard.Enabled
    CfgSOCKS,    \* cfg.SOCKS5.Enabled
    CmdCap,      \* capacity of the command queue (32 in the code)
    EventCap,    \* capacity of the report queue (16 in the code)
    MaxCalls,    \* bound: calls other than Stop and Close
    MaxStops,    \* bound: calls of Stop
    MaxFaults,   \* bound: failures of links, listeners and the shared login
    MaxExpiries  \* bound: command deadlines that pass

ASSUME ServiceAssumption ==
    /\ Closer \notin Stoppers
    /\ CfgWG \in BOOLEAN /\ CfgSOCKS \in BOOLEAN
    /\ CmdCap \in Nat \ {0} /\ EventCap \in Nat \ {0}
    /\ MaxCalls \in Nat /\ MaxStops \in Nat /\ MaxFaults \in Nat /\ MaxExpiries \in Nat

VARIABLES
    \* shared with the callers
    cmds, events,        \* the two channels the actor selects on
    closed,              \* the channel Close closes
    stopPending,         \* "the user asked to disconnect"
    caller,              \* where each Stop/Close call is
    holds,               \* the caller read the cancel function of the running command
    opSet, opDone,       \* opCancel is set; the running command's context is done
    \* actor: where it is, and its locals
    pc, cmd,
    after,               \* where teardown continues
    ret,                 \* where stopSOCKS / stopL3 continue
    epErr,               \* the endpoints that failed to start in this command
    cur,                 \* the session this command created and has not handed over
    \* actor: published status
    state, retrying, wgOn, socksOn,
    \* actor: private fields
    session, pend, pendDev, gen, authSeq, armed, br, bound, socksObj,
    \* session objects
    made,                \* how many were created
    held,                \* logged in on the server, not closed yet
    lost,                \* given up without a logout the server confirmed: it may still
                         \* count them, and nobody logs them out any more
    ended,               \* sessions whose context is cancelled (Done is closed)
    \* goroutines the actor started
    l3, socks, root, socksMade,
    fired,               \* rounds whose timer went off and whose report is not queued yet
    budget

shared  == <<cmds, events, closed, stopPending, caller, holds>>
opVars  == <<opSet, opDone>>
status  == <<state, retrying, wgOn, socksOn>>
fields  == <<session, pend, pendDev>>
wait    == <<authSeq, armed>>
bearer  == <<br, bound>>
objects == <<made, held, lost, ended>>
tasks   == <<l3, socks, root, socksMade>>
vars == <<shared, opVars, pc, cmd, after, ret, epErr, cur, status, fields, gen,
          wait, bearer, socksObj, objects, tasks, fired, budget>>

(***************************************************************************)
(* Session objects are numbered in the order they are created, 0 is nil.   *)
(***************************************************************************)
nil == 0

UserKinds  == {"Start", "Devices", "Auth", "EpStart", "EpStop", "Stop"}
Reports    == {"TunnelDown", "TunnelRetry", "TunnelRestored", "SessionEnded", "SOCKSDown"}
LoginKinds == {"Start", "Devices", "Auth", "EpStart"}

NoCmd == [kind |-> "none", ep |-> "none", gen |-> 0, sess |-> nil, id |-> 0,
          gone |-> FALSE, dead |-> FALSE]
UserCmd(kind, ep)      == [NoCmd EXCEPT !.kind = kind, !.ep = ep]
GenReport(kind, g, gn) == [NoCmd EXCEPT !.kind = kind, !.gen = g, !.gone = gn]

States == {"idle", "logging_in", "auth_pending", "up", "error"}

\* The transition table of the status store; a transition outside it panics.
validTransition(from, to) ==
    \/ from = to
    \/ from = "idle"         /\ to \in {"logging_in", "error"}
    \/ from = "logging_in"   /\ to \in {"auth_pending", "up", "idle", "error"}
    \/ from = "auth_pending" /\ to \in {"up", "idle", "error"}
    \/ from = "up"           /\ to \in {"idle", "error"}
    \/ from = "error"        /\ to \in {"idle", "logging_in"}

NoL3    == [phase |-> "none", gen |-> 0, sess |-> nil, gone |-> FALSE, cancelled |-> FALSE]
NoSOCKS == [phase |-> "none", id |-> 0, sess |-> nil, cancelled |-> FALSE]
NoRoot  == [phase |-> "none", sess |-> nil, cancelled |-> FALSE]

Callers == Stoppers \cup {Closer}

Init ==
    /\ cmds = <<>> /\ events = <<>> /\ closed = FALSE /\ stopPending = FALSE
    /\ caller = [c \in Callers |-> "idle"] /\ holds = [c \in Callers |-> FALSE]
    /\ opSet = FALSE /\ opDone = FALSE
    /\ pc = "select" /\ cmd = NoCmd /\ after = "reply" /\ ret = "reply"
    /\ epErr = {} /\ cur = nil
    /\ state = "idle" /\ retrying = FALSE /\ wgOn = CfgWG /\ socksOn = CfgSOCKS
    /\ session = nil /\ pend = nil /\ pendDev = FALSE
    /\ gen = 0 /\ authSeq = 0 /\ armed = FALSE
    /\ br \in {FALSE, CfgWG} /\ bound = nil          \* New: at most one endpoint may
    /\ socksObj \in {0, IF CfgSOCKS THEN 1 ELSE 0}   \* fail to listen
    /\ (CfgWG \/ CfgSOCKS) => (br \/ socksObj = 1)
    /\ socksMade = socksObj
    /\ made = 0 /\ held = {} /\ lost = {} /\ ended = {}
    /\ l3 = NoL3 /\ socks = NoSOCKS /\ root = NoRoot
    /\ fired = {}
    /\ budget = [call |-> MaxCalls, stop |-> MaxStops, fault |-> MaxFaults,
                 expire |-> MaxExpiries]

Spend(b) == budget[b] > 0 /\ budget' = [budget EXCEPT ![b] = @ - 1]

-----------------------------------------------------------------------------
(* Callers.  Stop and Close set their flag, then read and call opCancel,     *)
(* and only then wait: the two reads of dispatch (ClosedGate, StopGate) come *)
(* after it has set opCancel, so one side always sees the other.             *)

StopStore(c) ==
    /\ caller[c] = "idle" /\ Spend("stop")
    /\ stopPending' = TRUE
    /\ caller' = [caller EXCEPT ![c] = "stored"]
    /\ UNCHANGED <<cmds, events, closed, holds, opVars, pc, cmd, after, ret, epErr, cur,
                   status, fields, gen, wait, bearer, socksObj, objects, tasks, fired>>

CloseStore ==
    /\ caller[Closer] = "idle"
    /\ closed' = TRUE
    /\ caller' = [caller EXCEPT ![Closer] = "stored"]
    /\ UNCHANGED <<cmds, events, stopPending, holds, opVars, pc, cmd, after, ret, epErr, cur,
                   status, fields, gen, wait, bearer, socksObj, objects, tasks, fired, budget>>

\* cancelOp reads opCancel under the lock ...
cancelOpRead(c) ==
    /\ caller[c] = "stored"
    /\ holds' = [holds EXCEPT ![c] = opSet]
    /\ caller' = [caller EXCEPT ![c] = "read"]
    /\ UNCHANGED <<cmds, events, closed, stopPending, opVars, pc, cmd, after, ret, epErr, cur,
                   status, fields, gen, wait, bearer, socksObj, objects, tasks, fired, budget>>

\* ... and calls it outside: by then it may belong to a command that is over.
cancelOpCall(c) ==
    /\ caller[c] = "read"
    /\ opDone' = (opDone \/ holds[c])
    /\ caller' = [caller EXCEPT ![c] = "waiting"]
    /\ holds' = [holds EXCEPT ![c] = FALSE]
    /\ UNCHANGED <<cmds, events, closed, stopPending, opSet, pc, cmd, after, ret, epErr, cur,
                   status, fields, gen, wait, bearer, socksObj, objects, tasks, fired, budget>>

\* Stop waits for room in the queue; it gives up when the service closes or its
\* own deadline passes.  (Close has nothing left to do but wait.)
StopEnqueue(c) ==
    /\ c \in Stoppers /\ caller[c] = "waiting"
    /\ caller' = [caller EXCEPT ![c] = "idle"]
    /\ \/ Len(cmds) < CmdCap /\ cmds' = Append(cmds, UserCmd("Stop", "none")) /\ UNCHANGED budget
       \/ closed /\ UNCHANGED <<cmds, budget>>
       \/ Len(cmds) = CmdCap /\ Spend("expire") /\ UNCHANGED cmds
    /\ UNCHANGED <<events, closed, stopPending, holds, opVars, pc, cmd, after, ret, epErr, cur,
                   status, fields, gen, wait, bearer, socksObj, objects, tasks, fired>>

\* Mutant: no check for room.
CallUnbounded(kind, ep) ==
    /\ Spend("call") /\ cmds' = Append(cmds, UserCmd(kind, ep))
    /\ UNCHANGED <<events, closed, stopPending, caller, holds, opVars, pc, cmd, after, ret, epErr,
                   cur, status, fields, gen, wait, bearer, socksObj, objects, tasks, fired>>

\* Every other call is queued at once or refused (full queue, closing service).
Call(kind, ep) ==
    /\ Spend("call") /\ Len(cmds) < CmdCap
    /\ cmds' = Append(cmds, UserCmd(kind, ep))
    /\ UNCHANGED <<events, closed, stopPending, caller, holds, opVars, pc, cmd, after, ret, epErr,
                   cur, status, fields, gen, wait, bearer, socksObj, objects, tasks, fired>>

\* The deadline that call gives a command passes while it is queued ...
QueuedDeadline(i) ==
    /\ i \in DOMAIN cmds /\ cmds[i].kind \in UserKinds /\ ~cmds[i].dead
    /\ Spend("expire")
    /\ cmds' = [cmds EXCEPT ![i].dead = TRUE]
    /\ UNCHANGED <<events, closed, stopPending, caller, holds, opVars, pc, cmd, after, ret, epErr,
                   cur, status, fields, gen, wait, bearer, socksObj, objects, tasks, fired>>

\* ... or while it runs.
RunningDeadline ==
    /\ opSet /\ ~opDone /\ cmd.kind \in UserKinds
    /\ Spend("expire")
    /\ opDone' = TRUE
    /\ UNCHANGED <<shared, opSet, pc, cmd, after, ret, epErr, cur, status, fields, gen, wait,
                   bearer, socksObj, objects, tasks, fired>>

-----------------------------------------------------------------------------
(* The wait for a verification code.                                         *)

TimerFires ==
    /\ armed /\ armed' = FALSE
    /\ fired' = fired \cup {authSeq}
    /\ UNCHANGED <<shared, opVars, pc, cmd, after, ret, epErr, cur, status, fields, gen, authSeq,
                   bearer, socksObj, objects, tasks, budget>>

reportAuthTimeout(seq) ==
    /\ seq \in fired /\ fired' = fired \ {seq}
    /\ \/ /\ Len(cmds) < CmdCap
          /\ cmds' = Append(cmds, [NoCmd EXCEPT !.kind = "AuthTimeout", !.gen = seq])
       \/ closed /\ UNCHANGED cmds
    /\ UNCHANGED <<events, closed, stopPending, caller, holds, opVars, pc, cmd, after, ret, epErr,
                   cur, status, fields, gen, wait, bearer, socksObj, objects, tasks, budget>>

-----------------------------------------------------------------------------
(* The goroutines the actor started.  report(ctx, e) is a select: it may     *)
(* deliver even when its context is cancelled, and it never blocks then.     *)

report(e, cancelled) ==
    \/ Len(events) < EventCap /\ events' = Append(events, e)
    \/ (closed \/ cancelled) /\ UNCHANGED events

TaskFrame == UNCHANGED <<cmds, closed, stopPending, caller, holds, opVars, pc, cmd, after, ret,
                         epErr, cur, status, fields, gen, wait, bearer, socksObj, made, held, lost,
                         socksMade, fired>>

\* Run(ctx): the context of the task, or the session's own, is done.
l3Over == l3.cancelled \/ l3.sess \in ended

LinkDropped ==
    /\ l3.phase = "run" /\ ~l3Over /\ Spend("fault")
    /\ l3' = [l3 EXCEPT !.phase = "dropped"]
    /\ UNCHANGED <<events, ended, socks, root>> /\ TaskFrame

ReportRetry ==
    /\ l3.phase = "dropped"
    /\ report(GenReport("TunnelRetry", l3.gen, FALSE), l3.cancelled)
    /\ l3' = [l3 EXCEPT !.phase = "redial"]
    /\ UNCHANGED <<ended, socks, root, budget>> /\ TaskFrame

Reconnected ==
    /\ l3.phase = "redial" /\ ~l3Over
    /\ l3' = [l3 EXCEPT !.phase = "restored"]
    /\ UNCHANGED <<events, ended, socks, root, budget>> /\ TaskFrame

ReportRestored ==
    /\ l3.phase = "restored"
    /\ report(GenReport("TunnelRestored", l3.gen, FALSE), l3.cancelled)
    /\ l3' = [l3 EXCEPT !.phase = "run"]
    /\ UNCHANGED <<ended, socks, root, budget>> /\ TaskFrame

\* Too many failed attempts in a row.
GivesUp ==
    /\ l3.phase = "redial" /\ ~l3Over /\ Spend("fault")
    /\ l3' = [l3 EXCEPT !.phase = "ended"]
    /\ UNCHANGED <<events, ended, socks, root>> /\ TaskFrame

\* The server says that the login is gone: the session is invalidated.
L3SessionGone ==
    /\ l3.phase \in {"run", "redial"} /\ ~l3Over /\ Spend("fault")
    /\ l3' = [l3 EXCEPT !.phase = "ended", !.gone = TRUE]
    /\ ended' = ended \cup {l3.sess}
    /\ UNCHANGED <<events, socks, root>> /\ TaskFrame

RunCancelled ==
    /\ l3.phase \in {"run", "redial"} /\ l3Over
    /\ l3' = [l3 EXCEPT !.phase = "ended"]
    /\ UNCHANGED <<events, ended, socks, root, budget>> /\ TaskFrame

ReportDown ==
    /\ l3.phase = "ended"
    /\ report(GenReport("TunnelDown", l3.gen, l3.gone), l3.cancelled)
    /\ l3' = [l3 EXCEPT !.phase = "done"]
    /\ UNCHANGED <<ended, socks, root, budget>> /\ TaskFrame

SOCKSRuns ==
    /\ socks.phase = "starting" /\ ~socks.cancelled
    /\ socks' = [socks EXCEPT !.phase = "up"]
    /\ UNCHANGED <<events, ended, l3, root, budget>> /\ TaskFrame

SOCKSEnds ==
    /\ \/ socks.phase \in {"starting", "up"} /\ socks.cancelled /\ UNCHANGED budget
       \/ socks.phase = "up" /\ ~socks.cancelled /\ Spend("fault")
    /\ socks' = [socks EXCEPT !.phase = "ended"]
    /\ UNCHANGED <<events, ended, l3, root>> /\ TaskFrame

\* A stream the proxy opens learns that the login is gone.
SOCKSSessionGone ==
    /\ socks.phase = "up" /\ socks.sess \notin ended /\ Spend("fault")
    /\ ended' = ended \cup {socks.sess}
    /\ UNCHANGED <<events, l3, socks, root>> /\ TaskFrame

ReportSOCKSDown ==
    /\ socks.phase = "ended"
    /\ report([NoCmd EXCEPT !.kind = "SOCKSDown", !.sess = socks.sess, !.id = socks.id],
              socks.cancelled)
    /\ socks' = [socks EXCEPT !.phase = "done"]
    /\ UNCHANGED <<ended, l3, root, budget>> /\ TaskFrame

\* The watcher that finishConnect leaves behind.
RootSees ==
    /\ root.phase = "watch"
    /\ \/ root.sess \in ended /\ root' = [root EXCEPT !.phase = "ended"]
       \/ root.cancelled /\ root' = [root EXCEPT !.phase = "done"]
    /\ UNCHANGED <<events, ended, l3, socks, budget>> /\ TaskFrame

ReportSessionEnded ==
    /\ root.phase = "ended"
    /\ report([NoCmd EXCEPT !.kind = "SessionEnded", !.sess = root.sess], root.cancelled)
    /\ root' = [root EXCEPT !.phase = "done"]
    /\ UNCHANGED <<ended, l3, socks, budget>> /\ TaskFrame

-----------------------------------------------------------------------------
(* The actor: the loop and dispatch.                                         *)

env  == <<cmds, events, closed, caller, holds, fired, budget>>
goto == <<cmd, after, ret, epErr, cur>>

\* A command whose deadline has passed is answered without being looked at.
Take(queue) ==
    LET c == Head(queue) IN
    /\ pc = "select" /\ queue # <<>>
    /\ \/ c.dead /\ UNCHANGED <<pc, cmd, opSet>>
       \/ ~c.dead /\ pc' = "closedGate" /\ cmd' = c /\ opSet' = TRUE
    /\ UNCHANGED <<closed, stopPending, caller, holds, opDone, after, ret, epErr, cur, status,
                   fields, gen, wait, bearer, socksObj, objects, tasks, fired, budget>>

TakeCommand == Take(cmds) /\ cmds' = Tail(cmds) /\ UNCHANGED events
TakeReport  == Take(events) /\ events' = Tail(events) /\ UNCHANGED cmds

\* No new command once Close has run; reports of running tasks still count.
ClosedGate ==
    /\ pc = "closedGate"
    /\ pc' = IF closed /\ cmd.kind \notin Reports THEN "reply" ELSE "stopGate"
    /\ UNCHANGED <<env, goto, stopPending, opVars, status, fields, gen, wait, bearer, socksObj,
                   objects, tasks>>

\* Mutant: starting an endpoint is not counted among the commands Stop refuses.
StopGateMissesEndpoints ==
    /\ pc = "stopGate"
    /\ pc' = IF stopPending /\ cmd.kind \in {"Start", "Devices", "Auth"} THEN "reply" ELSE "run"
    /\ UNCHANGED <<env, goto, stopPending, opVars, status, fields, gen, wait, bearer, socksObj,
                   objects, tasks>>

\* Commands queued before a Stop do not log in behind its back.
StopGate ==
    /\ pc = "stopGate"
    /\ pc' = IF stopPending /\ cmd.kind \in LoginKinds THEN "reply" ELSE "run"
    /\ UNCHANGED <<env, goto, stopPending, opVars, status, fields, gen, wait, bearer, socksObj,
                   objects, tasks>>

\* The deferred end of dispatch: the command's context is over, and a cancel
\* function somebody read before cancels nothing any more.
Reply ==
    /\ pc = "reply" /\ pc' = "select"
    /\ opSet' = FALSE /\ opDone' = FALSE
    /\ holds' = [c \in Callers |-> FALSE]
    /\ cmd' = NoCmd /\ after' = "reply" /\ ret' = "reply" /\ epErr' = {}
    /\ UNCHANGED <<cmds, events, closed, stopPending, caller, cur, status, fields, gen, wait,
                   bearer, socksObj, objects, tasks, fired, budget>>

\* loop sees that the service is closed: tear down, close the bearer, return.
SelectClosed ==
    /\ pc = "select" /\ closed
    /\ pc' = "teardown" /\ after' = "exit"
    /\ UNCHANGED <<env, cmd, ret, epErr, cur, stopPending, opVars, status, fields, gen, wait,
                   bearer, socksObj, objects, tasks>>

\* Mutant: does not return before the server has confirmed the logout.
ExitRetriesLogout ==
    /\ pc = "exit" /\ pc' = "logout"
    /\ br' = FALSE
    /\ UNCHANGED <<env, goto, stopPending, opVars, status, fields, gen, wait, bound, socksObj,
                   objects, tasks>>

Exit ==
    /\ pc = "exit" /\ pc' = "exited"
    /\ br' = FALSE
    /\ UNCHANGED <<env, goto, stopPending, opVars, status, fields, gen, wait, bound, socksObj,
                   objects, tasks>>

-----------------------------------------------------------------------------
(* teardown: revoke, then wait for the tasks, then log out.                  *)

\* stopAuthTimer: a timer that already fired finds its round over.
StopTimer == authSeq' = authSeq + 1 /\ armed' = FALSE

Teardown ==
    /\ pc = "teardown" /\ pc' = "rootJoin"
    /\ gen' = gen + 1 /\ StopTimer
    /\ state' = "idle" /\ retrying' = FALSE
    /\ l3' = [l3 EXCEPT !.cancelled = TRUE]
    /\ root' = [root EXCEPT !.cancelled = TRUE]
    /\ UNCHANGED <<env, goto, stopPending, opVars, wgOn, socksOn, fields, bearer, socksObj,
                   objects, socks, socksMade>>

\* stopSOCKS, first half.
CancelSOCKS(next) ==
    /\ socks' = [socks EXCEPT !.cancelled = TRUE] /\ socksObj' = 0
    /\ pc' = "socksJoin" /\ ret' = next

RootJoin ==
    /\ pc = "rootJoin" /\ root.phase \in {"none", "done"}
    /\ root' = NoRoot
    /\ CancelSOCKS("tdL3")
    /\ UNCHANGED <<env, cmd, after, epErr, cur, stopPending, opVars, status, fields, gen, wait,
                   bearer, objects, l3, socksMade>>

\* stopSOCKS, second half: the task has returned.
SOCKSJoin ==
    /\ pc = "socksJoin" /\ socks.phase \in {"none", "done"}
    /\ socks' = NoSOCKS
    /\ pc' = ret
    /\ UNCHANGED <<env, goto, stopPending, opVars, status, fields, gen, wait, bearer, socksObj,
                   objects, l3, root, socksMade>>

\* stopL3, first half: reports of this run are stale from here on.
CancelL3(next) ==
    /\ gen' = gen + 1
    /\ l3' = [l3 EXCEPT !.cancelled = TRUE]
    /\ pc' = "l3Join" /\ ret' = next

\* Mutant: cancels the task and does not wait for it.
TeardownL3NoWait ==
    /\ pc = "tdL3" /\ pc' = "logout" /\ UNCHANGED ret
    /\ gen' = gen + 1
    /\ l3' = [l3 EXCEPT !.cancelled = TRUE]
    /\ UNCHANGED <<env, cmd, after, epErr, cur, stopPending, opVars, status, fields, wait, bearer,
                   socksObj, objects, socks, root, socksMade>>

TeardownL3 ==
    /\ pc = "tdL3"
    /\ CancelL3("logout")
    /\ UNCHANGED <<env, cmd, after, epErr, cur, stopPending, opVars, status, fields, wait, bearer,
                   socksObj, objects, socks, root, socksMade>>

\* Mutant: the bearer stays attached.
L3JoinKeepsBearer ==
    /\ pc = "l3Join" /\ l3.phase \in {"none", "done"}
    /\ l3' = NoL3
    /\ pc' = ret
    /\ UNCHANGED <<env, goto, stopPending, opVars, status, fields, gen, wait, bearer, socksObj,
                   objects, socks, root, socksMade>>

\* stopL3, second half: the link is closed and the bearer detached.
L3Join ==
    /\ pc = "l3Join" /\ l3.phase \in {"none", "done"}
    /\ l3' = NoL3 /\ bound' = nil
    /\ pc' = ret
    /\ UNCHANGED <<env, goto, stopPending, opVars, status, fields, gen, wait, br, socksObj,
                   objects, socks, root, socksMade>>

\* Session.Close: its context ends, the server is told.  That logout is tried once: one
\* that errs or times out is only reported, and the server may count the login for ever.
Release(S, counted) ==
    /\ held' = held \ S
    /\ ended' = ended \cup (S \ {nil})
    /\ \E failed \in SUBSET (S \cap counted) : lost' = lost \cup failed

Logout ==
    /\ pc = "logout" /\ pc' = after
    /\ Release({pend, session}, held)
    /\ pend' = nil /\ session' = nil
    /\ UNCHANGED <<env, goto, stopPending, opVars, status, pendDev, gen, wait, bearer, socksObj,
                   made, tasks>>

\* fail and its relatives: setError after teardown; a device operation that
\* logged in for itself logs out last.
SetError ==
    /\ pc = "error" /\ state' = "error" /\ retrying' = FALSE
    /\ pc' = IF cur = nil THEN "reply" ELSE "devClose"
    /\ UNCHANGED <<env, goto, stopPending, opVars, wgOn, socksOn, fields, gen, wait, bearer,
                   socksObj, objects, tasks>>

DevClose ==
    /\ pc = "devClose" /\ pc' = "reply"
    /\ Release({cur}, held) /\ cur' = nil
    /\ UNCHANGED <<env, cmd, after, ret, epErr, stopPending, opVars, status, fields, gen, wait,
                   bearer, socksObj, made, tasks>>

Fail == pc' = "teardown" /\ after' = "error"

-----------------------------------------------------------------------------
(* Start, Devices, Auth.                                                     *)

handlerFrame == <<env, ret, epErr, cmd, opVars, status, fields, wait, bearer, objects, socksMade,
                  root>>

start ==
    /\ pc = "run" /\ cmd.kind = "Start"
    /\ \/ /\ state \in {"up", "logging_in"} \/ ~(CfgWG \/ CfgSOCKS)
          /\ pc' = "reply" /\ UNCHANGED after
       \/ /\ state \in {"idle", "auth_pending", "error"} /\ (CfgWG \/ CfgSOCKS)
          /\ pc' = "teardown" /\ after' = "creds"
    /\ UNCHANGED <<handlerFrame, cur, stopPending, gen, socksObj, l3, socks>>

\* Mutant: a login that waits for a code is not torn down first.
devicesKeepsPending ==
    /\ pc = "run" /\ cmd.kind = "Devices"
    /\ pc' = (IF state = "up" THEN "device" ELSE "creds") /\ UNCHANGED after
    /\ UNCHANGED <<handlerFrame, cur, stopPending, gen, socksObj, l3, socks>>

devices ==
    /\ pc = "run" /\ cmd.kind = "Devices"
    /\ \/ state = "up" /\ pc' = "device" /\ UNCHANGED after
       \/ state = "auth_pending" /\ pc' = "teardown" /\ after' = "creds"
       \/ state \notin {"up", "auth_pending"} /\ pc' = "creds" /\ UNCHANGED after
    /\ UNCHANGED <<handlerFrame, cur, stopPending, gen, socksObj, l3, socks>>

\* applyPassword and clientFor, then "logging in".
Credentials ==
    /\ pc = "creds"
    /\ \/ Fail /\ UNCHANGED <<state, made, cur>>
       \/ /\ pc' = "login" /\ state' = "logging_in"
          /\ made' = made + 1 /\ cur' = made + 1
          /\ UNCHANGED after
    /\ UNCHANGED <<env, cmd, ret, epErr, stopPending, opVars, retrying, wgOn, socksOn, fields, gen,
                   wait, bearer, socksObj, held, lost, ended, tasks>>

\* Mutant: a failed Connect does not close what it logged in.
DropLoginNoLogout ==
    /\ cur' = nil /\ Fail
    /\ UNCHANGED <<held, lost, ended, session>>

\* A failed Connect returns a session that is closed already; start attaches it
\* all the same, so that teardown owns it.
DropLogin ==
    /\ \/ cmd.kind = "Start" /\ session' = cur /\ Release({cur, session}, held \cup {cur})
       \/ cmd.kind = "Devices" /\ Release({cur}, held \cup {cur}) /\ UNCHANGED session
    /\ cur' = nil /\ Fail

\* The password is accepted: from here on the server counts a session.  It may also accept
\* one whose answer never arrives: Connect fails, without a ticket to log out with.
Login ==
    /\ pc = "login"
    /\ \/ DropLogin
       \/ /\ ~opDone /\ pc' = "verify" /\ held' = held \cup {cur}
          /\ UNCHANGED <<lost, ended, session, cur, after>>
    /\ UNCHANGED <<env, cmd, ret, epErr, stopPending, opVars, status, pend, pendDev, gen, wait,
                   bearer, socksObj, made, tasks>>

\* The rest of the login chain, up to the resource table.
Verify ==
    /\ pc = "verify"
    /\ \/ DropLogin /\ UNCHANGED <<pend, pendDev>>
       \/ /\ ~opDone /\ pc' = "await"
          /\ pend' = cur /\ pendDev' = (cmd.kind = "Devices") /\ cur' = nil
          /\ UNCHANGED <<held, lost, ended, session, after>>
       \/ /\ ~opDone /\ pc' = IF cmd.kind = "Devices" THEN "device" ELSE "trust"
          /\ UNCHANGED <<held, lost, ended, session, after, cur, pend, pendDev>>
    /\ UNCHANGED <<env, cmd, ret, epErr, stopPending, opVars, status, gen, wait, bearer, socksObj,
                   made, tasks>>

\* awaitAuth: the SMS is requested (a failure only changes the prompt), then a
\* new round of waiting begins.
awaitAuth ==
    /\ pc = "await" /\ pc' = "reply"
    /\ state' = "auth_pending"
    /\ authSeq' = authSeq + 1 /\ armed' = TRUE
    /\ UNCHANGED <<env, goto, stopPending, opVars, retrying, wgOn, socksOn, fields, gen, bearer,
                   socksObj, objects, tasks>>

auth ==
    /\ pc = "run" /\ cmd.kind = "Auth"
    /\ \/ pc' = "reply"                 \* nothing to verify, or an empty code
       \/ pend # nil /\ state = "auth_pending" /\ pc' = "code"
    /\ UNCHANGED <<handlerFrame, after, cur, stopPending, gen, socksObj, l3, socks>>

SubmitCode ==
    /\ pc = "code"
    /\ \/ Fail /\ UNCHANGED <<pend, cur, wait>>
       \/ ~opDone /\ pc' \in {"await", "reply"} /\ UNCHANGED <<after, pend, cur, wait>>
       \/ /\ ~opDone /\ StopTimer
          /\ cur' = pend /\ pend' = nil
          /\ pc' = IF pendDev THEN "device" ELSE "trust"
          /\ UNCHANGED after
    /\ UNCHANGED <<env, cmd, ret, epErr, stopPending, opVars, status, session, pendDev, gen,
                   bearer, socksObj, objects, tasks>>

\* runDeviceOp, on the login of this command (cur) or on the running session.
DeviceOp ==
    /\ pc = "device"
    /\ \/ Fail /\ UNCHANGED state
       \/ ~opDone /\ cur = nil /\ pc' = "reply" /\ UNCHANGED <<state, after>>
       \/ ~opDone /\ cur # nil /\ pc' = "devClose" /\ state' = "idle" /\ UNCHANGED after
    /\ UNCHANGED <<env, cmd, ret, epErr, cur, stopPending, opVars, retrying, wgOn, socksOn, fields,
                   gen, wait, bearer, socksObj, objects, tasks>>

\* attach: a session the actor still had would be closed.
attach(s) ==
    /\ session' = s
    /\ Release({session} \ {s}, held)

\* ensureTrusted: only a login that is gone stops the start.
EnsureTrusted ==
    /\ pc = "trust"
    /\ \/ attach(cur) /\ cur' = nil /\ Fail
       \/ pc' = "finish" /\ UNCHANGED <<session, held, lost, ended, cur, after>>
    /\ UNCHANGED <<env, cmd, ret, epErr, stopPending, opVars, status, pend, pendDev, gen, wait,
                   bearer, socksObj, made, tasks>>

-----------------------------------------------------------------------------
(* finishConnect and the two endpoints.                                      *)

FinishConnect ==
    /\ pc = "finish"
    /\ attach(cur) /\ cur' = nil
    /\ state' = "up" /\ wgOn' = CfgWG /\ socksOn' = CfgSOCKS
    /\ pc' = IF CfgSOCKS THEN "socks" ELSE "l3"
    /\ UNCHANGED <<env, cmd, after, ret, epErr, stopPending, opVars, retrying, pend, pendDev, gen,
                   wait, bearer, socksObj, made, tasks>>

afterSOCKS == IF cmd.kind = "EpStart" THEN "reply" ELSE IF CfgWG THEN "l3" ELSE "check"
afterL3    == IF cmd.kind = "EpStart" THEN "reply" ELSE "check"

\* startSOCKS: a task that runs is left alone, one that has ended is replaced; the
\* listener that New opened is used before another one is made.
startSOCKS ==
    LET ready == IF socks.phase = "done" THEN 0 ELSE socksObj IN
    /\ pc = "socks"
    /\ \/ /\ socks.phase \notin {"none", "done"} /\ pc' = afterSOCKS
          /\ UNCHANGED <<socks, socksObj, socksMade, socksOn, epErr>>
       \/ /\ socks.phase \in {"none", "done"} /\ ready = 0           \* cannot listen
          /\ socks' = NoSOCKS /\ socksObj' = 0 /\ socksOn' = TRUE
          /\ pc' = afterSOCKS /\ epErr' = epErr \cup {"socks"} /\ UNCHANGED socksMade
       \/ /\ socks.phase \in {"none", "done"} /\ pc' = "socksWait"
          /\ socksMade' = (IF ready = 0 THEN socksMade + 1 ELSE socksMade)
          /\ socksObj' = (IF ready = 0 THEN socksMade + 1 ELSE ready)
          /\ socks' = [phase |-> "starting", id |-> socksObj', sess |-> session,
                       cancelled |-> FALSE]
          /\ UNCHANGED <<socksOn, epErr>>
    /\ UNCHANGED <<env, cmd, after, ret, cur, stopPending, opVars, state, retrying, wgOn, fields,
                   gen, wait, bearer, objects, l3, root>>

SOCKSWait ==
    /\ pc = "socksWait" /\ socksOn' = TRUE
    /\ \/ /\ socks.phase \in {"up", "ended", "done"} /\ ~opDone /\ pc' = afterSOCKS
          /\ UNCHANGED <<socks, socksObj, ret, epErr>>
       \/ /\ socks.phase = "done" \/ opDone
          /\ CancelSOCKS(afterSOCKS) /\ epErr' = epErr \cup {"socks"}
    /\ UNCHANGED <<env, cmd, after, cur, stopPending, opVars, state, retrying, wgOn, fields, gen,
                   wait, bearer, objects, l3, root, socksMade>>

\* startL3: likewise; the bearer is rebuilt when an endpoint stop closed it.
startL3 ==
    /\ pc = "l3"
    /\ \/ /\ l3.phase \notin {"none", "done"} /\ pc' = afterL3
          /\ UNCHANGED <<gen, l3, bound, br, wgOn, epErr>>
       \/ /\ l3.phase \in {"none", "done"}
          /\ gen' = IF l3.phase = "done" THEN gen + 1 ELSE gen
          /\ l3' = NoL3 /\ bound' = nil
          /\ \/ br' = TRUE /\ pc' = "l3Dial" /\ UNCHANGED <<wgOn, epErr>>
             \/ ~br /\ pc' = afterL3 /\ wgOn' = TRUE /\ epErr' = epErr \cup {"wg"} /\ UNCHANGED br
    /\ UNCHANGED <<env, cmd, after, ret, cur, stopPending, opVars, state, retrying, socksOn, fields,
                   wait, socksObj, objects, socks, root, socksMade>>

L3Failed == pc' = afterL3 /\ wgOn' = TRUE /\ epErr' = epErr \cup {"wg"}

\* Session.StartL3: probe the nodes, shake hands.
L3Dial ==
    /\ pc = "l3Dial"
    /\ \/ L3Failed /\ UNCHANGED ended
       \/ L3Failed /\ ~opDone /\ ended' = ended \cup {session}        \* the login is gone
       \/ ~opDone /\ session \notin ended /\ pc' = "l3Attach" /\ UNCHANGED <<wgOn, epErr, ended>>
    /\ UNCHANGED <<env, cmd, after, ret, cur, stopPending, opVars, state, retrying, socksOn, fields,
                   gen, wait, bearer, socksObj, made, held, lost, tasks>>

\* The bearer is attached; a command cancelled meanwhile takes it off again.
L3Attach ==
    /\ pc = "l3Attach"
    /\ \/ L3Failed /\ UNCHANGED <<gen, l3, bound, retrying>>
       \/ /\ ~opDone /\ pc' = afterL3 /\ wgOn' = TRUE /\ retrying' = FALSE
          /\ gen' = gen + 1 /\ bound' = session
          /\ l3' = [phase |-> "run", gen |-> gen + 1, sess |-> session, gone |-> FALSE,
                    cancelled |-> FALSE]
          /\ UNCHANGED epErr
    /\ UNCHANGED <<env, cmd, after, ret, cur, stopPending, opVars, state, socksOn, fields, wait, br,
                   socksObj, objects, socks, root, socksMade>>

\* Mutant: nobody watches the shared session.
CheckConnectNoWatcher ==
    /\ pc = "check"
    /\ IF opDone \/ session \in ended
          \/ ((~CfgWG \/ "wg" \in epErr) /\ (~CfgSOCKS \/ "socks" \in epErr))
       THEN Fail /\ UNCHANGED retrying
       ELSE pc' = "reply" /\ retrying' = FALSE /\ UNCHANGED after
    /\ UNCHANGED <<env, cmd, ret, epErr, cur, stopPending, opVars, state, wgOn, socksOn, fields, gen,
                   wait, bearer, socksObj, objects, tasks>>

\* The end of finishConnect.
CheckConnect ==
    /\ pc = "check"
    /\ IF opDone \/ session \in ended
          \/ ((~CfgWG \/ "wg" \in epErr) /\ (~CfgSOCKS \/ "socks" \in epErr))
       THEN Fail /\ UNCHANGED <<retrying, root>>
       ELSE /\ pc' = "reply" /\ retrying' = FALSE
            /\ root' = [phase |-> "watch", sess |-> session, cancelled |-> FALSE]
            /\ UNCHANGED after
    /\ UNCHANGED <<env, cmd, ret, epErr, cur, stopPending, opVars, state, wgOn, socksOn, fields, gen,
                   wait, bearer, socksObj, objects, l3, socks, socksMade>>

startEndpoint ==
    /\ pc = "run" /\ cmd.kind = "EpStart"
    /\ pc' = IF session = nil \/ state # "up" \/ session \in ended THEN "reply"
             ELSE IF cmd.ep = "wg" THEN IF CfgWG THEN "l3" ELSE "reply"
             ELSE IF CfgSOCKS THEN "socks" ELSE "reply"
    /\ UNCHANGED <<handlerFrame, after, cur, stopPending, gen, socksObj, l3, socks>>

\* stopEndpoint stops the task, then (EndpointStopped) records the intent.
stopEndpoint ==
    /\ pc = "run" /\ cmd.kind = "EpStop"
    /\ \/ cmd.ep = "wg" /\ CancelL3("epStopped") /\ UNCHANGED <<socks, socksObj>>
       \/ cmd.ep = "socks" /\ CancelSOCKS("epStopped") /\ UNCHANGED <<l3, gen>>
    /\ UNCHANGED <<env, epErr, cmd, opVars, status, fields, wait, bearer, objects, socksMade, root,
                   after, cur, stopPending>>

EndpointStopped ==
    /\ pc = "epStopped" /\ pc' = "reply"
    /\ \/ cmd.ep = "wg" /\ br' = FALSE /\ wgOn' = FALSE /\ retrying' = FALSE /\ UNCHANGED socksOn
       \/ cmd.ep = "socks" /\ socksOn' = FALSE /\ UNCHANGED <<br, wgOn, retrying>>
    /\ UNCHANGED <<env, goto, stopPending, opVars, state, fields, gen, wait, bound, socksObj, objects,
                   tasks>>

-----------------------------------------------------------------------------
(* Stop and the reports.                                                     *)

\* Mutant: a login that waits for a code counts as not running.
stopOnlyUp ==
    /\ pc = "run" /\ cmd.kind = "Stop"
    /\ stopPending' = FALSE
    /\ \/ state # "up" /\ pc' = "reply" /\ UNCHANGED after
       \/ state = "up" /\ pc' = "teardown" /\ after' = "reply"
    /\ UNCHANGED <<handlerFrame, cur, gen, socksObj, l3, socks>>

stop ==
    /\ pc = "run" /\ cmd.kind = "Stop"
    /\ stopPending' = FALSE
    /\ \/ state = "idle" /\ pc' = "reply" /\ UNCHANGED after
       \/ state # "idle" /\ pc' = "teardown" /\ after' = "reply"
    /\ UNCHANGED <<handlerFrame, cur, gen, socksObj, l3, socks>>

authTimeout ==
    /\ pc = "run" /\ cmd.kind = "AuthTimeout"
    /\ IF cmd.gen = authSeq /\ state = "auth_pending" THEN Fail ELSE pc' = "reply" /\ UNCHANGED after
    /\ UNCHANGED <<handlerFrame, cur, stopPending, gen, socksObj, l3, socks>>

\* Mutant: the generation of the report is not compared.
tunnelDownAnyGen ==
    /\ pc = "run" /\ cmd.kind = "TunnelDown"
    /\ \/ ~cmd.gone /\ socksOn /\ CancelL3("l3Stopped") /\ UNCHANGED after
       \/ (cmd.gone \/ ~socksOn) /\ Fail /\ UNCHANGED <<ret, gen, l3>>
    /\ UNCHANGED <<env, epErr, cmd, opVars, status, fields, wait, bearer, objects, socksMade, root,
                   cur, stopPending, socksObj, socks>>

\* An ordinary failure of the link leaves the session to the SOCKS endpoint.
tunnelDown ==
    /\ pc = "run" /\ cmd.kind = "TunnelDown"
    /\ \/ cmd.gen # gen /\ pc' = "reply" /\ UNCHANGED <<after, ret, gen, l3>>
       \/ cmd.gen = gen /\ ~cmd.gone /\ socksOn /\ CancelL3("l3Stopped") /\ UNCHANGED after
       \/ cmd.gen = gen /\ (cmd.gone \/ ~socksOn) /\ Fail /\ UNCHANGED <<ret, gen, l3>>
    /\ UNCHANGED <<env, epErr, cmd, opVars, status, fields, wait, bearer, objects, socksMade, root,
                   cur, stopPending, socksObj, socks>>

L3Stopped ==
    /\ pc = "l3Stopped" /\ pc' = "reply"
    /\ wgOn' = TRUE /\ retrying' = FALSE
    /\ UNCHANGED <<env, goto, stopPending, opVars, state, socksOn, fields, gen, wait, bearer,
                   socksObj, objects, tasks>>

tunnelRetry ==
    /\ pc = "run" /\ cmd.kind = "TunnelRetry" /\ pc' = "reply"
    /\ retrying' = (retrying \/ (cmd.gen = gen /\ state = "up"))
    /\ UNCHANGED <<env, goto, stopPending, opVars, state, wgOn, socksOn, fields, gen, wait, bearer,
                   socksObj, objects, tasks>>

tunnelRestored ==
    /\ pc = "run" /\ cmd.kind = "TunnelRestored" /\ pc' = "reply"
    /\ retrying' = (retrying /\ ~(cmd.gen = gen /\ state = "up"))
    /\ UNCHANGED <<env, goto, stopPending, opVars, state, wgOn, socksOn, fields, gen, wait, bearer,
                   socksObj, objects, tasks>>

sessionEnded ==
    /\ pc = "run" /\ cmd.kind = "SessionEnded"
    /\ IF session = cmd.sess THEN Fail ELSE pc' = "reply" /\ UNCHANGED after
    /\ UNCHANGED <<handlerFrame, cur, stopPending, gen, socksObj, l3, socks>>

socksDown ==
    /\ pc = "run" /\ cmd.kind = "SOCKSDown"
    /\ \/ /\ session = cmd.sess /\ socksObj = cmd.id
          /\ CancelSOCKS("socksStopped")
       \/ /\ ~(session = cmd.sess /\ socksObj = cmd.id)
          /\ pc' = "reply" /\ UNCHANGED <<ret, socks, socksObj>>
    /\ UNCHANGED <<env, epErr, cmd, opVars, status, fields, wait, bearer, objects, socksMade, root,
                   after, cur, stopPending, gen, l3>>

SOCKSStopped ==
    /\ pc = "socksStopped" /\ socksOn' = TRUE
    /\ IF wgOn THEN pc' = "reply" /\ UNCHANGED after ELSE Fail
    /\ UNCHANGED <<env, cmd, ret, epErr, cur, stopPending, opVars, state, retrying, wgOn, fields, gen,
                   wait, bearer, socksObj, objects, tasks>>

-----------------------------------------------------------------------------
Dispatch == ClosedGate \/ StopGate \/ Reply \/ SelectClosed \/ Exit
TeardownSteps ==
    \/ Teardown \/ RootJoin \/ SOCKSJoin \/ TeardownL3 \/ L3Join \/ Logout \/ SetError \/ DevClose
LoginSteps ==
    \/ start \/ devices \/ Credentials \/ Login \/ Verify \/ awaitAuth \/ auth \/ SubmitCode
    \/ DeviceOp \/ EnsureTrusted
EndpointSteps ==
    \/ FinishConnect \/ startSOCKS \/ SOCKSWait \/ startL3 \/ L3Dial \/ L3Attach \/ CheckConnect
    \/ startEndpoint \/ stopEndpoint \/ EndpointStopped \/ stop
ReportSteps ==
    \/ authTimeout \/ tunnelDown \/ L3Stopped \/ tunnelRetry \/ tunnelRestored \/ sessionEnded
    \/ socksDown \/ SOCKSStopped
Actor == TakeCommand \/ TakeReport \/ Dispatch \/ TeardownSteps \/ LoginSteps
         \/ EndpointSteps \/ ReportSteps

L3Task    == LinkDropped \/ ReportRetry \/ Reconnected \/ ReportRestored \/ GivesUp
             \/ L3SessionGone \/ RunCancelled \/ ReportDown
SOCKSTask == SOCKSRuns \/ SOCKSEnds \/ SOCKSSessionGone \/ ReportSOCKSDown
RootTask  == RootSees \/ ReportSessionEnded

CallerSteps ==
    \/ \E c \in Stoppers : StopStore(c) \/ StopEnqueue(c)
    \/ \E c \in Callers : cancelOpRead(c) \/ cancelOpCall(c)
    \/ CloseStore
    \/ \E kind \in {"Start", "Devices", "Auth"} : Call(kind, "none")
    \/ \E kind \in {"EpStart", "EpStop"}, ep \in {"wg", "socks"} : Call(kind, ep)
    \/ \E i \in 1 .. CmdCap : QueuedDeadline(i)
    \/ RunningDeadline
Timer == TimerFires \/ \E seq \in fired : reportAuthTimeout(seq)

\* The loop has returned; nothing else has to happen.
Terminated == pc = "exited" /\ UNCHANGED vars

Next == Actor \/ L3Task \/ SOCKSTask \/ RootTask \/ CallerSteps \/ Timer \/ Terminated

Spec == Init /\ [][Next]_vars

\* Fairness: the actor goroutine and the task goroutines run; control-plane I/O
\* ends (every request has a timeout); Stop and Close calls go on.  Users,
\* failures and deadlines are not assumed to happen.  Which ready channel the
\* actor's select takes is left open: the bounds on calls and faults already keep
\* one queue from starving the other.
Fairness ==
    /\ WF_vars(Actor)
    /\ WF_vars(ReportRetry \/ ReportRestored \/ RunCancelled \/ ReportDown)
    /\ WF_vars(SOCKSRuns \/ (socks.cancelled /\ SOCKSEnds) \/ ReportSOCKSDown)
    /\ WF_vars(RootTask)
    /\ \A c \in Callers : WF_vars(cancelOpRead(c) \/ cancelOpCall(c) \/ StopEnqueue(c))

FairSpec == Spec /\ Fairness

-----------------------------------------------------------------------------
(* Properties.                                                               *)

PCs == {"select", "closedGate", "stopGate", "run", "reply", "teardown", "rootJoin", "socksJoin",
        "tdL3", "l3Join", "logout", "error", "devClose", "creds", "login", "verify", "await", "code",
        "device", "trust", "finish", "socks", "socksWait", "l3", "l3Dial", "l3Attach", "check",
        "epStopped", "l3Stopped", "socksStopped", "exit", "exited"}
Cmd == [kind : UserKinds \cup Reports \cup {"AuthTimeout", "none"}, ep : {"none", "wg", "socks"},
        gen : Nat, sess : Nat, id : Nat, gone : BOOLEAN, dead : BOOLEAN]

TypeQueues ==
    /\ cmds \in Seq(Cmd) /\ Len(cmds) <= CmdCap
    /\ events \in Seq(Cmd) /\ Len(events) <= EventCap
    /\ cmd \in Cmd
TypeCallers ==
    /\ closed \in BOOLEAN /\ stopPending \in BOOLEAN
    /\ caller \in [Callers -> {"idle", "stored", "read", "waiting"}]
    /\ holds \in [Callers -> BOOLEAN]
    /\ opSet \in BOOLEAN /\ opDone \in BOOLEAN
    /\ budget \in [{"call", "stop", "fault", "expire"} -> Nat]
TypeControl ==
    /\ pc \in PCs
    /\ after \in {"reply", "error", "creds", "exit"}
    /\ ret \in {"reply", "tdL3", "logout", "l3", "check", "epStopped", "l3Stopped", "socksStopped"}
    /\ epErr \subseteq {"wg", "socks"}
TypeStatus ==
    /\ state \in States /\ retrying \in BOOLEAN /\ wgOn \in BOOLEAN /\ socksOn \in BOOLEAN
TypeFields ==
    /\ made \in Nat /\ cur \in Nat /\ session \in Nat /\ pend \in Nat /\ pendDev \in BOOLEAN
    /\ gen \in Nat /\ authSeq \in Nat /\ armed \in BOOLEAN /\ fired \subseteq Nat
    /\ br \in BOOLEAN /\ bound \in Nat /\ socksObj \in Nat /\ socksMade \in Nat
    /\ held \subseteq Nat /\ lost \subseteq Nat /\ ended \subseteq Nat
TypeTasks ==
    /\ l3 \in [phase : {"none", "run", "dropped", "redial", "restored", "ended", "done"}, gen : Nat,
               sess : Nat, gone : BOOLEAN, cancelled : BOOLEAN]
    /\ socks \in [phase : {"none", "starting", "up", "ended", "done"}, id : Nat, sess : Nat,
                  cancelled : BOOLEAN]
    /\ root \in [phase : {"none", "watch", "ended", "done"}, sess : Nat, cancelled : BOOLEAN]

\* Every variable keeps its type; in particular the queues stay within the
\* capacities of the two channels.
TypeOK ==
    TypeQueues /\ TypeCallers /\ TypeControl /\ TypeStatus /\ TypeFields /\ TypeTasks

\* A login is in the hands of the actor (running session, login waiting for a code, or
\* login of the command in progress) until its Close has run: whatever fails, something is
\* left that logs it out.  Only a logout that itself fails leaves a login to nobody.
SlotHasOwner == \A s \in held : s \in {session, pend, cur}

\* The service never keeps two logins: the server allows one per account, a
\* second one would push out the running tunnel.
OneSlot == \A s, t \in held : s = t

\* The service is one client that logs in and out: it logs in only after it has given up the
\* login before, by a logout that was tried to its end (Service.attach and teardown close
\* before a new login is kept).  What the server counts besides are the logins whose logout
\* failed, or whose answer never came: the service goes on without them.
Account == INSTANCE Slot WITH Holders <- Nat \ {nil}
OneLoginAtATime == Account!Spec

\* The inductive form of the two: a login has one owner at each place of the
\* actor, and which one follows from where the actor is (or goes on, when it waits
\* for a task) and from the published state.
SlotInv ==
    LET at == IF pc \in {"socksJoin", "l3Join"} THEN ret ELSE pc IN
    /\ made \in Nat /\ held \subseteq {session, pend, cur} \ {nil}
    /\ at \in {"select", "closedGate", "stopGate", "run", "reply", "epStopped", "l3Stopped",
               "socksStopped"} =>
          cur = nil /\ (session # nil => state = "up") /\ (pend # nil => state = "auth_pending")
    /\ at = "code" => session = nil /\ cur = nil /\ pend # nil /\ state = "auth_pending"
    /\ at = "await" => session = nil /\ cur = nil
    /\ at = "creds" => session = nil /\ pend = nil /\ cur = nil
    /\ at \in {"login", "verify", "trust", "finish"} => session = nil /\ pend = nil /\ cur # nil
    /\ at = "device" => pend = nil /\ (session = nil \/ cur = nil) /\ (cur = nil => state = "up")
    /\ at \in {"socks", "socksWait", "l3", "l3Dial", "l3Attach", "check"} =>
          pend = nil /\ cur = nil /\ state = "up"
    /\ at \in {"teardown", "rootJoin", "tdL3", "logout"} =>
          /\ session = nil \/ pend = nil
          /\ cur # nil => after = "error" /\ session = nil /\ pend = nil
    /\ at \in {"error", "devClose"} => session = nil /\ pend = nil
    /\ at \in {"exit", "exited"} => session = nil /\ pend = nil /\ cur = nil

\* Logout comes last: a login is given up, whether or not the server confirms it, only when
\* the tasks that use it have returned and the status no longer says "up".
LogoutAfterTasks ==
    [][held \ held' # {} => /\ l3.phase = "none" /\ socks.phase = "none" /\ root.phase = "none"
                            /\ bound = nil /\ state # "up"]_vars

\* No step of the actor asks the status store for a transition that panics.
NoIllegalTransition == [][validTransition(state, state')]_vars

\* What the actor knows of the state at the places where it changes it (the
\* inductive form of NoIllegalTransition).
PathInv ==
    LET at == IF pc \in {"socksJoin", "l3Join"} THEN ret ELSE pc IN
    /\ at \in {"rootJoin", "tdL3", "logout"} => state = "idle"
    /\ at = "creds" => state \notin {"up", "auth_pending"}
    /\ at \in {"login", "verify", "await", "trust", "finish"} =>
          state \in {"logging_in", "auth_pending"}
    /\ at = "code" => state = "auth_pending"

\* What stands between a session and what runs on it: nothing runs without a session, the
\* device carries packets of the session there is, and teardown waits for one task after
\* the other (the inductive form of LogoutAfterTasks and NothingIsLeftBehind).
TasksInv ==
    LET at == IF pc \in {"socksJoin", "l3Join"} THEN ret ELSE pc IN
    /\ session = nil =>
          l3.phase = "none" /\ socks.phase = "none" /\ root.phase = "none" /\ bound = nil
    /\ at \in {"socks", "socksWait", "l3", "l3Dial", "l3Attach", "check"} => session # nil
    /\ at \in {"tdL3", "logout"} => root.phase = "none"
    /\ pc = "tdL3" \/ at = "logout" => socks.phase = "none"
    /\ pc = "logout" => l3.phase = "none" /\ bound = nil
    /\ pc = "socksJoin" => ret # "logout"
    /\ pc = "l3Join" => ret # "tdL3"
    /\ bound # nil => /\ bound = session
                      /\ state = "up" \/ pc = "rootJoin" \/ at \in {"tdL3", "logout"}
    /\ at = "devClose" => state \in {"idle", "error"}
    /\ pc = "exited" => ~br

\* A login that waits for a code is there to be verified or dropped.
PendInv ==
    LET at == IF pc \in {"socksJoin", "l3Join"} THEN ret ELSE pc IN
    /\ at \in {"select", "closedGate", "stopGate", "run", "reply", "epStopped", "l3Stopped",
               "socksStopped"} => (state = "auth_pending" => pend # nil)
    /\ at = "await" => pend # nil

\* A report acts only on the task that sent it: a link report on a finished L3
\* task, a SOCKS report on a finished SOCKS task, the end of a session on that
\* session, a timeout on the round of waiting whose timer went off.
ReportsMatchTheirTask ==
    [][pc = "run" /\ pc' \notin {"run", "reply"} =>
          /\ cmd.kind = "TunnelDown"   => l3.phase = "done" /\ l3.sess = session
          /\ cmd.kind = "SOCKSDown"    => socks.phase = "done" /\ socks.sess = session
          /\ cmd.kind = "SessionEnded" => session \in ended
          /\ cmd.kind = "AuthTimeout"  => ~armed /\ pend # nil]_vars

\* What a report still says when the actor looks at it, however long it was queued ...
Sane(e) ==
    /\ e.kind = "TunnelDown" => /\ e.gen <= gen
                                /\ e.gen = gen => l3.phase = "done" /\ pc # "l3Join"
    /\ e.kind = "SOCKSDown" => /\ e.id \in 1 .. socksMade
                               /\ e.id = socksObj => socks.phase = "done" /\ socks.sess = e.sess
    /\ e.kind = "SessionEnded" => e.sess \in ended
    /\ e.kind = "AuthTimeout" => e.gen <= authSeq /\ (e.gen = authSeq => ~armed)

\* ... and the counters that make the tasks tell old reports from new ones (the inductive
\* form of ReportsMatchTheirTask).
CountersInv ==
    /\ l3.phase # "none" => l3.sess = session /\ l3.gen <= gen /\ (pc = "l3Join" => l3.gen < gen)
    /\ socksObj <= socksMade /\ (pc = "socksJoin" => socksObj = 0)
    /\ socks.phase # "none" => socks.id \in 1 .. socksMade /\ socksObj \in {0, socks.id}
    /\ root.phase = "ended" => root.sess \in ended
    /\ \A s \in fired : s <= authSeq /\ (s = authSeq => ~armed)
SaneCmds   == {e \in Cmd : Sane(e)}
ReportsInv == CountersInv /\ cmd \in SaneCmds /\ cmds \in Seq(SaneCmds) /\ events \in Seq(SaneCmds)

\* When the actor has returned, nothing it started is left: no login it has not logged out
\* (or failed to), no task, no bearer.
ExitIsClean ==
    pc = "exited" => /\ held = {} /\ ~br /\ bound = nil
                     /\ l3.phase = "none" /\ socks.phase = "none" /\ root.phase = "none"

\* The device carries packets of the running session only.
BearerFollowsSession ==
    bound # nil => /\ bound = session
                   /\ state = "up" \/ pc \in {"rootJoin", "socksJoin", "tdL3", "l3Join"}

\* Nothing outlives the session it belongs to: the bearer leaves a session before
\* the session is dropped, on every path that stops the L3 endpoint, and the actor
\* returns with no login left that it did not try to log out, no task and no bearer.
NothingIsLeftBehind == ExitIsClean /\ BearerFollowsSession

\* When a Stop is answered the service is disconnected: no login is kept, none waits for a
\* code, nothing runs and nothing is attached.  So it is for each of several Stops, although
\* they share one flag and the first to be executed clears what the others have set: a
\* command that logged in between them is undone by the next.  (Close answers what is queued
\* without executing it, and so does the loop with a Stop whose deadline has passed.)
StopLogsOut ==
    pc = "reply" /\ cmd.kind = "Stop" /\ ~closed =>
        /\ held = {} /\ session = nil /\ pend = nil /\ bound = nil /\ state = "idle"
        /\ l3.phase = "none" /\ socks.phase = "none" /\ root.phase = "none"

\* Where the actor may be with a Stop: it tears down and answers (the inductive form of
\* StopLogsOut).
StopInv ==
    cmd.kind = "Stop" =>
        /\ pc \in {"closedGate", "stopGate", "run", "reply", "teardown", "rootJoin", "socksJoin",
                  "tdL3", "l3Join", "logout"}
        /\ pc \in {"teardown", "rootJoin", "socksJoin", "tdL3", "l3Join", "logout"} => after = "reply"
        /\ pc = "socksJoin" => ret = "tdL3"
        /\ pc = "l3Join" => ret = "logout"
        /\ pc = "reply" => state = "idle" \/ closed

LoginRunning == cmd.kind \in LoginKinds /\ pc \notin {"select", "closedGate", "stopGate", "reply"}

\* Once Stop (or Close) has set its flag and called opCancel, a command that
\* logs in or starts an endpoint is cancelled or does not get past dispatch,
\* wherever it was when the flag was set.
CancelReachesLogin ==
    /\ stopPending /\ (\A c \in Stoppers : caller[c] \notin {"stored", "read"}) /\ LoginRunning
          => opDone
    /\ caller[Closer] = "waiting" /\ LoginRunning => opDone

\* Who will cancel the command that logs in, as long as it is not cancelled: a caller that
\* has yet to read opCancel, or has read it (the inductive form of CancelReachesLogin).
Cancelling(c) == caller[c] = "stored" \/ (caller[c] = "read" /\ holds[c])
CancelInv ==
    /\ pc = "select" => cmd.kind = "none"
    /\ cmd.kind # "none" => opSet
    /\ caller[Closer] # "idle" => closed
    /\ stopPending /\ LoginRunning => opDone \/ \E c \in Stoppers : Cancelling(c)
    /\ closed /\ cmd.kind \in LoginKinds /\ pc \notin {"select", "closedGate", "reply"} =>
          opDone \/ Cancelling(Closer)

StopQueued == \E i \in DOMAIN cmds : cmds[i].kind = "Stop"
StopCalled == \E c \in Stoppers : caller[c] # "idle"

\* The flag of Stop stands for a Stop that is still to be executed: call waits
\* for room "so that it cannot happen that only stopPending is left".
StopPendingHasStop ==
    stopPending /\ ~closed => StopCalled \/ StopQueued \/ cmd.kind = "Stop"

\* The actor never blocks for good.  It gets back to its loop from every command and every
\* report, whatever the tasks it waits for have to report to a full queue, so that the next
\* command (a Stop, say) has its turn; and Close ends it.
CommandsEnd == pc \notin {"select", "exited"} ~> pc \in {"select", "exited"}
CloseTerminates == closed ~> pc = "exited"
ActorGoesOn == CommandsEnd /\ CloseTerminates

\* A login that the server has ended is not kept as the running session.
EndedSessionIsDropped == \A s \in 1 .. MaxCalls : (session = s /\ s \in ended) ~> (session # s)
=============================================================================
