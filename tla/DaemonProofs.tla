---------------------------- MODULE DaemonProofs ----------------------------
(***************************************************************************)
(* Theorems about the service processes and the command lines, for every   *)
(* number of processes, command lines, connections and faults.             *)
(***************************************************************************)
EXTENDS Daemon, FiniteSetTheorems, TLAPS

\* The steps of a process that leave the connections and the command lines alone.
OwnStep(p) ==
    \/ StartStep(p) \/ BeginQuit(p) \/ CloseSvc(p) \/ ReleaseLease(p)
    \/ StartFails(p) \/ Signal(p)

\* A step of command line k that ends a call or a ping with outcome o.  Nobody is
\* found only if no socket can be reached; a call that is followed step by step
\* succeeds only with an answer.
Calling(k, o) ==
    /\ EndCall(k, o)
    /\ o = "notRunning" => ~Reachable
    /\ o = "ok" => cli[k].stage \in Quick \/ (cli[k].call # "none" /\ conn[cli[k].use].out # "none")

\* CallContext and the pings: every way in which a call ends.
LEMMA CallSteps ==
  ASSUME TypeOK, NEW k \in Clients,
         \/ Ping(k) \/ DialFails(k) \/ PingAnswered(k) \/ PingRefused(k) \/ ReadAnswer(k)
         \/ Disconnected(k) \/ CallTimeout(k),
         cli[k].call # "none" => cli[k].use \in Conns
  PROVE  \E o \in Whys : Calling(k, o) /\ faults' \in Nat
  <1> USE DEF TypeOK, TypeProcesses, Whys
  <1>1. CASE Ping(k)
    BY <1>1 DEF Ping, Calling
  <1>2. CASE DialFails(k)
    BY <1>2 DEF DialFails, Calling
  <1>3. CASE PingAnswered(k)
    BY <1>3 DEF PingAnswered, Calling, Answered
  <1>4. CASE PingRefused(k)
    BY <1>4 DEF PingRefused, Calling
  <1>5. CASE ReadAnswer(k)
    <2>1. conn[cli[k].use].out \in {"200", "400", "409", "500"}
      BY <1>5 DEF ReadAnswer, Answered, TypeConnections, Conn
    <2> QED
      BY <1>5, <2>1 DEF ReadAnswer, Calling
  <1>6. CASE Disconnected(k)
    BY <1>6 DEF Disconnected, Calling
  <1>7. CASE CallTimeout(k)
    BY <1>7 DEF CallTimeout, Calling, Fault
  <1> QED
    BY <1>1, <1>2, <1>3, <1>4, <1>5, <1>6, <1>7

\* Every step is one of these.
LEMMA StepKinds ==
  ASSUME TypeOK, AskedInv, [Next]_vars
  PROVE  \/ \E p \in Daemons : OwnStep(p) /\ Frame
         \/ \E p \in Daemons : ShutListener(p) \/ ExpireReads(p) \/ WaitDone(p) \/ WaitTimeout(p) \/ Dies(p)
         \/ \E c \in Conns : HandlerStep(c) \/ IdleTimeout(c)
         \/ \E k \in Clients : \E o \in Whys : Calling(k, o) /\ faults' \in Nat
         \/ \E k \in Clients : Dial(k) \/ SendRequest(k) \/ ChildExited(k) \/ StageTimeout(k)
         \/ UNCHANGED vars
  <1>1. ASSUME NEW p \in Daemons,
               ServerStep(p) \/ Dies(p) \/ (StartFails(p) /\ Frame) \/ (Signal(p) /\ Frame)
        PROVE  \/ OwnStep(p) /\ Frame
               \/ ShutListener(p) \/ ExpireReads(p) \/ WaitDone(p) \/ WaitTimeout(p) \/ Dies(p)
    BY <1>1 DEF ServerStep, OwnStep
  <1>2. ASSUME NEW k \in Clients, ClientStep(k) \/ CallTimeout(k) \/ StageTimeout(k)
        PROVE  \/ \E o \in Whys : Calling(k, o) /\ faults' \in Nat
               \/ Dial(k) \/ SendRequest(k) \/ ChildExited(k) \/ StageTimeout(k)
    <2>1. cli[k].call # "none" => cli[k].use \in Conns
      BY DEF AskedInv
    <2> QED
      BY <1>2, <2>1, CallSteps DEF ClientStep
  <1> QED
    BY <1>1, <1>2 DEF Next, Finished

\* What a handler's step and the end of a call make of a connection is one.
LEMMA UpdateType ==
  ASSUME TypeConnections, NEW c \in Conns, NEW r \in Conn
  PROVE  Update(c, r) \in [Conns -> Conn]
  <1>1. NoConn \in Conn
    BY DEF NoConn, Conn, HandlerPhases
  <1> QED
    BY <1>1 DEF Update, TypeConnections

LEMMA ClosedType ==
  ASSUME TypeConnections, NEW cs
  PROVE  Closed(cs) \in [Conns -> Conn]
  <1>1. NoConn \in Conn
    BY DEF NoConn, Conn, HandlerPhases
  <1>2. ASSUME NEW r \in Conn, NEW o \in {r.out, "none"} PROVE [r EXCEPT !.srv = "closed", !.out = o] \in Conn
    BY <1>2 DEF Conn, HandlerPhases
  <1>3. ASSUME NEW c \in Conns PROVE Closed(cs)[c] \in Conn
    BY <1>1, <1>2 DEF Closed, TypeConnections
  <1> QED
    BY <1>3 DEF Closed

LEMMA AnswerType ==
  ASSUME TypeConnections, NEW c \in Conns, NEW o \in {"200", "409", "500"}, Answer(c, o)
  PROVE  conn' \in [Conns -> Conn]
  <1>1. ASSUME NEW r \in Conn
        PROVE  [r EXCEPT !.out = o, !.in = "none", !.srv = "write", !.owed = TRUE] \in Conn
    BY DEF Conn, HandlerPhases
  <1> QED
    BY <1>1 DEF Answer, TypeConnections

\* The state of the processes keeps its type.
LEMMA ProcessesNext == TypeOK /\ AskedInv /\ [Next]_vars => TypeProcesses'
  <1> SUFFICES ASSUME TypeOK, AskedInv, [Next]_vars PROVE TypeProcesses'
    OBVIOUS
  <1> USE DEF TypeOK, TypeProcesses, Phases, Starting, Serving, Stopping, Leaving, Dead
  <1>1. ASSUME NEW p \in Daemons, OwnStep(p) PROVE TypeProcesses'
    <2>1. CASE StartStep(p)
      <3>1. CASE InitializeIdentity(p)
        BY <3>1 DEF InitializeIdentity, Goto, Identity
      <3> QED
        BY <2>1, <3>1 DEF StartStep, claimEndpoint, removeStaleSocket, RemoveSocket, Listen,
            replacePrivateFile, New, AbandonLease, Goto
    <2>2. CASE StartFails(p)
      BY <2>2 DEF StartFails, Goto, Fault
    <2>3. CASE BeginQuit(p) \/ ReleaseLease(p)
      BY <2>3 DEF BeginQuit, ReleaseLease, Goto
    <2>4. CASE CloseSvc(p)
      BY <2>4 DEF CloseSvc, Logout, Fault, Goto
    <2>5. CASE Signal(p)
      BY <2>5 DEF Signal, Fault
    <2> QED
      BY <1>1, <2>1, <2>2, <2>3, <2>4, <2>5 DEF OwnStep
  <1>2. ASSUME NEW p \in Daemons,
               ShutListener(p) \/ ExpireReads(p) \/ WaitDone(p) \/ WaitTimeout(p) \/ Dies(p)
        PROVE  TypeProcesses'
    <2>1. CASE Dies(p)
      BY <2>1 DEF Dies, Kill, Goto, Fault
    <2> QED
      BY <1>2, <2>1 DEF ShutListener, CloseListener, AbandonListener, ExpireReads, WaitDone,
          WaitTimeout, endpointVars, Goto
  <1>3. ASSUME NEW c \in Conns, HandlerStep(c) \/ IdleTimeout(c) PROVE TypeProcesses'
    <2>0. Running(c) => conn[c].peer \in Daemons
      BY DEF AskedInv, Running
    <2>1. CASE StartActs(c)
      <3>1. login' = login \/ login' = [login EXCEPT ![conn[c].peer] = TRUE]
        BY <2>1 DEF StartActs
      <3>2. login' \in [Daemons -> BOOLEAN]
        BY <3>1
      <3>3. faults' \in Nat /\ lost' \subseteq Daemons
        BY <2>0, <2>1 DEF StartActs, Running, Fault
      <3> QED
        BY <2>1, <3>2, <3>3 DEF StartActs
    <2>2. CASE DispatchStop(c)
      <3>1. conn[c].peer \in Daemons
        BY <2>0, <2>2 DEF DispatchStop, Take, Running
      <3>2. UNCHANGED <<login, lost, faults>> \/ Logout(conn[c].peer)
        BY <2>2 DEF DispatchStop
      <3>3. login' = login \/ login' = [login EXCEPT ![conn[c].peer] = FALSE]
        BY <3>2 DEF Logout
      <3>4. login' \in [Daemons -> BOOLEAN]
        BY <3>3
      <3>5. lost' \subseteq Daemons /\ faults' \in Nat
        BY <3>1, <3>2 DEF Logout, Fault
      <3> QED
        BY <2>2, <3>4, <3>5 DEF DispatchStop
    <2>3. CASE DispatchShutdown(c)
      BY <2>3 DEF DispatchShutdown
    <2> QED
      BY <1>3, <2>1, <2>2, <2>3 DEF HandlerStep, Serve, ArmDeadline, ReadFails, DispatchPing,
          DispatchResources, DispatchStart, WriteResponse, IdleTimeout, Fault, endpointVars
  <1>4. ASSUME NEW k \in Clients, NEW o \in Whys, Calling(k, o), faults' \in Nat PROVE TypeProcesses'
    BY <1>4 DEF Calling, EndCall, Spawn, Goto
  <1>5. ASSUME NEW k \in Clients, Dial(k) \/ SendRequest(k) \/ ChildExited(k) \/ StageTimeout(k)
        PROVE  TypeProcesses'
    BY <1>5 DEF Dial, SendRequest, ChildExited, StageTimeout, Fault, endpointVars
  <1>6. CASE UNCHANGED vars
    BY <1>6 DEF vars, endpointVars
  <1> QED
    BY <1>1, <1>2, <1>3, <1>4, <1>5, <1>6, StepKinds

\* So do the connections.
LEMMA ConnectionsNext == TypeOK /\ AskedInv /\ [Next]_vars => TypeConnections'
  <1> SUFFICES ASSUME TypeOK, AskedInv, [Next]_vars PROVE TypeConnections'
    OBVIOUS
  <1> USE DEF TypeOK
  <1>1. ASSUME NEW p \in Daemons, OwnStep(p) /\ Frame PROVE TypeConnections'
    BY <1>1 DEF Frame, TypeConnections
  <1>2. ASSUME NEW p \in Daemons,
               ShutListener(p) \/ ExpireReads(p) \/ WaitDone(p) \/ WaitTimeout(p) \/ Dies(p)
        PROVE  TypeConnections'
    <2>1. CASE Dies(p)
      BY <2>1, ClosedType DEF Dies, TypeConnections
    <2>2. CASE ShutListener(p)
      BY <2>2, ClosedType DEF ShutListener, TypeConnections
    <2>3. CASE ExpireReads(p)
      BY <2>3 DEF ExpireReads, TypeConnections, Conn
    <2> QED
      BY <1>2, <2>1, <2>2, <2>3 DEF WaitDone, WaitTimeout, TypeConnections
  <1>3. ASSUME NEW c \in Conns, HandlerStep(c) \/ IdleTimeout(c) PROVE TypeConnections'
    <2> DEFINE r == conn[c]
    <2>0. r \in Conn
      BY DEF TypeConnections
    <2>1. CASE Serve(c)
      <3>1. ASSUME NEW s \in HandlerPhases PROVE Update(c, [r EXCEPT !.srv = s]) \in [Conns -> Conn]
        <4>1. [r EXCEPT !.srv = s] \in Conn
          BY <2>0 DEF Conn
        <4> QED
          BY <4>1, UpdateType
      <3>2. conn' \in [Conns -> Conn]
        BY <2>1, <3>1 DEF Serve, Handler, HandlerPhases
      <3> QED
        BY <2>1, <3>2 DEF Serve, TypeConnections
    <2>2. CASE ArmDeadline(c)
      <3>1. ASSUME NEW s \in HandlerPhases
            PROVE  Update(c, [r EXCEPT !.late = FALSE, !.srv = s]) \in [Conns -> Conn]
        <4>1. [r EXCEPT !.late = FALSE, !.srv = s] \in Conn
          BY <2>0 DEF Conn
        <4> QED
          BY <4>1, UpdateType
      <3>2. conn' \in [Conns -> Conn]
        BY <2>2, <3>1 DEF ArmDeadline, HandlerPhases
      <3> QED
        BY <2>2, <3>2 DEF ArmDeadline, TypeConnections
    <2>3. CASE ReadFails(c)
      <3>1. ASSUME NEW o \in {r.out, "400"}
            PROVE  Update(c, [r EXCEPT !.srv = "closed", !.out = o]) \in [Conns -> Conn]
        <4>1. [r EXCEPT !.srv = "closed", !.out = o] \in Conn
          BY <2>0 DEF Conn, HandlerPhases
        <4> QED
          BY <4>1, UpdateType
      <3>2. conn' \in [Conns -> Conn]
        BY <2>3, <3>1 DEF ReadFails
      <3> QED
        BY <2>3, <3>2 DEF ReadFails, TypeConnections
    <2>4. CASE WriteResponse(c)
      <3>1. ASSUME NEW s \in HandlerPhases, NEW o \in {r.out, "none"}, NEW b \in BOOLEAN
            PROVE  Update(c, [r EXCEPT !.srv = s, !.out = o, !.owed = b]) \in [Conns -> Conn]
        <4>1. [r EXCEPT !.srv = s, !.out = o, !.owed = b] \in Conn
          BY <2>0 DEF Conn, HandlerPhases
        <4> QED
          BY <4>1, UpdateType
      <3>2. conn' \in [Conns -> Conn]
        BY <2>4, <3>1 DEF WriteResponse, HandlerPhases
      <3>3. res' \in [Daemons -> Conns \cup {nobody}]
        BY <2>4 DEF WriteResponse, TypeConnections
      <3> QED
        BY <2>4, <3>2, <3>3 DEF WriteResponse, TypeConnections
    <2> HIDE DEF r
    <2> USE DEF TypeConnections
    <2>5. CASE DispatchPing(c) \/ DispatchShutdown(c) \/ DispatchStop(c)
      BY <2>5, AnswerType DEF DispatchPing, DispatchShutdown, DispatchStop
    <2>6. CASE DispatchResources(c)
      <3>1. PICK o \in {"200", "409"} : Answer(c, o)
        BY <2>6 DEF DispatchResources
      <3>3. conn' \in [Conns -> Conn]
        BY <3>1, AnswerType
      <3>2. res' \in [Daemons -> Conns \cup {nobody}]
        BY <2>6 DEF DispatchResources
      <3> QED
        BY <2>6, <3>2, <3>3 DEF DispatchResources
    <2>7. CASE DispatchStart(c)
      <3>1. [conn[c] EXCEPT !.in = "none", !.srv = "start"] \in Conn
        BY <2>0 DEF r, Conn, HandlerPhases
      <3> QED
        BY <2>7, <3>1, AnswerType DEF DispatchStart
    <2>8. CASE StartActs(c)
      BY <2>8, AnswerType DEF StartActs
    <2>9. CASE IdleTimeout(c)
      <3>1. [conn[c] EXCEPT !.late = TRUE] \in Conn
        BY <2>0 DEF r, Conn
      <3> QED
        BY <2>9, <3>1 DEF IdleTimeout
    <2> QED
      BY <1>3, <2>1, <2>2, <2>3, <2>4, <2>5, <2>6, <2>7, <2>8, <2>9 DEF HandlerStep
  <1>4. ASSUME NEW k \in Clients, NEW o \in Whys, Calling(k, o) PROVE TypeConnections'
    <2>1. CASE cli[k].use = nobody
      BY <1>4, <2>1 DEF Calling, EndCall, TypeConnections
    <2>2. CASE cli[k].use # nobody
      <3>1. cli[k].use \in Conns
        BY <2>2 DEF TypeClients
      <3>2. [conn[cli[k].use] EXCEPT !.here = FALSE, !.out = "none"] \in Conn
        <4>1. conn[cli[k].use] \in Conn
          BY <3>1 DEF TypeConnections
        <4> QED
          BY <4>1 DEF Conn
      <3> QED
        BY <1>4, <2>2, <3>1, <3>2, UpdateType DEF Calling, EndCall, TypeConnections
    <2> QED
      BY <2>1, <2>2
  <1>5. ASSUME NEW k \in Clients, Dial(k) \/ SendRequest(k) \/ ChildExited(k) \/ StageTimeout(k)
        PROVE  TypeConnections'
    <2>1. CASE Dial(k)
      <3>1. sock \in Daemons
        BY <2>1 DEF Dial, Reachable, Listening
      <3>2. [NoConn EXCEPT !.peer = sock, !.srv = "backlog", !.here = TRUE, !.in = "ping"] \in Conn
        BY <3>1 DEF Conn, HandlerPhases, NoConn
      <3> QED
        BY <2>1, <3>2 DEF Dial, TypeConnections
    <2>2. CASE SendRequest(k)
      <3>1. Request(k) \in {"shutdown"} \cup AllGoals
        BY DEF Request, TypeClients
      <3>2. ASSUME NEW r \in Conn PROVE [r EXCEPT !.in = Request(k), !.out = "none"] \in Conn
        BY <3>1, <3>2 DEF Conn
      <3> QED
        BY <2>2, <3>2 DEF SendRequest, TypeConnections
    <2> QED
      BY <1>5, <2>1, <2>2 DEF ChildExited, StageTimeout, TypeConnections
  <1>6. CASE UNCHANGED vars
    BY <1>6 DEF vars, TypeConnections
  <1> QED
    BY <1>1, <1>2, <1>3, <1>4, <1>5, <1>6, StepKinds

\* So do the command lines.
LEMMA ClientsNext == TypeOK /\ AskedInv /\ [Next]_vars => TypeClients'
  <1> SUFFICES ASSUME TypeOK, AskedInv, [Next]_vars PROVE TypeClients'
    OBVIOUS
  <1> USE DEF TypeOK
  <1>1. ASSUME NEW p \in Daemons, OwnStep(p) /\ Frame PROVE TypeClients'
    BY <1>1 DEF Frame, TypeClients
  <1>2. ASSUME NEW p \in Daemons,
               ShutListener(p) \/ ExpireReads(p) \/ WaitDone(p) \/ WaitTimeout(p) \/ Dies(p)
        PROVE  TypeClients'
    BY <1>2 DEF ShutListener, ExpireReads, WaitDone, WaitTimeout, Dies, TypeClients
  <1>3. ASSUME NEW c \in Conns, HandlerStep(c) \/ IdleTimeout(c) PROVE TypeClients'
    BY <1>3 DEF HandlerStep, Serve, ArmDeadline, ReadFails, DispatchPing, DispatchShutdown,
        DispatchStop, DispatchResources, DispatchStart, StartActs, WriteResponse, IdleTimeout, TypeClients
  <1>4. ASSUME NEW k \in Clients, NEW o \in Whys, Calling(k, o) PROVE TypeClients'
    <2>1. Outcome(k, o) \in Stages
      BY DEF Outcome, Ready, Stages, TypeClients
    <2>2. CASE cli[k].stage = "ensure" /\ o = "notRunning"
      BY <1>4, <2>1, <2>2 DEF Calling, EndCall, TypeClients
    <2>3. CASE ~(cli[k].stage = "ensure" /\ o = "notRunning")
      <3>1. Ended(k, Outcome(k, o), o) \in [stage : Stages, goal : AllGoals, why : Whys,
                call : {"none", "pinged", "asked"}, use : Conns \cup {nobody},
                child : Daemons \cup {nobody}, asked : Daemons \cup {nobody}]
        BY <2>1 DEF Ended, Begin, TypeClients, Whys
      <3>2. cli[k].stage = "shutdown" /\ o = "ok" => conn[cli[k].use].peer \in Daemons
        BY <1>4 DEF Calling, AskedInv, Served, Quick
      <3>3. CASE Outcome(k, o) \in {"done", "failed"}
        <4>1. cli' = [cli EXCEPT ![k] = Ended(k, Outcome(k, o), o)]
          BY <1>4, <2>3, <3>3 DEF Calling, EndCall
        <4> QED
          BY <3>1, <4>1 DEF TypeClients
      <3>4. CASE Outcome(k, o) \notin {"done", "failed"}
        <4>1. PICK a \in Daemons \cup {nobody} :
                cli' = [cli EXCEPT ![k] = [cli[k] EXCEPT !.call = "none", !.use = nobody,
                                                         !.stage = Outcome(k, o), !.asked = a]]
          <5>1. cli[k].asked \in Daemons \cup {nobody}
            BY DEF TypeClients
          <5> QED
            BY <1>4, <2>3, <3>2, <3>4, <5>1 DEF Calling, EndCall
        <4> QED
          BY <2>1, <4>1 DEF TypeClients
      <3> QED
        BY <3>3, <3>4
    <2> QED
      BY <2>2, <2>3
  <1>5. ASSUME NEW k \in Clients, Dial(k) \/ SendRequest(k) \/ ChildExited(k) \/ StageTimeout(k)
        PROVE  TypeClients'
    <2>1. CASE StageTimeout(k)
      BY <2>1 DEF StageTimeout, Ended, Begin, TypeClients, Stages, Whys
    <2> QED
      BY <1>5, <2>1 DEF Dial, SendRequest, ChildExited, TypeClients, Stages
  <1>6. CASE UNCHANGED vars
    BY <1>6 DEF vars, TypeClients
  <1> QED
    BY <1>1, <1>2, <1>3, <1>4, <1>5, <1>6, StepKinds

\* No step but Serve begins a handler, and none moves one to another process.
\* An answer is a handler's work, and a connection has the peer it was dialled for.
NoNewHandler ==
    \A c \in Conns :
        /\ Running(c)' => Running(c) /\ conn'[c].peer = conn[c].peer
        /\ conn'[c].out # "none" => (Running(c) \/ conn[c].out # "none") /\ conn'[c].peer = conn[c].peer
        /\ conn'[c].srv # "closed" =>
            \/ conn[c].srv # "closed" /\ conn'[c].peer = conn[c].peer
            \/ Reachable /\ conn'[c].peer = sock

LEMMA HandlerSteps ==
  ASSUME TypeOK, AskedInv, [Next]_vars, ~\E c \in Conns : Serve(c)
  PROVE  NoNewHandler
  <1> USE DEF TypeOK, NoNewHandler, Running
  <1>1. ASSUME NEW p \in Daemons, OwnStep(p) /\ Frame PROVE NoNewHandler
    BY <1>1 DEF Frame
  <1>2. ASSUME NEW p \in Daemons,
               ShutListener(p) \/ ExpireReads(p) \/ WaitDone(p) \/ WaitTimeout(p) \/ Dies(p)
        PROVE  NoNewHandler
    <2>1. CASE ShutListener(p) \/ Dies(p)
      <3>1. PICK cs : conn' = Closed(cs)
        BY <2>1 DEF ShutListener, Dies
      <3> QED
        BY <3>1 DEF Closed, NoConn, TypeConnections, Conn
    <2>2. CASE ExpireReads(p)
      BY <2>2 DEF ExpireReads, TypeConnections, Conn
    <2> QED
      BY <1>2, <2>1, <2>2 DEF WaitDone, WaitTimeout
  <1>3. ASSUME NEW c \in Conns, HandlerStep(c) \/ IdleTimeout(c) PROVE NoNewHandler
    <2> USE DEF TypeConnections, Conn
    <2>1. CASE ArmDeadline(c)
      BY <2>1 DEF ArmDeadline, Update, NoConn
    <2>2. CASE ReadFails(c)
      BY <2>2 DEF ReadFails, Update, NoConn
    <2>3. CASE WriteResponse(c)
      BY <2>3 DEF WriteResponse, Update, NoConn
    <2>4. CASE DispatchPing(c) \/ DispatchShutdown(c) \/ DispatchStop(c) \/ DispatchResources(c) \/ DispatchStart(c)
      BY <2>4 DEF DispatchPing, DispatchShutdown, DispatchStop, DispatchResources, DispatchStart, Take, Answer
    <2>5. CASE StartActs(c)
      BY <2>5 DEF StartActs, Answer
    <2>6. CASE IdleTimeout(c)
      BY <2>6 DEF IdleTimeout
    <2> QED
      BY <1>3, <2>1, <2>2, <2>3, <2>4, <2>5, <2>6 DEF HandlerStep
  <1>4. ASSUME NEW k \in Clients, NEW o \in Whys, Calling(k, o) PROVE NoNewHandler
    BY <1>4 DEF Calling, EndCall, Update, NoConn, TypeConnections, Conn
  <1>5. ASSUME NEW k \in Clients, Dial(k) \/ SendRequest(k) \/ ChildExited(k) \/ StageTimeout(k)
        PROVE  NoNewHandler
    <2>1. CASE Dial(k)
      BY <2>1 DEF Dial, NoConn, TypeConnections
    <2>2. CASE SendRequest(k)
      BY <2>2 DEF SendRequest, TypeConnections, Conn
    <2> QED
      BY <1>5, <2>1, <2>2 DEF ChildExited, StageTimeout
  <1>6. CASE UNCHANGED vars
    BY <1>6 DEF vars
  <1> QED
    BY <1>1, <1>2, <1>3, <1>4, <1>5, <1>6, StepKinds

\* Handlers are connections, of which there are finitely many.
LEMMA HandlersFinite ==
  ASSUME NEW S, S \subseteq Conns
  PROVE  IsFiniteSet(S) /\ Cardinality(S) \in Nat
  <1>1. IsFiniteSet(Conns)
    BY DaemonAssumption, FS_Interval DEF Conns
  <1> QED
    BY <1>1, FS_Subset, FS_CardinalityType

\* connSlots: the server never has more handlers than it has places.
LEMMA LimitNext == TypeOK /\ AskedInv /\ [Next]_vars => WithinLimit'
  <1> SUFFICES ASSUME TypeOK, AskedInv, [Next]_vars, NEW p \in Daemons
               PROVE  Cardinality(Handlers(p)') <= MaxConnections
    BY DEF WithinLimit
  <1> USE DEF TypeOK
  <1>0. /\ IsFiniteSet(Handlers(p)) /\ Cardinality(Handlers(p)) \in Nat
        /\ IsFiniteSet(Handlers(p)') /\ Cardinality(Handlers(p)') \in Nat
        /\ Cardinality(Handlers(p)) <= MaxConnections
    <2>1. Handlers(p) \subseteq Conns /\ Handlers(p)' \subseteq Conns
      BY DEF Handlers
    <2> QED
      BY <2>1, HandlersFinite DEF WithinLimit
  <1>1. CASE \E c \in Conns : Serve(c)
    <2>1. PICK c \in Conns : Serve(c)
      BY <1>1
    <2>2. \A d \in Conns : d # c => conn'[d] = conn[d]
      BY <2>1 DEF Serve, Handler, Update, TypeConnections
    <2>3. ~Running(c)
      BY <2>1 DEF Serve, Running
    <2>4. Running(c)' => /\ conn'[c].peer = conn[c].peer
                         /\ Cardinality(Handlers(conn[c].peer)) < MaxConnections
      <3>1. CASE Closing(conn[c].peer) \/ Cardinality(Handlers(conn[c].peer)) >= MaxConnections
        BY <2>1, <3>1 DEF Serve, Handler, Update, TypeConnections, Conn, NoConn, Running
      <3>2. CASE ~(Closing(conn[c].peer) \/ Cardinality(Handlers(conn[c].peer)) >= MaxConnections)
        <4>1. conn'[c].peer = conn[c].peer
          BY <2>1, <3>2 DEF Serve, Handler, Update, TypeConnections, Conn
        <4>2. Cardinality(Handlers(conn[c].peer)) \in Nat
          BY HandlersFinite DEF Handlers
        <4> QED
          BY <3>2, <4>1, <4>2, DaemonAssumption
      <3> QED
        BY <3>1, <3>2
    <2>5. CASE Running(c)' /\ conn[c].peer = p
      <3>1. Handlers(p)' = Handlers(p) \cup {c} /\ c \notin Handlers(p)
        BY <2>2, <2>3, <2>4, <2>5 DEF Handlers, Running
      <3>2. Cardinality(Handlers(p)') = Cardinality(Handlers(p)) + 1
        BY <3>1, <1>0, FS_AddElement
      <3> QED
        BY <2>4, <2>5, <3>2, <1>0, DaemonAssumption
    <2>6. CASE ~(Running(c)' /\ conn[c].peer = p)
      <3>1. Handlers(p)' \subseteq Handlers(p)
        BY <2>2, <2>3, <2>4, <2>6 DEF Handlers, Running
      <3> QED
        BY <3>1, <1>0, FS_Subset, DaemonAssumption
    <2> QED
      BY <2>5, <2>6
  <1>2. CASE ~\E c \in Conns : Serve(c)
    <2>1. NoNewHandler
      BY <1>2, HandlerSteps
    <2>2. Handlers(p)' \subseteq Handlers(p)
      BY <2>1 DEF NoNewHandler, Handlers
    <2> QED
      BY <2>2, <1>0, FS_Subset, DaemonAssumption
  <1> QED
    BY <1>1, <1>2

\* Steps of a process that has no lease, and steps that no process takes.
AsideStep ==
    /\ \/ \E p \in Daemons : \/ dpc[p] = "off" /\ Goto(p, "claim")
                             \/ dpc[p] = "expire" /\ Goto(p, "wait")
                             \/ dpc[p] = "wait" /\ Goto(p, "exited")
       \/ UNCHANGED dpc
    /\ \/ \E p \in Daemons : dpc[p] = "off" /\ mem' = [mem EXCEPT ![p] = file]
       \/ UNCHANGED mem
    /\ UNCHANGED <<lock, sock, file, login, lost>>

\* A login, or the attempt to log out or in.
Turn(p) ==
    /\ dpc[p] \in Serving
    /\ \E b \in BOOLEAN : login' = [login EXCEPT ![p] = b] /\ (b => ~login[p] /\ lost' = lost)
    /\ lost' \in {lost, lost \cup {p}}

\* The steps of a handler that log in or out.
LoginStep ==
    /\ \E p \in Daemons : dpc[p] = "serve" /\ Turn(p)
    /\ UNCHANGED <<dpc, lock, sock, file, mem>>

\* The lease.  What a step does to the processes, whoever takes it.
LEMMA ProcessSteps ==
  ASSUME TypeOK, AskedInv, [Next]_vars
  PROVE  \/ \E p \in Daemons : OwnStep(p)
         \/ \E p \in Daemons : CloseListener(p) \/ AbandonListener(p) \/ Kill(p)
         \/ AsideStep \/ LoginStep
  <1>1. ASSUME NEW p \in Daemons,
               ShutListener(p) \/ ExpireReads(p) \/ WaitDone(p) \/ WaitTimeout(p) \/ Dies(p)
        PROVE  CloseListener(p) \/ AbandonListener(p) \/ Kill(p) \/ AsideStep
    BY <1>1 DEF ShutListener, ExpireReads, WaitDone, WaitTimeout, Dies, endpointVars, AsideStep
  <1>2. ASSUME NEW c \in Conns, HandlerStep(c) \/ IdleTimeout(c)
        PROVE  AsideStep \/ LoginStep
    <2>1. Running(c) => conn[c].peer \in Daemons
      BY DEF AskedInv, Running
    <2>2. CASE DispatchStop(c)
      BY <2>1, <2>2 DEF DispatchStop, Logout, Fault, Take, Running, AsideStep, LoginStep, Turn, Serving
    <2>3. CASE StartActs(c)
      BY <2>1, <2>3 DEF StartActs, Running, AsideStep, LoginStep, Turn, Serving, TypeOK, TypeProcesses
    <2> QED
      BY <1>2, <2>2, <2>3 DEF HandlerStep, Serve, ArmDeadline, ReadFails, DispatchPing, DispatchShutdown,
          DispatchResources, DispatchStart, WriteResponse, IdleTimeout, endpointVars, AsideStep
  <1>3. ASSUME NEW k \in Clients, NEW o \in Whys, Calling(k, o)
        PROVE  AsideStep
    BY <1>3 DEF Calling, EndCall, Spawn, AsideStep
  <1>4. ASSUME NEW k \in Clients, Dial(k) \/ SendRequest(k) \/ ChildExited(k) \/ StageTimeout(k)
        PROVE  AsideStep
    BY <1>4 DEF Dial, SendRequest, ChildExited, StageTimeout, endpointVars, AsideStep
  <1>5. CASE UNCHANGED vars
    BY <1>5 DEF vars, endpointVars, AsideStep
  <1> QED
    BY <1>1, <1>2, <1>3, <1>4, <1>5, StepKinds

\* LeaseInv is inductive: the flock is taken when nobody has it and given back (or
\* lost with the process) last of all, and in between nobody else touches the name.
LEMMA LeaseNext == TypeOK /\ AskedInv /\ LeaseInv /\ [Next]_vars => LeaseInv'
  <1> SUFFICES ASSUME TypeOK, AskedInv, LeaseInv, [Next]_vars PROVE LeaseInv'
    OBVIOUS
  <1> USE DEF LeaseInv, Listening, Leasing, Starting, Serving, Stopping, Leaving, Dead
  <1>0. TypeProcesses /\ \A p \in Daemons : p # nobody
    BY EndpointAssumption DEF TypeOK, Daemons, nobody
  <1>1. ASSUME NEW p \in Daemons, OwnStep(p) PROVE LeaseInv'
    <2>1. CASE claimEndpoint(p)
      BY <1>0, <2>1 DEF claimEndpoint, Goto, TypeProcesses
    <2>2. CASE removeStaleSocket(p)
      BY <1>0, <2>2 DEF removeStaleSocket, Goto, TypeProcesses
    <2>3. CASE RemoveSocket(p)
      BY <1>0, <2>3 DEF RemoveSocket, Goto, TypeProcesses
    <2>4. CASE Listen(p)
      BY <1>0, <2>4 DEF Listen, Goto, TypeProcesses
    <2>5. CASE InitializeIdentity(p)
      BY <1>0, <2>5 DEF InitializeIdentity, Goto, TypeProcesses
    <2>6. CASE replacePrivateFile(p)
      BY <1>0, <2>6 DEF replacePrivateFile, Goto, TypeProcesses
    <2>7. CASE New(p)
      BY <1>0, <2>7 DEF New, Goto, TypeProcesses
    <2>8. CASE AbandonLease(p)
      BY <1>0, <2>8 DEF AbandonLease, Goto, TypeProcesses
    <2>9. CASE BeginQuit(p)
      BY <1>0, <2>9 DEF BeginQuit, Goto, TypeProcesses
    <2>10. CASE CloseSvc(p)
      BY <1>0, <2>10 DEF CloseSvc, Logout, Goto, TypeProcesses
    <2>11. CASE ReleaseLease(p)
      BY <1>0, <2>11 DEF ReleaseLease, Goto, TypeProcesses
    <2>12. CASE StartFails(p)
      BY <1>0, <2>12 DEF StartFails, Goto, TypeProcesses
    <2>13. CASE Signal(p)
      BY <1>0, <2>13 DEF Signal
    <2> QED
      BY <1>1, <2>1, <2>2, <2>3, <2>4, <2>5, <2>6, <2>7, <2>8, <2>9, <2>10, <2>11, <2>12, <2>13 DEF
          OwnStep, StartStep
  <1>2. ASSUME NEW p \in Daemons, CloseListener(p) \/ AbandonListener(p) \/ Kill(p) PROVE LeaseInv'
    <2>1. CASE CloseListener(p)
      BY <1>0, <2>1 DEF CloseListener, Goto, TypeProcesses
    <2>2. CASE AbandonListener(p)
      BY <1>0, <2>2 DEF AbandonListener, Goto, TypeProcesses
    <2>3. CASE Kill(p)
      BY <1>0, <2>3 DEF Kill, Alive, Goto, TypeProcesses
    <2> QED
      BY <1>2, <2>1, <2>2, <2>3
  <1>3. CASE AsideStep
    BY <1>0, <1>3 DEF AsideStep, Goto, TypeProcesses
  <1>4. CASE LoginStep
    BY <1>0, <1>4 DEF LoginStep, Turn, TypeProcesses
  <1> HIDE DEF LeaseInv, Listening, Leasing, Starting, Serving, Stopping, Leaving, Dead
  <1> QED
    BY <1>1, <1>2, <1>3, <1>4, ProcessSteps

\* Served, of the processes of the next state.
ServedNext(p) == p \in Daemons /\ dpc'[p] \in Serving \cup Stopping \cup Dead

\* A process that has served goes on to its end and never serves a second time.
LEMMA Onward ==
  ASSUME TypeOK, AskedInv, [Next]_vars, NEW p, Served(p)
  PROVE  ServedNext(p) /\ (dpc[p] \notin Serving => dpc'[p] \notin Serving)
  <1> USE DEF Served, ServedNext, Starting, Serving, Stopping, Leaving, Dead
  <1>0. dpc \in [Daemons -> Phases]
    BY DEF TypeOK, TypeProcesses
  <1>1. ASSUME NEW q \in Daemons, OwnStep(q)
        PROVE  ServedNext(p) /\ (dpc[p] \notin Serving => dpc'[p] \notin Serving)
    BY <1>0, <1>1 DEF OwnStep, StartStep, claimEndpoint, removeStaleSocket, RemoveSocket, Listen,
        InitializeIdentity, replacePrivateFile, New, AbandonLease, BeginQuit, CloseSvc, ReleaseLease,
        StartFails, Signal, Goto
  <1>2. ASSUME NEW q \in Daemons, CloseListener(q) \/ AbandonListener(q) \/ Kill(q)
        PROVE  ServedNext(p) /\ (dpc[p] \notin Serving => dpc'[p] \notin Serving)
    BY <1>0, <1>2 DEF CloseListener, AbandonListener, Kill, Goto
  <1>3. CASE AsideStep
    BY <1>0, <1>3 DEF AsideStep, Goto
  <1>4. CASE LoginStep
    BY <1>4 DEF LoginStep
  <1> QED
    BY <1>1, <1>2, <1>3, <1>4, ProcessSteps

\* A command line's state is changed by its own steps only.
LEMMA ClientTurn ==
  ASSUME TypeOK, AskedInv, [Next]_vars, NEW k \in Clients
  PROVE  \/ cli'[k] = cli[k] \/ \E o \in Whys : Calling(k, o)
         \/ Dial(k) \/ SendRequest(k) \/ ChildExited(k) \/ StageTimeout(k)
  <1>1. ASSUME NEW p \in Daemons,
               \/ OwnStep(p) /\ Frame
               \/ ShutListener(p) \/ ExpireReads(p) \/ WaitDone(p) \/ WaitTimeout(p) \/ Dies(p)
        PROVE  cli' = cli
    BY <1>1 DEF Frame, ShutListener, ExpireReads, WaitDone, WaitTimeout, Dies
  <1>2. ASSUME NEW c \in Conns, HandlerStep(c) \/ IdleTimeout(c) PROVE cli' = cli
    BY <1>2 DEF HandlerStep, Serve, ArmDeadline, ReadFails, DispatchPing, DispatchShutdown,
        DispatchStop, DispatchResources, DispatchStart, StartActs, WriteResponse, IdleTimeout
  <1>3. ASSUME NEW j \in Clients, NEW o \in Whys, Calling(j, o), j # k PROVE cli'[k] = cli[k]
    BY <1>3 DEF Calling, EndCall, TypeOK, TypeClients
  <1>4. ASSUME NEW j \in Clients, Dial(j) \/ SendRequest(j) \/ ChildExited(j) \/ StageTimeout(j), j # k
        PROVE  cli'[k] = cli[k]
    BY <1>4 DEF Dial, SendRequest, ChildExited, StageTimeout, TypeOK, TypeClients
  <1> QED
    BY <1>1, <1>2, <1>3, <1>4, StepKinds DEF vars

\* AskedInv is inductive: an answer comes from a process that serves or has served,
\* and a restart goes on only when nobody can be reached, while a process that
\* serves can be (LeaseInv).
LEMMA AskedNext == TypeOK /\ AskedInv /\ LeaseInv /\ [Next]_vars => AskedInv'
  <1> SUFFICES ASSUME TypeOK, AskedInv, LeaseInv, [Next]_vars PROVE AskedInv'
    OBVIOUS
  <1>1. ASSUME NEW c \in Conns
        PROVE  /\ conn'[c].srv # "closed" => conn'[c].peer \in Daemons
               /\ Running(c)' \/ conn'[c].out # "none" => ServedNext(conn'[c].peer)
    <2>1. /\ conn[c].srv # "closed" => conn[c].peer \in Daemons
          /\ Running(c) \/ conn[c].out # "none" => Served(conn[c].peer)
      BY DEF AskedInv
    <2>2. CASE \E d \in Conns : Serve(d)
      <3>1. PICK d \in Conns : Serve(d)
        BY <2>2
      <3>2. CASE c # d
        <4>1. conn'[c] = conn[c]
          BY <3>1, <3>2 DEF Serve, Handler, Update, TypeOK, TypeConnections
        <4> QED
          BY <2>1, <4>1, Onward DEF Running
      <3>3. CASE c = d
        <4>1. Served(conn[c].peer)
          BY <2>1, <3>1, <3>3 DEF Serve, Served, Stopping
        <4>2. \/ conn'[c].peer = conn[c].peer
              \/ conn'[c].srv = "closed" /\ conn'[c].out = "none"
          BY <3>1, <3>3 DEF Serve, Handler, Update, TypeOK, TypeConnections, Conn, NoConn
        <4> QED
          BY <2>1, <4>1, <4>2, Onward DEF Running, Served
      <3> QED
        BY <3>2, <3>3
    <2>3. CASE ~\E d \in Conns : Serve(d)
      <3>1. NoNewHandler
        BY <2>3, HandlerSteps
      <3>2. Reachable => sock \in Daemons
        BY DEF Reachable, Listening
      <3> QED
        BY <2>1, <3>1, <3>2, Onward DEF NoNewHandler
    <2> QED
      BY <2>2, <2>3
  <1>2. ASSUME NEW k \in Clients
        PROVE  /\ cli'[k].call # "none" => cli'[k].use \in Conns /\ cli'[k].stage \in Calls
               /\ cli'[k].asked # nobody => ServedNext(cli'[k].asked)
               /\ cli'[k].asked # nobody /\ cli'[k].stage \in Quick => dpc'[cli'[k].asked] \notin Serving
    <2>0. /\ cli[k].call # "none" => cli[k].use \in Conns /\ cli[k].stage \in Calls
          /\ cli[k].asked # nobody => Served(cli[k].asked)
          /\ cli[k].asked # nobody /\ cli[k].stage \in Quick => dpc[cli[k].asked] \notin Serving
      BY DEF AskedInv
    <2>1. CASE cli'[k] = cli[k]
      BY <2>0, <2>1, Onward
    <2>2. CASE \E o \in Whys : Calling(k, o)
      <3>1. PICK o \in Whys : Calling(k, o)
        BY <2>2
      <3>2. CASE cli[k].stage = "ensure" /\ o = "notRunning"
        <4>1. PICK p \in Daemons : cli' = [cli EXCEPT ![k].stage = Outcome(k, o), ![k].child = p]
          BY <3>1, <3>2 DEF Calling, EndCall
        <4>2. cli'[k].call = cli[k].call /\ cli'[k].use = cli[k].use /\ cli'[k].asked = cli[k].asked
          BY <4>1 DEF TypeOK, TypeClients
        <4>3. cli[k].call = "none"
          BY <2>0, <3>2 DEF Calls
        <4> QED
          BY <2>0, <3>2, <4>2, <4>3, Onward DEF Quick
      <3>3. CASE ~(cli[k].stage = "ensure" /\ o = "notRunning") /\ Outcome(k, o) \in {"done", "failed"}
        <4>1. cli' = [cli EXCEPT ![k] = Ended(k, Outcome(k, o), o)]
          BY <3>1, <3>3 DEF Calling, EndCall
        <4>2. cli'[k].call = "none" /\ cli'[k].asked = nobody
          BY <4>1 DEF TypeOK, TypeClients, Ended, Begin
        <4> QED
          BY <4>2
      <3>4. CASE ~(cli[k].stage = "ensure" /\ o = "notRunning") /\ Outcome(k, o) \notin {"done", "failed"}
        <4>1. cli' = [cli EXCEPT ![k] = [cli[k] EXCEPT !.call = "none", !.use = nobody, !.stage = Outcome(k, o),
                          !.asked = IF cli[k].stage = "shutdown" /\ o = "ok" THEN conn[cli[k].use].peer ELSE cli[k].asked]]
          BY <3>1, <3>4 DEF Calling, EndCall
        <4>2. /\ cli'[k].call = "none" /\ cli'[k].stage = Outcome(k, o)
              /\ cli'[k].asked = IF cli[k].stage = "shutdown" /\ o = "ok" THEN conn[cli[k].use].peer ELSE cli[k].asked
          BY <4>1 DEF TypeOK, TypeClients
        <4>3. CASE cli[k].stage = "shutdown" /\ o = "ok"
          <5>1. Served(conn[cli[k].use].peer)
            BY <2>0, <3>1, <4>3 DEF Calling, Quick, AskedInv
          <5>2. Outcome(k, o) = "gone"
            BY <4>3 DEF Outcome
          <5> QED
            BY <4>2, <4>3, <5>1, <5>2, Onward DEF Quick
        <4>4. CASE ~(cli[k].stage = "shutdown" /\ o = "ok")
          <5>1. Outcome(k, o) \in Quick /\ cli[k].stage \notin Quick => o = "notRunning"
            BY DEF Outcome, Ready, Quick
          <5>2. cli[k].asked # nobody /\ o = "notRunning" => dpc[cli[k].asked] \notin Serving
            BY <2>0, <3>1 DEF Calling, Reachable, LeaseInv, Listening, Served
          <5> QED
            BY <2>0, <4>2, <4>4, <5>1, <5>2, Onward
        <4> QED
          BY <4>3, <4>4
      <3> QED
        BY <3>2, <3>3, <3>4
    <2>3. CASE Dial(k) \/ SendRequest(k) \/ ChildExited(k) \/ StageTimeout(k)
      <3>1. CASE Dial(k)
        <4>1. /\ cli'[k].use \in Conns /\ cli'[k].stage = cli[k].stage /\ cli'[k].asked = cli[k].asked
              /\ cli[k].stage \in Calls
          BY <3>1 DEF Dial, TypeOK, TypeClients
        <4> QED
          BY <2>0, <4>1, Onward
      <3>2. CASE SendRequest(k)
        <4>1. /\ cli'[k].use = cli[k].use /\ cli'[k].stage = cli[k].stage /\ cli'[k].asked = cli[k].asked
              /\ cli[k].call # "none"
          BY <3>2 DEF SendRequest, TypeOK, TypeClients
        <4> QED
          BY <2>0, <4>1, Onward
      <3>3. CASE ChildExited(k)
        <4>1. /\ cli'[k].call = cli[k].call /\ cli[k].stage = "ready" /\ cli'[k].asked = cli[k].asked
          BY <3>3 DEF ChildExited, TypeOK, TypeClients
        <4> QED
          BY <2>0, <4>1, Onward DEF Quick, Calls
      <3>4. CASE StageTimeout(k)
        <4>1. cli'[k].call = "none" /\ cli'[k].asked = nobody
          BY <3>4 DEF StageTimeout, Ended, Begin, TypeOK, TypeClients
        <4> QED
          BY <4>1
      <3> QED
        BY <2>3, <3>1, <3>2, <3>3, <3>4
    <2>4. \/ cli'[k] = cli[k] \/ \E o \in Whys : Calling(k, o)
          \/ Dial(k) \/ SendRequest(k) \/ ChildExited(k) \/ StageTimeout(k)
      BY ClientTurn
    <2> QED
      BY <2>1, <2>2, <2>3, <2>4
  <1> QED
    BY <1>1, <1>2 DEF AskedInv, Served, ServedNext

\* IdentityInv is inductive: only the holder of the lease writes the file, and it
\* has read the file again after it got the lease.
LEMMA IdentityNext == TypeOK /\ AskedInv /\ LeaseInv /\ IdentityInv /\ [Next]_vars => IdentityInv'
  <1> SUFFICES ASSUME TypeOK, AskedInv, LeaseInv, IdentityInv, [Next]_vars PROVE IdentityInv'
    OBVIOUS
  <1> USE DEF IdentityInv, complete, Serving
  <1>0. /\ dpc \in [Daemons -> Phases] /\ file \in Identity /\ mem \in [Daemons -> Identity]
        /\ \A p \in Daemons : p # NoId
    BY EndpointAssumption DEF TypeOK, TypeProcesses, Daemons, nobody, NoId
  <1>1. ASSUME NEW p \in Daemons, OwnStep(p) PROVE IdentityInv'
    <2>1. CASE InitializeIdentity(p)
      BY <1>0, <2>1 DEF InitializeIdentity, Goto, Identity
    <2>2. CASE replacePrivateFile(p)
      <3>1. \A q \in Daemons : q # p => dpc'[q] \notin Leasing
        BY <1>0, <2>2 DEF replacePrivateFile, Goto, LeaseInv, Leasing, Starting
      <3>2. \A q \in Daemons : q # p => dpc'[q] \notin {"serve", "closeSvc", "new", "rename"}
        BY <3>1 DEF Leasing, Starting
      <3> QED
        BY <1>0, <2>2, <3>2 DEF replacePrivateFile, Goto
    <2>3. CASE StartFails(p)
      BY <1>0, <2>3 DEF StartFails, Goto
    <2> QED
      BY <1>0, <1>1, <2>1, <2>2, <2>3 DEF OwnStep, StartStep, claimEndpoint, removeStaleSocket, RemoveSocket,
          Listen, New, AbandonLease, BeginQuit, CloseSvc, ReleaseLease, Signal, Goto
  <1>2. ASSUME NEW p \in Daemons, CloseListener(p) \/ AbandonListener(p) \/ Kill(p) PROVE IdentityInv'
    BY <1>0, <1>2 DEF CloseListener, AbandonListener, Kill, Goto
  <1>3. CASE AsideStep
    BY <1>0, <1>3 DEF AsideStep, Goto
  <1>4. CASE LoginStep
    BY <1>4 DEF LoginStep
  <1> HIDE DEF IdentityInv, complete, Serving
  <1> QED
    BY <1>1, <1>2, <1>3, <1>4, ProcessSteps

\* Connections that Wait has given up on stay so, and so do processes that were killed.
LEMMA Doomed ==
  ASSUME TypeOK, AskedInv, [Next]_vars, NEW p \in Daemons
  PROVE  /\ cut[p] => cut'[p]
         /\ dpc[p] = "killed" => dpc'[p] = "killed"
  <1>1. cut[p] => cut'[p]
    <2>1. ASSUME NEW q \in Daemons,
                 ShutListener(q) \/ ExpireReads(q) \/ WaitDone(q) \/ WaitTimeout(q) \/ Dies(q)
          PROVE  cut[p] => cut'[p]
      BY <2>1 DEF ShutListener, ExpireReads, WaitDone, WaitTimeout, Dies, TypeOK, TypeConnections
    <2>2. ASSUME NEW c \in Conns, HandlerStep(c) \/ IdleTimeout(c) PROVE cut' = cut
      BY <2>2 DEF HandlerStep, Serve, ArmDeadline, ReadFails, DispatchPing, DispatchShutdown,
          DispatchStop, DispatchResources, DispatchStart, StartActs, WriteResponse, IdleTimeout
    <2>3. ASSUME NEW k \in Clients, NEW o \in Whys, Calling(k, o) PROVE cut' = cut
      BY <2>3 DEF Calling, EndCall
    <2>4. ASSUME NEW k \in Clients, Dial(k) \/ SendRequest(k) \/ ChildExited(k) \/ StageTimeout(k)
          PROVE  cut' = cut
      BY <2>4 DEF Dial, SendRequest, ChildExited, StageTimeout
    <2> QED
      BY <2>1, <2>2, <2>3, <2>4, StepKinds DEF Frame, vars
  <1>2. dpc[p] = "killed" => dpc'[p] = "killed"
    <2>0. dpc \in [Daemons -> Phases]
      BY DEF TypeOK, TypeProcesses
    <2>1. ASSUME NEW q \in Daemons, OwnStep(q) PROVE dpc[p] = "killed" => dpc'[p] = "killed"
      BY <2>0, <2>1 DEF OwnStep, StartStep, claimEndpoint, removeStaleSocket, RemoveSocket, Listen,
          InitializeIdentity, replacePrivateFile, New, AbandonLease, BeginQuit, CloseSvc, ReleaseLease,
          StartFails, Starting, Signal, Goto
    <2>2. ASSUME NEW q \in Daemons, CloseListener(q) \/ AbandonListener(q) \/ Kill(q)
          PROVE  dpc[p] = "killed" => dpc'[p] = "killed"
      BY <2>0, <2>2 DEF CloseListener, AbandonListener, Kill, Goto
    <2>3. CASE AsideStep
      BY <2>0, <2>3 DEF AsideStep, Goto
    <2>4. CASE LoginStep
      BY <2>4 DEF LoginStep
    <2> QED
      BY <2>1, <2>2, <2>3, <2>4, ProcessSteps
  <1> QED
    BY <1>1, <1>2

\* What OwedInv says of one connection.
OwedOf(c) ==
    /\ conn[c].owed => conn[c].peer \in Daemons /\ conn[c].srv \in {"write", "closed"}
    /\ conn[c].srv = "closed" /\ conn[c].owed /\ conn[c].here => cut[conn[c].peer] \/ dpc[conn[c].peer] = "killed"

\* OwedInv is inductive: a handler that has executed a request writes its answer
\* before it looks at anything else.
LEMMA OwedNext == TypeOK /\ AskedInv /\ OwedInv /\ [Next]_vars => OwedInv'
  <1> SUFFICES ASSUME TypeOK, AskedInv, OwedInv, [Next]_vars, NEW c \in Conns PROVE OwedOf(c)'
    BY DEF OwedInv, OwedOf, ExecutedIsAnswered
  <1>0. /\ OwedOf(c) /\ conn \in [Conns -> Conn] /\ conn[c] \in Conn
        /\ Running(c) => conn[c].peer \in Daemons
    BY DEF OwedInv, OwedOf, ExecutedIsAnswered, TypeOK, TypeConnections, AskedInv, Running
  <1>1. CASE conn'[c] = conn[c]
    BY <1>0, <1>1, Doomed DEF OwedOf
  <1>2. ASSUME NEW p \in Daemons, ShutListener(p) PROVE OwedOf(c)'
    <2>1. CASE conn[c].peer = p /\ conn[c].srv = "backlog"
      <3>1. ~conn[c].owed
        BY <1>0, <2>1 DEF OwedOf
      <3>2. ~conn'[c].owed
        BY <1>0, <1>2, <2>1, <3>1 DEF ShutListener, Closed, NoConn, Conn
      <3> QED
        BY <3>2 DEF OwedOf
    <2>2. CASE ~(conn[c].peer = p /\ conn[c].srv = "backlog")
      BY <1>1, <1>2, <2>2 DEF ShutListener, Closed
    <2> QED
      BY <2>1, <2>2
  <1>3. ASSUME NEW p \in Daemons, Dies(p) PROVE OwedOf(c)'
    <2>1. CASE conn[c].peer = p
      <3>1. dpc'[p] = "killed"
        BY <1>3 DEF Dies, Kill, Goto, TypeOK, TypeProcesses
      <3>2. conn'[c] = NoConn \/ (conn'[c].peer = p /\ conn'[c].srv = "closed")
        BY <1>0, <1>3, <2>1 DEF Dies, Closed, Conn
      <3> QED
        BY <3>1, <3>2 DEF OwedOf, NoConn
    <2>2. CASE conn[c].peer # p
      BY <1>1, <1>3, <2>2 DEF Dies, Closed
    <2> QED
      BY <2>1, <2>2
  <1>4. ASSUME NEW p \in Daemons, ExpireReads(p) PROVE OwedOf(c)'
    <2>1. /\ conn'[c].owed = conn[c].owed /\ conn'[c].peer = conn[c].peer /\ conn'[c].srv = conn[c].srv
          /\ conn'[c].here = conn[c].here
      BY <1>0, <1>4 DEF ExpireReads, Conn
    <2> QED
      BY <1>0, <2>1, Doomed DEF OwedOf
  <1>5. ASSUME HandlerStep(c) \/ IdleTimeout(c) PROVE OwedOf(c)'
    <2>1. CASE Serve(c) \/ ArmDeadline(c) \/ ReadFails(c)
      <3>1. ~conn[c].owed
        BY <1>0, <2>1 DEF Serve, ArmDeadline, ReadFails, OwedOf
      <3>2. ~conn'[c].owed
        <4>1. conn'[c] = NoConn \/ conn'[c].owed = conn[c].owed
          <5>1. CASE Serve(c)
            BY <1>0, <5>1 DEF Serve, Handler, Update, Conn
          <5>2. CASE ArmDeadline(c)
            BY <1>0, <5>2 DEF ArmDeadline, Update, Conn
          <5>3. CASE ReadFails(c)
            BY <1>0, <5>3 DEF ReadFails, Update, Conn
          <5> QED
            BY <2>1, <5>1, <5>2, <5>3
        <4> QED
          BY <3>1, <4>1 DEF NoConn
      <3> QED
        BY <3>2 DEF OwedOf
    <2>2. CASE DispatchPing(c) \/ DispatchShutdown(c) \/ DispatchStop(c) \/ DispatchResources(c) \/ DispatchStart(c)
      <3>1. Running(c)
        BY <2>2 DEF DispatchPing, DispatchShutdown, DispatchStop, DispatchResources, DispatchStart, Take, Running
      <3>2. conn[c].srv = "read"
        BY <2>2 DEF DispatchPing, DispatchShutdown, DispatchStop, DispatchResources, DispatchStart, Take
      <3>3. \/ \E o : Answer(c, o)
            \/ conn' = [conn EXCEPT ![c].in = "none", ![c].srv = "start"]
        BY <2>2 DEF DispatchPing, DispatchShutdown, DispatchStop, DispatchResources, DispatchStart
      <3>4. /\ conn'[c].peer = conn[c].peer
            /\ conn'[c].srv = "write" \/ conn'[c].owed = conn[c].owed
        <4>1. ASSUME NEW o, Answer(c, o) PROVE conn'[c].peer = conn[c].peer /\ conn'[c].srv = "write"
          BY <1>0, <4>1 DEF Answer, Conn
        <4>2. CASE conn' = [conn EXCEPT ![c].in = "none", ![c].srv = "start"]
          BY <1>0, <4>2 DEF Conn
        <4> QED
          BY <3>3, <4>1, <4>2
      <3> QED
        BY <1>0, <3>1, <3>2, <3>4 DEF OwedOf
    <2>3. CASE StartActs(c)
      <3>1. conn'[c].peer = conn[c].peer /\ conn'[c].srv = "write" /\ Running(c)
        BY <1>0, <2>3 DEF StartActs, Answer, Conn, Running
      <3> QED
        BY <1>0, <3>1 DEF OwedOf
    <2>4. CASE WriteResponse(c)
      <3>1. Running(c) /\ cut' = cut
        BY <2>4 DEF WriteResponse, Running
      <3>2. \/ conn'[c] = NoConn
            \/ /\ conn'[c].peer = conn[c].peer /\ conn'[c].here = conn[c].here
               /\ conn'[c].owed => (cut[conn[c].peer] \/ ~conn[c].here) /\ conn'[c].srv = "closed"
        BY <1>0, <2>4 DEF WriteResponse, Update, Conn
      <3> QED
        BY <1>0, <3>1, <3>2 DEF OwedOf, NoConn
    <2>5. CASE IdleTimeout(c)
      <3>1. conn'[c].owed = conn[c].owed /\ conn[c].srv = "read"
        BY <1>0, <2>5 DEF IdleTimeout, Conn
      <3> QED
        BY <1>0, <3>1 DEF OwedOf
    <2> QED
      BY <1>5, <2>1, <2>2, <2>3, <2>4, <2>5 DEF HandlerStep
  <1>6. ASSUME NEW d \in Conns, HandlerStep(d) \/ IdleTimeout(d), d # c PROVE conn'[c] = conn[c]
    BY <1>0, <1>6 DEF HandlerStep, Serve, Handler, ArmDeadline, ReadFails, DispatchPing, DispatchShutdown,
        DispatchStop, DispatchResources, DispatchStart, StartActs, WriteResponse, IdleTimeout, Update, Answer
  <1>7. ASSUME NEW k \in Clients, NEW o \in Whys, Calling(k, o) PROVE OwedOf(c)'
    <2>1. CASE c = cli[k].use
      <3>1. c # nobody
        BY DaemonAssumption DEF Conns, nobody
      <3>2. \/ conn'[c] = NoConn
            \/ /\ conn'[c].peer = conn[c].peer /\ conn'[c].srv = conn[c].srv /\ conn'[c].owed = conn[c].owed
               /\ ~conn'[c].here
        BY <1>0, <1>7, <2>1, <3>1 DEF Calling, EndCall, Update, Conn
      <3> QED
        BY <1>0, <3>2 DEF OwedOf, NoConn
    <2>2. CASE c # cli[k].use
      BY <1>0, <1>1, <1>7, <2>2 DEF Calling, EndCall, Update
    <2> QED
      BY <2>1, <2>2
  <1>8. ASSUME NEW k \in Clients, Dial(k) \/ SendRequest(k) \/ ChildExited(k) \/ StageTimeout(k)
        PROVE  OwedOf(c)'
    <2>1. CASE Dial(k)
      <3>1. conn'[c] = conn[c] \/ ~conn'[c].owed
        BY <1>0, <2>1 DEF Dial, NoConn
      <3> QED
        BY <1>1, <3>1 DEF OwedOf
    <2>2. CASE SendRequest(k)
      <3>1. /\ conn'[c].peer = conn[c].peer /\ conn'[c].srv = conn[c].srv /\ conn'[c].owed = conn[c].owed
            /\ conn'[c].here = conn[c].here
        BY <1>0, <2>2 DEF SendRequest, Conn
      <3> QED
        BY <1>0, <3>1, Doomed DEF OwedOf
    <2> QED
      BY <1>1, <1>8, <2>1, <2>2 DEF ChildExited, StageTimeout
  <1> QED
    BY <1>1, <1>2, <1>3, <1>4, <1>5, <1>6, <1>7, <1>8, StepKinds DEF Frame, WaitDone, WaitTimeout, vars

\* The initial states: nothing has run, a socket was left behind, or one process serves.
LEMMA InitInv == Init => TypeOK /\ LeaseInv /\ AskedInv /\ IdentityInv /\ OwedInv
  <1> SUFFICES ASSUME Init PROVE TypeOK /\ LeaseInv /\ AskedInv /\ IdentityInv /\ OwedInv
    OBVIOUS
  <1>0. 1 \in Daemons /\ nobody \notin Daemons /\ leftover \notin Daemons /\ MaxDaemons + 1 # 0
    BY EndpointAssumption DEF Daemons, nobody, leftover
  <1>1. PICK first \in {"nothing", "leftover", "serve"} :
        /\ dpc = [p \in Daemons |-> IF p = 1 /\ first = "serve" THEN "serve" ELSE "off"]
        /\ lock = IF first = "serve" THEN 1 ELSE nobody
        /\ sock = CASE first = "nothing" -> nobody [] first = "leftover" -> leftover [] OTHER -> 1
        /\ login = [p \in Daemons |-> p = 1 /\ first = "serve"]
        /\ file = [dev |-> IF first = "nothing" THEN NoId ELSE Original,
                   key |-> IF first = "serve" THEN Original ELSE NoId]
        /\ mem = [p \in Daemons |-> file]
    BY DEF Init, EndpointInit
  <1>2. TypeProcesses
    <2>1. file \in Identity /\ mem \in [Daemons -> Identity]
      BY <1>1 DEF Identity
    <2>2. login \in [Daemons -> BOOLEAN] /\ quit \in [Daemons -> BOOLEAN]
      BY <1>1 DEF Init, EndpointInit
    <2>3. dpc \in [Daemons -> Phases]
      BY <1>1 DEF Phases, Serving
    <2>4. lock \in Daemons \cup {nobody} /\ sock \in Daemons \cup {nobody, leftover}
      BY <1>0, <1>1
    <2> QED
      BY <2>1, <2>2, <2>3, <2>4, EndpointAssumption DEF TypeProcesses, Init, EndpointInit
  <1>3. TypeConnections /\ \A c \in Conns : conn[c] = NoConn
    BY DEF Init, TypeConnections, Conn, NoConn, HandlerPhases
  <1>4. TypeClients /\ \A k \in Clients : cli[k].asked = nobody /\ cli[k].call = "none"
    BY DaemonAssumption DEF Init, TypeClients, Begin, Stages, Whys, AllGoals
  <1>5. WithinLimit
    <2>1. ASSUME NEW p \in Daemons PROVE Handlers(p) = {}
      BY <1>3 DEF Handlers, Running, NoConn
    <2>2. Cardinality({}) = 0
      BY FS_EmptySet
    <2> QED
      BY <2>1, <2>2, DaemonAssumption DEF WithinLimit
  <1>6. LeaseInv
    BY <1>0, <1>1 DEF LeaseInv, Leasing, Listening, Starting, Serving, Stopping, Leaving
  <1>7. AskedInv
    BY <1>3, <1>4 DEF AskedInv, NoConn, Running
  <1>8. IdentityInv
    BY <1>0, <1>1 DEF IdentityInv, complete, Serving, Original, NoId, nobody
  <1>9. OwedInv
    BY <1>3 DEF OwedInv, ExecutedIsAnswered, NoConn
  <1> QED
    BY <1>2, <1>3, <1>4, <1>5, <1>6, <1>7, <1>8, <1>9 DEF TypeOK

\* All of it together is inductive; a proof of one part may use the others.
LEMMA Inductive == Spec => [](TypeOK /\ LeaseInv /\ AskedInv /\ IdentityInv /\ OwedInv)
  <1>1. /\ TypeOK /\ LeaseInv /\ AskedInv /\ IdentityInv /\ OwedInv /\ [Next]_vars
        => (TypeOK /\ LeaseInv /\ AskedInv /\ IdentityInv /\ OwedInv)'
    BY ProcessesNext, ConnectionsNext, ClientsNext, LimitNext, LeaseNext, AskedNext, IdentityNext, OwedNext
    DEF TypeOK
  <1> QED
    BY <1>1, InitInv, PTL DEF Spec

\* The state has its type in every reachable state and the server never has more
\* handlers than places (server.go, connSlots).
THEOREM TypeCorrect == Spec => []TypeOK
  BY Inductive, PTL

\* The endpoint tells the truth (RunServer's order of teardown, claimEndpoint,
\* removeStaleSocket; cmdRestart's wait): a process that serves is found, and one
\* that was asked to leave and is not found any more has logged out.
THEOREM EndpointIsTrue == Spec => []EndpointTellsTheTruth
  <1>1. TypeOK /\ LeaseInv /\ AskedInv => EndpointTellsTheTruth
    <2> SUFFICES ASSUME TypeOK, LeaseInv, AskedInv PROVE EndpointTellsTheTruth
      OBVIOUS
    <2>1. ASSUME NEW p \in Daemons, dpc[p] \in Serving PROVE sock = p /\ lock = p
      BY <2>1 DEF LeaseInv, Listening, Leasing
    <2>2. ASSUME NEW k \in Clients, cli[k].stage \in Quick, cli[k].asked # nobody
          PROVE  ~login[cli[k].asked] /\ dpc[cli[k].asked] \notin Serving
      BY <2>2 DEF AskedInv, LeaseInv, Served
    <2> QED
      BY <2>1, <2>2 DEF EndpointTellsTheTruth, Quick
  <1> QED
    BY <1>1, Inductive, PTL

\* A request that was carried out is answered (handle, reply, Wait).
THEOREM AnswersAreWritten == Spec => []ExecutedIsAnswered
  <1>1. OwedInv => ExecutedIsAnswered
    BY DEF OwedInv
  <1> QED
    BY <1>1, Inductive, PTL

\* InitializeIdentity and replacePrivateFile: what the file says is never replaced,
\* and a process that serves works with what the file says.
THEOREM IdentityKept == Spec => IdentityIsStable
  <1>1. TypeOK /\ AskedInv /\ IdentityInv /\ [Next]_vars
        => [/\ file.dev # NoId => file'.dev = file.dev
            /\ file.key # NoId => file'.key = file.key]_file
    <2> SUFFICES ASSUME TypeOK, AskedInv, IdentityInv, [Next]_vars, file' # file
                 PROVE  /\ file.dev # NoId => file'.dev = file.dev
                        /\ file.key # NoId => file'.key = file.key
      OBVIOUS
    <2>1. ASSUME NEW p \in Daemons, OwnStep(p) PROVE replacePrivateFile(p)
      BY <2>1 DEF OwnStep, StartStep, claimEndpoint, removeStaleSocket, RemoveSocket, Listen,
          InitializeIdentity, New, AbandonLease, BeginQuit, CloseSvc, ReleaseLease, StartFails, Signal
    <2>2. PICK p \in Daemons : replacePrivateFile(p)
      BY <2>1, ProcessSteps DEF CloseListener, AbandonListener, Kill, AsideStep, LoginStep
    <2> QED
      BY <2>2 DEF replacePrivateFile, IdentityInv
  <1>2. IdentityInv => \A p \in Daemons : dpc[p] \in Serving => complete(file) /\ mem[p] = file
    BY DEF IdentityInv
  <1> QED
    BY <1>1, <1>2, Inductive, PTL DEF Spec, IdentityIsStable

\* Two processes never hold the account's login together: the processes implement
\* Slot.  Whoever is logged in has the lease, and there is one lease.  A login that no
\* process has any more, after a kill or a failed logout, is in lost.
THEOREM ImplementsSlot == Spec => OneLoginPerAccount
  <1> DEFINE held == {p \in Daemons : login[p]}
  <1>1. Init => Account!Init
    BY InitInv DEF Init, EndpointInit, Account!Init, LeaseInv, Leasing
  <1>2. TypeOK /\ LeaseInv /\ LeaseInv' /\ AskedInv /\ [Next]_vars => [Account!Next]_<<held, lost>>
    <2> SUFFICES ASSUME TypeOK, LeaseInv, LeaseInv', AskedInv, [Next]_vars, <<held, lost>>' # <<held, lost>>
                 PROVE  Account!Next
      OBVIOUS
    <2>1. /\ \A g, h \in held : g = h
          /\ \A g, h \in held' : g = h
      BY DEF LeaseInv, Leasing
    <2>2. PICK p \in Daemons : Turn(p)
      <3>1. login' # login \/ lost' # lost
        OBVIOUS
      <3>2. ASSUME NEW p \in Daemons, OwnStep(p) PROVE Turn(p)
        <4>1. CASE CloseSvc(p)
          BY <4>1 DEF CloseSvc, Logout, Fault, Turn, Serving
        <4> QED
          BY <3>1, <3>2, <4>1 DEF OwnStep, StartStep, claimEndpoint, removeStaleSocket, RemoveSocket, Listen,
              InitializeIdentity, replacePrivateFile, New, AbandonLease, BeginQuit, ReleaseLease,
              StartFails, Signal
      <3>3. ASSUME NEW p \in Daemons, Kill(p) PROVE Turn(p)
        <4>1. login[p]
          BY <3>1, <3>3 DEF Kill, TypeOK, TypeProcesses
        <4> QED
          BY <3>3, <4>1 DEF Kill, Turn, LeaseInv
      <3> QED
        BY <3>1, <3>2, <3>3, ProcessSteps DEF CloseListener, AbandonListener, AsideStep, LoginStep
    <2>3. \A h \in held : h = p
      BY <2>2 DEF Turn, LeaseInv, Leasing, Serving
    <2>4. CASE ~login[p] /\ login' = [login EXCEPT ![p] = TRUE] /\ lost' = lost
      <3>1. held = {} /\ held' = {p}
        BY <2>1, <2>3, <2>4 DEF TypeOK, TypeProcesses
      <3> QED
        BY <3>1, <2>4 DEF Account!Next, Account!Take
    <2>5. CASE login[p] /\ login' = [login EXCEPT ![p] = FALSE]
      <3>1. held = {p} /\ held' = {}
        BY <2>1, <2>3, <2>5 DEF TypeOK, TypeProcesses
      <3> QED
        BY <3>1, <2>2 DEF Turn, Account!Next, Account!Give
    <2>6. CASE ~login[p] /\ login' = [login EXCEPT ![p] = FALSE]
      <3>1. held = {} /\ held' = {}
        BY <2>1, <2>3, <2>6 DEF TypeOK, TypeProcesses
      <3>2. lost' = lost \cup {p}
        BY <2>2, <3>1 DEF Turn
      <3> QED
        BY <3>1, <3>2 DEF Account!Next, Account!Miss
    <2> QED
      BY <2>2, <2>4, <2>5, <2>6 DEF Turn
  <1> QED
    BY <1>1, <1>2, Inductive, PTL DEF Spec, OneLoginPerAccount, Account!Spec
=============================================================================
