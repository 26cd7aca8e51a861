------------------------------ MODULE Endpoint ------------------------------
(***************************************************************************)
(* A service process from its start to its end, as far as other processes  *)
(* of the same user can see it: the lock file that makes it the only one   *)
(* (internal/ipc/listen_unix.go), the socket it listens on, the identity   *)
(* it writes into the configuration file (internal/config/identity.go),    *)
(* and the order in which RunServer takes all of it down again             *)
(* (internal/service/server.go).                                           *)
(*                                                                         *)
(* Processes share nothing but the file system.  A process may be killed   *)
(* at any point: the kernel then drops its lock, but the socket's name     *)
(* stays (and a temporary file, which nobody reads).                       *)
(***************************************************************************)
EXTENDS Naturals, FiniteSets

CONSTANTS
    MaxDaemons,   \* bound: service processes that ever exist
    MaxFaults     \* bound: kills, signals, failures and timeouts, together

ASSUME EndpointAssumption ==
    MaxDaemons \in Nat \ {0} /\ MaxFaults \in Nat

VARIABLES
    dpc,       \* where each process is
    lock,      \* who holds the flock on <endpoint>.lock
    sock,      \* whose socket the endpoint's name leads to
    file,      \* the identity in the configuration file
    mem,       \* the identity each process works with
    login,     \* the service of the process is logged in
    lost,      \* whose logins the server may count although no process has them
    quit,      \* the process was asked to shut down (signal or command)
    faults     \* faults left

endpointVars == <<dpc, lock, sock, file, mem, login, lost, quit, faults>>

Daemons  == 1..MaxDaemons
nobody   == 0
leftover == MaxDaemons + 1     \* a process that was killed before all this: its socket is there

\* An identity is a device id and a WireGuard key, each named after the process
\* that generated it; Original is what the user wrote into the file.  WireGuard is
\* enabled; without it no key is generated.
Original == MaxDaemons + 1
NoId     == nobody
Identity == [dev : Daemons \cup {NoId, Original}, key : Daemons \cup {NoId, Original}]
complete(id) == id.dev # NoId /\ id.key # NoId

Starting == {"claim", "probe", "remove", "listen", "identity", "rename", "new"}
Serving  == {"serve", "closeSvc"}
Stopping == {"unlink", "release", "expire", "wait"}      \* s.closing is closed
Leaving  == {"closeListener", "closeLease"}              \* the deferred calls of a failed start
Dead     == {"exited", "killed"}
Phases   == {"off"} \cup Starting \cup Serving \cup Stopping \cup Leaving \cup Dead

\* The processes that have the flock.
Leasing  == (Starting \ {"claim"}) \cup Serving \cup Leaving \cup {"unlink", "release"}

Alive(p)     == dpc[p] \notin {"off"} \cup Dead
Listening(p) == p \in Daemons /\ dpc[p] \in {"identity", "rename", "new", "closeListener", "unlink"} \cup Serving

Goto(p, to) == dpc' = [dpc EXCEPT ![p] = to]
Fault       == faults > 0 /\ faults' = faults - 1

\* Nothing has run yet; or an earlier process was killed and its socket is still
\* there; or process 1 serves and is logged in.
EndpointInit ==
    /\ \E first \in {"nothing", "leftover", "serve"} :
        /\ dpc = [p \in Daemons |-> IF p = 1 /\ first = "serve" THEN "serve" ELSE "off"]
        /\ lock = IF first = "serve" THEN 1 ELSE nobody
        /\ sock = CASE first = "nothing" -> nobody [] first = "leftover" -> leftover [] OTHER -> 1
        /\ login = [p \in Daemons |-> p = 1 /\ first = "serve"]
        /\ file = [dev |-> IF first = "nothing" THEN NoId ELSE Original,
                   key |-> IF first = "serve" THEN Original ELSE NoId]
        /\ mem = [p \in Daemons |-> file]
    /\ lost = {} /\ quit = [p \in Daemons |-> FALSE]
    /\ faults = MaxFaults

(***************************************************************************)
(* cmdRun: load the configuration, claim the endpoint, listen.             *)
(***************************************************************************)
\* spawnService, and config.Load in the new process, before anything is claimed:
\* what it has read may be stale soon.
Spawn(p) ==
    /\ dpc[p] = "off" /\ \A q \in 1..(p - 1) : dpc[q] # "off"
    /\ Goto(p, "claim")
    /\ mem' = [mem EXCEPT ![p] = file]

\* claimEndpoint: flock without waiting; the loser leaves.
claimEndpoint(p) ==
    /\ dpc[p] = "claim"
    /\ IF lock = nobody THEN lock' = p /\ Goto(p, "probe")
                        ELSE UNCHANGED lock /\ Goto(p, "exited")
    /\ UNCHANGED <<sock, file, mem, login, lost, quit, faults>>

\* removeStaleSocket, first half: is there a socket, and does anybody answer on
\* it?  A socket that answers, or is too busy to, is left alone.
removeStaleSocket(p) ==
    /\ dpc[p] = "probe"
    /\ Goto(p, IF sock = nobody THEN "listen"
               ELSE IF Listening(sock) THEN "closeLease" ELSE "remove")
    /\ UNCHANGED <<lock, sock, file, mem, login, lost, quit, faults>>

\* ... second half: whatever has the name by now is removed.
RemoveSocket(p) ==
    /\ dpc[p] = "remove" /\ sock' = nobody /\ Goto(p, "listen")
    /\ UNCHANGED <<lock, file, mem, login, lost, quit, faults>>

\* net.Listen and chmod; a name that is taken makes it fail.
Listen(p) ==
    /\ dpc[p] = "listen"
    /\ IF sock = nobody THEN sock' = p /\ Goto(p, "identity")
                        ELSE UNCHANGED sock /\ Goto(p, "closeLease")
    /\ UNCHANGED <<lock, file, mem, login, lost, quit, faults>>

(***************************************************************************)
(* InitializeIdentity: read the file again, now that no other process can  *)
(* be writing it; generate what is missing; replace the file in one step.  *)
(***************************************************************************)
\* Mutant: what the process read before it had the lease is completed.
InitializeStaleIdentity(p) ==
    /\ dpc[p] = "identity"
    /\ mem' = [mem EXCEPT ![p] = [dev |-> IF @.dev = NoId THEN p ELSE @.dev,
                                  key |-> IF @.key = NoId THEN p ELSE @.key]]
    /\ Goto(p, IF complete(mem[p]) THEN "new" ELSE "rename")
    /\ UNCHANGED <<lock, sock, file, login, lost, quit, faults>>

InitializeIdentity(p) ==
    /\ dpc[p] = "identity"
    /\ mem' = [mem EXCEPT ![p] = [dev |-> IF file.dev = NoId THEN p ELSE file.dev,
                                  key |-> IF file.key = NoId THEN p ELSE file.key]]
    /\ Goto(p, IF complete(file) THEN "new" ELSE "rename")
    /\ UNCHANGED <<lock, sock, file, login, lost, quit, faults>>

\* replacePrivateFile: a temporary file, all of it written and synced, is renamed.
replacePrivateFile(p) ==
    /\ dpc[p] = "rename" /\ Goto(p, "new")
    /\ file' = mem[p]
    /\ UNCHANGED <<lock, sock, mem, login, lost, quit, faults>>

\* service.New: from here on the process can log in.
New(p) ==
    /\ dpc[p] = "new" /\ Goto(p, "serve")
    /\ UNCHANGED <<lock, sock, file, mem, login, lost, quit, faults>>

\* A step of the start fails.  Listen gives the lease back itself; after it the
\* deferred Close of the listener does, and replacePrivateFile removes its file.
StartFails(p) ==
    /\ dpc[p] \in Starting /\ Fault
    /\ Goto(p, CASE dpc[p] = "claim" -> "exited"
                 [] dpc[p] \in {"probe", "remove", "listen"} -> "closeLease"
                 [] OTHER -> "closeListener")
    /\ UNCHANGED <<lock, sock, file, mem, login, lost, quit>>

\* leasedListener.Close of a failed start: the listener (which removes the
\* socket's name), then the lease.
AbandonListener(p) ==
    /\ dpc[p] = "closeListener" /\ sock' = nobody /\ Goto(p, "closeLease")
    /\ UNCHANGED <<lock, file, mem, login, lost, quit, faults>>

AbandonLease(p) ==
    /\ dpc[p] = "closeLease" /\ lock' = nobody /\ Goto(p, "exited")
    /\ UNCHANGED <<sock, file, mem, login, lost, quit, faults>>

(***************************************************************************)
(* RunServer takes the process down: log out first, then let the endpoint  *)
(* disappear.  Server.Shutdown is the steps unlink, release and expire.    *)
(***************************************************************************)
\* A signal, or an accept that fails, has the same effect as the command.
Signal(p) ==
    /\ dpc[p] = "serve" /\ ~quit[p] /\ Fault
    /\ quit' = [quit EXCEPT ![p] = TRUE]
    /\ UNCHANGED <<dpc, lock, sock, file, mem, login, lost>>

BeginQuit(p) ==
    /\ dpc[p] = "serve" /\ quit[p] /\ Goto(p, "closeSvc")
    /\ UNCHANGED <<lock, sock, file, mem, login, lost, quit, faults>>

\* Mutant: svc.Close does not wait for the logout.
CloseSvcDetached(p) ==
    /\ dpc[p] = "closeSvc" /\ Goto(p, "unlink")
    /\ UNCHANGED <<lock, sock, file, mem, login, lost, quit, faults>>

\* The service of p logs out.  A logout that fails is not tried again.
Logout(p) ==
    /\ login' = [login EXCEPT ![p] = FALSE]
    /\ \/ UNCHANGED <<lost, faults>>
       \/ login[p] /\ Fault /\ lost' = lost \cup {p}

\* svc.Close returns: every task has ended and the service has logged out, or has
\* tried to.  Then s.closing is closed.
CloseSvc(p) ==
    /\ dpc[p] = "closeSvc" /\ Goto(p, "unlink")
    /\ Logout(p)
    /\ UNCHANGED <<lock, sock, file, mem, quit>>

\* Mutant: the lock is given up before the name is removed.
CloseLeaseFirst(p) ==
    /\ dpc[p] = "unlink"
    /\ IF lock = p THEN lock' = nobody /\ UNCHANGED <<dpc, sock>>
                   ELSE sock' = nobody /\ Goto(p, "release") /\ UNCHANGED lock
    /\ UNCHANGED <<file, mem, login, lost, quit, faults>>

\* leasedListener.Close: closing a Unix listener removes the name, whoever's
\* socket has it ...
CloseListener(p) ==
    /\ dpc[p] = "unlink" /\ sock' = nobody /\ Goto(p, "release")
    /\ UNCHANGED <<lock, file, mem, login, lost, quit, faults>>

\* ... and only then is the lock given up.
ReleaseLease(p) ==
    /\ dpc[p] = "release" /\ lock' = nobody /\ Goto(p, "expire")
    /\ UNCHANGED <<sock, file, mem, login, lost, quit, faults>>

\* The process is killed.  The kernel closes its files; a socket's name and a
\* temporary file stay, and so does its login, on the server.
Kill(p) ==
    /\ Alive(p) /\ Fault /\ Goto(p, "killed")
    /\ lock' = IF lock = p THEN nobody ELSE lock
    /\ login' = [login EXCEPT ![p] = FALSE]
    /\ lost' = IF login[p] THEN lost \cup {p} ELSE lost
    /\ UNCHANGED <<sock, file, mem, quit>>

StartStep(p) ==
    \/ claimEndpoint(p) \/ removeStaleSocket(p) \/ RemoveSocket(p) \/ Listen(p)
    \/ InitializeIdentity(p) \/ replacePrivateFile(p) \/ New(p)
    \/ AbandonLease(p)
=============================================================================
