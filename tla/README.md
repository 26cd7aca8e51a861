# nju-vpn: verification project

TLA+ models of nju-vpn, a client for a campus VPN: one service process holds one
login and serves it through two data endpoints, a userspace WireGuard device (L3) and
a SOCKS5 proxy (TCP). The modules follow it from the command lines that start and
replace the process down to the checksums of the packets it rewrites. They are checked
with TLC on small instances; every safety property that a passing run checks, and so that the
service and the processes around it implement an abstract one-login client, is proved with
TLAPS for every value of the constants.

Paths below are relative to `src/internal/` unless they start with `cmd/`.

## 1. The system

| part | state it keeps | operations | concurrency and failure |
|---|---|---|---|
| service actor (`service/service.go`, `endpoints.go`, `status.go`) | status machine, running session, login that waits for a code, generation of the L3 task, bearer, SOCKS listener, two queues, `stopPending`, `opCancel` | Start, Trust/Untrust, Auth, Stop, endpoint start/stop, Close; reports of tasks and of the code timer | one goroutine executes everything; it blocks on logins and on tasks it cancelled, while Stop and Close interrupt it from outside and tasks report to it |
| campus session (`ztna/session.go`, `tcp.go`, `auth.go`, `device.go`) | authentication step, resource table, published tunnel connection, Run's channel, registered TCP streams, wait group of dials | Connect, Auth, StartL3, Run, StopL3, DialTCP, invalidate, Close | dials take seconds without the lock; the server may end the login at any time |
| tunnel connection (`ztna/tunnel.go`, `wire.go`) | socket, close channel, heartbeat counter | handshake, Send, readLoop, authLoop, heartbeatLoop, close | four goroutines per connection |
| flow table (`ztna/conntrack.go`) | flows by key, by authorisation id and by fragment; packet and byte budgets | queuePacket, pendingAuth, retryAuth, completeAuth, expire, clear | called by Send, the reader and the authorisation loop; answers come late, twice or never |
| bearer (`wireguard/relay.go`, `device.go`, `l3/endpoint.go`, `service/bearer.go`) | current binding, downlink queue, latch of the peer | attach, detach, Deliver, Read, Write, the handshake watcher, Close | sessions change while packets are under way in both directions |
| node probing (`ztna/node.go`) | worker pool, one-place result channel | probeNodes | first result wins, the others must be closed |
| SOCKS5 server (`socks5/`) | connections, dial slots | Run, shutdown, handle | limits; shutdown against accept |
| IPC (`service/server.go`, `ipc/`) | connections, closing flag, one slot for large replies | Serve, Shutdown, Wait, dispatch | shutdown against requests in progress |
| instance lease (`ipc/listen_unix.go`), daemon (`cmd/njuvpn`), identity (`config/identity.go`) | lock file, socket, configuration file | claim, remove stale socket, listen, spawn, write back | several processes, crashes |
| resource table, address mapping, codecs (`ztna/resource*.go`, `wireguard/mapping.go`, `ztna/packet.go`, `wire.go`) | none | pure functions | numeric edges |
| proxy dialling (`dial/`) | one connection, its deadline | HTTP CONNECT, SOCKS5 | a watcher turns a cancelled context into a deadline |
| control plane, keys, logs | none that outlives a call | I/O | timeouts |

How they interact: IPC connections call the actor and wait; the actor calls the
session (`Connect`, `Auth`, `StartL3`, `Close`) and starts three goroutines:
`runTunnel` (which runs `Session.Run`), the SOCKS task and the watcher of the
session. These send reports (`cmdTunnelDown`, ...) to the actor's second queue. The
session's tunnel connection hands packets to the `l3.Endpoint` object, to which the
actor has attached the relay; WireGuard reads and writes the relay. SOCKS connections
call `Session.DialTCP`.

What makes the parts correct: the server allows **one login per account**, so the
service must never hold two, always have the one it holds at hand to log out, and do that
last, after everything that uses it has stopped, whatever fails and whenever the user asks
to stop. (A logout that fails is not tried again; what the server counts then is no longer
in the program's hands, and it says so to the user.) A report
acts only on the task that sent it. A closed session leaves nothing behind. A packet
of an old session is never delivered under a new one. The flow table's budgets are
never leaked, and what waits for the server does not wait for ever.

## 2. Modules

| module | part | checked by | proved in |
|---|---|---|---|
| `Slot` | abstract: the account's one login | as a property of `Service` and `Daemon` | `ServiceProofs`, `DaemonProofs` |
| `Service` | service actor | `MCService` | `ServiceProofs` |
| `Session` | campus session, requests of the login | `MCSession` | `SessionProofs` |
| `Tunnel` | node probing, proxy and direct dialling, handshake, loops of a tunnel connection | `MCTunnel` | `TunnelProofs` |
| `FlowTable` | flow table and authorisation | `MCFlowTable` | `FlowTableProofs` |
| `Relay` | relay, device, endpoint, bearer | `MCRelay` | `RelayProofs` |
| `Mapping`, `Resources`, composed in `DataPath` | address mapping, resource table, a packet's way through both | `MCDataPath` | `DataPathProofs` |
| `Socks5` | SOCKS5 server | `MCSocks5` | `Socks5Proofs` |
| `Endpoint`, extended by `Daemon` | service process, lease, socket, identity; IPC server, IPC client, commands | `MCDaemon` | `DaemonProofs` |

How they fit together: `Daemon` contains the service as "logged in or not"; `Service` is
that service's actor, in which a session is a number and its tunnel a task; `Session` is
one such session, in which a tunnel connection is made or lost in one step; `Tunnel` and
`FlowTable` are that connection. `Relay` is what `Service` calls the bearer, `DataPath`
what happens to a packet that `Relay` and `FlowTable` let pass, `Socks5` what `Service`
calls the SOCKS task. The one promise that spans levels, one login per account, is
stated once (`Slot`) and shown of `Service` (holders are sessions) and of `Daemon`
(holders are processes).

Definitions whose comment starts with "Mutant:" are broken variants of the definition
that follows them. Nothing uses them; replacing the definition by its variant makes TLC
find the property that guards it violated (`PROJECT.json`, `mutants`).

### Service

`pc` says where the actor is. A value of its own stands for each place where it can
block (control-plane I/O, waiting for a task) and for each read of a flag that other
goroutines write; everything between two such places is one step. `after` and `ret`
say where `teardown` and `stopL3`/`stopSOCKS` return to. Sessions are numbered;
`held` are those that are logged in and whose Close has not run, `lost` those the server may
go on counting although nobody has them (the logout failed, or the answer to the login was
lost), `ended` those whose context is cancelled.
`session`, `pend` and `cur` are the three owners a login can have: the running session,
the login that waits for a code, and the login of the command in progress.

| actions | code |
|---|---|
| `StopStore`, `CloseStore`, `cancelOpRead`, `cancelOpCall`, `StopEnqueue`, `Call` | Stop, Close, cancelOp, call |
| `Take*`, `ClosedGate`, `StopGate`, `Reply`, `SelectClosed`, `Exit` | loop, dispatch |
| `Teardown` ... `Logout`, `SetError`, `DevClose` | teardown, stopSOCKS, stopL3, fail |
| `start`, `devices`, `Credentials`, `Login`, `Verify`, `awaitAuth`, `auth`, `SubmitCode`, `DeviceOp`, `EnsureTrusted` | start, devices, auth, awaitAuth, runDeviceOp, ensureTrusted |
| `FinishConnect`, `startSOCKS`, `SOCKSWait`, `startL3`, `L3Dial`, `L3Attach`, `CheckConnect` | finishConnect and the two endpoint starts |
| `stop`, `authTimeout`, `tunnelDown`, `tunnelRetry`, `tunnelRestored`, `sessionEnded`, `socksDown` | the handlers of the same names |
| `LinkDropped` ... `ReportDown`; `SOCKSRuns` ... `ReportSOCKSDown`; `RootSees`, `ReportSessionEnded` | runTunnel with Session.Run; the SOCKS task; the watcher |

A report is a `select` over "room in the queue", "context done" and "service closed",
and so is `report`. Go's `select` takes any ready case, hence a report may be delivered
although its context is cancelled: that is why stale reports exist.

Left out: texts, passwords, the recover of `dispatch`. `NoIllegalTransition` shows that
the panic of the status store cannot happen.

### Session

One login, from `newSession` to `Close`. `login` walks through the server's chain;
`out` says whether a caller has the session (before that, a failing login closes it
itself). `owner` is the L3 endpoint's owner (StartL3, RunTunnel, StopL3), `run` is Run,
`dialer[d]` a call of DialTCP and the stream it returns, `closer` is Close, and `inv[p]`
what `invalidate`, called by `p`, still has to close. What happens under the session's
mutex is one step (`conn.start()` included, as in the code). The caller does StartL3,
StopL3 and Close in turn, as the comments on these methods demand and the actor does;
Close may still meet a StartL3 in progress. `slot` says whether the server counts the
login: it may have accepted a password although its answer was lost or had no ticket, and it
may report that the device is logged in already, which gives no ticket either. Only a login
with a ticket is logged out, once; when that errs or takes longer than `controlTimeout` the
server may or may not have ended the login, and Close returns the error (`closer.err`).

### Relay

A binding (`InstallSession`) has a number; a packet is the binding it was rewritten for.
`lock` is `bindMu`; everything else is atomics, and each load is a step of its own. The
latch of a peer is named by the binding it was made with. WireGuard's handshake is an
external event, and so is a packet from the tunnel.

### FlowTable

Every method of the table runs under its lock and is an operator from tables to tables.
Instants become the time that is left until them; `Tick` counts down. The server answers
anything, in any order, any number of times. A packet is its length together with what
`parsePacket` tells apart; what waits is counted as the size of the set of packets, or of
their bytes (`Waiting`, `WaitingBytes`), so that the books need no sum. `expire` reads the clock just before it takes the lock; the
model reads it under the lock. `wakeAuth` is part of `Send`.

### Tunnel

The caller (`pc`) is StartL3, which begins with `probeNodes`, or a reconnect of Run, which
dials one node, directly or through a proxy. `parent`, `pctx` and `hctx` say which
contexts are done. A context may be done at any time. The goroutine that turns a
cancellation into a deadline in the past (`watchCancel`, `watchContext`) learns of it in
one step and acts in another, because that is what the order of "stop the watcher" and
"clear the deadline" is about. Once up, each of `readLoop`, `heartbeatLoop`, `authLoop` and
the bearer's Send may write (under `writeMu`), see the close channel, or close the
connection itself; `closeOnce` makes the others wait. `quiet` counts the heartbeats sent
since the last frame and is what `heartbeatGap` should be. A `SetDeadline` that fails on an
open socket is left out.

### Socks5

`pc[c]` is the goroutine of a client, `dir[c]` its two copies, `down[a]` the three callers of
`shutdown`. What happens under the mutex is one step. The accepted connection is a step on
its own before it is registered, so that shutdown can come in between.

### Endpoint and Daemon

A process claims the lock, probes and removes a stale socket, listens, completes and
renames the identity file, serves, and gives everything up in the order of `RunServer` and
`leasedListener.Close`. `Kill` may take it at any of these places. A login that a killed
process leaves on the server, or a service that failed to log out, is in `lost`; no process
waits for it. A connection has two
ends: the handler's phase and the client's. `DispatchStart` reads the state, `StartActs`
calls the service: two steps, as in the code. A command line pings, spawns, waits,
asks an old process to leave and goes on when the endpoint no longer answers. Pings while
waiting are one step; `shutdown`, the wait for its end, and the command itself are followed
message by message.

### Mapping, Resources, DataPath

`Mapping` rewrites a packet: words are numbers below `Base` (2^16 in the code, a parameter
here, because the carry is the same for every base), a packet keeps its two addresses, its
header checksum, its transport checksum and the sums of everything else they cover.
`Resources` turns a document into sorted rules and node groups and matches destinations. A
name is a sequence of letters, a pattern the sequence of its parts between the stars. A
stable sort is taken by its definition: the sequence in which each element has as many
before it as compare less, or compare equal and stood before it (`SortStable`); a loop that
appends what it has not seen is the list of first meetings (`Once`). The scan of
`domainPattern.matches` is written as the code runs it, part after part (`Ends`). Which hosts
a node's address may have is a constant (`ValidHosts`), since `ValidHostPort` decides it by
letters; its bounds on the port are in the model, and so are those of a port range.
`DataPath` lets the campus publish any document and change the tunnel's address, sends
packets both ways, and lets either side answer with an ICMP error that quotes what it saw.

## 3. Runs

| run | instance | properties |
|---|---|---|
| `service_stop` | 2 Stops, Close, 2 other calls, 1 deadline, queues of 1, WireGuard only | `TypeOK`, `CancelReachesLogin`, `StopLogsOut` |
| `service_faults` | 2 calls, 2 failures of links, listeners or logins, logouts that fail at will, Close | `NothingIsLeftBehind`, `LogoutAfterTasks`, `OneLoginAtATime`, `NoIllegalTransition`, `ReportsMatchTheirTask` |
| `service_live` | 1 call, 1 Stop, 1 failure, Close, queues of 1 | `ActorGoesOn`, `EndedSessionIsDropped` |
| `session` | 2 dials, 2 tunnel connections, every chain up to 2 hops | `TypeOK`, `ClosedIsClean`, `L3CanRestart`, `EndedFallsSilent`, `CloseEnds` |
| `tunnel` | 3 nodes, 2 workers, 3 missed heartbeats | `NothingLeaks`, `HandoverIsClean`, `DeathIsTimely`, `EveryCallReturns` |
| `flow_table` | 2 flow keys, 1 fragment key, 2 flows made, packets of 2 sizes | `BooksBalance`, `IndexesAgree`, `WaitIsBounded`, `AnswerIsFinal` |
| `relay` | 2 endpoints, 2 bindings, 2 packets, a queue of 1 | `TypeOK`, `BindingIsSafe`, `OpenLatchMeansHandshake`, `LatchOpens` |
| `data_path` | words of 2 bits, 2 tunnel addresses, 2 hosts; documents of up to 2 items and 3 nodes, and some beyond the limits; 16-bit ports and ranges beyond them | `ChecksumsCarryOver`, `ErrorsComeHome`, `MatchIsBestRule`, `NodesInOrder` |
| `socks5` | 2 clients, 1 dial slot | `DoneIsClean`, `ServerEnds`, `HalfCloseIsKept` |
| `daemon` | 2 processes, 2 command lines, 2 connections, 1 fault | `EndpointTellsTheTruth`, `ExecutedIsAnswered`, `OneLoginPerAccount`, `IdentityIsStable` |
| `daemon_live` | 1 process, 2 connections where 1 is allowed | `TypeOK`, `QuitEnds` |
| `service_stale_stop` | expected to fail | `StopPendingHasStop` |

The comment above each property says what it means. Why the bounds are enough: every
race the code guards against is between two parties (a Stop and a login, a report and
the next task, a delivery and the next binding, an answer and the next flow, an old and a
new process), so two calls, two bindings, two flows, two connections, two processes are
what is needed for the second one to meet the leftovers of the first; one failure more
gives the third party. The queues are small so that they are full at times. Three nodes for
two workers let one result wait in the channel and another in a worker while the receiver
leaves. With words of two bits almost every sum of an address wraps, so that carries, zero
and all ones are common. In `flow_table`, flow keys are symmetric (permutations of `Keys`;
it checks no liveness), and the limit on the number of flows is not reached, since there
are as many keys as flows; the packet, byte, per-flow and fragment limits are.

`service_stale_stop` states what a comment of the program says, and TLC shows the
behaviour that contradicts it (`PROJECT.json`, `findings`): a Stop that times out, before or
in the queue, leaves `stopPending` set; logins are refused until another Stop is executed.

Deadlock is checked in every run but `session` (a session that nobody uses or closes just
stays). In `Service`, `Relay`, `Tunnel`, `Socks5` and `Daemon` the states where everything
is over have an explicit step that changes nothing; in `FlowTable` the clock goes on.

### Refinement

`Slot` is one client of the server: `held` is empty or one holder, a holder enters only when
there was none, and leaves by a logout that is tried once (or by dying). `lost` are the
logins the server may count besides, because that logout failed or the answer to a login
never came. `lost` grows by these two only and the client goes on: `Slot` promises nothing
about when the server forgets them. `Service!OneLoginAtATime` is `Slot`'s specification with
sessions as holders; `Daemon!OneLoginPerAccount` is the same specification with the
processes that are logged in. Both are checked as properties and both are proved.

### Fairness

- `Service`: weak fairness of the actor, of each task's own steps (not of failures) and of
  Stop and Close calls that have begun. Go schedules runnable goroutines, every
  control-plane request has a timeout, and a wait for a task ends because the task's
  context is cancelled first. Users, failures and deadlines are never assumed.
- `Session`: weak fairness of dials in progress (they have timeouts), of Run and of a
  Close that was called. That a login goes on, or that the service calls StopL3 or Close, is
  not assumed.
- `Relay`: weak fairness of an attach, detach, Close, delivery, Read or Write that is in
  progress, and of the watcher (its timer always fires again); not of packets, handshakes
  or of anybody's decision to attach, detach or close.
- `Tunnel`: weak fairness of the workers, the caller, the watcher and the loops (dials and
  handshakes have deadlines); not of the peer, of the contexts, or of Close.
- `Socks5`: weak fairness of goroutines in progress. A copy is only assumed to end when one
  of its sockets is closed. Nobody is obliged to connect, to close or to cancel.
- `Daemon`: weak fairness of the server's goroutines; nothing of the command lines.

### Observations

Behaviours met while modelling, which no run is about. Most of them the models
show as they are; what the last ones are about was left out of the models.

- `Service`: two Stops share one flag. The first one executed clears what the second one
  set (`service/service.go:909`), so a Start queued between them passes the gate and runs
  uncancelled, although the comment at `service.go:227-230` wants queued logins not to run.
  The second Stop takes the login down again (`StopLogsOut`, in a run with two Stops of which
  one may expire).
- `Service`: an endpoint start that runs before the `TunnelDown` of the link it replaces, and
  fails, makes that report stale (`service/endpoints.go:28`, `service.go:1019`); `retrying`
  then stays set with no task that retries.
- `Service`: `tunnelDown` reads `SOCKS5.Enabled`, an intent, as a state
  (`service.go:1025`); with a listener that failed, the login is kept with no endpoint and the
  status says that SOCKS5 goes on.
- `Daemon`: of two `start` commands at once the second may be refused with 409: it read the
  state before the first had finished. The comment at `service/server.go:279-281` wants a
  repeated start to succeed.
- `Daemon`: Shutdown's read deadline makes a handler that waits for a request answer 400,
  which the client's ping takes for another configuration (`ipc/client.go:81-84`).
- `Tunnel`: a frame that comes between the writing and the counting of a heartbeat leaves the
  counter one ahead, so a link can be given up after two unanswered heartbeats instead of
  three (`ztna/tunnel.go:537-544`); `DeathIsTimely` allows for this one.
- `Tunnel`: the SOCKS5 proxy dialler starts its watcher before it sets its deadline
  (`dial/dial.go:238-241`); a cancellation in between is overwritten and heard only when the
  20 seconds are over. The HTTP dialler does it the other way round.
- `Mapping`: when a first TCP or UDP fragment is so short that its checksum lies in the next
  one, that checksum is not corrected; the transport checksum inside a quoted packet is not
  corrected either; other protocols whose checksum covers the addresses are only logged.
- `Session`: the service the answer to the password names is taken as it is, whereas later
  answers turn `auth/sendSms` into `auth/sms` (`ztna/control.go:445`); named in the first
  answer it ends the login as unsupported.
- `Session`, `Service`: an answer to the password that is lost after the server accepted it,
  and a logout that fails, leave a login that nobody can give back (`ztna/session.go:578-584`,
  `service/service.go:1085-1087`). The next Start logs in beside it, which the server may
  refuse; only the status text tells the user why.

## 4. Proofs

All that is assumed is each module's named assumption on its constants (`ServiceAssumption`,
`SessionAssumption`, ...): queues and limits hold at least one element, timeouts and bounds
are natural numbers, sets that TLC makes small are finite where the model counts them, and
special values (no process, Close as a caller) are none of the ordinary ones. Of the packet
path (`MappingAssumption`, `ResourcesAssumption`, `DataPathAssumption`): a word has at least
two bits; no header and no message sums to zero, since the IP version, the protocol
number and the ICMP type are among what is summed; patterns are no longer, and have no more stars,
than `domain/name.go` allows; and neither the addresses the campus
gives nor the one the peer is configured with belong to a host of the campus, without which
no mapping could tell whose a packet is.

| theorem | says | argument |
|---|---|---|
| `ServiceProofs!TypeCorrect` | `Spec => []TypeOK` | one lemma per part of the type invariant; a report needs the types of its sender |
| `ServiceProofs!OneLogin` | `Spec => [](SlotHasOwner /\ OneSlot)` | by `SlotInv` |
| `ServiceProofs!ImplementsSlot` | `Spec => OneLoginAtATime` | `Slot`'s step for each step of the actor, from `OneLogin`, `SlotInv` and its primed form |
| `ServiceProofs!LegalTransitions` | `Spec => NoIllegalTransition` | by `PathInv` |
| `ServiceProofs!NothingStays` | `Spec => []NothingIsLeftBehind` | by `TasksInv` |
| `ServiceProofs!LogoutComesLast` | `Spec => LogoutAfterTasks` | `LogoutSteps`: a login is given up at a place where `TasksInv` says that nothing runs |
| `ServiceProofs!CancelIsSeen` | `Spec => []CancelReachesLogin` | by `CancelInv` |
| `ServiceProofs!StopDisconnects` | `Spec => []StopLogsOut` | by `StopInv` (with `PathInv` and `CancelInv`): a Stop goes through teardown or finds the state idle, where `SlotInv` and `TasksInv` leave nothing |
| `ServiceProofs!ReportsAreTimely` | `Spec => ReportsMatchTheirTask` | by `ReportsInv`, which needs `CountersInv` and `SaneNext` |
| `SessionProofs!TypeCorrect` | `Spec => []TypeOK` | with `DialsInv`, since the wait group must not go below zero |
| `SessionProofs!CloseLeavesNothing` | `Spec => []ClosedIsClean` | by `DialsInv`, `LoginInv`, `HandsInv`, `StreamsInv`, `CloseInv`, `LogoutInv` |
| `SessionProofs!L3Restarts` | `Spec => []L3CanRestart` | by `HandsInv` |
| `TunnelProofs!NoConnectionLeaks` | `Spec => []NothingLeaks` | by `LeakInv` |
| `TunnelProofs!HandedOverClean` | `Spec => []HandoverIsClean` | by `HandoverInv` |
| `TunnelProofs!HeartbeatIsTimely` | `Spec => DeathIsTimely` | by `GapInv` |
| `FlowTableProofs!FlowsInOrder` | `Spec => []FlowInv` | one lemma per operation of the table, one per step |
| `FlowTableProofs!IndexesConsistent` | `Spec => []IndexesAgree` | by `FlowInv` (its part `Indexed`) |
| `FlowTableProofs!BoundedWait` | `Spec => []WaitIsBounded` | by `FlowInv` (`Waits` and `AsksInv`) |
| `FlowTableProofs!FinalAnswers` | `Spec => AnswerIsFinal` | by `FlowInv`: no new flow gets an old number |
| `FlowTableProofs!BooksAreRight` | `Spec => []BooksBalance` | by `BooksInv` and `FlowInv`; each operation adds one packet or settles a set of flows |
| `DataPathProofs!ChecksumsAreKept` | `Spec => []ChecksumsCarryOver` | sums modulo `WordMax`; by `PathInv` |
| `DataPathProofs!ErrorsReachTheSender` | `Spec => []ErrorsComeHome` | by `PathInv` |
| `DataPathProofs!BestRuleDecides` | `Spec => []MatchIsBestRule` | a sorted list scanned for its first hit; the search for parts is never behind a way to fill the stars; by `TableInv` |
| `DataPathProofs!NodesAreInOrder` | `Spec => []NodesInOrder` | an address is met first at its best place; by `TableInv` |
| `RelayProofs!TypeCorrect` | `Spec => []TypeOK` | one lemma per part |
| `RelayProofs!PacketsKeepTheirSession` | `Spec => []BindingIsSafe` | from `BindingSafe` (by `BindInv`) and `OrphansDropped` (by `OrphanInv` and `BindInv`) |
| `RelayProofs!LatchSafe` | `Spec => []OpenLatchMeansHandshake` | by `LatchInv` |
| `Socks5Proofs!ServerLeavesNothing` | `Spec => []DoneIsClean` | by `ServerInv`, `SlotsInv`, `EntriesInv`, `SocketsInv` |
| `Socks5Proofs!HalfCloseKept` | `Spec => []StreamIsOpen`, the safety half of `HalfCloseIsKept` | by `StreamInv` |
| `DaemonProofs!TypeCorrect` | `Spec => []TypeOK` | with `AskedInv` |
| `DaemonProofs!EndpointIsTrue` | `Spec => []EndpointTellsTheTruth` | by `LeaseInv` and `AskedInv` |
| `DaemonProofs!AnswersAreWritten` | `Spec => []ExecutedIsAnswered` | by `OwedInv` |
| `DaemonProofs!IdentityKept` | `Spec => IdentityIsStable` | by `IdentityInv` and `LeaseInv` |
| `DaemonProofs!ImplementsSlot` | `Spec => OneLoginPerAccount` | `Slot`'s step for each step of a process, from `LeaseInv` |

Why the strengthenings are needed. They are part of the component's module, next to the
property they serve, and TLC has checked each of them before it was proved.

- `Service`. `SlotHasOwner` and `OneSlot` say nothing of where the actor is, so neither
  survives the step that moves a login from one owner to another. `SlotInv` says, for each
  place of the actor, which of the three owners may be set there, and ties the running
  session to the state "up" and the waiting login to "auth_pending": this is what the
  guards of the handlers test, and why no handler has to look at the fields themselves (the
  comment in `stop` relies on it). While the actor waits for a task, the place that counts
  is the one it returns to (`ret`). `PathInv` does the same for the status, and `TasksInv`
  for what runs: teardown waits for watcher, SOCKS task and L3 task in this order, and each
  place in between remembers how far it has got. `CancelInv` names who will cancel the
  running command as long as nobody has: a caller that has stored its flag and not read
  `opCancel` yet, or has read it and not called it; dispatch sets `opCancel` before it reads
  the flags, so there is always one. `StopInv` says where the actor may be with a Stop, and that
it is answered in the state "idle" unless the service is closed. A report is compared with the generation, the object,
  the session or the round there is when it is executed; that this comparison suffices rests
  on what its contents still say after any number of steps in the queue (`Sane`), which is
  kept because the counters only grow and a new task takes a new number (`CountersInv`).
- `Session`. `ClosedIsClean` counts at the end only. `HandsInv` says at each place of
  StartL3, Run, StopL3 and Close who has the connection; `DialsInv` that the wait group is
  the number of callers that still dial; `CloseInv` what each step of Close has done with
  for good, which holds because everyone who publishes looks at `closed` under the mutex.
- `Tunnel`. `LeakInv` gives every open connection of the probes a holder (worker, channel,
  caller) and the rest of the module at most one. `HandoverInv` needs the watcher joined
  before the outcome is looked at; `GapInv` tells how far the counter may be off on each
  side of the increment.
- `FlowTable`. `IndexesAgree` is kept by an operation only if keys and authorisation ids of
  the flows there are correspond one to one, and if no id is ever used again (`Indexed`,
  ids at most `next`). `Waits` bounds age plus remaining time, which the clock leaves
  alone and a retry may raise once; `AsksInv` counts a request when the scan chooses it, not
  when it is sent. `BooksBalance` is inductive but for the finiteness that makes its counts
  numbers (`BooksInv`) and for the one-to-one indexes of `FlowInv`, without which an
  operation could settle a flow twice; that a flow holds packets exactly while it waits
  (`Held`) is what lets an operation give back the packets of just the flows it ends.
- `DataPath`. `PathInv` says of the packet under way what the two properties leave open: it is a
  packet of one of the two sides, and the other addresses are as they were when it was
  sent, which is how an error finds back although the tunnel's own address may have
  changed. The arithmetic is that a fold changes a sum by multiples of `WordMax` only and
  gives zero for zero only; a receiver accepts a sum that is a multiple of `WordMax` and not
  zero, so an update that keeps the sum modulo `WordMax`, and the fact that some word is not
  zero, are enough. `TableInv` says that the table is its document's; the rest is about the
  operators. `SortStable` enumerates a finite strict order, so the first hit of the scan is
  the least of the rules that fit, and the two comparison functions refine the weights of
  the property where the rules of one destination are concerned (two prefixes of one
  length that contain one address are the same). For patterns, any way to fill the stars
  has each part no earlier than the scan found it, and the scan is such a way when it ends.
  TLC has checked `PathInv` on the whole instance of `data_path`, and `TableInv` on its states
  before a packet is sent, the only ones that can differ in it.
- `Relay`. `BindInv` says that the queue may hold packets of an old binding only while the
  one who changes the binding holds the lock and has not drained yet, and that only the
  current binding's callback is registered; `LatchInv` that a latch number is never used
  again, so that a watcher that is late opens a latch nobody looks at any more; `OrphanInv`
  that Read's second look at the binding comes after the one that counts.
- `Socks5`. A limit that is counted by one variable and given back by many goroutines is the
  size of a set (`SlotsInv`, `EntriesInv`); `SocketsInv` that whoever has an open socket is a
  goroutine that Run waits for; `StreamInv` follows a stream from its first byte, and says
  that a shutdown that is about to cut sockets has marked the server closed before.
- `Daemon`. `LeaseInv` reads the lock's holder off the places of the processes;
  `AskedInv` says that whoever was asked to leave by a restart had served, and that no
  process serves twice; `IdentityInv` that what is about to be renamed over the file
  contains the file; `OwedInv` that a handler between two requests owes nothing.

Only model-checked. All liveness properties (`ActorGoesOn`, `EndedSessionIsDropped`,
`EndedFallsSilent`, `CloseEnds`, `LatchOpens`, `EveryCallReturns`,
`ServerEnds`, `QuitEnds` and the liveness half of `HalfCloseIsKept`): fairness and ENABLED
are beyond the prover. `StopPendingHasStop` is false, see section 3. What is proved of
`HalfCloseIsKept` is its safety half.

Recursion is used in one place, as a recursive function (`Ends`). That such a function
exists is proved by the least length for which there would be none (`Recursion` in
`DataPathProofs`), in place of an induction theorem. No module has a RECURSIVE operator.

## 5. Plan

What would extend the project from here:

1. `Service`, `Session`, `Tunnel`: the safety facts the liveness properties rest on, for
   instance that a task the actor waits for has been cancelled, and that nobody waits while he
   holds what the other one needs.
2. `Daemon`: the named pipe of Windows, whose instance lease is a different one.
3. The list of trusted devices, once a property of the program depends on its contents.

## 6. Not modelled

HTTP, JSON and TLS details of the control plane, YAML parsing and validation,
command-line parsing and output, log rotation, the frames of `ztna/wire.go`, the lines of
the IPC protocol, keys, the UDP bind, the named pipe of Windows, the list of trusted devices
and the SMS prompt, and the fake server and release scripts of the tests. They are
sequential I/O or formats with no state that outlives a call, which the repository's own
tests cover better than a model; of the list of trusted devices only the calls matter to the
rest, and `Service` has them (`DeviceOp`, `EnsureTrusted`).
