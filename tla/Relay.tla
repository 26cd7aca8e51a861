------------------------------- MODULE Relay -------------------------------
(***************************************************************************)
(* The bearer: the in-memory device between WireGuard and the campus       *)
(* tunnel (internal/wireguard/relay.go, device.go), the endpoint objects   *)
(* it registers with (internal/l3) and the attach / detach of the service  *)
(* (internal/service/bearer.go).                                           *)
(*                                                                         *)
(* Six goroutines meet here: the service actor (attach, detach), whoever   *)
(* closes the device, one tunnel reader per endpoint (Deliver), the two    *)
(* WireGuard goroutines (Read, Write) and the handshake watcher.  Only     *)
(* rebinding and the last step of a delivery take bindMu; everything else  *)
(* reads atomics.  Packets are identified by the binding they were mapped  *)
(* for; addresses, lengths and the MTU only decide that a packet is        *)
(* dropped, which any delivery may be.                                     *)
(***************************************************************************)
EXTENDS Naturals, Sequences

CONSTANTS
    Endpoints,    \* l3.Endpoint objects, one per campus session
    QueueSize,    \* capacity of the downlink queue (128 in the code)
    MaxInstalls,  \* bound: bindings created
    MaxPackets    \* bound: packets that arrive from the tunnel

ASSUME RelayAssumption ==
    Endpoints # {} /\ QueueSize \in Nat \ {0} /\ MaxInstalls \in Nat /\ MaxPackets \in Nat

VARIABLES
    session,   \* the current binding: its number and its endpoint
    down,      \* the binding whose callback each endpoint holds
    queue,     \* bindings of the packets in the downlink queue
    lock,      \* who holds bindMu
    closed,    \* r.closed
    installs,  \* bindings (and latches) created so far
    actor,     \* bearer.attach / detach: where it is, and its endpoint
    closer,    \* Device.Close
    reader,    \* per endpoint: the delivery in progress
    rd,        \* Relay.Read: where it is, the packet it holds, and (history) whether
               \* the binding of that packet had ended when Read took it
    wr,        \* Relay.Write
    gate,      \* the latch of the installed peer
    seen,      \* latches that are open
    hs,        \* the device has completed a handshake with the installed peer
    peer,      \* the device has a peer
    watcher,   \* watchPeerHandshake: where it is, and the latch it looks at
    packets

binding == <<session, down, queue, lock>>
peers   == <<gate, seen, hs, peer>>
vars == <<binding, closed, installs, actor, closer, reader, rd, wr, peers, watcher,
          packets>>

nil    == 0
NoSess == [id |-> nil, ep |-> CHOOSE e \in Endpoints : TRUE]
NoDelivery == [pc |-> "idle", id |-> nil]
NoRead     == [pc |-> "idle", id |-> nil, late |-> FALSE]
Waiting    == [pc |-> "wait", gate |-> nil]

Init ==
    /\ session = NoSess /\ down = [e \in Endpoints |-> nil] /\ queue = <<>> /\ lock = "free"
    /\ closed = FALSE /\ installs = 0
    /\ actor = [pc |-> "idle", ep |-> NoSess.ep] /\ closer = "idle"
    /\ reader = [e \in Endpoints |-> NoDelivery]
    /\ rd = NoRead /\ wr = "idle"
    /\ gate = nil /\ seen = {} /\ hs = FALSE /\ peer = FALSE
    /\ watcher = Waiting
    /\ packets = 0

-----------------------------------------------------------------------------
(* Rebinding, under bindMu.                                                  *)

\* session.Swap(nil) and the unregister of what was there: an endpoint forgets a
\* callback only if it still is the one that was registered.
Unbind ==
    /\ session' = NoSess
    /\ down' = [e \in Endpoints |-> IF session.id # nil /\ e = session.ep /\ down[e] = session.id
                                    THEN nil ELSE down[e]]

attach(e) ==
    /\ actor.pc = "idle" /\ installs < MaxInstalls
    /\ actor' = [pc |-> "lock", ep |-> e]
    /\ installs' = installs + 1
    /\ UNCHANGED <<binding, closed, closer, reader, rd, wr, peers, watcher, packets>>

InstallLock ==
    /\ actor.pc = "lock" /\ lock = "free" /\ lock' = "actor"
    /\ Unbind
    /\ actor' = [actor EXCEPT !.pc = "drain"]
    /\ UNCHANGED <<queue, closed, installs, closer, reader, rd, wr, peers, watcher,
                   packets>>

\* dropStaleQueue, one packet at a time: Read may take some of them meanwhile.
InstallDrain ==
    /\ actor.pc = "drain"
    /\ \/ queue # <<>> /\ queue' = Tail(queue) /\ UNCHANGED actor
       \/ queue = <<>> /\ actor' = [actor EXCEPT !.pc = "register"] /\ UNCHANGED queue
    /\ UNCHANGED <<session, down, lock, closed, installs, closer, reader, rd, wr, peers,
                   watcher, packets>>

\* ep.SetDownlink.
InstallRegister ==
    /\ actor.pc = "register"
    /\ down' = [down EXCEPT ![actor.ep] = installs]
    /\ actor' = [actor EXCEPT !.pc = "store"]
    /\ UNCHANGED <<session, queue, lock, closed, installs, closer, reader, rd, wr, peers,
                   watcher, packets>>

\* A device that was closed meanwhile is not bound again.
InstallStore ==
    /\ actor.pc = "store" /\ lock' = "free"
    /\ \/ closed /\ down' = [down EXCEPT ![actor.ep] = nil] /\ UNCHANGED session
       \/ ~closed /\ session' = [id |-> installs, ep |-> actor.ep] /\ UNCHANGED down
    /\ actor' = [pc |-> "setPeer", ep |-> NoSess.ep]
    /\ UNCHANGED <<queue, closed, installs, closer, reader, rd, wr, peers, watcher,
                   packets>>

\* SetPeer: the device gets a new peer (its old one is stopped first, and with it
\* the Write in progress), or reports an error; then the latch is replaced.
SetPeer ==
    /\ actor.pc = "setPeer" /\ wr = "idle"
    /\ \/ peer' = TRUE /\ hs' = FALSE /\ actor' = [actor EXCEPT !.pc = "hold"]
       \/ actor' = [actor EXCEPT !.pc = "idle"] /\ UNCHANGED <<peer, hs>>
    /\ UNCHANGED <<binding, closed, installs, closer, reader, rd, wr, gate, seen, watcher,
                   packets>>

HoldDownlink ==
    /\ actor.pc = "hold"
    /\ gate' = installs
    /\ actor' = [actor EXCEPT !.pc = "idle"]
    /\ UNCHANGED <<binding, closed, installs, closer, reader, rd, wr, seen, hs, peer,
                   watcher, packets>>

\* detach: ClearSession, then ClearPeer, whose error is only logged.
detach ==
    /\ actor.pc = "idle" /\ lock = "free" /\ lock' = "actor"
    /\ Unbind
    /\ actor' = [actor EXCEPT !.pc = "clearDrain"]
    /\ UNCHANGED <<queue, closed, installs, closer, reader, rd, wr, peers, watcher,
                   packets>>

ClearDrain ==
    /\ actor.pc = "clearDrain"
    /\ \/ queue # <<>> /\ queue' = Tail(queue) /\ UNCHANGED <<lock, actor>>
       \/ queue = <<>> /\ lock' = "free" /\ actor' = [actor EXCEPT !.pc = "clearPeer"]
          /\ UNCHANGED queue
    /\ UNCHANGED <<session, down, closed, installs, closer, reader, rd, wr, peers,
                   watcher, packets>>

ClearPeer ==
    /\ actor.pc = "clearPeer" /\ wr = "idle"
    /\ \/ peer' = FALSE /\ hs' = FALSE /\ actor' = [actor EXCEPT !.pc = "release"]
       \/ actor' = [actor EXCEPT !.pc = "idle"] /\ UNCHANGED <<peer, hs>>
    /\ UNCHANGED <<binding, closed, installs, closer, reader, rd, wr, gate, seen, watcher,
                   packets>>

ReleaseDownlink ==
    /\ actor.pc = "release"
    /\ gate' = nil
    /\ actor' = [actor EXCEPT !.pc = "idle"]
    /\ UNCHANGED <<binding, closed, installs, closer, reader, rd, wr, seen, hs, peer,
                   watcher, packets>>

\* Close: the channel first, then ClearSession; Device.Close also waits for the
\* handshake watcher.
Close ==
    /\ closer = "idle" /\ closer' = "clear" /\ closed' = TRUE
    /\ UNCHANGED <<binding, installs, actor, reader, rd, wr, peers, watcher, packets>>

CloseClear ==
    /\ closer = "clear" /\ lock = "free" /\ lock' = "closer"
    /\ Unbind
    /\ closer' = "drain"
    /\ UNCHANGED <<queue, closed, installs, actor, reader, rd, wr, peers, watcher,
                   packets>>

CloseDrain ==
    /\ closer = "drain"
    /\ \/ queue # <<>> /\ queue' = Tail(queue) /\ UNCHANGED <<lock, closer>>
       \/ queue = <<>> /\ lock' = "free" /\ closer' = "join" /\ UNCHANGED queue
    /\ UNCHANGED <<session, down, closed, installs, actor, reader, rd, wr, peers,
                   watcher, packets>>

CloseJoin ==
    /\ closer = "join" /\ watcher.pc = "done" /\ closer' = "done"
    /\ UNCHANGED <<binding, closed, installs, actor, reader, rd, wr, peers, watcher,
                   packets>>

-----------------------------------------------------------------------------
(* From the tunnel to WireGuard.                                             *)

\* Endpoint.Deliver loads the callback and calls it without a lock: by the time
\* it runs it may have been replaced.
Deliver(e) ==
    /\ reader[e].pc = "idle" /\ packets < MaxPackets /\ packets' = packets + 1
    /\ reader' = IF down[e] = nil THEN reader
                 ELSE [reader EXCEPT ![e] = [pc |-> "check", id |-> down[e]]]
    /\ UNCHANGED <<binding, closed, installs, actor, closer, rd, wr, peers, watcher>>

\* deliverFrom before the lock; the packet may also be dropped for what it is.
deliverFrom(e) ==
    /\ reader[e].pc = "check"
    /\ \/ reader' = [reader EXCEPT ![e] = NoDelivery]
       \/ ~closed /\ reader[e].id = session.id /\ reader' = [reader EXCEPT ![e].pc = "enqueue"]
    /\ UNCHANGED <<binding, closed, installs, actor, closer, rd, wr, peers, watcher,
                   packets>>

\* Mutant: the binding is not compared again under the lock.
EnqueueUnchecked(e) ==
    /\ reader[e].pc = "enqueue" /\ lock = "free"
    /\ \/ Len(queue) < QueueSize /\ queue' = Append(queue, reader[e].id)
       \/ Len(queue) = QueueSize /\ UNCHANGED queue
    /\ reader' = [reader EXCEPT ![e] = NoDelivery]
    /\ UNCHANGED <<session, down, lock, closed, installs, actor, closer, rd, wr, peers,
                   watcher, packets>>

\* Mutant: a full queue is not noticed.
EnqueueUnbounded(e) ==
    /\ reader[e].pc = "enqueue" /\ lock = "free"
    /\ \/ reader[e].id = session.id /\ queue' = Append(queue, reader[e].id)
       \/ reader[e].id # session.id /\ UNCHANGED queue
    /\ reader' = [reader EXCEPT ![e] = NoDelivery]
    /\ UNCHANGED <<session, down, lock, closed, installs, actor, closer, rd, wr, peers,
                   watcher, packets>>

\* The hand-over, under bindMu; a full queue drops the packet.
Enqueue(e) ==
    /\ reader[e].pc = "enqueue" /\ lock = "free"
    /\ \/ reader[e].id = session.id /\ Len(queue) < QueueSize
          /\ queue' = Append(queue, reader[e].id)
       \/ (reader[e].id # session.id \/ closed \/ Len(queue) = QueueSize) /\ UNCHANGED queue
    /\ reader' = [reader EXCEPT ![e] = NoDelivery]
    /\ UNCHANGED <<session, down, lock, closed, installs, actor, closer, rd, wr, peers,
                   watcher, packets>>

\* Read: take a packet ...
Read ==
    /\ rd.pc = "idle" /\ queue # <<>>
    /\ rd' = [pc |-> "owner", id |-> Head(queue), late |-> Head(queue) # session.id]
    /\ queue' = Tail(queue)
    /\ UNCHANGED <<session, down, lock, closed, installs, actor, closer, reader, wr,
                   peers, watcher, packets>>

\* ... drop it if its binding is gone ...
ReadOwner ==
    /\ rd.pc = "owner"
    /\ rd' = IF rd.id = session.id THEN [rd EXCEPT !.pc = "gate"] ELSE NoRead
    /\ UNCHANGED <<binding, closed, installs, actor, closer, reader, wr, peers, watcher,
                   packets>>

\* ... or if the peer has not shown up (or the buffer is too small) ...
ReadGate ==
    /\ rd.pc = "gate"
    /\ \/ (gate = nil \/ gate \in seen) /\ rd' = [rd EXCEPT !.pc = "out"]
       \/ rd' = NoRead
    /\ UNCHANGED <<binding, closed, installs, actor, closer, reader, wr, peers, watcher, packets>>

\* ... else it goes to WireGuard, which calls Read again.
ReadReturn ==
    /\ rd.pc = "out" /\ rd' = NoRead
    /\ UNCHANGED <<binding, closed, installs, actor, closer, reader, wr, peers, watcher, packets>>

-----------------------------------------------------------------------------
(* The peer.                                                                 *)

\* The device completes a handshake (external).
Handshake ==
    /\ peer /\ ~hs /\ ~closed /\ hs' = TRUE
    /\ UNCHANGED <<binding, closed, installs, actor, closer, reader, rd, wr, gate, seen,
                   peer, watcher, packets>>

\* Write: a packet the peer sent proves that it is there.  Without a session it
\* is dropped before that; the rest of Write hands it to the session it loaded.
Write ==
    /\ wr = "idle" /\ hs /\ ~closed /\ session.id # nil
    /\ wr' = "gate"
    /\ UNCHANGED <<binding, closed, installs, actor, closer, reader, rd, peers, watcher,
                   packets>>

WriteGate ==
    /\ wr = "gate" /\ wr' = "idle"
    /\ seen' = IF gate = nil THEN seen ELSE seen \cup {gate}
    /\ UNCHANGED <<binding, closed, installs, actor, closer, reader, rd, gate, hs, peer,
                   watcher, packets>>

\* Mutant: only a peer that sends data is looked at.
WatchLoadAfterData ==
    /\ watcher.pc = "wait" /\ gate # nil /\ gate \in seen
    /\ watcher' = [pc |-> "read", gate |-> gate]
    /\ UNCHANGED <<binding, closed, installs, actor, closer, reader, rd, wr, peers, packets>>

\* watchPeerHandshake: on each tick load the latch; if it is shut ask the device.
WatchLoad ==
    /\ watcher.pc = "wait" /\ gate # nil /\ gate \notin seen
    /\ watcher' = [pc |-> "read", gate |-> gate]
    /\ UNCHANGED <<binding, closed, installs, actor, closer, reader, rd, wr, peers,
                   packets>>

WatchRead ==
    /\ watcher.pc = "read"
    /\ watcher' = IF hs THEN [watcher EXCEPT !.pc = "open"] ELSE Waiting
    /\ UNCHANGED <<binding, closed, installs, actor, closer, reader, rd, wr, peers,
                   packets>>

\* Mutant: opens the latch of whichever peer is installed now.
WatchOpenCurrent ==
    /\ watcher.pc = "open" /\ watcher' = Waiting
    /\ seen' = seen \cup {gate}
    /\ UNCHANGED <<binding, closed, installs, actor, closer, reader, rd, wr, gate, hs,
                   peer, packets>>

\* The peer may have been replaced since; so has its latch, then.
WatchOpen ==
    /\ watcher.pc = "open" /\ watcher' = Waiting
    /\ seen' = seen \cup {watcher.gate}
    /\ UNCHANGED <<binding, closed, installs, actor, closer, reader, rd, wr, gate, hs,
                   peer, packets>>

WatchEnds ==
    /\ watcher.pc = "wait" /\ closed /\ watcher' = [watcher EXCEPT !.pc = "done"]
    /\ UNCHANGED <<binding, closed, installs, actor, closer, reader, rd, wr, peers,
                   packets>>

-----------------------------------------------------------------------------
Bearer ==
    \/ InstallLock \/ InstallDrain \/ InstallRegister \/ InstallStore \/ SetPeer \/ HoldDownlink
    \/ ClearDrain \/ ClearPeer \/ ReleaseDownlink
Closing   == CloseClear \/ CloseDrain \/ CloseJoin
Tunnel    == \E e \in Endpoints : Deliver(e) \/ deliverFrom(e) \/ Enqueue(e)
WireGuard == Read \/ ReadOwner \/ ReadGate \/ ReadReturn \/ Handshake \/ Write \/ WriteGate
Watcher   == WatchLoad \/ WatchRead \/ WatchOpen \/ WatchEnds

\* Everything is closed and the budget is used up.
Idle == closer = "done" /\ UNCHANGED vars

Next == (\E e \in Endpoints : attach(e)) \/ detach \/ Bearer \/ Close \/ Closing \/ Tunnel
        \/ WireGuard \/ Watcher \/ Idle

Spec == Init /\ [][Next]_vars

\* Goroutines that have something to do go on; nobody has to attach, detach or
\* close, the tunnel and the peer need not send anything.
Fairness ==
    /\ WF_vars(Bearer) /\ WF_vars(Closing) /\ WF_vars(Watcher)
    /\ WF_vars(Read \/ ReadOwner \/ ReadGate \/ ReadReturn) /\ WF_vars(WriteGate)
    /\ \A e \in Endpoints : WF_vars(deliverFrom(e) \/ Enqueue(e))

FairSpec == Spec /\ Fairness

-----------------------------------------------------------------------------
(* Properties.                                                               *)

Ids == 0 .. installs

TypeBinding ==
    /\ installs \in Nat /\ installs <= MaxInstalls
    /\ session \in [id : Ids, ep : Endpoints] /\ down \in [Endpoints -> Ids]
    /\ queue \in Seq(Ids) /\ Len(queue) <= QueueSize
    /\ lock \in {"free", "actor", "closer"}
TypeActor ==
    /\ actor \in [pc : {"idle", "lock", "drain", "register", "store", "setPeer", "hold",
                        "clearDrain", "clearPeer", "release"}, ep : Endpoints]
    /\ closer \in {"idle", "clear", "drain", "join", "done"}
TypeFlow ==
    /\ reader \in [Endpoints -> [pc : {"idle", "check", "enqueue"}, id : Ids]]
    /\ rd \in [pc : {"idle", "owner", "gate", "out"}, id : Ids, late : BOOLEAN]
    /\ wr \in {"idle", "gate"} /\ packets \in Nat
TypePeers ==
    /\ closed \in BOOLEAN
    /\ gate \in Ids /\ seen \subseteq Ids /\ hs \in BOOLEAN /\ peer \in BOOLEAN
    /\ watcher \in [pc : {"wait", "read", "open", "done"}, gate : Ids]

\* Every variable keeps its type; the queue never exceeds its capacity, and no
\* binding or latch is used before it is made.
TypeOK == TypeBinding /\ TypeActor /\ TypeFlow /\ TypePeers

\* Once a rebinding is over (bindMu is free), the queue holds only packets that
\* were mapped for the current binding; without one it is empty.  The check and
\* the enqueue of deliverFrom share the lock for this.
QueueHoldsCurrent ==
    lock = "free" => \A i \in DOMAIN queue : queue[i] = session.id /\ session.id # nil

\* Both directions change together: outside a rebinding the only callback any
\* endpoint holds is the one of the current binding, at its own endpoint.
OneDownlink ==
    lock = "free" => /\ \A e \in Endpoints : down[e] # nil => down[e] = session.id /\ e = session.ep
                     /\ session.id # nil => down[session.ep] = session.id

\* After Close no endpoint keeps a callback into the device and nothing is queued,
\* even when an attach was under way and only finishes later.
CloseUnbinds ==
    closer \in {"join", "done"} /\ actor.pc \notin {"drain", "register", "store"} =>
        session.id = nil /\ (\A e \in Endpoints : down[e] = nil) /\ queue = <<>>

\* The inductive form of the three: what holds at each step of a rebinding.
BindInv ==
    /\ lock = "actor" <=> actor.pc \in {"drain", "register", "store", "clearDrain"}
    /\ lock = "closer" <=> closer = "drain"
    /\ actor.pc \in {"lock", "drain", "register", "store"} => installs # nil
    /\ \A e \in Endpoints : reader[e].pc = "enqueue" => reader[e].id # nil
    /\ \A e \in Endpoints : reader[e].pc = "check" => reader[e].id # nil
    /\ QueueHoldsCurrent /\ OneDownlink
    /\ lock # "free" => session.id = nil
    /\ lock # "free" => \A e \in Endpoints :
                           down[e] = IF actor.pc = "store" /\ e = actor.ep THEN installs ELSE nil
    /\ actor.pc \in {"register", "store"} => queue = <<>>
    /\ closer # "idle" => closed
    /\ closer \in {"join", "done"} => session.id = nil
    /\ closer \in {"join", "done"} /\ actor.pc = "clearDrain" => queue = <<>>

\* Downlink packets pass only to a peer that has been there since it was
\* installed: an open latch stands for a handshake of the peer it belongs to, not
\* of an earlier one.
OpenLatchMeansHandshake ==
    gate # nil /\ gate \in seen /\ actor.pc \notin {"hold", "release"} => hs

\* Its inductive form: latches are numbered in the order they are made, and whoever
\* is about to open one knows of a handshake with the peer it was made for.
LatchInv ==
    /\ OpenLatchMeansHandshake
    /\ wr = "gate" => hs
    /\ watcher.pc = "open" /\ watcher.gate = gate /\ actor.pc \notin {"hold", "release"} => hs
    /\ watcher.pc \in {"read", "open"} => watcher.gate # nil
    /\ actor.pc \in {"lock", "drain", "register", "store", "setPeer", "hold"} =>
          installs \notin seen /\ installs # gate /\ installs # watcher.gate

\* WireGuard gets no orphan: a packet whose binding had ended when Read took it
\* (while a rebinding was still draining the queue) is dropped.
NoOrphans == rd.pc = "out" => ~rd.late

\* A packet reaches WireGuard only under the binding it was mapped for, and the
\* relay is bound to one session or, once closed, to none: whatever is delivered,
\* read, installed, cleared or closed at the same time.
BindingIsSafe == QueueHoldsCurrent /\ OneDownlink /\ CloseUnbinds /\ NoOrphans

\* The inductive form of NoOrphans: a binding's number is not used again, so what has ended
\* stays ended, also while the next binding is being made.
OrphanInv ==
    /\ rd.late => rd.pc = "owner" /\ rd.id # session.id /\ rd.id # nil
    /\ \A i \in DOMAIN queue : queue[i] # nil
    /\ actor.pc \in {"lock", "drain", "register", "store"} =>
          /\ rd.late => rd.id # installs
          /\ session.id # installs /\ \A i \in DOMAIN queue : queue[i] # installs

\* A peer that has shaken hands but only listens is not cut off for ever: its
\* latch opens (or it is replaced, or the device is closed).
LatchOpens ==
    \A g \in 1 .. MaxInstalls : (gate = g /\ hs) ~> (g \in seen \/ gate # g \/ ~hs \/ closed)
=============================================================================
