--------------------------- MODULE RelayProofs ---------------------------
(***************************************************************************)
(* Theorems about the bearer, for any number of endpoints and bindings and *)
(* any queue size.                                                         *)
(*                                                                         *)
(* Each ...Next lemma has one step per action that changes what the lemma  *)
(* is about and one for all those that do not.                             *)
(***************************************************************************)
EXTENDS Relay, TLAPS

\* NewRelay leaves every field in its type.
LEMMA TypeInit == Init => TypeOK
  <1> SUFFICES ASSUME Init PROVE TypeOK
    OBVIOUS
  <1>1. NoSess \in [id : Ids, ep : Endpoints]
    BY RelayAssumption DEF Init, Ids, NoSess, nil
  <1>2. TypeBinding
    BY <1>1, RelayAssumption DEF Init, TypeBinding, Ids, nil
  <1>3. TypeActor
    BY <1>1 DEF Init, TypeActor, NoSess
  <1>4. TypeFlow
    <2>1. NoDelivery \in [pc : {"idle", "check", "enqueue"}, id : Ids]
      BY DEF Init, Ids, NoDelivery, nil
    <2>2. NoRead \in [pc : {"idle", "owner", "gate", "out"}, id : Ids, late : BOOLEAN]
      BY DEF Init, Ids, NoRead, nil
    <2> QED
      BY <2>1, <2>2 DEF Init, TypeFlow
  <1>5. TypePeers
    <2>1. Waiting \in [pc : {"wait", "read", "open", "done"}, gate : Ids]
      BY DEF Init, Ids, Waiting, nil
    <2>2. gate \in Ids /\ seen \subseteq Ids
      BY DEF Init, Ids, nil
    <2>3. closed \in BOOLEAN /\ hs \in BOOLEAN /\ peer \in BOOLEAN
      BY DEF Init
    <2> QED
      BY <2>1, <2>2, <2>3 DEF Init, TypePeers
  <1> QED
    BY <1>2, <1>3, <1>4, <1>5 DEF TypeOK

\* No binding is a binding.
LEMMA NoSessType == TypeBinding => NoSess \in [id : Ids, ep : Endpoints]
  BY RelayAssumption DEF TypeBinding, Ids, NoSess, nil

\* Rebinding, draining and enqueueing keep the binding, the callbacks and the queue
\* in their types.
LEMMA BindingTypeNext == TypeBinding /\ TypeActor /\ TypeFlow /\ [Next]_vars => TypeBinding'
  <1> SUFFICES ASSUME TypeBinding, TypeActor, TypeFlow, [Next]_vars PROVE TypeBinding'
    OBVIOUS
  <1> USE DEF binding, peers
  <1>1. ASSUME NEW e \in Endpoints, attach(e) PROVE TypeBinding'
    <2>1. UNCHANGED <<session, down, queue, lock>> /\ installs' = installs + 1 /\ installs < MaxInstalls
      BY <1>1 DEF attach
    <2>2. installs' \in Nat /\ installs' <= MaxInstalls /\ Ids \subseteq Ids'
      BY <2>1, RelayAssumption DEF TypeBinding, Ids
    <2>3. queue' \in Seq(Ids')
      BY <2>1, <2>2 DEF TypeBinding
    <2> QED
      BY <2>1, <2>2, <2>3 DEF TypeBinding
  <1>2. CASE detach
    <2>1. session' \in [id : Ids, ep : Endpoints]
      BY <1>2, NoSessType DEF detach, Unbind, TypeBinding
    <2>2. down' \in [Endpoints -> Ids]
      BY <1>2 DEF detach, Unbind, TypeBinding, Ids, nil
    <2>3. UNCHANGED <<installs, queue>> /\ lock' \in {"free", "actor", "closer"}
      BY <1>2 DEF detach
    <2> QED
      BY <2>1, <2>2, <2>3 DEF TypeBinding, Ids
  <1>3. CASE InstallLock
    <2>1. session' \in [id : Ids, ep : Endpoints]
      BY <1>3, NoSessType DEF InstallLock, Unbind, TypeBinding
    <2>2. down' \in [Endpoints -> Ids]
      BY <1>3 DEF InstallLock, Unbind, TypeBinding, Ids, nil
    <2>3. UNCHANGED <<installs, queue>> /\ lock' \in {"free", "actor", "closer"}
      BY <1>3 DEF InstallLock
    <2> QED
      BY <2>1, <2>2, <2>3 DEF TypeBinding, Ids
  <1>4. CASE InstallDrain
    <2>1. UNCHANGED <<installs, session, down>> /\ queue' \in {queue, Tail(queue)}
      BY <1>4 DEF InstallDrain
    <2>2. lock' \in {"free", "actor", "closer"}
      BY <1>4 DEF InstallDrain, TypeBinding
    <2>3. queue # <<>> => Tail(queue) \in Seq(Ids) /\ Len(Tail(queue)) <= QueueSize
      BY RelayAssumption DEF TypeBinding
    <2>4. queue' = queue \/ (queue # <<>> /\ queue' = Tail(queue))
      BY <1>4 DEF InstallDrain
    <2> QED
      BY <2>1, <2>2, <2>3, <2>4 DEF TypeBinding, Ids
  <1>5. CASE InstallRegister
    <2>1. down' = [down EXCEPT ![actor.ep] = installs] /\ installs \in Ids
      BY <1>5 DEF InstallRegister, TypeBinding, Ids
    <2>2. UNCHANGED <<installs, session, queue, lock>>
      BY <1>5 DEF InstallRegister
    <2> QED
      BY <2>1, <2>2 DEF TypeBinding, Ids
  <1>6. CASE InstallStore
    <2>1. UNCHANGED <<installs, queue>> /\ lock' = "free"
      BY <1>6 DEF InstallStore
    <2>2. down' \in [Endpoints -> Ids]
      BY <1>6 DEF InstallStore, TypeBinding, Ids, nil
    <2>3. session' = session \/ session' = [id |-> installs, ep |-> actor.ep]
      BY <1>6 DEF InstallStore
    <2>4. installs \in Ids /\ actor.ep \in Endpoints
      BY DEF TypeBinding, TypeActor, Ids
    <2>5. session' \in [id : Ids, ep : Endpoints]
      BY <2>3, <2>4 DEF TypeBinding
    <2> QED
      BY <2>1, <2>2, <2>5 DEF TypeBinding, Ids
  <1>7. CASE ClearDrain
    <2>1. UNCHANGED <<installs, session, down>> /\ queue' \in {queue, Tail(queue)}
      BY <1>7 DEF ClearDrain
    <2>2. lock' \in {"free", "actor", "closer"}
      BY <1>7 DEF ClearDrain, TypeBinding
    <2>3. queue # <<>> => Tail(queue) \in Seq(Ids) /\ Len(Tail(queue)) <= QueueSize
      BY RelayAssumption DEF TypeBinding
    <2>4. queue' = queue \/ (queue # <<>> /\ queue' = Tail(queue))
      BY <1>7 DEF ClearDrain
    <2> QED
      BY <2>1, <2>2, <2>3, <2>4 DEF TypeBinding, Ids
  <1>8. CASE CloseClear
    <2>1. session' \in [id : Ids, ep : Endpoints]
      BY <1>8, NoSessType DEF CloseClear, Unbind, TypeBinding
    <2>2. down' \in [Endpoints -> Ids]
      BY <1>8 DEF CloseClear, Unbind, TypeBinding, Ids, nil
    <2>3. UNCHANGED <<installs, queue>> /\ lock' \in {"free", "actor", "closer"}
      BY <1>8 DEF CloseClear
    <2> QED
      BY <2>1, <2>2, <2>3 DEF TypeBinding, Ids
  <1>9. CASE CloseDrain
    <2>1. UNCHANGED <<installs, session, down>> /\ queue' \in {queue, Tail(queue)}
      BY <1>9 DEF CloseDrain
    <2>2. lock' \in {"free", "actor", "closer"}
      BY <1>9 DEF CloseDrain, TypeBinding
    <2>3. queue # <<>> => Tail(queue) \in Seq(Ids) /\ Len(Tail(queue)) <= QueueSize
      BY RelayAssumption DEF TypeBinding
    <2>4. queue' = queue \/ (queue # <<>> /\ queue' = Tail(queue))
      BY <1>9 DEF CloseDrain
    <2> QED
      BY <2>1, <2>2, <2>3, <2>4 DEF TypeBinding, Ids
  <1>10. ASSUME NEW e \in Endpoints, Enqueue(e) PROVE TypeBinding'
    <2>1. UNCHANGED <<installs, session, down, lock>>
      BY <1>10 DEF Enqueue
    <2>2. queue' = queue \/ (Len(queue) < QueueSize /\ queue' = Append(queue, reader[e].id))
      BY <1>10 DEF Enqueue
    <2>3. reader[e].id \in Ids
      BY DEF TypeFlow
    <2>4. queue' \in Seq(Ids) /\ Len(queue') <= QueueSize
      BY <2>2, <2>3, RelayAssumption DEF TypeBinding
    <2> QED
      BY <2>1, <2>4 DEF TypeBinding, Ids
  <1>11. CASE Read
    <2>1. UNCHANGED <<installs, session, down>> /\ queue' \in {queue, Tail(queue)}
      BY <1>11 DEF Read
    <2>2. lock' \in {"free", "actor", "closer"}
      BY <1>11 DEF Read, TypeBinding
    <2>3. queue # <<>> => Tail(queue) \in Seq(Ids) /\ Len(Tail(queue)) <= QueueSize
      BY RelayAssumption DEF TypeBinding
    <2>4. queue' = queue \/ (queue # <<>> /\ queue' = Tail(queue))
      BY <1>11 DEF Read
    <2> QED
      BY <2>1, <2>2, <2>3, <2>4 DEF TypeBinding, Ids
  <1>12. CASE SetPeer \/ HoldDownlink \/ ClearPeer \/ ReleaseDownlink \/ Close \/ CloseJoin \/
      ReadOwner \/ ReadGate \/ ReadReturn \/ Handshake \/ Write \/ WriteGate \/ WatchLoad \/
      WatchRead \/ WatchOpen \/ WatchEnds \/ (\E e \in Endpoints : Deliver(e) \/ deliverFrom(e))
    <2>1. UNCHANGED <<installs, session, down, queue, lock>>
      BY <1>12 DEF SetPeer, HoldDownlink, ClearPeer, ReleaseDownlink, Close, CloseJoin, Deliver,
          deliverFrom, ReadOwner, ReadGate, ReadReturn, Handshake, Write, WriteGate, WatchLoad,
          WatchRead, WatchOpen, WatchEnds
    <2> QED
      BY <2>1 DEF TypeBinding, Ids
  <1>13. CASE UNCHANGED vars
    BY <1>13 DEF vars, TypeBinding, Ids
  <1> QED
    BY <1>1, <1>2, <1>3, <1>4, <1>5, <1>6, <1>7, <1>8, <1>9, <1>10, <1>11, <1>12, <1>13 DEF
        Next, Bearer, Closing, Tunnel, WireGuard, Watcher, Idle

\* attach, detach and Close only go to places that exist.
LEMMA ActorTypeNext == TypeActor /\ [Next]_vars => TypeActor'
  <1> SUFFICES ASSUME TypeActor, [Next]_vars PROVE TypeActor'
    OBVIOUS
  <1> USE DEF binding, peers
  <1>1. ASSUME NEW e \in Endpoints, attach(e) PROVE TypeActor'
    BY <1>1, RelayAssumption DEF TypeActor, attach
  <1>2. CASE detach
    BY <1>2, RelayAssumption DEF TypeActor, detach, Unbind, NoSess
  <1>3. CASE InstallLock
    BY <1>3, RelayAssumption DEF TypeActor, InstallLock, Unbind, NoSess
  <1>4. CASE InstallDrain
    BY <1>4, RelayAssumption DEF TypeActor, InstallDrain
  <1>5. CASE InstallRegister
    BY <1>5, RelayAssumption DEF TypeActor, InstallRegister
  <1>6. CASE InstallStore
    BY <1>6, RelayAssumption DEF TypeActor, InstallStore, NoSess, NoSess
  <1>7. CASE SetPeer
    BY <1>7, RelayAssumption DEF TypeActor, SetPeer
  <1>8. CASE HoldDownlink
    BY <1>8, RelayAssumption DEF TypeActor, HoldDownlink
  <1>9. CASE ClearDrain
    BY <1>9, RelayAssumption DEF TypeActor, ClearDrain
  <1>10. CASE ClearPeer
    BY <1>10, RelayAssumption DEF TypeActor, ClearPeer
  <1>11. CASE ReleaseDownlink
    BY <1>11, RelayAssumption DEF TypeActor, ReleaseDownlink
  <1>12. CASE Close
    BY <1>12, RelayAssumption DEF TypeActor, Close
  <1>13. CASE CloseClear
    BY <1>13, RelayAssumption DEF TypeActor, CloseClear, Unbind, NoSess
  <1>14. CASE CloseDrain
    BY <1>14, RelayAssumption DEF TypeActor, CloseDrain
  <1>15. CASE CloseJoin
    BY <1>15, RelayAssumption DEF TypeActor, CloseJoin
  <1>16. CASE Read \/ ReadOwner \/ ReadGate \/ ReadReturn \/ Handshake \/ Write \/ WriteGate \/
      WatchLoad \/ WatchRead \/ WatchOpen \/ WatchEnds \/ (\E e \in Endpoints : Deliver(e) \/
      deliverFrom(e) \/ Enqueue(e))
    <2>1. UNCHANGED <<actor, closer>>
      BY <1>16 DEF Deliver, deliverFrom, Enqueue, Read, ReadOwner, ReadGate, ReadReturn,
          Handshake, Write, WriteGate, WatchLoad, WatchRead, WatchOpen, WatchEnds
    <2> QED
      BY <2>1 DEF TypeActor
  <1>17. CASE UNCHANGED vars
    BY <1>17 DEF vars, TypeActor
  <1> QED
    BY <1>1, <1>2, <1>3, <1>4, <1>5, <1>6, <1>7, <1>8, <1>9, <1>10, <1>11, <1>12, <1>13, <1>14,
        <1>15, <1>16, <1>17 DEF Next, Bearer, Closing, Tunnel, WireGuard, Watcher, Idle

\* So do the deliveries, Read and Write.
LEMMA FlowTypeNext == TypeBinding /\ TypeFlow /\ [Next]_vars => TypeFlow'
  <1> SUFFICES ASSUME TypeBinding, TypeFlow, [Next]_vars PROVE TypeFlow'
    OBVIOUS
  <1> USE DEF binding, peers
  <1>1. ASSUME NEW e \in Endpoints, attach(e) PROVE TypeFlow'
    <2>1. UNCHANGED <<reader, rd, wr, packets>> /\ installs' = installs + 1
      BY <1>1 DEF attach
    <2>2. Ids \subseteq Ids'
      BY <2>1 DEF TypeBinding, Ids
    <2>3. reader' \in [Endpoints -> [pc : {"idle", "check", "enqueue"}, id : Ids']]
      BY <2>1, <2>2 DEF TypeFlow
    <2>4. rd' \in [pc : {"idle", "owner", "gate", "out"}, id : Ids', late : BOOLEAN]
      BY <2>1, <2>2 DEF TypeFlow
    <2> QED
      BY <2>1, <2>3, <2>4 DEF TypeFlow
  <1>2. ASSUME NEW e \in Endpoints, Deliver(e) PROVE TypeFlow'
    <2>1. UNCHANGED <<installs, rd, wr>> /\ packets' \in Nat
      BY <1>2 DEF Deliver, TypeFlow
    <2>2. reader' = reader \/ reader' = [reader EXCEPT ![e] = [pc |-> "check", id |-> down[e]]]
      BY <1>2 DEF Deliver
    <2>3. down[e] \in Ids
      BY DEF TypeBinding
    <2>4. reader' \in [Endpoints -> [pc : {"idle", "check", "enqueue"}, id : Ids]]
      BY <2>2, <2>3 DEF TypeFlow
    <2> QED
      BY <2>1, <2>4 DEF TypeFlow, Ids
  <1>3. ASSUME NEW e \in Endpoints, deliverFrom(e) PROVE TypeFlow'
    <2>1. UNCHANGED <<installs, rd, wr, packets>>
      BY <1>3 DEF deliverFrom
    <2>2. \/ reader' = [reader EXCEPT ![e] = NoDelivery]
          \/ reader' = [reader EXCEPT ![e].pc = "enqueue"]
      BY <1>3 DEF deliverFrom
    <2>3. NoDelivery \in [pc : {"idle", "check", "enqueue"}, id : Ids]
      BY DEF NoDelivery, TypeBinding, Ids, nil
    <2>4. reader' \in [Endpoints -> [pc : {"idle", "check", "enqueue"}, id : Ids]]
      BY <2>2, <2>3 DEF TypeFlow
    <2> QED
      BY <2>1, <2>4 DEF TypeFlow, Ids
  <1>4. ASSUME NEW e \in Endpoints, Enqueue(e) PROVE TypeFlow'
    <2>1. UNCHANGED <<installs, rd, wr, packets>>
      BY <1>4 DEF Enqueue
    <2>2. reader' = [reader EXCEPT ![e] = NoDelivery]
      BY <1>4 DEF Enqueue
    <2>3. NoDelivery \in [pc : {"idle", "check", "enqueue"}, id : Ids]
      BY DEF NoDelivery, TypeBinding, Ids, nil
    <2>4. reader' \in [Endpoints -> [pc : {"idle", "check", "enqueue"}, id : Ids]]
      BY <2>2, <2>3 DEF TypeFlow
    <2> QED
      BY <2>1, <2>4 DEF TypeFlow, Ids
  <1>5. CASE Read
    <2>1. UNCHANGED <<installs, reader, wr, packets>> /\ queue # <<>>
      BY <1>5 DEF Read
    <2>2. rd' = [pc |-> "owner", id |-> Head(queue), late |-> Head(queue) # session.id]
      BY <1>5 DEF Read
    <2>3. Head(queue) \in Ids
      BY <2>1 DEF TypeBinding
    <2>4. rd' \in [pc : {"idle", "owner", "gate", "out"}, id : Ids, late : BOOLEAN]
      BY <2>2, <2>3
    <2> QED
      BY <2>1, <2>4 DEF TypeFlow, Ids
  <1>6. CASE ReadOwner
    <2>1. UNCHANGED <<installs, reader, wr, packets>>
      BY <1>6 DEF ReadOwner
    <2>2. rd' = NoRead \/ rd' = [rd EXCEPT !.pc = "gate"] \/ rd' = [rd EXCEPT !.pc = "out"]
      BY <1>6 DEF ReadOwner
    <2>3. NoRead \in [pc : {"idle", "owner", "gate", "out"}, id : Ids, late : BOOLEAN]
      BY DEF NoRead, TypeBinding, Ids, nil
    <2>4. rd' \in [pc : {"idle", "owner", "gate", "out"}, id : Ids, late : BOOLEAN]
      BY <2>2, <2>3 DEF TypeFlow
    <2> QED
      BY <2>1, <2>4 DEF TypeFlow, Ids
  <1>7. CASE ReadGate
    <2>1. UNCHANGED <<installs, reader, wr, packets>>
      BY <1>7 DEF ReadGate
    <2>2. rd' = NoRead \/ rd' = [rd EXCEPT !.pc = "gate"] \/ rd' = [rd EXCEPT !.pc = "out"]
      BY <1>7 DEF ReadGate
    <2>3. NoRead \in [pc : {"idle", "owner", "gate", "out"}, id : Ids, late : BOOLEAN]
      BY DEF NoRead, TypeBinding, Ids, nil
    <2>4. rd' \in [pc : {"idle", "owner", "gate", "out"}, id : Ids, late : BOOLEAN]
      BY <2>2, <2>3 DEF TypeFlow
    <2> QED
      BY <2>1, <2>4 DEF TypeFlow, Ids
  <1>8. CASE ReadReturn
    <2>1. UNCHANGED <<installs, reader, wr, packets>>
      BY <1>8 DEF ReadReturn
    <2>2. rd' = NoRead \/ rd' = [rd EXCEPT !.pc = "gate"] \/ rd' = [rd EXCEPT !.pc = "out"]
      BY <1>8 DEF ReadReturn
    <2>3. NoRead \in [pc : {"idle", "owner", "gate", "out"}, id : Ids, late : BOOLEAN]
      BY DEF NoRead, TypeBinding, Ids, nil
    <2>4. rd' \in [pc : {"idle", "owner", "gate", "out"}, id : Ids, late : BOOLEAN]
      BY <2>2, <2>3 DEF TypeFlow
    <2> QED
      BY <2>1, <2>4 DEF TypeFlow, Ids
  <1>9. CASE Write
    BY <1>9 DEF TypeFlow, Ids, Write
  <1>10. CASE WriteGate
    BY <1>10 DEF TypeFlow, Ids, WriteGate
  <1>11. CASE detach \/ InstallLock \/ InstallDrain \/ InstallRegister \/ InstallStore \/
      SetPeer \/ HoldDownlink \/ ClearDrain \/ ClearPeer \/ ReleaseDownlink \/ Close \/
      CloseClear \/ CloseDrain \/ CloseJoin \/ Handshake \/ WatchLoad \/ WatchRead \/ WatchOpen
      \/ WatchEnds
    <2>1. UNCHANGED <<installs, reader, rd, wr, packets>>
      BY <1>11 DEF detach, InstallLock, InstallDrain, InstallRegister, InstallStore, SetPeer,
          HoldDownlink, ClearDrain, ClearPeer, ReleaseDownlink, Close, CloseClear, CloseDrain,
          CloseJoin, Handshake, WatchLoad, WatchRead, WatchOpen, WatchEnds
    <2> QED
      BY <2>1 DEF TypeFlow, Ids
  <1>12. CASE UNCHANGED vars
    BY <1>12 DEF vars, TypeFlow, Ids
  <1> QED
    BY <1>1, <1>2, <1>3, <1>4, <1>5, <1>6, <1>7, <1>8, <1>9, <1>10, <1>11, <1>12 DEF Next,
        Bearer, Closing, Tunnel, WireGuard, Watcher, Idle

\* The latches, the peer and the watcher keep their types.
LEMMA PeersTypeNext == TypeBinding /\ TypePeers /\ [Next]_vars => TypePeers'
  <1> SUFFICES ASSUME TypeBinding, TypePeers, [Next]_vars PROVE TypePeers'
    OBVIOUS
  <1> USE DEF binding, peers
  <1>1. ASSUME NEW e \in Endpoints, attach(e) PROVE TypePeers'
    <2>1. UNCHANGED <<closed, gate, seen, hs, peer, watcher>> /\ installs' = installs + 1
      BY <1>1 DEF attach
    <2>2. Ids \subseteq Ids'
      BY <2>1 DEF TypeBinding, Ids
    <2>3. watcher' \in [pc : {"wait", "read", "open", "done"}, gate : Ids']
      BY <2>1, <2>2 DEF TypePeers
    <2> QED
      BY <2>1, <2>2, <2>3 DEF TypePeers
  <1>2. CASE SetPeer
    <2>1. UNCHANGED <<closed, installs, gate, seen, watcher>>
      BY <1>2 DEF SetPeer
    <2>2. peer' \in {peer, TRUE, FALSE} /\ hs' \in {hs, FALSE}
      BY <1>2 DEF SetPeer
    <2> QED
      BY <2>1, <2>2 DEF TypePeers, Ids
  <1>3. CASE HoldDownlink
    BY <1>3 DEF TypePeers, Ids, HoldDownlink, TypeBinding
  <1>4. CASE ClearPeer
    <2>1. UNCHANGED <<closed, installs, gate, seen, watcher>>
      BY <1>4 DEF ClearPeer
    <2>2. peer' \in {peer, TRUE, FALSE} /\ hs' \in {hs, FALSE}
      BY <1>4 DEF ClearPeer
    <2> QED
      BY <2>1, <2>2 DEF TypePeers, Ids
  <1>5. CASE ReleaseDownlink
    BY <1>5 DEF TypePeers, Ids, ReleaseDownlink, TypeBinding, nil
  <1>6. CASE Close
    BY <1>6 DEF TypePeers, Ids, Close
  <1>7. CASE Handshake
    BY <1>7 DEF TypePeers, Ids, Handshake
  <1>8. CASE WriteGate
    BY <1>8 DEF TypePeers, Ids, WriteGate
  <1>9. CASE WatchLoad
    <2>1. UNCHANGED <<closed, installs, gate, seen, hs, peer>>
      BY <1>9 DEF WatchLoad
    <2>2. \/ watcher' = Waiting \/ watcher' = [pc |-> "read", gate |-> gate]
          \/ watcher' = [watcher EXCEPT !.pc = "open"] \/ watcher' = [watcher EXCEPT !.pc = "done"]
      BY <1>9 DEF WatchLoad
    <2>3. Waiting \in [pc : {"wait", "read", "open", "done"}, gate : Ids]
      BY DEF Waiting, TypeBinding, Ids, nil
    <2>4. watcher' \in [pc : {"wait", "read", "open", "done"}, gate : Ids]
      BY <2>2, <2>3 DEF TypePeers
    <2> QED
      BY <2>1, <2>4 DEF TypePeers, Ids
  <1>10. CASE WatchRead
    <2>1. UNCHANGED <<closed, installs, gate, seen, hs, peer>>
      BY <1>10 DEF WatchRead
    <2>2. \/ watcher' = Waiting \/ watcher' = [pc |-> "read", gate |-> gate]
          \/ watcher' = [watcher EXCEPT !.pc = "open"] \/ watcher' = [watcher EXCEPT !.pc = "done"]
      BY <1>10 DEF WatchRead
    <2>3. Waiting \in [pc : {"wait", "read", "open", "done"}, gate : Ids]
      BY DEF Waiting, TypeBinding, Ids, nil
    <2>4. watcher' \in [pc : {"wait", "read", "open", "done"}, gate : Ids]
      BY <2>2, <2>3 DEF TypePeers
    <2> QED
      BY <2>1, <2>4 DEF TypePeers, Ids
  <1>11. CASE WatchOpen
    <2>1. UNCHANGED <<closed, installs, gate, hs, peer>> /\ watcher' = Waiting
      BY <1>11 DEF WatchOpen
    <2>2. seen' \subseteq Ids
      BY <1>11 DEF WatchOpen, TypePeers
    <2>3. Waiting \in [pc : {"wait", "read", "open", "done"}, gate : Ids]
      BY DEF Waiting, TypeBinding, Ids, nil
    <2> QED
      BY <2>1, <2>2, <2>3 DEF TypePeers, Ids
  <1>12. CASE WatchEnds
    <2>1. UNCHANGED <<closed, installs, gate, seen, hs, peer>>
      BY <1>12 DEF WatchEnds
    <2>2. \/ watcher' = Waiting \/ watcher' = [pc |-> "read", gate |-> gate]
          \/ watcher' = [watcher EXCEPT !.pc = "open"] \/ watcher' = [watcher EXCEPT !.pc = "done"]
      BY <1>12 DEF WatchEnds
    <2>3. Waiting \in [pc : {"wait", "read", "open", "done"}, gate : Ids]
      BY DEF Waiting, TypeBinding, Ids, nil
    <2>4. watcher' \in [pc : {"wait", "read", "open", "done"}, gate : Ids]
      BY <2>2, <2>3 DEF TypePeers
    <2> QED
      BY <2>1, <2>4 DEF TypePeers, Ids
  <1>13. CASE detach \/ InstallLock \/ InstallDrain \/ InstallRegister \/ InstallStore \/
      ClearDrain \/ CloseClear \/ CloseDrain \/ CloseJoin \/ Read \/ ReadOwner \/ ReadGate \/
      ReadReturn \/ Write \/ (\E e \in Endpoints : Deliver(e) \/ deliverFrom(e) \/ Enqueue(e))
    <2>1. UNCHANGED <<closed, installs, gate, seen, hs, peer, watcher>>
      BY <1>13 DEF detach, InstallLock, InstallDrain, InstallRegister, InstallStore, ClearDrain,
          CloseClear, CloseDrain, CloseJoin, Deliver, deliverFrom, Enqueue, Read, ReadOwner,
          ReadGate, ReadReturn, Write
    <2> QED
      BY <2>1 DEF TypePeers, Ids
  <1>14. CASE UNCHANGED vars
    BY <1>14 DEF vars, TypePeers, Ids
  <1> QED
    BY <1>1, <1>2, <1>3, <1>4, <1>5, <1>6, <1>7, <1>8, <1>9, <1>10, <1>11, <1>12, <1>13, <1>14
        DEF Next, Bearer, Closing, Tunnel, WireGuard, Watcher, Idle

\* BindInv is inductive.
LEMMA BindNext == TypeOK /\ BindInv /\ [Next]_vars => BindInv'
  <1> SUFFICES ASSUME TypeOK, BindInv, [Next]_vars PROVE BindInv'
    OBVIOUS
  <1> USE DEF binding, peers
  <1>1. ASSUME NEW e \in Endpoints, attach(e) PROVE BindInv'
    BY <1>1 DEF BindInv, QueueHoldsCurrent, OneDownlink, nil, binding, attach, TypeOK,
        TypeBinding, TypeActor, TypeFlow, TypePeers, Ids
  <1>2. CASE detach
    BY <1>2 DEF BindInv, QueueHoldsCurrent, OneDownlink, nil, binding, detach, Unbind, NoSess,
        TypeOK, TypeBinding, TypeActor, TypeFlow, TypePeers, Ids
  <1>3. CASE InstallLock
    BY <1>3 DEF BindInv, QueueHoldsCurrent, OneDownlink, nil, binding, InstallLock, Unbind,
        NoSess, TypeOK, TypeBinding, TypeActor, TypeFlow, TypePeers, Ids
  <1>4. CASE InstallDrain
    BY <1>4 DEF BindInv, QueueHoldsCurrent, OneDownlink, nil, binding, InstallDrain, TypeOK,
        TypeBinding, TypeActor, TypeFlow, TypePeers, Ids
  <1>5. CASE InstallRegister
    BY <1>5 DEF BindInv, QueueHoldsCurrent, OneDownlink, nil, binding, InstallRegister, TypeOK,
        TypeBinding, TypeActor, TypeFlow, TypePeers, Ids
  <1>6. CASE InstallStore
    <2> USE DEF nil
    <2>1. actor.pc = "store" /\ lock' = "free" /\ actor'.pc = "setPeer"
      BY <1>6 DEF InstallStore
    <2>2. UNCHANGED <<queue, closed, installs, closer, reader>>
      BY <1>6 DEF InstallStore
    <2>3. lock = "actor" /\ session.id = nil /\ queue = <<>> /\ closer # "drain" /\ installs # nil
      BY <2>1 DEF BindInv
    <2>4. actor.ep \in Endpoints /\ session.ep \in Endpoints /\ installs \in Nat
      BY DEF TypeOK, TypeBinding, TypeActor
    <2>5. \A x \in Endpoints : down[x] = IF x = actor.ep THEN installs ELSE nil
      BY <2>1, <2>3 DEF BindInv
    <2>6. OneDownlink' /\ (closer' \in {"join", "done"} => session'.id = nil)
      <3>1. CASE closed
        <4>1. session' = session /\ down' = [down EXCEPT ![actor.ep] = nil]
          BY <1>6, <3>1 DEF InstallStore
        <4>2. \A x \in Endpoints : down'[x] = nil
          BY <4>1, <2>4, <2>5 DEF TypeOK, TypeBinding
        <4> QED
          BY <4>1, <4>2, <2>3 DEF OneDownlink
      <3>2. CASE ~closed
        <4>1. session' = [id |-> installs, ep |-> actor.ep] /\ down' = down
          BY <1>6, <3>2 DEF InstallStore
        <4>2. closer = "idle"
          BY <3>2 DEF BindInv
        <4> QED
          BY <4>1, <4>2, <2>2, <2>4, <2>5 DEF OneDownlink
      <3> QED
        BY <3>1, <3>2
    <2>7. QueueHoldsCurrent'
      BY <2>2, <2>3 DEF QueueHoldsCurrent
    <2> QED
      BY <2>1, <2>2, <2>3, <2>6, <2>7 DEF BindInv
  <1>7. CASE SetPeer
    BY <1>7 DEF BindInv, QueueHoldsCurrent, OneDownlink, nil, binding, SetPeer, TypeOK,
        TypeBinding, TypeActor, TypeFlow, TypePeers, Ids
  <1>8. CASE HoldDownlink
    BY <1>8 DEF BindInv, QueueHoldsCurrent, OneDownlink, nil, binding, HoldDownlink, TypeOK,
        TypeBinding, TypeActor, TypeFlow, TypePeers, Ids
  <1>9. CASE ClearDrain
    BY <1>9 DEF BindInv, QueueHoldsCurrent, OneDownlink, nil, binding, ClearDrain, TypeOK,
        TypeBinding, TypeActor, TypeFlow, TypePeers, Ids
  <1>10. CASE ClearPeer
    BY <1>10 DEF BindInv, QueueHoldsCurrent, OneDownlink, nil, binding, ClearPeer, TypeOK,
        TypeBinding, TypeActor, TypeFlow, TypePeers, Ids
  <1>11. CASE ReleaseDownlink
    BY <1>11 DEF BindInv, QueueHoldsCurrent, OneDownlink, nil, binding, ReleaseDownlink, TypeOK,
        TypeBinding, TypeActor, TypeFlow, TypePeers, Ids
  <1>12. CASE Close
    BY <1>12 DEF BindInv, QueueHoldsCurrent, OneDownlink, nil, binding, Close, TypeOK,
        TypeBinding, TypeActor, TypeFlow, TypePeers, Ids
  <1>13. CASE CloseClear
    BY <1>13 DEF BindInv, QueueHoldsCurrent, OneDownlink, nil, binding, CloseClear, Unbind,
        NoSess, TypeOK, TypeBinding, TypeActor, TypeFlow, TypePeers, Ids
  <1>14. CASE CloseDrain
    BY <1>14 DEF BindInv, QueueHoldsCurrent, OneDownlink, nil, binding, CloseDrain, TypeOK,
        TypeBinding, TypeActor, TypeFlow, TypePeers, Ids
  <1>15. CASE CloseJoin
    BY <1>15 DEF BindInv, QueueHoldsCurrent, OneDownlink, nil, binding, CloseJoin, TypeOK,
        TypeBinding, TypeActor, TypeFlow, TypePeers, Ids
  <1>16. ASSUME NEW e \in Endpoints, Deliver(e) PROVE BindInv'
    BY <1>16 DEF BindInv, QueueHoldsCurrent, OneDownlink, nil, binding, Deliver, TypeOK,
        TypeBinding, TypeActor, TypeFlow, TypePeers, Ids
  <1>17. ASSUME NEW e \in Endpoints, deliverFrom(e) PROVE BindInv'
    <2>1. UNCHANGED <<session, down, queue, lock, closed, installs, actor, closer>>
      BY <1>17 DEF deliverFrom
    <2>2. reader[e].id # nil
      BY <1>17 DEF deliverFrom, BindInv
    <2>3. \A x \in Endpoints : reader'[x].pc \in {"check", "enqueue"} => reader'[x].id # nil
      <3> SUFFICES ASSUME NEW x \in Endpoints, reader'[x].pc \in {"check", "enqueue"}
                   PROVE  reader'[x].id # nil
        OBVIOUS
      <3>1. CASE x = e
        <4>1. reader'[e] = NoDelivery \/ reader'[e].id = reader[e].id
          BY <1>17 DEF deliverFrom, TypeOK, TypeFlow
        <4>2. NoDelivery.pc = "idle"
          BY DEF NoDelivery
        <4> QED
          BY <3>1, <4>1, <4>2, <2>2
      <3>2. CASE x # e
        <4>1. reader'[x] = reader[x]
          BY <1>17, <3>2 DEF deliverFrom, TypeOK, TypeFlow
        <4> QED
          BY <4>1 DEF BindInv
      <3> QED
        BY <3>1, <3>2
    <2>4. QueueHoldsCurrent' /\ OneDownlink'
      BY <2>1 DEF BindInv, QueueHoldsCurrent, OneDownlink
    <2> QED
      BY <2>1, <2>3, <2>4 DEF BindInv
  <1>18. ASSUME NEW e \in Endpoints, Enqueue(e) PROVE BindInv'
    <2>1. UNCHANGED <<session, down, lock, closed, installs, actor, closer>> /\ lock = "free"
      BY <1>18 DEF Enqueue
    <2>2. \A x \in Endpoints : reader'[x].pc \in {"check", "enqueue"} => reader'[x].id # nil
      BY <1>18 DEF Enqueue, NoDelivery, BindInv, TypeOK, TypeFlow
    <2>3. QueueHoldsCurrent'
      <3>1. CASE queue' = queue
        BY <2>1, <3>1 DEF BindInv, QueueHoldsCurrent
      <3>2. CASE queue' = Append(queue, reader[e].id) /\ reader[e].id = session.id
        <4>1. queue \in Seq(Ids) /\ session.id # nil
          BY <1>18, <3>2 DEF Enqueue, BindInv, TypeOK, TypeBinding
        <4>2. \A i \in DOMAIN queue' : queue'[i] = session.id
          BY <3>2, <4>1, <2>1 DEF BindInv, QueueHoldsCurrent
        <4> QED
          BY <4>1, <4>2, <2>1 DEF QueueHoldsCurrent
      <3> QED
        BY <1>18, <3>1, <3>2 DEF Enqueue
    <2>4. OneDownlink'
      BY <2>1 DEF BindInv, OneDownlink
    <2>5. actor.pc \notin {"register", "store", "clearDrain"}
      BY <2>1 DEF BindInv
    <2> QED
      BY <2>1, <2>2, <2>3, <2>4, <2>5 DEF BindInv
  <1>19. CASE Read
    BY <1>19 DEF BindInv, QueueHoldsCurrent, OneDownlink, nil, binding, Read, TypeOK,
        TypeBinding, TypeActor, TypeFlow, TypePeers, Ids
  <1>20. CASE ReadOwner \/ ReadGate \/ ReadReturn \/ Handshake \/ Write \/ WriteGate \/
      WatchLoad \/ WatchRead \/ WatchOpen \/ WatchEnds
    <2>1. UNCHANGED <<binding, closed, installs, actor, closer, reader>>
      BY <1>20 DEF ReadOwner, ReadGate, ReadReturn, Handshake, Write, WriteGate, WatchLoad,
          WatchRead, WatchOpen, WatchEnds
    <2> QED
      BY <2>1 DEF BindInv, QueueHoldsCurrent, OneDownlink, nil, binding
  <1>21. CASE UNCHANGED vars
    BY <1>21 DEF vars, BindInv, QueueHoldsCurrent, OneDownlink, nil, binding
  <1> QED
    BY <1>1, <1>2, <1>3, <1>4, <1>5, <1>6, <1>7, <1>8, <1>9, <1>10, <1>11, <1>12, <1>13, <1>14,
        <1>15, <1>16, <1>17, <1>18, <1>19, <1>20, <1>21 DEF Next, Bearer, Closing, Tunnel,
        WireGuard, Watcher, Idle

\* LatchInv is inductive: SetPeer forgets the handshake before the new latch is
\* hung, and a latch nobody has seen yet cannot be open.
LEMMA LatchNext == TypeOK /\ LatchInv /\ [Next]_vars => LatchInv'
  <1> SUFFICES ASSUME TypeOK, LatchInv, [Next]_vars PROVE LatchInv'
    OBVIOUS
  <1> USE DEF binding, peers
  <1>1. ASSUME NEW e \in Endpoints, attach(e) PROVE LatchInv'
    BY <1>1 DEF LatchInv, OpenLatchMeansHandshake, nil, peers, attach, TypeOK, TypeBinding,
        TypeActor, TypeFlow, TypePeers, Ids
  <1>2. CASE detach
    BY <1>2 DEF LatchInv, OpenLatchMeansHandshake, nil, peers, detach, Unbind, NoSess, TypeOK,
        TypeBinding, TypeActor, TypeFlow, TypePeers, Ids
  <1>3. CASE InstallLock
    BY <1>3 DEF LatchInv, OpenLatchMeansHandshake, nil, peers, InstallLock, Unbind, NoSess,
        TypeOK, TypeBinding, TypeActor, TypeFlow, TypePeers, Ids
  <1>4. CASE InstallDrain
    BY <1>4 DEF LatchInv, OpenLatchMeansHandshake, nil, peers, InstallDrain, TypeOK,
        TypeBinding, TypeActor, TypeFlow, TypePeers, Ids
  <1>5. CASE InstallRegister
    BY <1>5 DEF LatchInv, OpenLatchMeansHandshake, nil, peers, InstallRegister, TypeOK,
        TypeBinding, TypeActor, TypeFlow, TypePeers, Ids
  <1>6. CASE InstallStore
    BY <1>6 DEF LatchInv, OpenLatchMeansHandshake, nil, peers, InstallStore, NoSess, TypeOK,
        TypeBinding, TypeActor, TypeFlow, TypePeers, Ids
  <1>7. CASE SetPeer
    BY <1>7 DEF LatchInv, OpenLatchMeansHandshake, nil, peers, SetPeer, TypeOK, TypeBinding,
        TypeActor, TypeFlow, TypePeers, Ids
  <1>8. CASE HoldDownlink
    BY <1>8 DEF LatchInv, OpenLatchMeansHandshake, nil, peers, HoldDownlink, TypeOK,
        TypeBinding, TypeActor, TypeFlow, TypePeers, Ids
  <1>9. CASE ClearDrain
    BY <1>9 DEF LatchInv, OpenLatchMeansHandshake, nil, peers, ClearDrain, TypeOK, TypeBinding,
        TypeActor, TypeFlow, TypePeers, Ids
  <1>10. CASE ClearPeer
    BY <1>10 DEF LatchInv, OpenLatchMeansHandshake, nil, peers, ClearPeer, TypeOK, TypeBinding,
        TypeActor, TypeFlow, TypePeers, Ids
  <1>11. CASE ReleaseDownlink
    BY <1>11 DEF LatchInv, OpenLatchMeansHandshake, nil, peers, ReleaseDownlink, TypeOK,
        TypeBinding, TypeActor, TypeFlow, TypePeers, Ids
  <1>12. CASE Handshake
    BY <1>12 DEF LatchInv, OpenLatchMeansHandshake, nil, peers, Handshake, TypeOK, TypeBinding,
        TypeActor, TypeFlow, TypePeers, Ids
  <1>13. CASE Write
    BY <1>13 DEF LatchInv, OpenLatchMeansHandshake, nil, peers, Write, TypeOK, TypeBinding,
        TypeActor, TypeFlow, TypePeers, Ids
  <1>14. CASE WriteGate
    BY <1>14 DEF LatchInv, OpenLatchMeansHandshake, nil, peers, WriteGate, TypeOK, TypeBinding,
        TypeActor, TypeFlow, TypePeers, Ids
  <1>15. CASE WatchLoad
    BY <1>15 DEF LatchInv, OpenLatchMeansHandshake, nil, peers, WatchLoad, TypeOK, TypeBinding,
        TypeActor, TypeFlow, TypePeers, Ids
  <1>16. CASE WatchRead
    BY <1>16 DEF LatchInv, OpenLatchMeansHandshake, nil, peers, WatchRead, Waiting, TypeOK,
        TypeBinding, TypeActor, TypeFlow, TypePeers, Ids
  <1>17. CASE WatchOpen
    BY <1>17 DEF LatchInv, OpenLatchMeansHandshake, nil, peers, WatchOpen, Waiting, TypeOK,
        TypeBinding, TypeActor, TypeFlow, TypePeers, Ids
  <1>18. CASE WatchEnds
    BY <1>18 DEF LatchInv, OpenLatchMeansHandshake, nil, peers, WatchEnds, TypeOK, TypeBinding,
        TypeActor, TypeFlow, TypePeers, Ids
  <1>19. CASE Close \/ CloseClear \/ CloseDrain \/ CloseJoin \/ Read \/ ReadOwner \/ ReadGate \/
      ReadReturn \/ (\E e \in Endpoints : Deliver(e) \/ deliverFrom(e) \/ Enqueue(e))
    <2>1. UNCHANGED <<installs, actor, wr, peers, watcher>>
      BY <1>19 DEF Close, CloseClear, CloseDrain, CloseJoin, Deliver, deliverFrom, Enqueue,
          Read, ReadOwner, ReadGate, ReadReturn
    <2> QED
      BY <2>1 DEF LatchInv, OpenLatchMeansHandshake, nil, peers
  <1>20. CASE UNCHANGED vars
    BY <1>20 DEF vars, LatchInv, OpenLatchMeansHandshake, nil, peers
  <1> QED
    BY <1>1, <1>2, <1>3, <1>4, <1>5, <1>6, <1>7, <1>8, <1>9, <1>10, <1>11, <1>12, <1>13, <1>14,
        <1>15, <1>16, <1>17, <1>18, <1>19, <1>20 DEF Next, Bearer, Closing, Tunnel, WireGuard,
        Watcher, Idle

\* Every variable keeps its type for any number of endpoints and any queue size; the
\* queue never exceeds its capacity (relay.go: deliverFrom).
THEOREM TypeCorrect == Spec => []TypeOK
  <1>1. TypeOK /\ [Next]_vars => TypeOK'
    BY BindingTypeNext, ActorTypeNext, FlowTypeNext, PeersTypeNext DEF TypeOK
  <1> QED
    BY TypeInit, <1>1, PTL DEF Spec

\* NewRelay starts unbound.
LEMMA BindInit == Init => BindInv
  <1> SUFFICES ASSUME Init PROVE BindInv
    OBVIOUS
  <1> USE DEF nil
  <1>1. session.id = nil /\ queue = <<>> /\ (\A e \in Endpoints : down[e] = nil)
    BY DEF Init, NoSess
  <1>2. \A e \in Endpoints : reader[e].pc = "idle"
    BY DEF Init, NoDelivery
  <1>3. lock = "free" /\ actor.pc = "idle" /\ closer = "idle"
    BY DEF Init
  <1>4. QueueHoldsCurrent /\ OneDownlink
    BY <1>1 DEF QueueHoldsCurrent, OneDownlink
  <1> QED
    BY <1>1, <1>2, <1>3, <1>4 DEF BindInv

\* BindInv holds throughout.
LEMMA BindInvariant == Spec => []BindInv
  BY BindInit, BindNext, TypeCorrect, PTL DEF Spec

\* Sessions do not mix, for any number of them: outside a rebinding the queue and the
\* callbacks belong to the current binding, and after Close there are none
\* (relay.go: InstallSession, ClearSession, deliverFrom, Close).
THEOREM BindingSafe == Spec => [](QueueHoldsCurrent /\ OneDownlink /\ CloseUnbinds)
  <1>1. TypeOK /\ BindInv => CloseUnbinds
    <2> SUFFICES ASSUME TypeOK, BindInv, closer \in {"join", "done"},
                        actor.pc \notin {"drain", "register", "store"}
                 PROVE  session.id = nil /\ (\A e \in Endpoints : down[e] = nil) /\ queue = <<>>
      BY DEF CloseUnbinds
    <2>1. session.id = nil
      BY DEF BindInv
    <2>2. \A e \in Endpoints : down[e] = nil
      BY <2>1 DEF BindInv, OneDownlink
    <2>3. queue = <<>>
      <3>1. CASE actor.pc = "clearDrain"
        BY <3>1 DEF BindInv
      <3>2. CASE actor.pc # "clearDrain"
        <4>1. lock = "free"
          BY <3>2 DEF BindInv, TypeOK, TypeBinding
        <4>2. DOMAIN queue = {}
          BY <4>1, <2>1 DEF BindInv, QueueHoldsCurrent
        <4> QED
          BY <4>2 DEF TypeOK, TypeBinding
      <3> QED
        BY <3>1, <3>2
    <2> QED
      BY <2>1, <2>2, <2>3
  <1>2. BindInv => QueueHoldsCurrent /\ OneDownlink
    BY DEF BindInv
  <1> QED
    BY <1>1, <1>2, TypeCorrect, BindInvariant, PTL

\* No latch is open at first.
LEMMA LatchInit == Init => LatchInv
  BY DEF Init, LatchInv, OpenLatchMeansHandshake, Waiting, nil

\* The gate on downlink packets opens only for a peer that completed a handshake of
\* its own (device.go: SetPeer, ClearPeer, watchPeerHandshake).
THEOREM LatchSafe == Spec => []OpenLatchMeansHandshake
  <1>1. LatchInv => OpenLatchMeansHandshake
    BY DEF LatchInv
  <1> QED
    BY <1>1, LatchInit, LatchNext, TypeCorrect, PTL DEF Spec

\* What is left after taking a packet was there before.
LEMMA TailElements ==
  ASSUME NEW S, NEW q \in Seq(S), q # <<>>
  PROVE  \A i \in DOMAIN Tail(q) : \E j \in DOMAIN q : Tail(q)[i] = q[j]
  <1> SUFFICES ASSUME NEW i \in DOMAIN Tail(q) PROVE \E j \in DOMAIN q : Tail(q)[i] = q[j]
    OBVIOUS
  <1>1. i + 1 \in DOMAIN q /\ Tail(q)[i] = q[i + 1]
    OBVIOUS
  <1> QED
    BY <1>1

\* What is there after enqueueing was there before, or is the new packet.
LEMMA AppendElements ==
  ASSUME NEW S, NEW q \in Seq(S), NEW x
  PROVE  \A i \in DOMAIN Append(q, x) : (\E j \in DOMAIN q : Append(q, x)[i] = q[j]) \/ Append(q, x)[i] = x
  <1> SUFFICES ASSUME NEW i \in DOMAIN Append(q, x)
               PROVE  (\E j \in DOMAIN q : Append(q, x)[i] = q[j]) \/ Append(q, x)[i] = x
    OBVIOUS
  <1>1. CASE i \in DOMAIN q
    BY <1>1
  <1>2. CASE i \notin DOMAIN q
    BY <1>2
  <1> QED
    BY <1>1, <1>2

\* OrphanInv is inductive.
LEMMA OrphanNext == TypeOK /\ BindInv /\ OrphanInv /\ [Next]_vars => OrphanInv'
  <1> SUFFICES ASSUME TypeOK, BindInv, OrphanInv, [Next]_vars PROVE OrphanInv'
    OBVIOUS
  <1> USE DEF binding, peers
  <1>1. ASSUME NEW e \in Endpoints, attach(e) PROVE OrphanInv'
    BY <1>1 DEF OrphanInv, nil, binding, attach, TypeOK, TypeBinding, TypeActor, TypeFlow, Ids
  <1>2. CASE detach
    <2>1. session'.id = nil /\ UNCHANGED <<queue, installs, rd>>
      BY <1>2 DEF detach, Unbind, NoSess
    <2>2. actor'.pc = "clearDrain"
      BY <1>2 DEF detach, TypeOK, TypeActor
    <2>3. actor'.pc \in {"lock", "drain", "register", "store"} => installs # nil
      BY <2>2 DEF BindInv, TypeOK, TypeActor
    <2> QED
      BY <2>1, <2>2, <2>3 DEF OrphanInv, nil, TypeOK, TypeActor
  <1>3. CASE InstallLock
    <2>1. session'.id = nil /\ UNCHANGED <<queue, installs, rd>>
      BY <1>3 DEF InstallLock, Unbind, NoSess
    <2>2. actor.pc = "lock"
      BY <1>3 DEF InstallLock
    <2>3. actor'.pc \in {"lock", "drain", "register", "store"} => installs # nil
      BY <2>2 DEF BindInv, TypeOK, TypeActor
    <2> QED
      BY <2>1, <2>2, <2>3 DEF OrphanInv, nil, TypeOK, TypeActor
  <1>4. CASE InstallDrain
    <2>1. UNCHANGED <<session, installs, rd>>
      BY <1>4 DEF InstallDrain
    <2>2. queue' = queue \/ (queue # <<>> /\ queue' = Tail(queue))
      BY <1>4 DEF InstallDrain
    <2>3. \A i \in DOMAIN queue' : \E j \in DOMAIN queue : queue'[i] = queue[j]
      BY <2>2, TailElements DEF TypeOK, TypeBinding
    <2>4. actor.pc = "drain"
      BY <1>4 DEF InstallDrain, TypeOK, TypeActor
    <2> QED
      BY <2>1, <2>3, <2>4 DEF OrphanInv
  <1>5. CASE InstallRegister
    BY <1>5 DEF OrphanInv, nil, binding, InstallRegister, TypeOK, TypeBinding, TypeActor,
        TypeFlow, Ids
  <1>6. CASE InstallStore
    BY <1>6 DEF OrphanInv, nil, binding, InstallStore, NoSess, TypeOK, TypeBinding, TypeActor,
        TypeFlow, Ids
  <1>7. CASE SetPeer
    BY <1>7 DEF OrphanInv, nil, binding, SetPeer, TypeOK, TypeBinding, TypeActor, TypeFlow, Ids
  <1>8. CASE HoldDownlink
    BY <1>8 DEF OrphanInv, nil, binding, HoldDownlink, TypeOK, TypeBinding, TypeActor, TypeFlow,
        Ids
  <1>9. CASE ClearDrain
    <2>1. UNCHANGED <<session, installs, rd>>
      BY <1>9 DEF ClearDrain
    <2>2. queue' = queue \/ (queue # <<>> /\ queue' = Tail(queue))
      BY <1>9 DEF ClearDrain
    <2>3. \A i \in DOMAIN queue' : \E j \in DOMAIN queue : queue'[i] = queue[j]
      BY <2>2, TailElements DEF TypeOK, TypeBinding
    <2>4. actor'.pc \in {"clearDrain", "clearPeer"}
      BY <1>9 DEF ClearDrain, TypeOK, TypeActor
    <2> QED
      BY <2>1, <2>3, <2>4 DEF OrphanInv
  <1>10. CASE ClearPeer
    BY <1>10 DEF OrphanInv, nil, binding, ClearPeer, TypeOK, TypeBinding, TypeActor, TypeFlow,
        Ids
  <1>11. CASE ReleaseDownlink
    BY <1>11 DEF OrphanInv, nil, binding, ReleaseDownlink, TypeOK, TypeBinding, TypeActor,
        TypeFlow, Ids
  <1>12. CASE CloseClear
    <2>1. session'.id = nil /\ UNCHANGED <<queue, installs, rd>>
      BY <1>12 DEF CloseClear, Unbind, NoSess
    <2>2. actor' = actor
      BY <1>12 DEF CloseClear
    <2>3. actor'.pc \in {"lock", "drain", "register", "store"} => installs # nil
      BY <2>2 DEF BindInv, TypeOK, TypeActor
    <2> QED
      BY <2>1, <2>2, <2>3 DEF OrphanInv, nil, TypeOK, TypeActor
  <1>13. CASE CloseDrain
    <2>1. UNCHANGED <<session, installs, rd>>
      BY <1>13 DEF CloseDrain
    <2>2. queue' = queue \/ (queue # <<>> /\ queue' = Tail(queue))
      BY <1>13 DEF CloseDrain
    <2>3. \A i \in DOMAIN queue' : \E j \in DOMAIN queue : queue'[i] = queue[j]
      BY <2>2, TailElements DEF TypeOK, TypeBinding
    <2>4. actor' = actor
      BY <1>13 DEF CloseDrain, TypeOK, TypeActor
    <2> QED
      BY <2>1, <2>3, <2>4 DEF OrphanInv
  <1>14. ASSUME NEW e \in Endpoints, Enqueue(e) PROVE OrphanInv'
    <2>1. UNCHANGED <<session, installs, actor, rd>>
      BY <1>14 DEF Enqueue
    <2>2. \/ queue' = queue
          \/ reader[e].id = session.id /\ session.id # nil /\ queue' = Append(queue, session.id)
      BY <1>14 DEF Enqueue, BindInv
    <2>3. \A i \in DOMAIN queue' :
             (\E j \in DOMAIN queue : queue'[i] = queue[j]) \/ (queue'[i] = session.id /\ session.id # nil)
      BY <2>2, AppendElements DEF TypeOK, TypeBinding
    <2> QED
      BY <2>1, <2>3 DEF OrphanInv
  <1>15. CASE Read
    <2>1. UNCHANGED <<session, installs, actor>> /\ queue # <<>> /\ queue' = Tail(queue)
      BY <1>15 DEF Read
    <2>2. rd' = [pc |-> "owner", id |-> Head(queue), late |-> Head(queue) # session.id]
      BY <1>15 DEF Read
    <2>3. \A i \in DOMAIN queue' : \E j \in DOMAIN queue : queue'[i] = queue[j]
      BY <2>1, TailElements DEF TypeOK, TypeBinding
    <2>4. 1 \in DOMAIN queue /\ Head(queue) = queue[1]
      BY <2>1 DEF TypeOK, TypeBinding
    <2> QED
      BY <2>1, <2>2, <2>3, <2>4 DEF OrphanInv
  <1>16. CASE ReadOwner
    BY <1>16 DEF OrphanInv, nil, binding, ReadOwner, NoRead, TypeOK, TypeBinding, TypeActor,
        TypeFlow, Ids
  <1>17. CASE ReadGate
    BY <1>17 DEF OrphanInv, nil, binding, ReadGate, NoRead, TypeOK, TypeBinding, TypeActor,
        TypeFlow, Ids
  <1>18. CASE ReadReturn
    BY <1>18 DEF OrphanInv, nil, binding, ReadReturn, NoRead, TypeOK, TypeBinding, TypeActor,
        TypeFlow, Ids
  <1>19. CASE Close \/ CloseJoin \/ Handshake \/ Write \/ WriteGate \/ WatchLoad \/ WatchRead \/
      WatchOpen \/ WatchEnds \/ (\E e \in Endpoints : Deliver(e) \/ deliverFrom(e))
    <2>1. UNCHANGED <<session, queue, installs, actor, rd>>
      BY <1>19 DEF Close, CloseJoin, Deliver, deliverFrom, Handshake, Write, WriteGate,
          WatchLoad, WatchRead, WatchOpen, WatchEnds
    <2> QED
      BY <2>1 DEF OrphanInv, nil, binding
  <1>20. CASE UNCHANGED vars
    BY <1>20 DEF vars, OrphanInv, nil, binding
  <1> QED
    BY <1>1, <1>2, <1>3, <1>4, <1>5, <1>6, <1>7, <1>8, <1>9, <1>10, <1>11, <1>12, <1>13, <1>14,
        <1>15, <1>16, <1>17, <1>18, <1>19, <1>20 DEF Next, Bearer, Closing, Tunnel, WireGuard,
        Watcher, Idle

\* Read holds nothing at first.
LEMMA OrphanInit == Init => OrphanInv
  BY DEF Init, OrphanInv, NoRead

\* Read gives WireGuard no packet of a binding that had ended when it took the packet
\* (relay.go: Read).
THEOREM OrphansDropped == Spec => []NoOrphans
  <1>1. OrphanInv => NoOrphans
    BY DEF OrphanInv, NoOrphans
  <1> QED
    BY <1>1, OrphanInit, OrphanNext, BindInvariant, TypeCorrect, PTL DEF Spec

\* A packet reaches WireGuard only under the binding it was mapped for, and a closed
\* relay is bound to no session (relay.go: InstallSession, ClearSession, Close,
\* deliverFrom, Read).
THEOREM PacketsKeepTheirSession == Spec => []BindingIsSafe
  <1>1. QueueHoldsCurrent /\ OneDownlink /\ CloseUnbinds /\ NoOrphans => BindingIsSafe
    BY DEF BindingIsSafe
  <1> QED
    BY <1>1, BindingSafe, OrphansDropped, PTL

=============================================================================
