---------------------------- MODULE Socks5Proofs ----------------------------
(***************************************************************************)
(* Theorems about the SOCKS5 server, for every number of clients and every *)
(* limit of connections and dials.  Each ...Next lemma has one step per    *)
(* action.                                                                 *)
(***************************************************************************)
EXTENDS Socks5, FiniteSetTheorems, TLAPS

\* Run and the callers of shutdown go to places that exist.
LEMMA ServerTypeNext == TypeOK /\ [Next]_vars => TypeServer'
  <1> SUFFICES ASSUME TypeOK, [Next]_vars PROVE TypeServer'
    OBVIOUS
  <1> USE DEF TypeServer, server, conns, RunFrame, DownFrame
  <1>0. /\ TypeServer /\ connections \subseteq Clients
        /\ "run" \in Closers /\ "context" \in Closers /\ "close" \in Closers
    BY DEF TypeOK, TypeClients, Closers
  <1>1. CASE Run
    BY <1>1, <1>0 DEF Run
  <1>2. CASE CancelParent
    BY <1>2, <1>0 DEF CancelParent
  <1>3. CASE Register
    BY <1>3, <1>0 DEF Register, Shut
  <1>4. CASE RunStopped
    BY <1>4, <1>0 DEF RunStopped
  <1>5. CASE WaitWorkers
    BY <1>5, <1>0 DEF WaitWorkers
  <1>6. CASE AcceptFails
    BY <1>6, <1>0 DEF AcceptFails
  <1>7. CASE Close
    BY <1>7, <1>0 DEF Close
  <1>8. CASE ContextDone
    BY <1>8, <1>0 DEF ContextDone
  <1>9. CASE CloseReturns
    BY <1>9, <1>0 DEF CloseReturns
  <1>10. ASSUME NEW a \in Closers, MarkClosed(a) PROVE TypeServer'
    BY <1>10, <1>0 DEF MarkClosed
  <1>11. ASSUME NEW a \in Closers, CloseAll(a) PROVE TypeServer'
    BY <1>11, <1>0 DEF CloseAll, Shut
  <1>12. ASSUME NEW c \in Clients, Accept(c) PROVE TypeServer'
    BY <1>12, <1>0 DEF Accept
  <1>13. ASSUME NEW c \in Clients, negotiate(c) PROVE TypeServer'
    BY <1>13, <1>0 DEF negotiate, Goto
  <1>14. ASSUME NEW c \in Clients, ReadRequest(c) PROVE TypeServer'
    BY <1>14, <1>0 DEF ReadRequest, Goto
  <1>15. ASSUME NEW c \in Clients, Connect(c) PROVE TypeServer'
    BY <1>15, <1>0 DEF Connect, Goto
  <1>16. ASSUME NEW c \in Clients, Reply(c) PROVE TypeServer'
    BY <1>16, <1>0 DEF Reply, Goto
  <1>17. ASSUME NEW c \in Clients, FirstResult(c) PROVE TypeServer'
    BY <1>17, <1>0 DEF FirstResult, Goto, Shut
  <1>18. ASSUME NEW c \in Clients, SecondResult(c) PROVE TypeServer'
    BY <1>18, <1>0 DEF SecondResult, Goto
  <1>19. ASSUME NEW c \in Clients, Leave(c) PROVE TypeServer'
    BY <1>19, <1>0 DEF Leave, Goto, Shut, NoCopies
  <1>20. ASSUME NEW c \in Clients, CloseClient(c) PROVE TypeServer'
    BY <1>20, <1>0 DEF CloseClient, Goto, Shut
  <1>21. ASSUME NEW c \in Clients, StreamCancelled(c) PROVE TypeServer'
    BY <1>21, <1>0 DEF StreamCancelled, Shut
  <1>22. ASSUME NEW c \in Clients, NEW d \in Directions, CopyEOF(c, d) PROVE TypeServer'
    BY <1>22, <1>0 DEF CopyEOF
  <1>23. ASSUME NEW c \in Clients, NEW d \in Directions, CopyFails(c, d) PROVE TypeServer'
    BY <1>23, <1>0 DEF CopyFails
  <1>24. CASE UNCHANGED vars
    BY <1>24, <1>0 DEF vars, server, conns
  <1> HIDE DEF TypeServer, server, conns, RunFrame, DownFrame
  <1> QED
    BY <1>1, <1>2, <1>3, <1>4, <1>5, <1>6, <1>7, <1>8, <1>9, <1>10, <1>11, <1>12, <1>13, <1>14, <1>15,
        <1>16, <1>17, <1>18, <1>19, <1>20, <1>21, <1>22, <1>23, <1>24 DEF Next, RunStep, DownStep,
        HandlerStep, Over

\* dialSlots: as the number of dials, the number of slots in use is a natural number.
LEMMA SlotsCount == /\ SlotsInv => IsFiniteSet(Dialling) /\ slots \in Nat
                    /\ SlotsInv' => IsFiniteSet(Dialling') /\ slots' \in Nat
  <1>1. IsFiniteSet(Dialling) /\ IsFiniteSet(Dialling')
    <2>1. Dialling \subseteq Clients /\ Dialling' \subseteq Clients
      BY DEF Dialling
    <2> QED
      BY <2>1, Socks5Assumption, FS_Subset
  <1> QED
    BY <1>1, FS_CardinalityType DEF SlotsInv

\* SlotsInv is inductive: a request takes a slot only when one is free, and gives it back
\* once, whatever connect returns.
LEMMA SlotsNext == TypeOK /\ SlotsInv /\ SocketsInv /\ [Next]_vars => SlotsInv'
  <1> SUFFICES ASSUME TypeOK, SlotsInv, SocketsInv, [Next]_vars PROVE SlotsInv'
    OBVIOUS
  <1> USE DEF server, conns, RunFrame, DownFrame
  <1>0. TypeClients /\ MaxDials \in Nat /\ (srv = "register" => accepted \in Clients /\ pc[accepted] = "new")
    BY Socks5Assumption DEF TypeOK, SocketsInv
  <1> USE DEF TypeClients
  <1>1. CASE Run
    <2>1. Dialling' = Dialling /\ slots' = slots
      BY <1>1, <1>0 DEF Run, Dialling
    <2> QED
      BY <2>1 DEF SlotsInv
  <1>2. CASE CancelParent
    <2>1. Dialling' = Dialling /\ slots' = slots
      BY <1>2, <1>0 DEF CancelParent, Dialling
    <2> QED
      BY <2>1 DEF SlotsInv
  <1>3. CASE Register
    <2>1. Dialling' = Dialling /\ slots' = slots
      BY <1>3, <1>0 DEF Register, Shut, Dialling
    <2> QED
      BY <2>1 DEF SlotsInv
  <1>4. CASE RunStopped
    <2>1. Dialling' = Dialling /\ slots' = slots
      BY <1>4, <1>0 DEF RunStopped, Dialling
    <2> QED
      BY <2>1 DEF SlotsInv
  <1>5. CASE WaitWorkers
    <2>1. Dialling' = Dialling /\ slots' = slots
      BY <1>5, <1>0 DEF WaitWorkers, Dialling
    <2> QED
      BY <2>1 DEF SlotsInv
  <1>6. CASE AcceptFails
    <2>1. Dialling' = Dialling /\ slots' = slots
      BY <1>6, <1>0 DEF AcceptFails, Dialling
    <2> QED
      BY <2>1 DEF SlotsInv
  <1>7. CASE Close
    <2>1. Dialling' = Dialling /\ slots' = slots
      BY <1>7, <1>0 DEF Close, Dialling
    <2> QED
      BY <2>1 DEF SlotsInv
  <1>8. CASE ContextDone
    <2>1. Dialling' = Dialling /\ slots' = slots
      BY <1>8, <1>0 DEF ContextDone, Dialling
    <2> QED
      BY <2>1 DEF SlotsInv
  <1>9. CASE CloseReturns
    <2>1. Dialling' = Dialling /\ slots' = slots
      BY <1>9, <1>0 DEF CloseReturns, Dialling
    <2> QED
      BY <2>1 DEF SlotsInv
  <1>10. ASSUME NEW a \in Closers, MarkClosed(a) PROVE SlotsInv'
    <2>1. Dialling' = Dialling /\ slots' = slots
      BY <1>10, <1>0 DEF MarkClosed, Dialling
    <2> QED
      BY <2>1 DEF SlotsInv
  <1>11. ASSUME NEW a \in Closers, CloseAll(a) PROVE SlotsInv'
    <2>1. Dialling' = Dialling /\ slots' = slots
      BY <1>11, <1>0 DEF CloseAll, Shut, Dialling
    <2> QED
      BY <2>1 DEF SlotsInv
  <1>12. ASSUME NEW c \in Clients, Accept(c) PROVE SlotsInv'
    <2>1. Dialling' = Dialling /\ slots' = slots
      BY <1>12, <1>0 DEF Accept, Dialling
    <2> QED
      BY <2>1 DEF SlotsInv
  <1>13. ASSUME NEW c \in Clients, negotiate(c) PROVE SlotsInv'
    <2>1. Dialling' = Dialling /\ slots' = slots
      BY <1>13, <1>0 DEF negotiate, Goto, Dialling
    <2> QED
      BY <2>1 DEF SlotsInv
  <1>14. ASSUME NEW c \in Clients, ReadRequest(c) PROVE SlotsInv'
    <2>0. IsFiniteSet(Dialling) /\ slots = Cardinality(Dialling) /\ slots \in Nat /\ slots <= MaxDials
      BY SlotsCount DEF SlotsInv
    <2>1. CASE slots < MaxDials /\ Goto(c, "dial") /\ slots' = slots + 1
      <3>1. c \notin Dialling /\ Dialling' = Dialling \cup {c}
        BY <1>14, <1>0, <2>1 DEF ReadRequest, Goto, Dialling
      <3>2. Cardinality(Dialling \cup {c}) = Cardinality(Dialling) + 1
        BY <2>0, <3>1, FS_AddElement
      <3> QED
        BY <1>0, <2>0, <2>1, <3>1, <3>2 DEF SlotsInv
    <2>2. CASE Goto(c, "leave") /\ slots' = slots
      <3>1. Dialling' = Dialling
        BY <1>14, <1>0, <2>2 DEF ReadRequest, Goto, Dialling
      <3> QED
        BY <2>0, <2>2, <3>1 DEF SlotsInv
    <2> QED
      BY <1>14, <2>1, <2>2 DEF ReadRequest
  <1>15. ASSUME NEW c \in Clients, Connect(c) PROVE SlotsInv'
    <2>0. IsFiniteSet(Dialling) /\ slots = Cardinality(Dialling) /\ slots \in Nat /\ slots <= MaxDials
      BY SlotsCount DEF SlotsInv
    <2>1. c \in Dialling /\ Dialling' = Dialling \ {c} /\ slots' = slots - 1
      BY <1>15, <1>0 DEF Connect, Goto, Dialling
    <2>2. Cardinality(Dialling \ {c}) = Cardinality(Dialling) - 1
      BY <2>0, <2>1, FS_RemoveElement
    <2> QED
      BY <1>0, <2>0, <2>1, <2>2 DEF SlotsInv
  <1>16. ASSUME NEW c \in Clients, Reply(c) PROVE SlotsInv'
    <2>1. Dialling' = Dialling /\ slots' = slots
      BY <1>16, <1>0 DEF Reply, Goto, Dialling
    <2> QED
      BY <2>1 DEF SlotsInv
  <1>17. ASSUME NEW c \in Clients, FirstResult(c) PROVE SlotsInv'
    <2>1. Dialling' = Dialling /\ slots' = slots
      BY <1>17, <1>0 DEF FirstResult, Goto, Shut, Dialling
    <2> QED
      BY <2>1 DEF SlotsInv
  <1>18. ASSUME NEW c \in Clients, SecondResult(c) PROVE SlotsInv'
    <2>1. Dialling' = Dialling /\ slots' = slots
      BY <1>18, <1>0 DEF SecondResult, Goto, Dialling
    <2> QED
      BY <2>1 DEF SlotsInv
  <1>19. ASSUME NEW c \in Clients, Leave(c) PROVE SlotsInv'
    <2>1. Dialling' = Dialling /\ slots' = slots
      BY <1>19, <1>0 DEF Leave, Goto, Shut, NoCopies, Dialling
    <2> QED
      BY <2>1 DEF SlotsInv
  <1>20. ASSUME NEW c \in Clients, CloseClient(c) PROVE SlotsInv'
    <2>1. Dialling' = Dialling /\ slots' = slots
      BY <1>20, <1>0 DEF CloseClient, Goto, Shut, Dialling
    <2> QED
      BY <2>1 DEF SlotsInv
  <1>21. ASSUME NEW c \in Clients, StreamCancelled(c) PROVE SlotsInv'
    <2>1. Dialling' = Dialling /\ slots' = slots
      BY <1>21, <1>0 DEF StreamCancelled, Shut, Dialling
    <2> QED
      BY <2>1 DEF SlotsInv
  <1>22. ASSUME NEW c \in Clients, NEW d \in Directions, CopyEOF(c, d) PROVE SlotsInv'
    <2>1. Dialling' = Dialling /\ slots' = slots
      BY <1>22, <1>0 DEF CopyEOF, Dialling
    <2> QED
      BY <2>1 DEF SlotsInv
  <1>23. ASSUME NEW c \in Clients, NEW d \in Directions, CopyFails(c, d) PROVE SlotsInv'
    <2>1. Dialling' = Dialling /\ slots' = slots
      BY <1>23, <1>0 DEF CopyFails, Dialling
    <2> QED
      BY <2>1 DEF SlotsInv
  <1>24. CASE UNCHANGED vars
    <2>1. Dialling' = Dialling /\ slots' = slots
      BY <1>24 DEF vars, Dialling
    <2> QED
      BY <2>1 DEF SlotsInv
  <1> HIDE DEF server, conns, RunFrame, DownFrame
  <1> QED
    BY <1>1, <1>2, <1>3, <1>4, <1>5, <1>6, <1>7, <1>8, <1>9, <1>10, <1>11, <1>12, <1>13, <1>14, <1>15,
        <1>16, <1>17, <1>18, <1>19, <1>20, <1>21, <1>22, <1>23, <1>24 DEF Next, RunStep, DownStep,
        HandlerStep, Over

\* The goroutines of the clients go to places that exist.
LEMMA ClientsTypeNext == TypeOK /\ SlotsInv /\ SocketsInv /\ [Next]_vars => TypeClients'
  <1> SUFFICES ASSUME TypeOK, SlotsInv, SocketsInv, [Next]_vars PROVE TypeClients'
    OBVIOUS
  <1> USE DEF TypeClients, Handling, server, conns, RunFrame, DownFrame
  <1>0. TypeClients /\ (srv = "register" => accepted \in Clients) /\ slots' \in Nat
    BY SlotsNext, SlotsCount DEF TypeOK, SocketsInv
  <1>1. CASE Run
    BY <1>1, <1>0 DEF Run
  <1>2. CASE CancelParent
    BY <1>2, <1>0 DEF CancelParent
  <1>3. CASE Register
    BY <1>3, <1>0 DEF Register, Shut
  <1>4. CASE RunStopped
    BY <1>4, <1>0 DEF RunStopped
  <1>5. CASE WaitWorkers
    BY <1>5, <1>0 DEF WaitWorkers
  <1>6. CASE AcceptFails
    BY <1>6, <1>0 DEF AcceptFails
  <1>7. CASE Close
    BY <1>7, <1>0 DEF Close
  <1>8. CASE ContextDone
    BY <1>8, <1>0 DEF ContextDone
  <1>9. CASE CloseReturns
    BY <1>9, <1>0 DEF CloseReturns
  <1>10. ASSUME NEW a \in Closers, MarkClosed(a) PROVE TypeClients'
    BY <1>10, <1>0 DEF MarkClosed
  <1>11. ASSUME NEW a \in Closers, CloseAll(a) PROVE TypeClients'
    BY <1>11, <1>0 DEF CloseAll, Shut
  <1>12. ASSUME NEW c \in Clients, Accept(c) PROVE TypeClients'
    BY <1>12, <1>0 DEF Accept
  <1>13. ASSUME NEW c \in Clients, negotiate(c) PROVE TypeClients'
    BY <1>13, <1>0 DEF negotiate, Goto
  <1>14. ASSUME NEW c \in Clients, ReadRequest(c) PROVE TypeClients'
    BY <1>14, <1>0 DEF ReadRequest, Goto
  <1>15. ASSUME NEW c \in Clients, Connect(c) PROVE TypeClients'
    BY <1>15, <1>0 DEF Connect, Goto
  <1>16. ASSUME NEW c \in Clients, Reply(c) PROVE TypeClients'
    BY <1>16, <1>0 DEF Reply, Goto
  <1>17. ASSUME NEW c \in Clients, FirstResult(c) PROVE TypeClients'
    BY <1>17, <1>0 DEF FirstResult, Goto, Shut
  <1>18. ASSUME NEW c \in Clients, SecondResult(c) PROVE TypeClients'
    BY <1>18, <1>0 DEF SecondResult, Goto
  <1>19. ASSUME NEW c \in Clients, Leave(c) PROVE TypeClients'
    BY <1>19, <1>0 DEF Leave, Goto, Shut, NoCopies
  <1>20. ASSUME NEW c \in Clients, CloseClient(c) PROVE TypeClients'
    BY <1>20, <1>0 DEF CloseClient, Goto, Shut
  <1>21. ASSUME NEW c \in Clients, StreamCancelled(c) PROVE TypeClients'
    BY <1>21, <1>0 DEF StreamCancelled, Shut
  <1>22. ASSUME NEW c \in Clients, NEW d \in Directions, CopyEOF(c, d) PROVE TypeClients'
    BY <1>22, <1>0 DEF CopyEOF
  <1>23. ASSUME NEW c \in Clients, NEW d \in Directions, CopyFails(c, d) PROVE TypeClients'
    BY <1>23, <1>0 DEF CopyFails
  <1>24. CASE UNCHANGED vars
    BY <1>24, <1>0 DEF vars, server, conns
  <1> HIDE DEF TypeClients, Handling, server, conns, RunFrame, DownFrame
  <1> QED
    BY <1>1, <1>2, <1>3, <1>4, <1>5, <1>6, <1>7, <1>8, <1>9, <1>10, <1>11, <1>12, <1>13, <1>14, <1>15,
        <1>16, <1>17, <1>18, <1>19, <1>20, <1>21, <1>22, <1>23, <1>24 DEF Next, RunStep, DownStep,
        HandlerStep, Over

\* ServerInv is inductive: Run is refused once shutdown has begun, and Run's own shutdown
\* marks the server closed before the workers are waited for.
LEMMA ServerNext == TypeOK /\ ServerInv /\ [Next]_vars => ServerInv'
  <1> SUFFICES ASSUME TypeOK, ServerInv, [Next]_vars PROVE ServerInv'
    OBVIOUS
  <1> USE DEF ServerInv, server, conns, RunFrame, DownFrame
  <1>0. TypeServer /\ "run" \in Closers /\ "context" \in Closers /\ "close" \in Closers
    BY DEF TypeOK, Closers
  <1> USE DEF TypeServer
  <1>1. CASE Run
    BY <1>1, <1>0 DEF Run
  <1>2. CASE CancelParent
    BY <1>2, <1>0 DEF CancelParent
  <1>3. CASE Register
    BY <1>3, <1>0 DEF Register, Shut
  <1>4. CASE RunStopped
    BY <1>4, <1>0 DEF RunStopped
  <1>5. CASE WaitWorkers
    BY <1>5, <1>0 DEF WaitWorkers
  <1>6. CASE AcceptFails
    BY <1>6, <1>0 DEF AcceptFails
  <1>7. CASE Close
    BY <1>7, <1>0 DEF Close
  <1>8. CASE ContextDone
    BY <1>8, <1>0 DEF ContextDone
  <1>9. CASE CloseReturns
    BY <1>9, <1>0 DEF CloseReturns
  <1>10. ASSUME NEW a \in Closers, MarkClosed(a) PROVE ServerInv'
    BY <1>10, <1>0 DEF MarkClosed
  <1>11. ASSUME NEW a \in Closers, CloseAll(a) PROVE ServerInv'
    BY <1>11, <1>0 DEF CloseAll, Shut
  <1>12. ASSUME NEW c \in Clients, Accept(c) PROVE ServerInv'
    BY <1>12, <1>0 DEF Accept
  <1>13. ASSUME NEW c \in Clients, negotiate(c) PROVE ServerInv'
    BY <1>13, <1>0 DEF negotiate, Goto
  <1>14. ASSUME NEW c \in Clients, ReadRequest(c) PROVE ServerInv'
    BY <1>14, <1>0 DEF ReadRequest, Goto
  <1>15. ASSUME NEW c \in Clients, Connect(c) PROVE ServerInv'
    BY <1>15, <1>0 DEF Connect, Goto
  <1>16. ASSUME NEW c \in Clients, Reply(c) PROVE ServerInv'
    BY <1>16, <1>0 DEF Reply, Goto
  <1>17. ASSUME NEW c \in Clients, FirstResult(c) PROVE ServerInv'
    BY <1>17, <1>0 DEF FirstResult, Goto, Shut
  <1>18. ASSUME NEW c \in Clients, SecondResult(c) PROVE ServerInv'
    BY <1>18, <1>0 DEF SecondResult, Goto
  <1>19. ASSUME NEW c \in Clients, Leave(c) PROVE ServerInv'
    BY <1>19, <1>0 DEF Leave, Goto, Shut, NoCopies
  <1>20. ASSUME NEW c \in Clients, CloseClient(c) PROVE ServerInv'
    BY <1>20, <1>0 DEF CloseClient, Goto, Shut
  <1>21. ASSUME NEW c \in Clients, StreamCancelled(c) PROVE ServerInv'
    BY <1>21, <1>0 DEF StreamCancelled, Shut
  <1>22. ASSUME NEW c \in Clients, NEW d \in Directions, CopyEOF(c, d) PROVE ServerInv'
    BY <1>22, <1>0 DEF CopyEOF
  <1>23. ASSUME NEW c \in Clients, NEW d \in Directions, CopyFails(c, d) PROVE ServerInv'
    BY <1>23, <1>0 DEF CopyFails
  <1>24. CASE UNCHANGED vars
    BY <1>24, <1>0 DEF vars, server, conns
  <1> HIDE DEF ServerInv, server, conns, RunFrame, DownFrame
  <1> QED
    BY <1>1, <1>2, <1>3, <1>4, <1>5, <1>6, <1>7, <1>8, <1>9, <1>10, <1>11, <1>12, <1>13, <1>14, <1>15,
        <1>16, <1>17, <1>18, <1>19, <1>20, <1>21, <1>22, <1>23, <1>24 DEF Next, RunStep, DownStep,
        HandlerStep, Over

\* EntriesInv is inductive: a client is registered only below the limit, and its goroutine
\* removes the entry.
LEMMA EntriesNext == TypeOK /\ SocketsInv /\ EntriesInv /\ [Next]_vars => EntriesInv'
  <1> SUFFICES ASSUME TypeOK, SocketsInv, EntriesInv, [Next]_vars PROVE EntriesInv'
    OBVIOUS
  <1> USE DEF server, conns, RunFrame, DownFrame
  <1>0. TypeClients /\ IsFiniteSet(connections) /\ MaxConnections \in Nat
        /\ (srv = "register" => accepted \in Clients /\ pc[accepted] = "new")
    BY Socks5Assumption, FS_Subset DEF TypeOK, TypeClients, SocketsInv
  <1> USE DEF TypeClients
  <1>1. CASE Run
    <2>1. \A e \in Clients : (pc'[e] \in Handling \ {"shut"}) <=> (pc[e] \in Handling \ {"shut"})
      BY <1>1, <1>0 DEF Run, Handling
    <2>2. connections' = connections
      BY <1>1 DEF Run
    <2> QED
      BY <2>1, <2>2 DEF EntriesInv
  <1>2. CASE CancelParent
    <2>1. \A e \in Clients : (pc'[e] \in Handling \ {"shut"}) <=> (pc[e] \in Handling \ {"shut"})
      BY <1>2, <1>0 DEF CancelParent, Handling
    <2>2. connections' = connections
      BY <1>2 DEF CancelParent
    <2> QED
      BY <2>1, <2>2 DEF EntriesInv
  <1>3. CASE Register
    <2>0. accepted \in Clients /\ pc[accepted] = "new"
      BY <1>3, <1>0 DEF Register
    <2>1. CASE pc' = [pc EXCEPT ![accepted] = "over"] /\ connections' = connections
      <3>1. \A e \in Clients : (pc'[e] \in Handling \ {"shut"}) <=> (pc[e] \in Handling \ {"shut"})
        BY <1>0, <2>0, <2>1 DEF Handling
      <3> QED
        BY <2>1, <3>1 DEF EntriesInv
    <2>2. CASE /\ ~(Cardinality(connections) >= MaxConnections)
               /\ connections' = connections \cup {accepted} /\ pc' = [pc EXCEPT ![accepted] = "negotiate"]
      <3>1. \A e \in Clients : (pc'[e] \in Handling \ {"shut"})
                               <=> (pc[e] \in Handling \ {"shut"} \/ e = accepted)
        BY <1>0, <2>0, <2>2 DEF Handling
      <3>2. Cardinality(connections') <= MaxConnections
        <4>1. accepted \notin connections
          BY <2>0 DEF EntriesInv, Handling
        <4>2. Cardinality(connections \cup {accepted}) = Cardinality(connections) + 1
          BY <1>0, <4>1, FS_AddElement
        <4>3. Cardinality(connections) \in Nat
          BY <1>0, FS_CardinalityType
        <4> QED
          BY <1>0, <2>2, <4>2, <4>3
      <3> QED
        BY <2>0, <2>2, <3>1, <3>2 DEF EntriesInv
    <2> QED
      BY <1>3, <2>1, <2>2 DEF Register
  <1>4. CASE RunStopped
    <2>1. \A e \in Clients : (pc'[e] \in Handling \ {"shut"}) <=> (pc[e] \in Handling \ {"shut"})
      BY <1>4, <1>0 DEF RunStopped, Handling
    <2>2. connections' = connections
      BY <1>4 DEF RunStopped
    <2> QED
      BY <2>1, <2>2 DEF EntriesInv
  <1>5. CASE WaitWorkers
    <2>1. \A e \in Clients : (pc'[e] \in Handling \ {"shut"}) <=> (pc[e] \in Handling \ {"shut"})
      BY <1>5, <1>0 DEF WaitWorkers, Handling
    <2>2. connections' = connections
      BY <1>5 DEF WaitWorkers
    <2> QED
      BY <2>1, <2>2 DEF EntriesInv
  <1>6. CASE AcceptFails
    <2>1. \A e \in Clients : (pc'[e] \in Handling \ {"shut"}) <=> (pc[e] \in Handling \ {"shut"})
      BY <1>6, <1>0 DEF AcceptFails, Handling
    <2>2. connections' = connections
      BY <1>6 DEF AcceptFails
    <2> QED
      BY <2>1, <2>2 DEF EntriesInv
  <1>7. CASE Close
    <2>1. \A e \in Clients : (pc'[e] \in Handling \ {"shut"}) <=> (pc[e] \in Handling \ {"shut"})
      BY <1>7, <1>0 DEF Close, Handling
    <2>2. connections' = connections
      BY <1>7 DEF Close
    <2> QED
      BY <2>1, <2>2 DEF EntriesInv
  <1>8. CASE ContextDone
    <2>1. \A e \in Clients : (pc'[e] \in Handling \ {"shut"}) <=> (pc[e] \in Handling \ {"shut"})
      BY <1>8, <1>0 DEF ContextDone, Handling
    <2>2. connections' = connections
      BY <1>8 DEF ContextDone
    <2> QED
      BY <2>1, <2>2 DEF EntriesInv
  <1>9. CASE CloseReturns
    <2>1. \A e \in Clients : (pc'[e] \in Handling \ {"shut"}) <=> (pc[e] \in Handling \ {"shut"})
      BY <1>9, <1>0 DEF CloseReturns, Handling
    <2>2. connections' = connections
      BY <1>9 DEF CloseReturns
    <2> QED
      BY <2>1, <2>2 DEF EntriesInv
  <1>10. ASSUME NEW a \in Closers, MarkClosed(a) PROVE EntriesInv'
    <2>1. \A e \in Clients : (pc'[e] \in Handling \ {"shut"}) <=> (pc[e] \in Handling \ {"shut"})
      BY <1>10, <1>0 DEF MarkClosed, Handling
    <2>2. connections' = connections
      BY <1>10 DEF MarkClosed
    <2> QED
      BY <2>1, <2>2 DEF EntriesInv
  <1>11. ASSUME NEW a \in Closers, CloseAll(a) PROVE EntriesInv'
    <2>1. \A e \in Clients : (pc'[e] \in Handling \ {"shut"}) <=> (pc[e] \in Handling \ {"shut"})
      BY <1>11, <1>0 DEF CloseAll, Shut, Handling
    <2>2. connections' = connections
      BY <1>11 DEF CloseAll, Shut
    <2> QED
      BY <2>1, <2>2 DEF EntriesInv
  <1>12. ASSUME NEW c \in Clients, Accept(c) PROVE EntriesInv'
    <2>1. \A e \in Clients : (pc'[e] \in Handling \ {"shut"}) <=> (pc[e] \in Handling \ {"shut"})
      BY <1>12, <1>0 DEF Accept, Handling
    <2>2. connections' = connections
      BY <1>12 DEF Accept
    <2> QED
      BY <2>1, <2>2 DEF EntriesInv
  <1>13. ASSUME NEW c \in Clients, negotiate(c) PROVE EntriesInv'
    <2>1. \A e \in Clients : (pc'[e] \in Handling \ {"shut"}) <=> (pc[e] \in Handling \ {"shut"})
      BY <1>13, <1>0 DEF negotiate, Goto, Handling
    <2>2. connections' = connections
      BY <1>13 DEF negotiate, Goto
    <2> QED
      BY <2>1, <2>2 DEF EntriesInv
  <1>14. ASSUME NEW c \in Clients, ReadRequest(c) PROVE EntriesInv'
    <2>1. \A e \in Clients : (pc'[e] \in Handling \ {"shut"}) <=> (pc[e] \in Handling \ {"shut"})
      BY <1>14, <1>0 DEF ReadRequest, Goto, Handling
    <2>2. connections' = connections
      BY <1>14 DEF ReadRequest, Goto
    <2> QED
      BY <2>1, <2>2 DEF EntriesInv
  <1>15. ASSUME NEW c \in Clients, Connect(c) PROVE EntriesInv'
    <2>1. \A e \in Clients : (pc'[e] \in Handling \ {"shut"}) <=> (pc[e] \in Handling \ {"shut"})
      BY <1>15, <1>0 DEF Connect, Goto, Handling
    <2>2. connections' = connections
      BY <1>15 DEF Connect, Goto
    <2> QED
      BY <2>1, <2>2 DEF EntriesInv
  <1>16. ASSUME NEW c \in Clients, Reply(c) PROVE EntriesInv'
    <2>1. \A e \in Clients : (pc'[e] \in Handling \ {"shut"}) <=> (pc[e] \in Handling \ {"shut"})
      BY <1>16, <1>0 DEF Reply, Goto, Handling
    <2>2. connections' = connections
      BY <1>16 DEF Reply, Goto
    <2> QED
      BY <2>1, <2>2 DEF EntriesInv
  <1>17. ASSUME NEW c \in Clients, FirstResult(c) PROVE EntriesInv'
    <2>1. \A e \in Clients : (pc'[e] \in Handling \ {"shut"}) <=> (pc[e] \in Handling \ {"shut"})
      BY <1>17, <1>0 DEF FirstResult, Goto, Shut, Handling
    <2>2. connections' = connections
      BY <1>17 DEF FirstResult, Goto, Shut
    <2> QED
      BY <2>1, <2>2 DEF EntriesInv
  <1>18. ASSUME NEW c \in Clients, SecondResult(c) PROVE EntriesInv'
    <2>1. \A e \in Clients : (pc'[e] \in Handling \ {"shut"}) <=> (pc[e] \in Handling \ {"shut"})
      BY <1>18, <1>0 DEF SecondResult, Goto, Handling
    <2>2. connections' = connections
      BY <1>18 DEF SecondResult, Goto
    <2> QED
      BY <2>1, <2>2 DEF EntriesInv
  <1>19. ASSUME NEW c \in Clients, Leave(c) PROVE EntriesInv'
    <2>1. \A e \in Clients : (pc'[e] \in Handling \ {"shut"}) <=> (pc[e] \in Handling \ {"shut"} /\ e # c)
      BY <1>19, <1>0 DEF Leave, Goto, Handling
    <2>2. connections' = connections \ {c}
      BY <1>19 DEF Leave
    <2>3. Cardinality(connections') <= Cardinality(connections)
      BY <1>0, <2>2, FS_Subset
    <2>4. Cardinality(connections) \in Nat /\ Cardinality(connections') \in Nat
      BY <1>0, <2>2, FS_CardinalityType, FS_Subset
    <2> QED
      BY <1>0, <2>1, <2>2, <2>3, <2>4 DEF EntriesInv
  <1>20. ASSUME NEW c \in Clients, CloseClient(c) PROVE EntriesInv'
    <2>1. \A e \in Clients : (pc'[e] \in Handling \ {"shut"}) <=> (pc[e] \in Handling \ {"shut"})
      BY <1>20, <1>0 DEF CloseClient, Goto, Shut, Handling
    <2>2. connections' = connections
      BY <1>20 DEF CloseClient, Goto, Shut
    <2> QED
      BY <2>1, <2>2 DEF EntriesInv
  <1>21. ASSUME NEW c \in Clients, StreamCancelled(c) PROVE EntriesInv'
    <2>1. \A e \in Clients : (pc'[e] \in Handling \ {"shut"}) <=> (pc[e] \in Handling \ {"shut"})
      BY <1>21, <1>0 DEF StreamCancelled, Shut, Handling
    <2>2. connections' = connections
      BY <1>21 DEF StreamCancelled, Shut
    <2> QED
      BY <2>1, <2>2 DEF EntriesInv
  <1>22. ASSUME NEW c \in Clients, NEW d \in Directions, CopyEOF(c, d) PROVE EntriesInv'
    <2>1. \A e \in Clients : (pc'[e] \in Handling \ {"shut"}) <=> (pc[e] \in Handling \ {"shut"})
      BY <1>22, <1>0 DEF CopyEOF, Handling
    <2>2. connections' = connections
      BY <1>22 DEF CopyEOF
    <2> QED
      BY <2>1, <2>2 DEF EntriesInv
  <1>23. ASSUME NEW c \in Clients, NEW d \in Directions, CopyFails(c, d) PROVE EntriesInv'
    <2>1. \A e \in Clients : (pc'[e] \in Handling \ {"shut"}) <=> (pc[e] \in Handling \ {"shut"})
      BY <1>23, <1>0 DEF CopyFails, Handling
    <2>2. connections' = connections
      BY <1>23 DEF CopyFails
    <2> QED
      BY <2>1, <2>2 DEF EntriesInv
  <1>24. CASE UNCHANGED vars
    BY <1>24 DEF vars, EntriesInv
  <1> HIDE DEF server, conns, RunFrame, DownFrame
  <1> QED
    BY <1>1, <1>2, <1>3, <1>4, <1>5, <1>6, <1>7, <1>8, <1>9, <1>10, <1>11, <1>12, <1>13, <1>14, <1>15,
        <1>16, <1>17, <1>18, <1>19, <1>20, <1>21, <1>22, <1>23, <1>24 DEF Next, RunStep, DownStep,
        HandlerStep, Over

\* SocketsInv is inductive: the goroutine of a client closes both its sockets on every path.
LEMMA SocketsNext == TypeOK /\ ServerInv /\ SocketsInv /\ [Next]_vars => SocketsInv'
  <1> SUFFICES ASSUME TypeOK, ServerInv, SocketsInv, [Next]_vars PROVE SocketsInv'
    OBVIOUS
  <1> USE DEF SocketsInv, Handling, server, conns, RunFrame, DownFrame
  <1>0. TypeServer /\ TypeClients /\ "run" \in Closers /\ "context" \in Closers /\ "close" \in Closers
    BY DEF TypeOK, Closers
  <1> USE DEF TypeServer, TypeClients
  <1>1. CASE Run
    BY <1>1, <1>0 DEF Run
  <1>2. CASE CancelParent
    BY <1>2, <1>0 DEF CancelParent
  <1>3. CASE Register
    <2>0. accepted \in Clients /\ srv' = "accept" /\ started' = started /\ started /\ upstream' = upstream
      BY <1>3, <1>0 DEF Register, ServerInv
    <2>1. \A e \in Clients : e # accepted => pc'[e] = pc[e] /\ client'[e] = client[e]
      BY <1>3, <1>0, <2>0 DEF Register, Shut
    <2>2. pc'[accepted] = "negotiate" \/ (pc'[accepted] = "over" /\ client'[accepted] # "open")
      BY <1>3, <1>0, <2>0 DEF Register, Shut
    <2> QED
      BY <1>3, <1>0, <2>0, <2>1, <2>2 DEF Register
  <1>4. CASE RunStopped
    BY <1>4, <1>0 DEF RunStopped
  <1>5. CASE WaitWorkers
    BY <1>5, <1>0 DEF WaitWorkers
  <1>6. CASE AcceptFails
    BY <1>6, <1>0 DEF AcceptFails
  <1>7. CASE Close
    BY <1>7, <1>0 DEF Close
  <1>8. CASE ContextDone
    BY <1>8, <1>0 DEF ContextDone
  <1>9. CASE CloseReturns
    BY <1>9, <1>0 DEF CloseReturns
  <1>10. ASSUME NEW a \in Closers, MarkClosed(a) PROVE SocketsInv'
    BY <1>10, <1>0 DEF MarkClosed
  <1>11. ASSUME NEW a \in Closers, CloseAll(a) PROVE SocketsInv'
    BY <1>11, <1>0 DEF CloseAll, Shut
  <1>12. ASSUME NEW c \in Clients, Accept(c) PROVE SocketsInv'
    BY <1>12, <1>0 DEF Accept
  <1>13. ASSUME NEW c \in Clients, negotiate(c) PROVE SocketsInv'
    BY <1>13, <1>0 DEF negotiate, Goto
  <1>14. ASSUME NEW c \in Clients, ReadRequest(c) PROVE SocketsInv'
    BY <1>14, <1>0 DEF ReadRequest, Goto
  <1>15. ASSUME NEW c \in Clients, Connect(c) PROVE SocketsInv'
    <2>1. /\ \A e \in Clients : e # c => pc'[e] = pc[e] /\ upstream'[e] = upstream[e]
          /\ pc[c] = "dial" /\ UNCHANGED <<server, client>>
      BY <1>15, <1>0 DEF Connect, Goto
    <2>2. pc'[c] = "reply" \/ (pc'[c] = "leave" /\ upstream'[c] = upstream[c])
      BY <1>15, <1>0 DEF Connect, Goto
    <2> QED
      BY <1>0, <2>1, <2>2
  <1>16. ASSUME NEW c \in Clients, Reply(c) PROVE SocketsInv'
    BY <1>16, <1>0 DEF Reply, Goto
  <1>17. ASSUME NEW c \in Clients, FirstResult(c) PROVE SocketsInv'
    BY <1>17, <1>0 DEF FirstResult, Goto, Shut
  <1>18. ASSUME NEW c \in Clients, SecondResult(c) PROVE SocketsInv'
    BY <1>18, <1>0 DEF SecondResult, Goto
  <1>19. ASSUME NEW c \in Clients, Leave(c) PROVE SocketsInv'
    BY <1>19, <1>0 DEF Leave, Goto, Shut, NoCopies
  <1>20. ASSUME NEW c \in Clients, CloseClient(c) PROVE SocketsInv'
    BY <1>20, <1>0 DEF CloseClient, Goto, Shut
  <1>21. ASSUME NEW c \in Clients, StreamCancelled(c) PROVE SocketsInv'
    BY <1>21, <1>0 DEF StreamCancelled, Shut
  <1>22. ASSUME NEW c \in Clients, NEW d \in Directions, CopyEOF(c, d) PROVE SocketsInv'
    BY <1>22, <1>0 DEF CopyEOF
  <1>23. ASSUME NEW c \in Clients, NEW d \in Directions, CopyFails(c, d) PROVE SocketsInv'
    BY <1>23, <1>0 DEF CopyFails
  <1>24. CASE UNCHANGED vars
    BY <1>24, <1>0 DEF vars, server, conns
  <1> HIDE DEF SocketsInv, Handling, server, conns, RunFrame, DownFrame
  <1> QED
    BY <1>1, <1>2, <1>3, <1>4, <1>5, <1>6, <1>7, <1>8, <1>9, <1>10, <1>11, <1>12, <1>13, <1>14, <1>15,
        <1>16, <1>17, <1>18, <1>19, <1>20, <1>21, <1>22, <1>23, <1>24 DEF Next, RunStep, DownStep,
        HandlerStep, Over

\* StreamInv is inductive: only an error, shutdown or the end of the context closes a socket
\* of a stream that is being copied.
LEMMA StreamNext == TypeOK /\ ServerInv /\ EntriesInv /\ SocketsInv /\ StreamInv /\ [Next]_vars => StreamInv'
  <1> SUFFICES ASSUME TypeOK, ServerInv, EntriesInv, SocketsInv, StreamInv, [Next]_vars PROVE StreamInv'
    OBVIOUS
  <1> USE DEF StreamInv, StreamIsOpen, server, conns, RunFrame, DownFrame
  <1>0. TypeServer /\ TypeClients /\ "run" \in Closers /\ "context" \in Closers /\ "close" \in Closers
    BY DEF TypeOK, Closers
  <1> USE DEF TypeServer, TypeClients
  <1>1. CASE Run
    BY <1>1, <1>0 DEF Run
  <1>2. CASE CancelParent
    BY <1>2, <1>0 DEF CancelParent
  <1>3. CASE Register
    <2>0. accepted \in Clients /\ srv' = "accept" /\ pc[accepted] = "new" /\ client[accepted] = "open"
          /\ UNCHANGED <<closed, ctx, down, list, upstream, dir>>
      BY <1>3, <1>0 DEF Register, SocketsInv
    <2>1. \A e \in Clients : e # accepted => pc'[e] = pc[e] /\ client'[e] = client[e]
      BY <1>3, <1>0, <2>0 DEF Register, Shut
    <2>2. pc'[accepted] = "over" \/ (pc'[accepted] = "negotiate" /\ client'[accepted] = "open")
      BY <1>3, <1>0, <2>0 DEF Register, Shut
    <2> QED
      BY <1>0, <2>0, <2>1, <2>2
  <1>4. CASE RunStopped
    BY <1>4, <1>0 DEF RunStopped
  <1>5. CASE WaitWorkers
    BY <1>5, <1>0 DEF WaitWorkers
  <1>6. CASE AcceptFails
    BY <1>6, <1>0 DEF AcceptFails
  <1>7. CASE Close
    BY <1>7, <1>0 DEF Close
  <1>8. CASE ContextDone
    BY <1>8, <1>0 DEF ContextDone
  <1>9. CASE CloseReturns
    BY <1>9, <1>0 DEF CloseReturns
  <1>10. ASSUME NEW a \in Closers, MarkClosed(a) PROVE StreamInv'
    <2>1. \A e \in connections : pc[e] # "new"
      BY DEF EntriesInv, Handling
    <2> QED
      BY <1>10, <1>0, <2>1 DEF MarkClosed
  <1>11. ASSUME NEW a \in Closers, CloseAll(a) PROVE StreamInv'
    <2>1. closed /\ closed' = closed /\ srv' = srv /\ accepted' = accepted
      BY <1>11, <1>0 DEF CloseAll
    <2>2. srv = "register" => client'[accepted] = "open"
      BY <1>11, <1>0 DEF CloseAll, Shut, SocketsInv
    <2>3. pc' = pc /\ \A b \in Closers : list'[b] \subseteq list[b]
      BY <1>11, <1>0 DEF CloseAll
    <2> QED
      BY <1>0, <2>1, <2>2, <2>3
  <1>12. ASSUME NEW c \in Clients, Accept(c) PROVE StreamInv'
    BY <1>12, <1>0 DEF Accept
  <1>13. ASSUME NEW c \in Clients, negotiate(c) PROVE StreamInv'
    BY <1>13, <1>0 DEF negotiate, Goto
  <1>14. ASSUME NEW c \in Clients, ReadRequest(c) PROVE StreamInv'
    <2>1. /\ \A e \in Clients : e # c => /\ pc'[e] = pc[e] /\ client'[e] = client[e]
                                         /\ upstream'[e] = upstream[e] /\ dir'[e] = dir[e]
          /\ UNCHANGED server /\ pc'[c] # "new"
      BY <1>14, <1>0 DEF ReadRequest, Goto
    <2>2. srv = "register" => accepted # c /\ accepted \in Clients
      BY <1>14 DEF ReadRequest, Goto, SocketsInv
    <2>3. ~closed /\ ~ctx =>
            /\ pc'[c] \in {"negotiate", "request", "dial", "reply"} => client'[c] = "open"
            /\ pc'[c] = "reply" => upstream'[c] = "open"
            /\ pc'[c] \in {"relay", "second"} /\ (\A d \in Directions : dir'[c][d] # "error")
                 => client'[c] = "open" /\ upstream'[c] = "open"
      BY <1>14, <1>0 DEF ReadRequest, Goto
    <2> QED
      BY <1>0, <2>1, <2>2, <2>3
  <1>15. ASSUME NEW c \in Clients, Connect(c) PROVE StreamInv'
    <2>1. /\ \A e \in Clients : e # c => /\ pc'[e] = pc[e] /\ client'[e] = client[e]
                                         /\ upstream'[e] = upstream[e] /\ dir'[e] = dir[e]
          /\ UNCHANGED server /\ pc'[c] # "new"
      BY <1>15, <1>0 DEF Connect, Goto
    <2>2. srv = "register" => accepted # c /\ accepted \in Clients
      BY <1>15 DEF Connect, Goto, SocketsInv
    <2>3. ~closed /\ ~ctx =>
            /\ pc'[c] \in {"negotiate", "request", "dial", "reply"} => client'[c] = "open"
            /\ pc'[c] = "reply" => upstream'[c] = "open"
            /\ pc'[c] \in {"relay", "second"} /\ (\A d \in Directions : dir'[c][d] # "error")
                 => client'[c] = "open" /\ upstream'[c] = "open"
      BY <1>15, <1>0 DEF Connect, Goto
    <2> QED
      BY <1>0, <2>1, <2>2, <2>3
  <1>16. ASSUME NEW c \in Clients, Reply(c) PROVE StreamInv'
    <2>1. /\ \A e \in Clients : e # c => /\ pc'[e] = pc[e] /\ client'[e] = client[e]
                                         /\ upstream'[e] = upstream[e] /\ dir'[e] = dir[e]
          /\ UNCHANGED server /\ pc'[c] # "new"
      BY <1>16, <1>0 DEF Reply, Goto
    <2>2. srv = "register" => accepted # c /\ accepted \in Clients
      BY <1>16 DEF Reply, Goto, SocketsInv
    <2>3. ~closed /\ ~ctx =>
            /\ pc'[c] \in {"negotiate", "request", "dial", "reply"} => client'[c] = "open"
            /\ pc'[c] = "reply" => upstream'[c] = "open"
            /\ pc'[c] \in {"relay", "second"} /\ (\A d \in Directions : dir'[c][d] # "error")
                 => client'[c] = "open" /\ upstream'[c] = "open"
      BY <1>16, <1>0 DEF Reply, Goto
    <2> QED
      BY <1>0, <2>1, <2>2, <2>3
  <1>17. ASSUME NEW c \in Clients, FirstResult(c) PROVE StreamInv'
    <2>1. /\ \A e \in Clients : e # c => /\ pc'[e] = pc[e] /\ client'[e] = client[e]
                                         /\ upstream'[e] = upstream[e] /\ dir'[e] = dir[e]
          /\ UNCHANGED server /\ pc'[c] # "new"
      BY <1>17, <1>0 DEF FirstResult, Goto, Shut
    <2>2. srv = "register" => accepted # c /\ accepted \in Clients
      BY <1>17 DEF FirstResult, Goto, Shut, SocketsInv
    <2>3. ~closed /\ ~ctx =>
            /\ pc'[c] \in {"negotiate", "request", "dial", "reply"} => client'[c] = "open"
            /\ pc'[c] = "reply" => upstream'[c] = "open"
            /\ pc'[c] \in {"relay", "second"} /\ (\A d \in Directions : dir'[c][d] # "error")
                 => client'[c] = "open" /\ upstream'[c] = "open"
      <3>1. pc[c] = "relay" /\ pc'[c] = "second" /\ dir' = dir
        BY <1>17, <1>0 DEF FirstResult, Goto, Shut
      <3>2. (\A d \in Directions : dir[c][d] # "error") => client' = client /\ upstream' = upstream
        BY <1>17 DEF FirstResult, Goto, Shut
      <3> QED
        BY <3>1, <3>2
    <2> QED
      BY <1>0, <2>1, <2>2, <2>3
  <1>18. ASSUME NEW c \in Clients, SecondResult(c) PROVE StreamInv'
    BY <1>18, <1>0 DEF SecondResult, Goto
  <1>19. ASSUME NEW c \in Clients, Leave(c) PROVE StreamInv'
    BY <1>19, <1>0 DEF Leave, Goto, Shut, NoCopies
  <1>20. ASSUME NEW c \in Clients, CloseClient(c) PROVE StreamInv'
    <2>1. /\ \A e \in Clients : e # c => /\ pc'[e] = pc[e] /\ client'[e] = client[e]
                                         /\ upstream'[e] = upstream[e] /\ dir'[e] = dir[e]
          /\ UNCHANGED server /\ pc'[c] # "new"
      BY <1>20, <1>0 DEF CloseClient, Goto, Shut
    <2>2. srv = "register" => accepted # c /\ accepted \in Clients
      BY <1>20 DEF CloseClient, Goto, Shut, SocketsInv
    <2>3. ~closed /\ ~ctx =>
            /\ pc'[c] \in {"negotiate", "request", "dial", "reply"} => client'[c] = "open"
            /\ pc'[c] = "reply" => upstream'[c] = "open"
            /\ pc'[c] \in {"relay", "second"} /\ (\A d \in Directions : dir'[c][d] # "error")
                 => client'[c] = "open" /\ upstream'[c] = "open"
      BY <1>20, <1>0 DEF CloseClient, Goto, Shut
    <2> QED
      BY <1>0, <2>1, <2>2, <2>3
  <1>21. ASSUME NEW c \in Clients, StreamCancelled(c) PROVE StreamInv'
    <2>1. /\ \A e \in Clients : e # c => /\ pc'[e] = pc[e] /\ client'[e] = client[e]
                                         /\ upstream'[e] = upstream[e] /\ dir'[e] = dir[e]
          /\ UNCHANGED server /\ pc'[c] # "new"
      BY <1>21, <1>0 DEF StreamCancelled, Shut
    <2>2. srv = "register" => accepted # c /\ accepted \in Clients
      BY <1>21 DEF StreamCancelled, Shut, SocketsInv
    <2>3. ~closed /\ ~ctx =>
            /\ pc'[c] \in {"negotiate", "request", "dial", "reply"} => client'[c] = "open"
            /\ pc'[c] = "reply" => upstream'[c] = "open"
            /\ pc'[c] \in {"relay", "second"} /\ (\A d \in Directions : dir'[c][d] # "error")
                 => client'[c] = "open" /\ upstream'[c] = "open"
      BY <1>21, <1>0 DEF StreamCancelled, Shut
    <2> QED
      BY <1>0, <2>1, <2>2, <2>3
  <1>22. ASSUME NEW c \in Clients, NEW d \in Directions, CopyEOF(c, d) PROVE StreamInv'
    BY <1>22, <1>0 DEF CopyEOF
  <1>23. ASSUME NEW c \in Clients, NEW d \in Directions, CopyFails(c, d) PROVE StreamInv'
    BY <1>23, <1>0 DEF CopyFails
  <1>24. CASE UNCHANGED vars
    BY <1>24, <1>0 DEF vars, server, conns
  <1> HIDE DEF StreamInv, StreamIsOpen, server, conns, RunFrame, DownFrame
  <1> QED
    BY <1>1, <1>2, <1>3, <1>4, <1>5, <1>6, <1>7, <1>8, <1>9, <1>10, <1>11, <1>12, <1>13, <1>14, <1>15,
        <1>16, <1>17, <1>18, <1>19, <1>20, <1>21, <1>22, <1>23, <1>24 DEF Next, RunStep, DownStep,
        HandlerStep, Over

\* The server socks5.New makes.
LEMMA InitInv == Init => TypeOK /\ ServerInv /\ SlotsInv /\ EntriesInv /\ SocketsInv /\ StreamInv
  <1> SUFFICES ASSUME Init PROVE TypeOK /\ ServerInv /\ SlotsInv /\ EntriesInv /\ SocketsInv /\ StreamInv
    OBVIOUS
  <1>0. MaxConnections \in Nat /\ MaxDials \in Nat /\ Cardinality({}) = 0
    BY Socks5Assumption, FS_EmptySet
  <1>1. TypeServer
    BY DEF Init, TypeServer
  <1>2. TypeClients
    BY DEF Init, TypeClients, NoCopies
  <1>3. ServerInv
    BY DEF Init, ServerInv, Closers
  <1>4. SlotsInv
    <2>1. Dialling = {}
      BY DEF Init, Dialling
    <2> QED
      BY <1>0, <2>1 DEF Init, SlotsInv
  <1>5. EntriesInv
    BY <1>0 DEF Init, EntriesInv, Handling
  <1>6. SocketsInv
    BY DEF Init, SocketsInv, Handling
  <1>7. StreamInv
    BY DEF Init, StreamInv, StreamIsOpen
  <1> QED
    BY <1>1, <1>2, <1>3, <1>4, <1>5, <1>6, <1>7 DEF TypeOK

\* The whole invariant.
LEMMA Inductive == Spec => [](TypeOK /\ ServerInv /\ SlotsInv /\ EntriesInv /\ SocketsInv /\ StreamInv)
  <1> DEFINE IInv == TypeOK /\ ServerInv /\ SlotsInv /\ EntriesInv /\ SocketsInv /\ StreamInv
  <1>1. IInv /\ [Next]_vars => IInv'
    BY ServerTypeNext, ClientsTypeNext, ServerNext, SlotsNext, EntriesNext, SocketsNext, StreamNext
        DEF TypeOK
  <1> QED
    BY <1>1, InitInv, PTL DEF Spec

\* What Run and Close promise: when Run closes done, or Close returns, no socket, entry or
\* slot is left, and MaxConnections and MaxDials were never exceeded.
THEOREM ServerLeavesNothing == Spec => []DoneIsClean
  <1>1. TypeOK /\ ServerInv /\ SlotsInv /\ EntriesInv /\ SocketsInv => DoneIsClean
    <2> SUFFICES ASSUME TypeOK, ServerInv, SlotsInv, EntriesInv, SocketsInv PROVE DoneIsClean
      OBVIOUS
    <2>1. Cardinality(connections) <= MaxConnections /\ slots <= MaxDials
      BY DEF EntriesInv, SlotsInv
    <2>2. ASSUME srv = "done" \/ down["close"] = "returned"
          PROVE  Sockets = {} /\ connections = {} /\ slots = 0 /\ closed
      <3>1. srv \in {"done", "off", "refused"} /\ closed
        BY <2>2 DEF ServerInv
      <3>2. \A c \in Clients : pc[c] \notin Handling
        BY <3>1 DEF SocketsInv, ServerInv
      <3>3. Sockets = {}
        BY <3>1, <3>2 DEF Sockets, SocketsInv, Handling
      <3>4. connections = {}
        BY <3>2 DEF EntriesInv
      <3>5. slots = 0
        <4>1. Dialling = {}
          BY <3>2 DEF Dialling, Handling
        <4> QED
          BY <4>1, FS_EmptySet DEF SlotsInv
      <3> QED
        BY <3>1, <3>3, <3>4, <3>5
    <2> QED
      BY <2>1, <2>2 DEF DoneIsClean
  <1> QED
    BY <1>1, Inductive, PTL

\* The safety half of HalfCloseIsKept: while neither shutdown nor the context ends it, relay
\* keeps both sockets of a stream until one of its copies has failed, so that the end of one
\* direction leaves the other one open.
THEOREM HalfCloseKept == Spec => []StreamIsOpen
  <1>1. StreamInv => StreamIsOpen
    BY DEF StreamInv
  <1> QED
    BY <1>1, Inductive, PTL
=============================================================================
