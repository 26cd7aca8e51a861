---------------------------- MODULE TunnelProofs ----------------------------
(***************************************************************************)
(* Theorems about one tunnel connection, for every number of nodes and of  *)
(* probes at a time and every heartbeat limit.  Each ...Next lemma has one *)
(* step per action.                                                        *)
(***************************************************************************)
EXTENDS Tunnel, TLAPS

\* What is dialled, sent and received are nodes; LeakInv says that a worker that dials
\* has one, and that no more results are awaited than there are nodes.
LEMMA ProbesNext == TypeOK /\ LeakInv /\ [Next]_vars => TypeProbes'
  <1> SUFFICES ASSUME TypeOK, LeakInv, [Next]_vars PROVE TypeProbes'
    OBVIOUS
  <1> USE DEF TypeProbes, vars, contexts, probing, caller, shaking, running, CtxFrame, WorkerFrame,
      ReceiverFrame, ShakeFrame, LinkFrame, TaskFrame
  <1>0. TypeProbes /\ nil \in 0..Nodes /\ Nodes \in Nat
    BY TunnelAssumption DEF TypeOK, nil
  <1>1. CASE CancelParent
    BY <1>1, <1>0 DEF CancelParent
  <1>2. CASE ProbeTimeout
    BY <1>2, <1>0 DEF ProbeTimeout
  <1>3. CASE HandshakeTimeout
    BY <1>3, <1>0 DEF HandshakeTimeout
  <1>4. ASSUME NEW w \in Workers, TakeJob(w) PROVE TypeProbes'
    <2>1. jobs' \in 0..Nodes
      BY <1>0, <1>4 DEF TakeJob
    <2>2. worker' \in [Workers -> [pc : {"next", "dial", "reached", "refused", "sendConn", "sendError", "done"},
                                   node : 0..Nodes]]
      <3>1. CASE worker' = [worker EXCEPT ![w] = [pc |-> "done", node |-> nil]]
        BY <1>0, <3>1 
      <3>2. CASE jobs < Nodes /\ worker' = [worker EXCEPT ![w] = [pc |-> "dial", node |-> jobs + 1]]
        BY <1>0, <3>2
      <3> QED
        BY <1>4, <3>1, <3>2 DEF TakeJob, Ended
    <2> QED
      BY <1>0, <1>4, <2>1, <2>2 DEF TakeJob
  <1>5. ASSUME NEW w \in Workers, dialNodeTLS(w) PROVE TypeProbes'
    <2>1. worker[w].pc = "dial" => worker[w].node \in 1..Nodes
      BY <1>0 DEF LeakInv, nil
    <2> QED
      BY <1>0, <1>5, <2>1 DEF dialNodeTLS, Worker
  <1>6. ASSUME NEW w \in Workers, CheckProbe(w) PROVE TypeProbes'
    BY <1>6, <1>0 DEF CheckProbe, Ended, Worker
  <1>7. ASSUME NEW w \in Workers, SendResult(w) PROVE TypeProbes'
    BY <1>7, <1>0 DEF SendResult, Worker, Sending
  <1>8. ASSUME NEW w \in Workers, SendCancelled(w) PROVE TypeProbes'
    BY <1>8, <1>0 DEF SendCancelled, Ended, Sending
  <1>9. CASE ReceiveResult
    <2>1. NoResult \in [node : 0..Nodes, ok : BOOLEAN]
      BY <1>0 DEF NoResult
    <2>2. received' \in 0..Nodes
      BY <1>0, <1>9 DEF ReceiveResult, LeakInv
    <2> QED
      BY <1>0, <1>9, <2>1, <2>2 DEF ReceiveResult
  <1>10. CASE ReceiveCancelled
    BY <1>10, <1>0 DEF ReceiveCancelled
  <1>11. CASE CancelProbes
    BY <1>11, <1>0 DEF CancelProbes
  <1>12. CASE JoinWorkers
    BY <1>12, <1>0 DEF JoinWorkers
  <1>13. CASE DrainResults
    <2>1. NoResult \in [node : 0..Nodes, ok : BOOLEAN]
      BY <1>0 DEF NoResult
    <2> QED
      BY <1>0, <1>13, <2>1 DEF DrainResults, nil
  <1>14. CASE dialTunnel
    <2>1. pc = "dial" => got \in 1..Nodes
      BY <1>0 DEF LeakInv, nil
    <2> QED
      BY <1>0, <1>14, <2>1 DEF dialTunnel
  <1>15. CASE httpProxyDialer
    BY <1>15, <1>0 DEF httpProxyDialer
  <1>16. CASE CONNECT
    BY <1>16, <1>0 DEF CONNECT, Exchange, GiveUp
  <1>17. CASE socks5ProxyDialer
    BY <1>17, <1>0 DEF socks5ProxyDialer
  <1>18. CASE ArmProxy
    BY <1>18, <1>0 DEF ArmProxy
  <1>19. CASE socks5Handshake
    BY <1>19, <1>0 DEF socks5Handshake, Exchange, GiveUp
  <1>20. CASE watchContext
    BY <1>20, <1>0 DEF watchContext, StopWatch
  <1>21. CASE LeaveProxy
    BY <1>21, <1>0 DEF LeaveProxy, GiveUp
  <1>22. CASE dialWithContext
    BY <1>22, <1>0 DEF dialWithContext, GiveUp
  <1>23. CASE TLSHandshake
    BY <1>23, <1>0 DEF TLSHandshake, GiveUp
  <1>24. CASE SendHandshake
    BY <1>24, <1>0 DEF SendHandshake, GiveUp
  <1>25. CASE readHandshake
    BY <1>25, <1>0 DEF readHandshake, Exchange, GiveUp
  <1>26. CASE stopCancelWatch
    BY <1>26, <1>0 DEF stopCancelWatch, StopWatch
  <1>27. CASE CheckHandshake
    BY <1>27, <1>0 DEF CheckHandshake, GiveUp
  <1>28. CASE ClearDeadline
    BY <1>28, <1>0 DEF ClearDeadline, GiveUp
  <1>29. CASE start
    BY <1>29, <1>0 DEF start
  <1>30. CASE CallerCloses
    BY <1>30, <1>0 DEF CallerCloses, BeginClose, CloseSocket
  <1>31. CASE WaitLoops
    BY <1>31, <1>0 DEF WaitLoops
  <1>32. CASE CloseCalled
    BY <1>32, <1>0 DEF CloseCalled
  <1>33. CASE WatcherSees
    BY <1>33, <1>0 DEF WatcherSees
  <1>34. CASE WatcherActs
    BY <1>34, <1>0 DEF WatcherActs
  <1>35. CASE WatcherStops
    BY <1>35, <1>0 DEF WatcherStops
  <1>36. ASSUME NEW t \in Tasks, LockWrite(t) PROVE TypeProbes'
    BY <1>36, <1>0 DEF LockWrite, Go
  <1>37. ASSUME NEW t \in Tasks, Write(t) PROVE TypeProbes'
    BY <1>37, <1>0 DEF Write, Go
  <1>38. ASSUME NEW t \in Tasks, SeeClosed(t) PROVE TypeProbes'
    BY <1>38, <1>0 DEF SeeClosed, Go
  <1>39. ASSUME NEW t \in Tasks, Closing(t) PROVE TypeProbes'
    BY <1>39, <1>0 DEF Closing, BeginClose, CloseSocket, CloseReturns, After, Go
  <1>40. ASSUME NEW t \in Tasks, Wake(t) PROVE TypeProbes'
    BY <1>40, <1>0 DEF Wake, Go
  <1>41. CASE CountHeartbeat
    BY <1>41, <1>0 DEF CountHeartbeat, Go
  <1>42. CASE LoadGap
    BY <1>42, <1>0 DEF LoadGap, Go
  <1>43. CASE ReadFrame
    BY <1>43, <1>0 DEF ReadFrame, Go
  <1>44. CASE ReadLoopWrites
    BY <1>44, <1>0 DEF ReadLoopWrites, Go
  <1>45. CASE ReadFails
    BY <1>45, <1>0 DEF ReadFails, Go
  <1>46. CASE UNCHANGED vars
    BY <1>46, <1>0 DEF vars, contexts, probing, caller, shaking, running
  <1> HIDE DEF TypeProbes, vars, contexts, probing, caller, shaking, running, CtxFrame, WorkerFrame,
      ReceiverFrame, ShakeFrame, LinkFrame, TaskFrame
  <1> QED
    BY <1>1, <1>2, <1>3, <1>4, <1>5, <1>6, <1>7, <1>8, <1>9, <1>10, <1>11, <1>12, <1>13, <1>14, <1>15,
        <1>16, <1>17, <1>18, <1>19, <1>20, <1>21, <1>22, <1>23, <1>24, <1>25, <1>26, <1>27, <1>28, <1>29,
        <1>30, <1>31, <1>32, <1>33, <1>34, <1>35, <1>36, <1>37, <1>38, <1>39, <1>40, <1>41, <1>42, <1>43,
        <1>44, <1>45, <1>46 DEF Next, ProbeStep, CallerStep, WatcherStep, TaskStep, HeartbeatStep, Over

\* The caller goes to places that exist (probeNodes, dialTunnel, handshakeTunnel).
LEMMA CallerNext == TypeOK /\ [Next]_vars => TypeCaller'
  <1> SUFFICES ASSUME TypeOK, [Next]_vars PROVE TypeCaller'
    OBVIOUS
  <1> USE DEF TypeCaller, Probing, Handshaking, Dialling, vars, contexts, probing, caller, shaking,
      running, CtxFrame, WorkerFrame, ReceiverFrame, ShakeFrame, LinkFrame, TaskFrame
  <1>0. TypeCaller
    BY DEF TypeOK
  <1>1. CASE CancelParent
    BY <1>1, <1>0 DEF CancelParent
  <1>2. CASE ProbeTimeout
    BY <1>2, <1>0 DEF ProbeTimeout
  <1>3. CASE HandshakeTimeout
    BY <1>3, <1>0 DEF HandshakeTimeout
  <1>4. ASSUME NEW w \in Workers, TakeJob(w) PROVE TypeCaller'
    BY <1>4, <1>0 DEF TakeJob, Ended
  <1>5. ASSUME NEW w \in Workers, dialNodeTLS(w) PROVE TypeCaller'
    BY <1>5, <1>0 DEF dialNodeTLS, Worker
  <1>6. ASSUME NEW w \in Workers, CheckProbe(w) PROVE TypeCaller'
    BY <1>6, <1>0 DEF CheckProbe, Ended, Worker
  <1>7. ASSUME NEW w \in Workers, SendResult(w) PROVE TypeCaller'
    BY <1>7, <1>0 DEF SendResult, Worker, Sending
  <1>8. ASSUME NEW w \in Workers, SendCancelled(w) PROVE TypeCaller'
    BY <1>8, <1>0 DEF SendCancelled, Ended, Sending
  <1>9. CASE ReceiveResult
    BY <1>9, <1>0 DEF ReceiveResult
  <1>10. CASE ReceiveCancelled
    BY <1>10, <1>0 DEF ReceiveCancelled
  <1>11. CASE CancelProbes
    BY <1>11, <1>0 DEF CancelProbes
  <1>12. CASE JoinWorkers
    BY <1>12, <1>0 DEF JoinWorkers
  <1>13. CASE DrainResults
    BY <1>13, <1>0 DEF DrainResults, Chosen
  <1>14. CASE dialTunnel
    BY <1>14, <1>0 DEF dialTunnel
  <1>15. CASE httpProxyDialer
    BY <1>15, <1>0 DEF httpProxyDialer
  <1>16. CASE CONNECT
    BY <1>16, <1>0 DEF CONNECT, Exchange, GiveUp
  <1>17. CASE socks5ProxyDialer
    BY <1>17, <1>0 DEF socks5ProxyDialer
  <1>18. CASE ArmProxy
    BY <1>18, <1>0 DEF ArmProxy
  <1>19. CASE socks5Handshake
    BY <1>19, <1>0 DEF socks5Handshake, Exchange, GiveUp
  <1>20. CASE watchContext
    BY <1>20, <1>0 DEF watchContext, StopWatch
  <1>21. CASE LeaveProxy
    BY <1>21, <1>0 DEF LeaveProxy, GiveUp
  <1>22. CASE dialWithContext
    BY <1>22, <1>0 DEF dialWithContext, GiveUp
  <1>23. CASE TLSHandshake
    BY <1>23, <1>0 DEF TLSHandshake, GiveUp
  <1>24. CASE SendHandshake
    BY <1>24, <1>0 DEF SendHandshake, GiveUp
  <1>25. CASE readHandshake
    BY <1>25, <1>0 DEF readHandshake, Exchange, GiveUp
  <1>26. CASE stopCancelWatch
    BY <1>26, <1>0 DEF stopCancelWatch, StopWatch
  <1>27. CASE CheckHandshake
    BY <1>27, <1>0 DEF CheckHandshake, GiveUp
  <1>28. CASE ClearDeadline
    BY <1>28, <1>0 DEF ClearDeadline, GiveUp
  <1>29. CASE start
    BY <1>29, <1>0 DEF start
  <1>30. CASE CallerCloses
    BY <1>30, <1>0 DEF CallerCloses, BeginClose, CloseSocket
  <1>31. CASE WaitLoops
    BY <1>31, <1>0 DEF WaitLoops
  <1>32. CASE CloseCalled
    BY <1>32, <1>0 DEF CloseCalled
  <1>33. CASE WatcherSees
    BY <1>33, <1>0 DEF WatcherSees
  <1>34. CASE WatcherActs
    BY <1>34, <1>0 DEF WatcherActs
  <1>35. CASE WatcherStops
    BY <1>35, <1>0 DEF WatcherStops
  <1>36. ASSUME NEW t \in Tasks, LockWrite(t) PROVE TypeCaller'
    BY <1>36, <1>0 DEF LockWrite, Go
  <1>37. ASSUME NEW t \in Tasks, Write(t) PROVE TypeCaller'
    BY <1>37, <1>0 DEF Write, Go
  <1>38. ASSUME NEW t \in Tasks, SeeClosed(t) PROVE TypeCaller'
    BY <1>38, <1>0 DEF SeeClosed, Go
  <1>39. ASSUME NEW t \in Tasks, Closing(t) PROVE TypeCaller'
    BY <1>39, <1>0 DEF Closing, BeginClose, CloseSocket, CloseReturns, After, Go
  <1>40. ASSUME NEW t \in Tasks, Wake(t) PROVE TypeCaller'
    BY <1>40, <1>0 DEF Wake, Go
  <1>41. CASE CountHeartbeat
    BY <1>41, <1>0 DEF CountHeartbeat, Go
  <1>42. CASE LoadGap
    BY <1>42, <1>0 DEF LoadGap, Go
  <1>43. CASE ReadFrame
    BY <1>43, <1>0 DEF ReadFrame, Go
  <1>44. CASE ReadLoopWrites
    BY <1>44, <1>0 DEF ReadLoopWrites, Go
  <1>45. CASE ReadFails
    BY <1>45, <1>0 DEF ReadFails, Go
  <1>46. CASE UNCHANGED vars
    BY <1>46, <1>0 DEF vars, contexts, probing, caller, shaking, running
  <1> HIDE DEF TypeCaller, Probing, Handshaking, Dialling, vars, contexts, probing, caller, shaking,
      running, CtxFrame, WorkerFrame, ReceiverFrame, ShakeFrame, LinkFrame, TaskFrame
  <1> QED
    BY <1>1, <1>2, <1>3, <1>4, <1>5, <1>6, <1>7, <1>8, <1>9, <1>10, <1>11, <1>12, <1>13, <1>14, <1>15,
        <1>16, <1>17, <1>18, <1>19, <1>20, <1>21, <1>22, <1>23, <1>24, <1>25, <1>26, <1>27, <1>28, <1>29,
        <1>30, <1>31, <1>32, <1>33, <1>34, <1>35, <1>36, <1>37, <1>38, <1>39, <1>40, <1>41, <1>42, <1>43,
        <1>44, <1>45, <1>46 DEF Next, ProbeStep, CallerStep, WatcherStep, TaskStep, HeartbeatStep, Over

\* So do the connection's goroutines.
LEMMA LinkNext == TypeOK /\ [Next]_vars => TypeLink'
  <1> SUFFICES ASSUME TypeOK, [Next]_vars PROVE TypeLink'
    OBVIOUS
  <1> USE DEF TypeLink, vars, contexts, probing, caller, shaking, running, CtxFrame, WorkerFrame,
      ReceiverFrame, ShakeFrame, LinkFrame, TaskFrame
  <1>0. TypeLink /\ "heartbeat" \in Tasks /\ "read" \in Tasks
    BY DEF TypeOK, Tasks, Loops
  <1>1. CASE CancelParent
    BY <1>1, <1>0 DEF CancelParent
  <1>2. CASE ProbeTimeout
    BY <1>2, <1>0 DEF ProbeTimeout
  <1>3. CASE HandshakeTimeout
    BY <1>3, <1>0 DEF HandshakeTimeout
  <1>4. ASSUME NEW w \in Workers, TakeJob(w) PROVE TypeLink'
    BY <1>4, <1>0 DEF TakeJob, Ended
  <1>5. ASSUME NEW w \in Workers, dialNodeTLS(w) PROVE TypeLink'
    BY <1>5, <1>0 DEF dialNodeTLS, Worker
  <1>6. ASSUME NEW w \in Workers, CheckProbe(w) PROVE TypeLink'
    BY <1>6, <1>0 DEF CheckProbe, Ended, Worker
  <1>7. ASSUME NEW w \in Workers, SendResult(w) PROVE TypeLink'
    BY <1>7, <1>0 DEF SendResult, Worker, Sending
  <1>8. ASSUME NEW w \in Workers, SendCancelled(w) PROVE TypeLink'
    BY <1>8, <1>0 DEF SendCancelled, Ended, Sending
  <1>9. CASE ReceiveResult
    BY <1>9, <1>0 DEF ReceiveResult
  <1>10. CASE ReceiveCancelled
    BY <1>10, <1>0 DEF ReceiveCancelled
  <1>11. CASE CancelProbes
    BY <1>11, <1>0 DEF CancelProbes
  <1>12. CASE JoinWorkers
    BY <1>12, <1>0 DEF JoinWorkers
  <1>13. CASE DrainResults
    BY <1>13, <1>0 DEF DrainResults, Chosen
  <1>14. CASE dialTunnel
    BY <1>14, <1>0 DEF dialTunnel
  <1>15. CASE httpProxyDialer
    BY <1>15, <1>0 DEF httpProxyDialer
  <1>16. CASE CONNECT
    BY <1>16, <1>0 DEF CONNECT, Exchange, GiveUp
  <1>17. CASE socks5ProxyDialer
    BY <1>17, <1>0 DEF socks5ProxyDialer
  <1>18. CASE ArmProxy
    BY <1>18, <1>0 DEF ArmProxy
  <1>19. CASE socks5Handshake
    BY <1>19, <1>0 DEF socks5Handshake, Exchange, GiveUp
  <1>20. CASE watchContext
    BY <1>20, <1>0 DEF watchContext, StopWatch
  <1>21. CASE LeaveProxy
    BY <1>21, <1>0 DEF LeaveProxy, GiveUp
  <1>22. CASE dialWithContext
    BY <1>22, <1>0 DEF dialWithContext, GiveUp
  <1>23. CASE TLSHandshake
    BY <1>23, <1>0 DEF TLSHandshake, GiveUp
  <1>24. CASE SendHandshake
    BY <1>24, <1>0 DEF SendHandshake, GiveUp
  <1>25. CASE readHandshake
    BY <1>25, <1>0 DEF readHandshake, Exchange, GiveUp
  <1>26. CASE stopCancelWatch
    BY <1>26, <1>0 DEF stopCancelWatch, StopWatch
  <1>27. CASE CheckHandshake
    BY <1>27, <1>0 DEF CheckHandshake, GiveUp
  <1>28. CASE ClearDeadline
    BY <1>28, <1>0 DEF ClearDeadline, GiveUp
  <1>29. CASE start
    BY <1>29, <1>0 DEF start
  <1>30. CASE CallerCloses
    BY <1>30, <1>0 DEF CallerCloses, BeginClose, CloseSocket
  <1>31. CASE WaitLoops
    BY <1>31, <1>0 DEF WaitLoops
  <1>32. CASE CloseCalled
    BY <1>32, <1>0 DEF CloseCalled
  <1>33. CASE WatcherSees
    BY <1>33, <1>0 DEF WatcherSees
  <1>34. CASE WatcherActs
    BY <1>34, <1>0 DEF WatcherActs
  <1>35. CASE WatcherStops
    BY <1>35, <1>0 DEF WatcherStops
  <1>36. ASSUME NEW t \in Tasks, LockWrite(t) PROVE TypeLink'
    BY <1>36, <1>0 DEF LockWrite, Go
  <1>37. ASSUME NEW t \in Tasks, Write(t) PROVE TypeLink'
    BY <1>37, <1>0 DEF Write, Go
  <1>38. ASSUME NEW t \in Tasks, SeeClosed(t) PROVE TypeLink'
    BY <1>38, <1>0 DEF SeeClosed, Go
  <1>39. ASSUME NEW t \in Tasks, Closing(t) PROVE TypeLink'
    BY <1>39, <1>0 DEF Closing, BeginClose, CloseSocket, CloseReturns, After, Go
  <1>40. ASSUME NEW t \in Tasks, Wake(t) PROVE TypeLink'
    BY <1>40, <1>0 DEF Wake, Go
  <1>41. CASE CountHeartbeat
    BY <1>41, <1>0 DEF CountHeartbeat, Go
  <1>42. CASE LoadGap
    BY <1>42, <1>0 DEF LoadGap, Go
  <1>43. CASE ReadFrame
    BY <1>43, <1>0 DEF ReadFrame, Go
  <1>44. CASE ReadLoopWrites
    BY <1>44, <1>0 DEF ReadLoopWrites, Go
  <1>45. CASE ReadFails
    BY <1>45, <1>0 DEF ReadFails, Go
  <1>46. CASE UNCHANGED vars
    BY <1>46, <1>0 DEF vars, contexts, probing, caller, shaking, running
  <1> HIDE DEF TypeLink, vars, contexts, probing, caller, shaking, running, CtxFrame, WorkerFrame,
      ReceiverFrame, ShakeFrame, LinkFrame, TaskFrame
  <1> QED
    BY <1>1, <1>2, <1>3, <1>4, <1>5, <1>6, <1>7, <1>8, <1>9, <1>10, <1>11, <1>12, <1>13, <1>14, <1>15,
        <1>16, <1>17, <1>18, <1>19, <1>20, <1>21, <1>22, <1>23, <1>24, <1>25, <1>26, <1>27, <1>28, <1>29,
        <1>30, <1>31, <1>32, <1>33, <1>34, <1>35, <1>36, <1>37, <1>38, <1>39, <1>40, <1>41, <1>42, <1>43,
        <1>44, <1>45, <1>46 DEF Next, ProbeStep, CallerStep, WatcherStep, TaskStep, HeartbeatStep, Over

\* HandoverInv is inductive: nobody but the watcher sets a deadline in the past, and
\* a watcher that was joined does not act any more.
LEMMA HandoverNext == TypeOK /\ HandoverInv /\ [Next]_vars => HandoverInv'
  <1> SUFFICES ASSUME TypeOK, HandoverInv, [Next]_vars PROVE HandoverInv'
    OBVIOUS
  <1> USE DEF HandoverInv, HandoverIsClean, Probing, vars, contexts, probing, caller, shaking,
      running, CtxFrame, WorkerFrame, ReceiverFrame, ShakeFrame, LinkFrame, TaskFrame
  <1>1. CASE CancelParent
    BY <1>1 DEF CancelParent
  <1>2. CASE ProbeTimeout
    BY <1>2 DEF ProbeTimeout
  <1>3. CASE HandshakeTimeout
    BY <1>3 DEF HandshakeTimeout
  <1>4. ASSUME NEW w \in Workers, TakeJob(w) PROVE HandoverInv'
    BY <1>4 DEF TakeJob, Ended
  <1>5. ASSUME NEW w \in Workers, dialNodeTLS(w) PROVE HandoverInv'
    BY <1>5 DEF dialNodeTLS, Worker
  <1>6. ASSUME NEW w \in Workers, CheckProbe(w) PROVE HandoverInv'
    BY <1>6 DEF CheckProbe, Ended, Worker
  <1>7. ASSUME NEW w \in Workers, SendResult(w) PROVE HandoverInv'
    BY <1>7 DEF SendResult, Worker, Sending
  <1>8. ASSUME NEW w \in Workers, SendCancelled(w) PROVE HandoverInv'
    BY <1>8 DEF SendCancelled, Ended, Sending
  <1>9. CASE ReceiveResult
    BY <1>9 DEF ReceiveResult
  <1>10. CASE ReceiveCancelled
    BY <1>10 DEF ReceiveCancelled
  <1>11. CASE CancelProbes
    BY <1>11 DEF CancelProbes
  <1>12. CASE JoinWorkers
    BY <1>12 DEF JoinWorkers
  <1>13. CASE DrainResults
    BY <1>13 DEF DrainResults, Chosen, Chosen
  <1>14. CASE dialTunnel
    BY <1>14 DEF dialTunnel
  <1>15. CASE httpProxyDialer
    BY <1>15 DEF httpProxyDialer
  <1>16. CASE CONNECT
    BY <1>16 DEF CONNECT, Exchange, GiveUp
  <1>17. CASE socks5ProxyDialer
    BY <1>17 DEF socks5ProxyDialer
  <1>18. CASE ArmProxy
    BY <1>18 DEF ArmProxy
  <1>19. CASE socks5Handshake
    BY <1>19 DEF socks5Handshake, Exchange, GiveUp
  <1>20. CASE watchContext
    BY <1>20 DEF watchContext, StopWatch
  <1>21. CASE LeaveProxy
    BY <1>21 DEF LeaveProxy, GiveUp
  <1>22. CASE dialWithContext
    BY <1>22 DEF dialWithContext, GiveUp
  <1>23. CASE TLSHandshake
    BY <1>23 DEF TLSHandshake, GiveUp
  <1>24. CASE SendHandshake
    BY <1>24 DEF SendHandshake, GiveUp
  <1>25. CASE readHandshake
    BY <1>25 DEF readHandshake, Exchange, GiveUp
  <1>26. CASE stopCancelWatch
    BY <1>26 DEF stopCancelWatch, StopWatch
  <1>27. CASE CheckHandshake
    BY <1>27 DEF CheckHandshake, GiveUp
  <1>28. CASE ClearDeadline
    BY <1>28 DEF ClearDeadline, GiveUp
  <1>29. CASE start
    BY <1>29 DEF start
  <1>30. CASE CallerCloses
    BY <1>30 DEF CallerCloses, BeginClose, CloseSocket
  <1>31. CASE WaitLoops
    BY <1>31 DEF WaitLoops
  <1>32. CASE CloseCalled
    BY <1>32 DEF CloseCalled
  <1>33. CASE WatcherSees
    BY <1>33 DEF WatcherSees
  <1>34. CASE WatcherActs
    BY <1>34 DEF WatcherActs
  <1>35. CASE WatcherStops
    BY <1>35 DEF WatcherStops
  <1>36. ASSUME NEW t \in Tasks, LockWrite(t) PROVE HandoverInv'
    BY <1>36 DEF LockWrite, Go
  <1>37. ASSUME NEW t \in Tasks, Write(t) PROVE HandoverInv'
    BY <1>37 DEF Write, Go
  <1>38. ASSUME NEW t \in Tasks, SeeClosed(t) PROVE HandoverInv'
    BY <1>38 DEF SeeClosed, Go
  <1>39. ASSUME NEW t \in Tasks, Closing(t) PROVE HandoverInv'
    BY <1>39 DEF Closing, BeginClose, CloseSocket, CloseReturns, After, Go
  <1>40. ASSUME NEW t \in Tasks, Wake(t) PROVE HandoverInv'
    BY <1>40 DEF Wake, Go
  <1>41. CASE CountHeartbeat
    BY <1>41 DEF CountHeartbeat, Go
  <1>42. CASE LoadGap
    BY <1>42 DEF LoadGap, Go
  <1>43. CASE ReadFrame
    BY <1>43 DEF ReadFrame, Go
  <1>44. CASE ReadLoopWrites
    BY <1>44 DEF ReadLoopWrites, Go
  <1>45. CASE ReadFails
    BY <1>45 DEF ReadFails, Go
  <1>46. CASE UNCHANGED vars
    BY <1>46 DEF vars, contexts, probing, caller, shaking, running
  <1> HIDE DEF HandoverInv, HandoverIsClean, Probing, vars, contexts, probing, caller, shaking,
      running, CtxFrame, WorkerFrame, ReceiverFrame, ShakeFrame, LinkFrame, TaskFrame
  <1> QED
    BY <1>1, <1>2, <1>3, <1>4, <1>5, <1>6, <1>7, <1>8, <1>9, <1>10, <1>11, <1>12, <1>13, <1>14, <1>15,
        <1>16, <1>17, <1>18, <1>19, <1>20, <1>21, <1>22, <1>23, <1>24, <1>25, <1>26, <1>27, <1>28, <1>29,
        <1>30, <1>31, <1>32, <1>33, <1>34, <1>35, <1>36, <1>37, <1>38, <1>39, <1>40, <1>41, <1>42, <1>43,
        <1>44, <1>45, <1>46 DEF Next, ProbeStep, CallerStep, WatcherStep, TaskStep, HeartbeatStep, Over

\* GapInv is inductive: a heartbeat is counted once for each time it was written, and
\* a frame clears both.
LEMMA GapNext == TypeOK /\ LeakInv /\ GapInv /\ [Next]_vars => GapInv'
  <1> SUFFICES ASSUME TypeOK, LeakInv, GapInv, [Next]_vars PROVE GapInv'
    OBVIOUS
  <1> USE DEF GapInv, vars, contexts, probing, caller, shaking, running, CtxFrame, WorkerFrame,
      ReceiverFrame, ShakeFrame, LinkFrame, TaskFrame
  <1>0. /\ gap \in Nat /\ quiet \in Nat /\ MissLimit \in Nat /\ "heartbeat" \in Tasks
        /\ task \in [Tasks -> {"off", "wait", "lock", "write", "count", "load", "close", "dead", "done"}]
    BY TunnelAssumption DEF TypeOK, TypeLink, Tasks, Loops
  <1>1. CASE CancelParent
    BY <1>1, <1>0 DEF CancelParent
  <1>2. CASE ProbeTimeout
    BY <1>2, <1>0 DEF ProbeTimeout
  <1>3. CASE HandshakeTimeout
    BY <1>3, <1>0 DEF HandshakeTimeout
  <1>4. ASSUME NEW w \in Workers, TakeJob(w) PROVE GapInv'
    BY <1>4, <1>0 DEF TakeJob, Ended
  <1>5. ASSUME NEW w \in Workers, dialNodeTLS(w) PROVE GapInv'
    BY <1>5, <1>0 DEF dialNodeTLS, Worker
  <1>6. ASSUME NEW w \in Workers, CheckProbe(w) PROVE GapInv'
    BY <1>6, <1>0 DEF CheckProbe, Ended, Worker
  <1>7. ASSUME NEW w \in Workers, SendResult(w) PROVE GapInv'
    BY <1>7, <1>0 DEF SendResult, Worker, Sending
  <1>8. ASSUME NEW w \in Workers, SendCancelled(w) PROVE GapInv'
    BY <1>8, <1>0 DEF SendCancelled, Ended, Sending
  <1>9. CASE ReceiveResult
    BY <1>9, <1>0 DEF ReceiveResult
  <1>10. CASE ReceiveCancelled
    BY <1>10, <1>0 DEF ReceiveCancelled
  <1>11. CASE CancelProbes
    BY <1>11, <1>0 DEF CancelProbes
  <1>12. CASE JoinWorkers
    BY <1>12, <1>0 DEF JoinWorkers
  <1>13. CASE DrainResults
    BY <1>13, <1>0 DEF DrainResults, Chosen
  <1>14. CASE dialTunnel
    BY <1>14, <1>0 DEF dialTunnel
  <1>15. CASE httpProxyDialer
    BY <1>15, <1>0 DEF httpProxyDialer
  <1>16. CASE CONNECT
    BY <1>16, <1>0 DEF CONNECT, Exchange, GiveUp
  <1>17. CASE socks5ProxyDialer
    BY <1>17, <1>0 DEF socks5ProxyDialer
  <1>18. CASE ArmProxy
    BY <1>18, <1>0 DEF ArmProxy
  <1>19. CASE socks5Handshake
    BY <1>19, <1>0 DEF socks5Handshake, Exchange, GiveUp
  <1>20. CASE watchContext
    BY <1>20, <1>0 DEF watchContext, StopWatch
  <1>21. CASE LeaveProxy
    BY <1>21, <1>0 DEF LeaveProxy, GiveUp
  <1>22. CASE dialWithContext
    BY <1>22, <1>0 DEF dialWithContext, GiveUp
  <1>23. CASE TLSHandshake
    BY <1>23, <1>0 DEF TLSHandshake, GiveUp
  <1>24. CASE SendHandshake
    BY <1>24, <1>0 DEF SendHandshake, GiveUp
  <1>25. CASE readHandshake
    BY <1>25, <1>0 DEF readHandshake, Exchange, GiveUp
  <1>26. CASE stopCancelWatch
    BY <1>26, <1>0 DEF stopCancelWatch, StopWatch
  <1>27. CASE CheckHandshake
    BY <1>27, <1>0 DEF CheckHandshake, GiveUp
  <1>28. CASE ClearDeadline
    BY <1>28, <1>0 DEF ClearDeadline, GiveUp
  <1>29. CASE start
    BY <1>29, <1>0 DEF start, LeakInv
  <1>30. CASE CallerCloses
    BY <1>30, <1>0 DEF CallerCloses, BeginClose, CloseSocket
  <1>31. CASE WaitLoops
    BY <1>31, <1>0 DEF WaitLoops
  <1>32. CASE CloseCalled
    BY <1>32, <1>0 DEF CloseCalled
  <1>33. CASE WatcherSees
    BY <1>33, <1>0 DEF WatcherSees
  <1>34. CASE WatcherActs
    BY <1>34, <1>0 DEF WatcherActs
  <1>35. CASE WatcherStops
    BY <1>35, <1>0 DEF WatcherStops
  <1>36. ASSUME NEW t \in Tasks, LockWrite(t) PROVE GapInv'
    BY <1>36, <1>0 DEF LockWrite, Go
  <1>37. ASSUME NEW t \in Tasks, Write(t) PROVE GapInv'
    BY <1>37, <1>0 DEF Write, Go
  <1>38. ASSUME NEW t \in Tasks, SeeClosed(t) PROVE GapInv'
    BY <1>38, <1>0 DEF SeeClosed, Go
  <1>39. ASSUME NEW t \in Tasks, Closing(t) PROVE GapInv'
    BY <1>39, <1>0 DEF Closing, BeginClose, CloseSocket, CloseReturns, After, Go
  <1>40. ASSUME NEW t \in Tasks, Wake(t) PROVE GapInv'
    BY <1>40, <1>0 DEF Wake, Go
  <1>41. CASE CountHeartbeat
    BY <1>41, <1>0 DEF CountHeartbeat, Go
  <1>42. CASE LoadGap
    BY <1>42, <1>0 DEF LoadGap, Go
  <1>43. CASE ReadFrame
    BY <1>43, <1>0 DEF ReadFrame, Go
  <1>44. CASE ReadLoopWrites
    BY <1>44, <1>0 DEF ReadLoopWrites, Go
  <1>45. CASE ReadFails
    BY <1>45, <1>0 DEF ReadFails, Go
  <1>46. CASE UNCHANGED vars
    BY <1>46, <1>0 DEF vars, contexts, probing, caller, shaking, running
  <1> HIDE DEF GapInv, vars, contexts, probing, caller, shaking, running, CtxFrame, WorkerFrame,
      ReceiverFrame, ShakeFrame, LinkFrame, TaskFrame
  <1> QED
    BY <1>1, <1>2, <1>3, <1>4, <1>5, <1>6, <1>7, <1>8, <1>9, <1>10, <1>11, <1>12, <1>13, <1>14, <1>15,
        <1>16, <1>17, <1>18, <1>19, <1>20, <1>21, <1>22, <1>23, <1>24, <1>25, <1>26, <1>27, <1>28, <1>29,
        <1>30, <1>31, <1>32, <1>33, <1>34, <1>35, <1>36, <1>37, <1>38, <1>39, <1>40, <1>41, <1>42, <1>43,
        <1>44, <1>45, <1>46 DEF Next, ProbeStep, CallerStep, WatcherStep, TaskStep, HeartbeatStep, Over

\* LeakInv is inductive: a connection passes from a worker to the channel and from there
\* to the caller, and whoever has it when the context is done closes it.
LEMMA LeakNext == TypeOK /\ LeakInv /\ [Next]_vars => LeakInv'
  <1> SUFFICES ASSUME TypeOK, LeakInv, [Next]_vars PROVE LeakInv'
    OBVIOUS
  <1> USE DEF LeakInv, InHand, Probing, vars, contexts, probing, caller, shaking, running, CtxFrame,
      WorkerFrame, ReceiverFrame, ShakeFrame, LinkFrame, TaskFrame
  <1>0. TypeProbes /\ TypeLink /\ nil \notin 1..Nodes
    BY TunnelAssumption DEF TypeOK, nil
  <1> USE DEF TypeProbes, TypeLink
  <1>1. CASE CancelParent
    BY <1>1, <1>0 DEF CancelParent
  <1>2. CASE ProbeTimeout
    BY <1>2, <1>0 DEF ProbeTimeout
  <1>3. CASE HandshakeTimeout
    BY <1>3, <1>0 DEF HandshakeTimeout
  <1>4. ASSUME NEW w \in Workers, TakeJob(w) PROVE LeakInv'
    <2>1. /\ \A v \in Workers : v # w => worker'[v] = worker[v]
          /\ worker'[w].pc = "done" \/ (worker'[w].pc = "dial" /\ worker'[w].node # nil)
      <3>1. CASE worker' = [worker EXCEPT ![w] = [pc |-> "done", node |-> nil]]
        BY <1>0, <3>1
      <3>2. CASE jobs < Nodes /\ worker' = [worker EXCEPT ![w] = [pc |-> "dial", node |-> jobs + 1]]
        BY <1>0, <3>2 DEF nil
      <3> QED
        BY <1>4, <3>1, <3>2 DEF TakeJob, Ended
    <2>2. ASSUME NEW n \in open PROVE InHand(n)'
      BY <1>4, <2>1, <2>2 DEF TakeJob
    <2> QED
      BY <1>4, <2>1, <2>2 DEF TakeJob
  <1>5. ASSUME NEW w \in Workers, dialNodeTLS(w) PROVE LeakInv'
    BY <1>5, <1>0 DEF dialNodeTLS, Worker
  <1>6. ASSUME NEW w \in Workers, CheckProbe(w) PROVE LeakInv'
    BY <1>6, <1>0 DEF CheckProbe, Ended, Worker
  <1>7. ASSUME NEW w \in Workers, SendResult(w) PROVE LeakInv'
    <2>1. /\ \A v \in Workers : v # w => worker'[v] = worker[v]
          /\ worker'[w].pc = "next" /\ results'.node = worker[w].node /\ got' = got /\ open' = open
      BY <1>0, <1>7 DEF SendResult, Worker
    <2>2. ASSUME NEW n \in open PROVE InHand(n)'
      <3>1. n # results.node
        BY <1>0, <1>7 DEF SendResult, NoResult
      <3>2. CASE n = got
        BY <2>1, <3>2
      <3>3. CASE \E v \in Workers : worker[v].pc \in {"reached", "sendConn"} /\ worker[v].node = n
        BY <2>1, <3>3
      <3> QED
        BY <3>1, <3>2, <3>3
    <2> QED
      BY <1>7, <2>1, <2>2 DEF SendResult, Sending
  <1>8. ASSUME NEW w \in Workers, SendCancelled(w) PROVE LeakInv'
    BY <1>8, <1>0 DEF SendCancelled, Ended, Sending
  <1>9. CASE ReceiveResult
    <2>1. ASSUME NEW n \in open' PROVE InHand(n)'
      <3>1. n \in open /\ worker' = worker /\ got = nil
        BY <1>9 DEF ReceiveResult
      <3>2. CASE n = results.node
        BY <1>0, <1>9, <3>1, <3>2 DEF ReceiveResult
      <3>3. CASE n # results.node
        BY <1>0, <3>1, <3>3
      <3> QED
        BY <3>2, <3>3
    <2>2. pc' = "receive" => got' = nil /\ received' < Nodes
      <3>1. Nodes \in Nat /\ received \in Nat /\ received < Nodes
        BY <1>0, <1>9, TunnelAssumption DEF ReceiveResult
      <3> QED
        BY <1>9, <3>1 DEF ReceiveResult
    <2> QED
      BY <1>0, <1>9, <2>1, <2>2 DEF ReceiveResult
  <1>10. CASE ReceiveCancelled
    BY <1>10, <1>0 DEF ReceiveCancelled
  <1>11. CASE CancelProbes
    BY <1>11, <1>0 DEF CancelProbes
  <1>12. CASE JoinWorkers
    BY <1>12, <1>0 DEF JoinWorkers
  <1>13. CASE DrainResults
    <2>1. pc = "drain" /\ \A v \in Workers : worker[v].pc = "done"
      BY <1>13 DEF DrainResults
    <2>2. open' \subseteq {got} /\ got' = got
      BY <1>13, <2>1 DEF DrainResults
    <2>3. pc' = "failed" => open' = {}
      BY <1>0, <1>13, <2>2 DEF DrainResults, Chosen
    <2> QED
      BY <1>0, <1>13, <2>1, <2>2, <2>3 DEF DrainResults, Chosen
  <1>14. CASE dialTunnel
    BY <1>14, <1>0 DEF dialTunnel
  <1>15. CASE httpProxyDialer
    BY <1>15, <1>0 DEF httpProxyDialer
  <1>16. CASE CONNECT
    BY <1>16, <1>0 DEF CONNECT, Exchange, GiveUp
  <1>17. CASE socks5ProxyDialer
    BY <1>17, <1>0 DEF socks5ProxyDialer
  <1>18. CASE ArmProxy
    BY <1>18, <1>0 DEF ArmProxy
  <1>19. CASE socks5Handshake
    BY <1>19, <1>0 DEF socks5Handshake, Exchange, GiveUp
  <1>20. CASE watchContext
    BY <1>20, <1>0 DEF watchContext, StopWatch
  <1>21. CASE LeaveProxy
    BY <1>21, <1>0 DEF LeaveProxy, GiveUp
  <1>22. CASE dialWithContext
    BY <1>22, <1>0 DEF dialWithContext, GiveUp
  <1>23. CASE TLSHandshake
    BY <1>23, <1>0 DEF TLSHandshake, GiveUp
  <1>24. CASE SendHandshake
    BY <1>24, <1>0 DEF SendHandshake, GiveUp
  <1>25. CASE readHandshake
    BY <1>25, <1>0 DEF readHandshake, Exchange, GiveUp
  <1>26. CASE stopCancelWatch
    BY <1>26, <1>0 DEF stopCancelWatch, StopWatch
  <1>27. CASE CheckHandshake
    BY <1>27, <1>0 DEF CheckHandshake, GiveUp
  <1>28. CASE ClearDeadline
    BY <1>28, <1>0 DEF ClearDeadline, GiveUp
  <1>29. CASE start
    BY <1>29, <1>0 DEF start
  <1>30. CASE CallerCloses
    BY <1>30, <1>0 DEF CallerCloses, BeginClose, CloseSocket
  <1>31. CASE WaitLoops
    BY <1>31, <1>0 DEF WaitLoops
  <1>32. CASE CloseCalled
    BY <1>32, <1>0 DEF CloseCalled
  <1>33. CASE WatcherSees
    BY <1>33, <1>0 DEF WatcherSees
  <1>34. CASE WatcherActs
    BY <1>34, <1>0 DEF WatcherActs
  <1>35. CASE WatcherStops
    BY <1>35, <1>0 DEF WatcherStops
  <1>36. ASSUME NEW t \in Tasks, LockWrite(t) PROVE LeakInv'
    BY <1>36, <1>0 DEF LockWrite, Go
  <1>37. ASSUME NEW t \in Tasks, Write(t) PROVE LeakInv'
    BY <1>37, <1>0 DEF Write, Go
  <1>38. ASSUME NEW t \in Tasks, SeeClosed(t) PROVE LeakInv'
    BY <1>38, <1>0 DEF SeeClosed, Go
  <1>39. ASSUME NEW t \in Tasks, Closing(t) PROVE LeakInv'
    BY <1>39, <1>0 DEF Closing, BeginClose, CloseSocket, CloseReturns, After, Go
  <1>40. ASSUME NEW t \in Tasks, Wake(t) PROVE LeakInv'
    BY <1>40, <1>0 DEF Wake, Go
  <1>41. CASE CountHeartbeat
    BY <1>41, <1>0 DEF CountHeartbeat, Go
  <1>42. CASE LoadGap
    BY <1>42, <1>0 DEF LoadGap, Go
  <1>43. CASE ReadFrame
    BY <1>43, <1>0 DEF ReadFrame, Go
  <1>44. CASE ReadLoopWrites
    BY <1>44, <1>0 DEF ReadLoopWrites, Go
  <1>45. CASE ReadFails
    BY <1>45, <1>0 DEF ReadFails, Go
  <1>46. CASE UNCHANGED vars
    BY <1>46, <1>0 DEF vars, contexts, probing, caller, shaking, running
  <1> HIDE DEF LeakInv, InHand, Probing, vars, contexts, probing, caller, shaking, running, CtxFrame,
      WorkerFrame, ReceiverFrame, ShakeFrame, LinkFrame, TaskFrame
  <1> QED
    BY <1>1, <1>2, <1>3, <1>4, <1>5, <1>6, <1>7, <1>8, <1>9, <1>10, <1>11, <1>12, <1>13, <1>14, <1>15,
        <1>16, <1>17, <1>18, <1>19, <1>20, <1>21, <1>22, <1>23, <1>24, <1>25, <1>26, <1>27, <1>28, <1>29,
        <1>30, <1>31, <1>32, <1>33, <1>34, <1>35, <1>36, <1>37, <1>38, <1>39, <1>40, <1>41, <1>42, <1>43,
        <1>44, <1>45, <1>46 DEF Next, ProbeStep, CallerStep, WatcherStep, TaskStep, HeartbeatStep, Over

\* The states in which StartL3 and a reconnect begin.
LEMMA InitInv == Init => TypeOK /\ LeakInv /\ HandoverInv /\ GapInv
  <1> SUFFICES ASSUME Init PROVE TypeOK /\ LeakInv /\ HandoverInv /\ GapInv
    OBVIOUS
  <1>0. /\ Nodes \in Nat \ {0} /\ MissLimit \in Nat \ {0} /\ "heartbeat" \in Tasks
        /\ nil \in 0..Nodes /\ 1 \in 0..Nodes
    BY TunnelAssumption DEF Tasks, Loops, nil
  <1>1. TypeProbes
    BY <1>0 DEF Init, TypeProbes, NoResult
  <1>2. TypeCaller
    BY DEF Init, TypeCaller, Probing, Handshaking, Dialling
  <1>3. TypeLink
    BY DEF Init, TypeLink
  <1>4. LeakInv
    BY <1>0 DEF Init, LeakInv, Probing, nil
  <1>5. HandoverInv
    BY DEF Init, HandoverInv, HandoverIsClean, Probing
  <1>6. GapInv
    BY <1>0 DEF Init, GapInv
  <1> QED
    BY <1>1, <1>2, <1>3, <1>4, <1>5, <1>6 DEF TypeOK

\* The whole invariant.
LEMMA Inductive == Spec => [](TypeOK /\ LeakInv /\ HandoverInv /\ GapInv)
  <1>1. TypeOK /\ LeakInv /\ HandoverInv /\ GapInv /\ [Next]_vars => (TypeOK /\ LeakInv /\ HandoverInv /\ GapInv)'
    BY ProbesNext, CallerNext, LinkNext, LeakNext, HandoverNext, GapNext DEF TypeOK
  <1> QED
    BY <1>1, InitInv, PTL DEF Spec

\* probeNodes, dialTunnel, handshakeTunnel and close leave no connection behind,
\* whoever of receiver, worker, channel and drain has it when the context is done.
THEOREM NoConnectionLeaks == Spec => []NothingLeaks
  <1>1. LeakInv => NothingLeaks
    BY DEF LeakInv, NothingLeaks
  <1> QED
    BY <1>1, Inductive, PTL

\* The proxy's dialler and handshakeTunnel hand over a connection whose watcher is
\* gone and whose deadline is cleared.
THEOREM HandedOverClean == Spec => []HandoverIsClean
  <1>1. HandoverInv => HandoverIsClean
    BY DEF HandoverInv
  <1> QED
    BY <1>1, Inductive, PTL

\* heartbeatLoop gives up after MissLimit heartbeats without a frame, never later, and
\* never before MissLimit - 1 of them.
THEOREM HeartbeatIsTimely == Spec => DeathIsTimely
  <1>0. MissLimit \in Nat
    BY TunnelAssumption
  <1>1. TypeOK /\ GapInv => quiet <= MissLimit
    BY <1>0 DEF TypeOK, TypeLink, GapInv
  <1>2. TypeOK /\ GapInv /\ [Next]_vars
        => [task'["heartbeat"] = "dead" /\ task["heartbeat"] # "dead" => quiet + 1 >= MissLimit]_vars
    <2> SUFFICES ASSUME TypeOK, GapInv, [Next]_vars, task'["heartbeat"] = "dead", task["heartbeat"] # "dead"
                 PROVE  quiet + 1 >= MissLimit
      OBVIOUS
    <2>1. task \in [Tasks -> {"off", "wait", "lock", "write", "count", "load", "close", "dead", "done"}]
      BY DEF TypeOK, TypeLink
    <2>2. "heartbeat" \in Tasks
      BY DEF Tasks, Loops
    <2>3. ASSUME NEW t \in Tasks, TaskStep(t) \/ Wake(t) PROVE task'["heartbeat"] # "dead" \/ task' = task
      BY <2>1, <2>2, <2>3 DEF TaskStep, LockWrite, Write, SeeClosed, Closing, BeginClose, CloseSocket,
          CloseReturns, After, Wake, Go
    <2>4. CASE CancelParent \/ ProbeTimeout \/ HandshakeTimeout \/ (\E w \in Workers : ProbeStep(w)) \/ WatcherStep
      BY <2>4 DEF CancelParent, ProbeTimeout, HandshakeTimeout, CtxFrame, ProbeStep, TakeJob, dialNodeTLS,
          CheckProbe, SendResult, SendCancelled, WorkerFrame, WatcherStep, WatcherSees, WatcherActs,
          WatcherStops, ShakeFrame, running
    <2>5. CASE CallerStep
      <3>1. CASE start
        BY <2>2, <3>1 DEF start
      <3> QED
        BY <2>5, <3>1 DEF CallerStep, ReceiveResult, ReceiveCancelled, CancelProbes, JoinWorkers,
            DrainResults,
            ReceiverFrame, dialTunnel, httpProxyDialer, CONNECT, socks5ProxyDialer, ArmProxy, socks5Handshake,
            watchContext, LeaveProxy, dialWithContext, TLSHandshake, SendHandshake, readHandshake,
            stopCancelWatch, CheckHandshake, ClearDeadline, StopWatch, Exchange, ShakeFrame, CallerCloses,
            BeginClose, CloseSocket, WaitLoops, running
    <2>6. CASE ReadFrame \/ ReadLoopWrites \/ ReadFails \/ CountHeartbeat
      BY <2>1, <2>2, <2>6 DEF ReadFrame, ReadLoopWrites, ReadFails, CountHeartbeat, Go
    <2>7. CASE LoadGap
      BY <1>0, <2>1, <2>2, <2>7 DEF LoadGap, Go, GapInv, TypeOK, TypeLink
    <2>8. CASE CloseCalled \/ UNCHANGED vars
      BY <2>8 DEF CloseCalled, vars, running
    <2> QED
      BY <2>3, <2>4, <2>5, <2>6, <2>7, <2>8 DEF Next, HeartbeatStep, Over
  <1> QED
    BY <1>1, <1>2, Inductive, PTL DEF Spec, DeathIsTimely
=============================================================================
