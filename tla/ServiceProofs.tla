--------------------------- MODULE ServiceProofs ---------------------------
(***************************************************************************)
(* Theorems about the service actor, for every value of the constants.     *)
(*                                                                         *)
(* Each ...Next lemma has one step per group of actions and, below it, one *)
(* step per action that changes what the lemma is about; the other actions *)
(* of the group leave it unchanged.                                        *)
(***************************************************************************)
EXTENDS Service, TLAPS

\* Sending on a channel that has room.
LEMMA AppendType ==
  ASSUME NEW q \in Seq(Cmd), NEW e \in Cmd, NEW n \in Nat, Len(q) < n
  PROVE  Append(q, e) \in Seq(Cmd) /\ Len(Append(q, e)) <= n
  OBVIOUS

\* Receiving from a channel that is not empty.
LEMMA TakeType ==
  ASSUME NEW q \in Seq(Cmd), NEW n \in Nat, Len(q) <= n, q # <<>>
  PROVE  Head(q) \in Cmd /\ Tail(q) \in Seq(Cmd) /\ Len(Tail(q)) <= n
  OBVIOUS

\* The actor only goes to places that exist (dispatch and the functions it calls).
LEMMA ControlNext == TypeControl /\ [Next]_vars => TypeControl'
  <1> SUFFICES ASSUME TypeControl, [Next]_vars PROVE TypeControl'
    OBVIOUS
  <1> USE DEF shared, opVars, status, fields, wait, bearer, objects, tasks, env, goto
  <1>1. CASE Dispatch \/ TakeCommand \/ TakeReport
    <2>1. CASE TakeCommand
      BY <2>1 DEF TypeControl, PCs, TakeCommand, Take
    <2>2. CASE TakeReport
      BY <2>2 DEF TypeControl, PCs, TakeReport, Take
    <2>3. CASE ClosedGate
      BY <2>3 DEF TypeControl, PCs, ClosedGate
    <2>4. CASE StopGate
      BY <2>4 DEF TypeControl, PCs, StopGate
    <2>5. CASE Reply
      BY <2>5 DEF TypeControl, PCs, Reply
    <2>6. CASE SelectClosed
      BY <2>6 DEF TypeControl, PCs, SelectClosed
    <2>7. CASE Exit
      BY <2>7 DEF TypeControl, PCs, Exit
    <2> QED
      BY <1>1, <2>1, <2>2, <2>3, <2>4, <2>5, <2>6, <2>7 DEF Dispatch
  <1>2. CASE TeardownSteps
    <2>1. CASE Teardown
      BY <2>1 DEF TypeControl, PCs, Teardown, StopTimer
    <2>2. CASE RootJoin
      BY <2>2 DEF TypeControl, PCs, RootJoin, CancelSOCKS
    <2>3. CASE SOCKSJoin
      BY <2>3 DEF TypeControl, PCs, SOCKSJoin
    <2>4. CASE TeardownL3
      BY <2>4 DEF TypeControl, PCs, TeardownL3, CancelL3
    <2>5. CASE L3Join
      BY <2>5 DEF TypeControl, PCs, L3Join
    <2>6. CASE Logout
      BY <2>6 DEF TypeControl, PCs, Logout, Release
    <2>7. CASE SetError
      BY <2>7 DEF TypeControl, PCs, SetError
    <2>8. CASE DevClose
      BY <2>8 DEF TypeControl, PCs, DevClose, Release
    <2> QED
      BY <1>2, <2>1, <2>2, <2>3, <2>4, <2>5, <2>6, <2>7, <2>8 DEF TeardownSteps
  <1>3. CASE LoginSteps
    <2>1. CASE start
      BY <2>1 DEF TypeControl, PCs, start, handlerFrame
    <2>2. CASE devices
      BY <2>2 DEF TypeControl, PCs, devices, handlerFrame
    <2>3. CASE Credentials
      BY <2>3 DEF TypeControl, PCs, Credentials, Fail
    <2>4. CASE Login
      BY <2>4 DEF TypeControl, PCs, Login, DropLogin, Release, Fail
    <2>5. CASE Verify
      BY <2>5 DEF TypeControl, PCs, Verify, DropLogin, Release, Fail
    <2>6. CASE awaitAuth
      BY <2>6 DEF TypeControl, PCs, awaitAuth
    <2>7. CASE auth
      BY <2>7 DEF TypeControl, PCs, auth, handlerFrame
    <2>8. CASE SubmitCode
      BY <2>8 DEF TypeControl, PCs, SubmitCode, Fail, StopTimer
    <2>9. CASE DeviceOp
      BY <2>9 DEF TypeControl, PCs, DeviceOp, Fail
    <2>10. CASE EnsureTrusted
      BY <2>10 DEF TypeControl, PCs, EnsureTrusted, attach, Release, Fail
    <2> QED
      BY <1>3, <2>1, <2>2, <2>3, <2>4, <2>5, <2>6, <2>7, <2>8, <2>9, <2>10 DEF LoginSteps
  <1>4. CASE EndpointSteps
    <2>1. CASE FinishConnect
      BY <2>1, ServiceAssumption DEF TypeControl, PCs, FinishConnect, attach, Release
    <2>2. CASE startSOCKS
      BY <2>2 DEF TypeControl, PCs, startSOCKS, afterSOCKS
    <2>3. CASE SOCKSWait
      BY <2>3 DEF TypeControl, PCs, SOCKSWait, afterSOCKS, CancelSOCKS
    <2>4. CASE startL3
      BY <2>4 DEF TypeControl, PCs, startL3, afterL3
    <2>5. CASE L3Dial
      BY <2>5 DEF TypeControl, PCs, L3Dial, L3Failed, afterL3
    <2>6. CASE L3Attach
      BY <2>6 DEF TypeControl, PCs, L3Attach, L3Failed, afterL3
    <2>7. CASE CheckConnect
      BY <2>7 DEF TypeControl, PCs, CheckConnect, Fail
    <2>8. CASE startEndpoint
      BY <2>8 DEF TypeControl, PCs, startEndpoint, handlerFrame
    <2>9. CASE stopEndpoint
      BY <2>9 DEF TypeControl, PCs, stopEndpoint, CancelL3, CancelSOCKS
    <2>10. CASE EndpointStopped
      BY <2>10 DEF TypeControl, PCs, EndpointStopped
    <2>11. CASE stop
      BY <2>11 DEF TypeControl, PCs, stop, handlerFrame
    <2> QED
      BY <1>4, <2>1, <2>2, <2>3, <2>4, <2>5, <2>6, <2>7, <2>8, <2>9, <2>10, <2>11 DEF
          EndpointSteps
  <1>5. CASE ReportSteps
    <2>1. CASE authTimeout
      BY <2>1 DEF TypeControl, PCs, authTimeout, handlerFrame, Fail
    <2>2. CASE tunnelDown
      BY <2>2 DEF TypeControl, PCs, tunnelDown, CancelL3, Fail
    <2>3. CASE L3Stopped
      BY <2>3 DEF TypeControl, PCs, L3Stopped
    <2>4. CASE tunnelRetry
      BY <2>4 DEF TypeControl, PCs, tunnelRetry
    <2>5. CASE tunnelRestored
      BY <2>5 DEF TypeControl, PCs, tunnelRestored
    <2>6. CASE sessionEnded
      BY <2>6 DEF TypeControl, PCs, sessionEnded, handlerFrame, Fail
    <2>7. CASE socksDown
      BY <2>7 DEF TypeControl, PCs, socksDown, CancelSOCKS
    <2>8. CASE SOCKSStopped
      BY <2>8 DEF TypeControl, PCs, SOCKSStopped, Fail
    <2> QED
      BY <1>5, <2>1, <2>2, <2>3, <2>4, <2>5, <2>6, <2>7, <2>8 DEF ReportSteps
  <1>6. CASE L3Task \/ SOCKSTask \/ RootTask
    <2>1. UNCHANGED <<pc, after, ret, epErr>>
      BY <1>6 DEF L3Task, SOCKSTask, RootTask, LinkDropped, ReportRetry, Reconnected,
          ReportRestored, GivesUp, L3SessionGone, RunCancelled, ReportDown, SOCKSRuns,
          SOCKSEnds, SOCKSSessionGone, ReportSOCKSDown, RootSees, ReportSessionEnded, TaskFrame,
          Spend, report
    <2> QED
      BY <2>1 DEF TypeControl, PCs
  <1>7. CASE CallerSteps
    <2>1. UNCHANGED <<pc, after, ret, epErr>>
      BY <1>7 DEF CallerSteps, StopStore, StopEnqueue, cancelOpRead, cancelOpCall, CloseStore,
          Call, QueuedDeadline, RunningDeadline, Spend
    <2> QED
      BY <2>1 DEF TypeControl, PCs
  <1>8. CASE Timer
    <2>1. UNCHANGED <<pc, after, ret, epErr>>
      BY <1>8 DEF Timer, TimerFires, reportAuthTimeout
    <2> QED
      BY <2>1 DEF TypeControl, PCs
  <1>9. CASE UNCHANGED vars
    BY <1>9 DEF vars, TypeControl, PCs
  <1> QED
    BY <1>1, <1>2, <1>3, <1>4, <1>5, <1>6, <1>7, <1>8, <1>9
    DEF Next, Actor, Terminated

\* The published status keeps its type.
LEMMA StatusNext == TypeStatus /\ [Next]_vars => TypeStatus'
  <1> SUFFICES ASSUME TypeStatus, [Next]_vars PROVE TypeStatus'
    OBVIOUS
  <1> USE DEF shared, opVars, status, fields, wait, bearer, objects, tasks, env, goto
  <1>1. CASE Dispatch \/ TakeCommand \/ TakeReport
    <2>1. UNCHANGED status
      BY <1>1 DEF Dispatch, TakeCommand, TakeReport, ClosedGate, StopGate, Reply, SelectClosed,
          Exit, Take
    <2> QED
      BY <2>1 DEF TypeStatus, States, status
  <1>2. CASE TeardownSteps
    <2>1. CASE Teardown
      BY <2>1 DEF TypeStatus, States, status, Teardown, StopTimer
    <2>2. CASE SetError
      BY <2>2 DEF TypeStatus, States, status, SetError
    <2>3. CASE RootJoin \/ SOCKSJoin \/ TeardownL3 \/ L3Join \/ Logout \/ DevClose
      <3>1. UNCHANGED status
        BY <2>3 DEF RootJoin, SOCKSJoin, TeardownL3, L3Join, Logout, DevClose, CancelSOCKS,
            CancelL3, Release
      <3> QED
        BY <3>1 DEF TypeStatus, States, status
    <2> QED
      BY <1>2, <2>1, <2>2, <2>3 DEF TeardownSteps
  <1>3. CASE LoginSteps
    <2>1. CASE Credentials
      BY <2>1 DEF TypeStatus, States, status, Credentials, Fail
    <2>2. CASE awaitAuth
      BY <2>2 DEF TypeStatus, States, status, awaitAuth
    <2>3. CASE DeviceOp
      BY <2>3 DEF TypeStatus, States, status, DeviceOp, Fail
    <2>4. CASE start \/ devices \/ Login \/ Verify \/ auth \/ SubmitCode \/ EnsureTrusted
      <3>1. UNCHANGED status
        BY <2>4 DEF start, devices, Login, Verify, auth, SubmitCode, EnsureTrusted,
            handlerFrame, DropLogin, Release, Fail, StopTimer, attach
      <3> QED
        BY <3>1 DEF TypeStatus, States, status
    <2> QED
      BY <1>3, <2>1, <2>2, <2>3, <2>4 DEF LoginSteps
  <1>4. CASE EndpointSteps
    <2>1. CASE FinishConnect
      BY <2>1, ServiceAssumption DEF TypeStatus, States, status, FinishConnect, attach, Release
    <2>2. CASE startSOCKS
      BY <2>2 DEF TypeStatus, States, status, startSOCKS, afterSOCKS
    <2>3. CASE SOCKSWait
      BY <2>3 DEF TypeStatus, States, status, SOCKSWait, afterSOCKS, CancelSOCKS
    <2>4. CASE startL3
      BY <2>4 DEF TypeStatus, States, status, startL3, afterL3
    <2>5. CASE L3Dial
      BY <2>5 DEF TypeStatus, States, status, L3Dial, L3Failed, afterL3
    <2>6. CASE L3Attach
      BY <2>6 DEF TypeStatus, States, status, L3Attach, L3Failed, afterL3
    <2>7. CASE CheckConnect
      BY <2>7 DEF TypeStatus, States, status, CheckConnect, Fail
    <2>8. CASE EndpointStopped
      BY <2>8 DEF TypeStatus, States, status, EndpointStopped
    <2>9. CASE startEndpoint \/ stopEndpoint \/ stop
      <3>1. UNCHANGED status
        BY <2>9 DEF startEndpoint, stopEndpoint, stop, handlerFrame, CancelL3, CancelSOCKS
      <3> QED
        BY <3>1 DEF TypeStatus, States, status
    <2> QED
      BY <1>4, <2>1, <2>2, <2>3, <2>4, <2>5, <2>6, <2>7, <2>8, <2>9 DEF EndpointSteps
  <1>5. CASE ReportSteps
    <2>1. CASE L3Stopped
      BY <2>1 DEF TypeStatus, States, status, L3Stopped
    <2>2. CASE tunnelRetry
      BY <2>2 DEF TypeStatus, States, status, tunnelRetry
    <2>3. CASE tunnelRestored
      BY <2>3 DEF TypeStatus, States, status, tunnelRestored
    <2>4. CASE SOCKSStopped
      BY <2>4 DEF TypeStatus, States, status, SOCKSStopped, Fail
    <2>5. CASE authTimeout \/ tunnelDown \/ sessionEnded \/ socksDown
      <3>1. UNCHANGED status
        BY <2>5 DEF authTimeout, tunnelDown, sessionEnded, socksDown, handlerFrame, Fail,
            CancelL3, CancelSOCKS
      <3> QED
        BY <3>1 DEF TypeStatus, States, status
    <2> QED
      BY <1>5, <2>1, <2>2, <2>3, <2>4, <2>5 DEF ReportSteps
  <1>6. CASE L3Task \/ SOCKSTask \/ RootTask
    <2>1. UNCHANGED status
      BY <1>6 DEF L3Task, SOCKSTask, RootTask, LinkDropped, ReportRetry, Reconnected,
          ReportRestored, GivesUp, L3SessionGone, RunCancelled, ReportDown, SOCKSRuns,
          SOCKSEnds, SOCKSSessionGone, ReportSOCKSDown, RootSees, ReportSessionEnded, TaskFrame,
          Spend, report
    <2> QED
      BY <2>1 DEF TypeStatus, States, status
  <1>7. CASE CallerSteps
    <2>1. UNCHANGED status
      BY <1>7 DEF CallerSteps, StopStore, StopEnqueue, cancelOpRead, cancelOpCall, CloseStore,
          Call, QueuedDeadline, RunningDeadline, Spend
    <2> QED
      BY <2>1 DEF TypeStatus, States, status
  <1>8. CASE Timer
    <2>1. UNCHANGED status
      BY <1>8 DEF Timer, TimerFires, reportAuthTimeout
    <2> QED
      BY <2>1 DEF TypeStatus, States, status
  <1>9. CASE UNCHANGED vars
    BY <1>9 DEF vars, TypeStatus, States, status
  <1> QED
    BY <1>1, <1>2, <1>3, <1>4, <1>5, <1>6, <1>7, <1>8, <1>9
    DEF Next, Actor, Terminated

\* So do the actor's private fields and the counters; l3.sess and socks.sess are
\* sessions the tasks may end.
LEMMA FieldsNext == TypeFields /\ TypeTasks /\ [Next]_vars => TypeFields'
  <1> SUFFICES ASSUME TypeFields, TypeTasks, [Next]_vars PROVE TypeFields'
    OBVIOUS
  <1> USE DEF shared, opVars, status, fields, wait, bearer, objects, tasks, env, goto
  <1>1. CASE Dispatch \/ TakeCommand \/ TakeReport
    <2>1. CASE Exit
      BY <2>1 DEF TypeFields, nil, fields, wait, bearer, objects, Exit
    <2>2. CASE TakeCommand \/ TakeReport \/ ClosedGate \/ StopGate \/ Reply \/ SelectClosed
      <3>1. UNCHANGED <<fields, cur, gen, wait, bearer, socksObj, objects, socksMade, fired>>
        BY <2>2 DEF TakeCommand, TakeReport, ClosedGate, StopGate, Reply, SelectClosed, Take
      <3> QED
        BY <3>1 DEF TypeFields, nil, fields, wait, bearer, objects
    <2> QED
      BY <1>1, <2>1, <2>2 DEF Dispatch
  <1>2. CASE TeardownSteps
    <2>1. CASE Teardown
      <3>1. gen' = gen + 1 /\ authSeq' = authSeq + 1 /\ armed' = FALSE
        BY <2>1 DEF Teardown, StopTimer
      <3>2. UNCHANGED <<made, cur, session, pend, pendDev, fired, br, bound, socksObj, socksMade,
                        held, lost, ended>>
        BY <2>1 DEF Teardown
      <3>3. gen' \in Nat /\ authSeq' \in Nat
        BY <3>1 DEF TypeFields
      <3> QED
        BY <3>1, <3>2, <3>3 DEF TypeFields
    <2>2. CASE RootJoin
      BY <2>2 DEF TypeFields, nil, fields, wait, bearer, objects, RootJoin, CancelSOCKS
    <2>3. CASE TeardownL3
      BY <2>3 DEF TypeFields, nil, fields, wait, bearer, objects, TeardownL3, CancelL3
    <2>4. CASE L3Join
      BY <2>4 DEF TypeFields, nil, fields, wait, bearer, objects, L3Join
    <2>5. CASE Logout
      BY <2>5 DEF TypeFields, nil, fields, wait, bearer, objects, Logout, Release
    <2>6. CASE DevClose
      BY <2>6 DEF TypeFields, nil, fields, wait, bearer, objects, DevClose, Release
    <2>7. CASE SOCKSJoin \/ SetError
      <3>1. UNCHANGED <<fields, cur, gen, wait, bearer, socksObj, objects, socksMade, fired>>
        BY <2>7 DEF SOCKSJoin, SetError
      <3> QED
        BY <3>1 DEF TypeFields, nil, fields, wait, bearer, objects
    <2> QED
      BY <1>2, <2>1, <2>2, <2>3, <2>4, <2>5, <2>6, <2>7 DEF TeardownSteps
  <1>3. CASE LoginSteps
    <2>1. CASE Credentials
      BY <2>1 DEF TypeFields, nil, fields, wait, bearer, objects, Credentials, Fail
    <2>2. CASE Login
      <3>1. /\ held' \subseteq held \cup {cur} /\ ended' \subseteq ended \cup {session, cur}
            /\ lost' \subseteq lost \cup {session, cur}
            /\ cur' \in {cur, nil} /\ session' \in {session, cur}
        BY <2>2 DEF Login, DropLogin, Release, nil
      <3>2. UNCHANGED <<made, pend, pendDev, gen, authSeq, armed, fired, br, bound, socksObj, socksMade>>
        BY <2>2 DEF Login
      <3>3. /\ held' \subseteq Nat /\ lost' \subseteq Nat /\ ended' \subseteq Nat /\ cur' \in Nat /\ session' \in Nat
            /\ pend' \in Nat /\ pendDev' \in BOOLEAN
        BY <3>1, <3>2 DEF TypeFields, nil
      <3> QED
        BY <3>2, <3>3 DEF TypeFields
    <2>3. CASE Verify
      <3>1. /\ held' \subseteq held /\ ended' \subseteq ended \cup {session, cur}
            /\ lost' \subseteq lost \cup {session, cur}
            /\ cur' \in {cur, nil} /\ session' \in {session, cur} /\ pend' \in {pend, cur}
        BY <2>3 DEF Verify, DropLogin, Release, nil
      <3>2. UNCHANGED <<made, gen, authSeq, armed, fired, br, bound, socksObj, socksMade>>
        BY <2>3 DEF Verify
      <3>3. pendDev' = pendDev \/ pendDev' = (cmd.kind = "Devices")
        BY <2>3 DEF Verify
      <3>4. pendDev' \in BOOLEAN
        BY <3>3 DEF TypeFields
      <3>5. held' \subseteq Nat /\ lost' \subseteq Nat /\ ended' \subseteq Nat /\ cur' \in Nat /\ session' \in Nat /\ pend' \in Nat
        BY <3>1 DEF TypeFields, nil
      <3> QED
        BY <3>2, <3>4, <3>5 DEF TypeFields
    <2>4. CASE awaitAuth
      BY <2>4 DEF TypeFields, nil, fields, wait, bearer, objects, awaitAuth
    <2>5. CASE SubmitCode
      <3>1. \/ UNCHANGED <<pend, cur, authSeq, armed>>
            \/ authSeq' = authSeq + 1 /\ armed' = FALSE /\ cur' = pend /\ pend' = nil
        BY <2>5 DEF SubmitCode, StopTimer
      <3>2. UNCHANGED <<made, session, pendDev, gen, fired, br, bound, socksObj, socksMade, held,
                        lost, ended>>
        BY <2>5 DEF SubmitCode
      <3>3. authSeq' \in Nat /\ armed' \in BOOLEAN /\ cur' \in Nat /\ pend' \in Nat
        <4>1. CASE UNCHANGED <<pend, cur, authSeq, armed>>
          BY <4>1 DEF TypeFields
        <4>2. CASE authSeq' = authSeq + 1 /\ armed' = FALSE /\ cur' = pend /\ pend' = nil
          <5>1. authSeq' \in Nat /\ cur' \in Nat /\ pend' \in Nat
            BY <4>2 DEF TypeFields, nil
          <5> QED
            BY <4>2, <5>1
        <4> QED
          BY <3>1, <4>1, <4>2
      <3> QED
        BY <3>2, <3>3 DEF TypeFields
    <2>6. CASE EnsureTrusted
      <3>1. /\ held' \subseteq held \cup {cur} /\ ended' \subseteq ended \cup {session, cur}
            /\ lost' \subseteq lost \cup {session, cur}
            /\ cur' \in {cur, nil} /\ session' \in {session, cur}
        BY <2>6 DEF EnsureTrusted, attach, DropLogin, Release, nil
      <3>2. UNCHANGED <<made, pend, pendDev, gen, authSeq, armed, fired, br, bound, socksObj, socksMade>>
        BY <2>6 DEF EnsureTrusted
      <3>3. /\ held' \subseteq Nat /\ lost' \subseteq Nat /\ ended' \subseteq Nat /\ cur' \in Nat /\ session' \in Nat
            /\ pend' \in Nat /\ pendDev' \in BOOLEAN
        BY <3>1, <3>2 DEF TypeFields, nil
      <3> QED
        BY <3>2, <3>3 DEF TypeFields
    <2>7. CASE start \/ devices \/ auth \/ DeviceOp
      <3>1. UNCHANGED <<fields, cur, gen, wait, bearer, socksObj, objects, socksMade, fired>>
        BY <2>7 DEF start, devices, auth, DeviceOp, handlerFrame, Fail
      <3> QED
        BY <3>1 DEF TypeFields, nil, fields, wait, bearer, objects
    <2> QED
      BY <1>3, <2>1, <2>2, <2>3, <2>4, <2>5, <2>6, <2>7 DEF LoginSteps
  <1>4. CASE EndpointSteps
    <2>1. CASE FinishConnect
      BY <2>1, ServiceAssumption DEF TypeFields, nil, fields, wait, bearer, objects,
          FinishConnect, attach, Release
    <2>2. CASE startSOCKS
      BY <2>2 DEF TypeFields, nil, fields, wait, bearer, objects, startSOCKS, afterSOCKS
    <2>3. CASE SOCKSWait
      BY <2>3 DEF TypeFields, nil, fields, wait, bearer, objects, SOCKSWait, afterSOCKS,
          CancelSOCKS
    <2>4. CASE startL3
      <3>1. gen' \in {gen, gen + 1} /\ bound' \in {bound, nil} /\ br' \in {br, TRUE}
        BY <2>4 DEF startL3
      <3>2. UNCHANGED <<made, cur, session, pend, pendDev, authSeq, armed, fired, socksObj,
                        socksMade, held, lost, ended>>
        BY <2>4 DEF startL3
      <3>3. gen' \in Nat /\ bound' \in Nat
        BY <3>1 DEF TypeFields, nil
      <3>4. br' \in BOOLEAN
        BY <3>1, Zenon DEF TypeFields
      <3> QED
        BY <3>2, <3>3, <3>4 DEF TypeFields
    <2>5. CASE L3Dial
      BY <2>5 DEF TypeFields, nil, fields, wait, bearer, objects, L3Dial, L3Failed, afterL3
    <2>6. CASE L3Attach
      BY <2>6 DEF TypeFields, nil, fields, wait, bearer, objects, L3Attach, L3Failed, afterL3
    <2>7. CASE stopEndpoint
      BY <2>7 DEF TypeFields, nil, fields, wait, bearer, objects, stopEndpoint, CancelL3,
          CancelSOCKS
    <2>8. CASE EndpointStopped
      BY <2>8 DEF TypeFields, nil, fields, wait, bearer, objects, EndpointStopped
    <2>9. CASE CheckConnect \/ startEndpoint \/ stop
      <3>1. UNCHANGED <<fields, cur, gen, wait, bearer, socksObj, objects, socksMade, fired>>
        BY <2>9 DEF CheckConnect, startEndpoint, stop, Fail, handlerFrame
      <3> QED
        BY <3>1 DEF TypeFields, nil, fields, wait, bearer, objects
    <2> QED
      BY <1>4, <2>1, <2>2, <2>3, <2>4, <2>5, <2>6, <2>7, <2>8, <2>9 DEF EndpointSteps
  <1>5. CASE ReportSteps
    <2>1. CASE tunnelDown
      BY <2>1 DEF TypeFields, nil, fields, wait, bearer, objects, tunnelDown, CancelL3, Fail
    <2>2. CASE socksDown
      BY <2>2 DEF TypeFields, nil, fields, wait, bearer, objects, socksDown, CancelSOCKS
    <2>3. CASE authTimeout \/ L3Stopped \/ tunnelRetry \/ tunnelRestored \/ sessionEnded \/ SOCKSStopped
      <3>1. UNCHANGED <<fields, cur, gen, wait, bearer, socksObj, objects, socksMade, fired>>
        BY <2>3 DEF authTimeout, L3Stopped, tunnelRetry, tunnelRestored, sessionEnded,
            SOCKSStopped, handlerFrame, Fail
      <3> QED
        BY <3>1 DEF TypeFields, nil, fields, wait, bearer, objects
    <2> QED
      BY <1>5, <2>1, <2>2, <2>3 DEF ReportSteps
  <1>6. CASE L3Task \/ SOCKSTask \/ RootTask
    <2>1. CASE L3SessionGone
      BY <2>1 DEF TypeFields, nil, fields, wait, bearer, objects, L3SessionGone, TaskFrame,
          Spend, TypeTasks
    <2>2. CASE SOCKSSessionGone
      BY <2>2 DEF TypeFields, nil, fields, wait, bearer, objects, SOCKSSessionGone, TaskFrame,
          Spend, TypeTasks
    <2>3. CASE LinkDropped \/ ReportRetry \/ Reconnected \/ ReportRestored \/ GivesUp \/ RunCancelled \/ ReportDown \/ SOCKSRuns \/ SOCKSEnds \/ ReportSOCKSDown \/ RootSees \/ ReportSessionEnded
      <3>1. UNCHANGED <<fields, cur, gen, wait, bearer, socksObj, objects, socksMade, fired>>
        BY <2>3 DEF LinkDropped, ReportRetry, Reconnected, ReportRestored, GivesUp,
            RunCancelled, ReportDown, SOCKSRuns, SOCKSEnds, ReportSOCKSDown, RootSees,
            ReportSessionEnded, TaskFrame, Spend, report
      <3> QED
        BY <3>1 DEF TypeFields, nil, fields, wait, bearer, objects
    <2> QED
      BY <1>6, <2>1, <2>2, <2>3 DEF L3Task, SOCKSTask, RootTask
  <1>7. CASE CallerSteps
    <2>1. UNCHANGED <<fields, cur, gen, wait, bearer, socksObj, objects, socksMade, fired>>
      BY <1>7 DEF CallerSteps, StopStore, StopEnqueue, cancelOpRead, cancelOpCall, CloseStore,
          Call, QueuedDeadline, RunningDeadline, Spend
    <2> QED
      BY <2>1 DEF TypeFields, nil, fields, wait, bearer, objects
  <1>8. CASE Timer
    <2>1. CASE TimerFires
      BY <2>1 DEF TypeFields, nil, fields, wait, bearer, objects, TimerFires
    <2>2. ASSUME NEW seq \in fired, reportAuthTimeout(seq) PROVE TypeFields'
      BY <2>2 DEF TypeFields, nil, fields, wait, bearer, objects, reportAuthTimeout
    <2> QED
      BY <1>8, <2>1, <2>2 DEF Timer
  <1>9. CASE UNCHANGED vars
    BY <1>9 DEF vars, TypeFields, nil, fields, wait, bearer, objects
  <1> QED
    BY <1>1, <1>2, <1>3, <1>4, <1>5, <1>6, <1>7, <1>8, <1>9
    DEF Next, Actor, Terminated

\* The two channels hold commands and never more than their capacity.
LEMMA QueuesNext == TypeQueues /\ TypeFields /\ TypeTasks /\ [Next]_vars => TypeQueues'
  <1> SUFFICES ASSUME TypeQueues, TypeFields, TypeTasks, [Next]_vars PROVE TypeQueues'
    OBVIOUS
  <1> USE DEF shared, opVars, status, fields, wait, bearer, objects, tasks, env, goto
  <1>1. CASE Dispatch \/ TakeCommand \/ TakeReport
    <2>1. CASE TakeCommand
      <3>1. cmds # <<>> => Head(cmds) \in Cmd /\ Tail(cmds) \in Seq(Cmd) /\ Len(Tail(cmds)) <= CmdCap
        BY TakeType, ServiceAssumption DEF TypeQueues
      <3> QED
        BY <2>1, <3>1 DEF TakeCommand, Take, TypeQueues
    <2>2. CASE TakeReport
      <3>1. events # <<>> => Head(events) \in Cmd /\ Tail(events) \in Seq(Cmd) /\ Len(Tail(events)) <= EventCap
        BY TakeType, ServiceAssumption DEF TypeQueues
      <3> QED
        BY <2>2, <3>1 DEF TakeReport, Take, TypeQueues
    <2>3. CASE Reply
      BY <2>3 DEF TypeQueues, Reply, Cmd, NoCmd, nil
    <2>4. CASE ClosedGate \/ StopGate \/ SelectClosed \/ Exit
      <3>1. UNCHANGED <<cmds, events, cmd>>
        BY <2>4 DEF ClosedGate, StopGate, SelectClosed, Exit
      <3> QED
        BY <3>1 DEF TypeQueues
    <2> QED
      BY <1>1, <2>1, <2>2, <2>3, <2>4 DEF Dispatch
  <1>2. CASE TeardownSteps
    <2>1. UNCHANGED <<cmds, events, cmd>>
      BY <1>2 DEF TeardownSteps, Teardown, RootJoin, SOCKSJoin, TeardownL3, L3Join, Logout,
          SetError, DevClose, StopTimer, CancelSOCKS, CancelL3, Release
    <2> QED
      BY <2>1 DEF TypeQueues
  <1>3. CASE LoginSteps
    <2>1. UNCHANGED <<cmds, events, cmd>>
      BY <1>3 DEF LoginSteps, start, devices, Credentials, Login, Verify, awaitAuth, auth,
          SubmitCode, DeviceOp, EnsureTrusted, handlerFrame, Fail, DropLogin, Release,
          StopTimer, attach
    <2> QED
      BY <2>1 DEF TypeQueues
  <1>4. CASE EndpointSteps
    <2>1. UNCHANGED <<cmds, events, cmd>>
      BY <1>4 DEF EndpointSteps, FinishConnect, startSOCKS, SOCKSWait, startL3, L3Dial,
          L3Attach, CheckConnect, startEndpoint, stopEndpoint, EndpointStopped, stop, attach,
          Release, afterSOCKS, CancelSOCKS, afterL3, L3Failed, Fail, handlerFrame, CancelL3
    <2> QED
      BY <2>1 DEF TypeQueues
  <1>5. CASE ReportSteps
    <2>1. UNCHANGED <<cmds, events, cmd>>
      BY <1>5 DEF ReportSteps, authTimeout, tunnelDown, L3Stopped, tunnelRetry, tunnelRestored,
          sessionEnded, socksDown, SOCKSStopped, handlerFrame, Fail, CancelL3, CancelSOCKS
    <2> QED
      BY <2>1 DEF TypeQueues
  <1>6. CASE L3Task \/ SOCKSTask \/ RootTask
    <2>1. CASE ReportRetry
      <3>1. GenReport("TunnelRetry", l3.gen, FALSE) \in Cmd
        BY DEF Cmd, NoCmd, nil, Reports, TypeTasks, GenReport
      <3>2. UNCHANGED <<cmds, cmd>>
        BY <2>1 DEF ReportRetry, TaskFrame
      <3>3. events' = events \/ (Len(events) < EventCap /\ events' = Append(events, GenReport("TunnelRetry", l3.gen, FALSE)))
        BY <2>1 DEF ReportRetry, report
      <3> QED
        BY <3>1, <3>2, <3>3, AppendType, ServiceAssumption DEF TypeQueues
    <2>2. CASE ReportRestored
      <3>1. GenReport("TunnelRestored", l3.gen, FALSE) \in Cmd
        BY DEF Cmd, NoCmd, nil, Reports, TypeTasks, GenReport
      <3>2. UNCHANGED <<cmds, cmd>>
        BY <2>2 DEF ReportRestored, TaskFrame
      <3>3. events' = events \/ (Len(events) < EventCap /\ events' = Append(events, GenReport("TunnelRestored", l3.gen, FALSE)))
        BY <2>2 DEF ReportRestored, report
      <3> QED
        BY <3>1, <3>2, <3>3, AppendType, ServiceAssumption DEF TypeQueues
    <2>3. CASE ReportDown
      <3>1. GenReport("TunnelDown", l3.gen, l3.gone) \in Cmd
        BY DEF Cmd, NoCmd, nil, Reports, TypeTasks, GenReport
      <3>2. UNCHANGED <<cmds, cmd>>
        BY <2>3 DEF ReportDown, TaskFrame
      <3>3. events' = events \/ (Len(events) < EventCap /\ events' = Append(events, GenReport("TunnelDown", l3.gen, l3.gone)))
        BY <2>3 DEF ReportDown, report
      <3> QED
        BY <3>1, <3>2, <3>3, AppendType, ServiceAssumption DEF TypeQueues
    <2>4. CASE ReportSOCKSDown
      <3>1. [NoCmd EXCEPT !.kind = "SOCKSDown", !.sess = socks.sess, !.id = socks.id] \in Cmd
        BY DEF Cmd, NoCmd, nil, Reports, TypeTasks
      <3>2. UNCHANGED <<cmds, cmd>>
        BY <2>4 DEF ReportSOCKSDown, TaskFrame
      <3>3. events' = events \/ (Len(events) < EventCap /\ events' = Append(events, [NoCmd EXCEPT !.kind = "SOCKSDown", !.sess = socks.sess, !.id = socks.id]))
        BY <2>4 DEF ReportSOCKSDown, report
      <3> QED
        BY <3>1, <3>2, <3>3, AppendType, ServiceAssumption DEF TypeQueues
    <2>5. CASE ReportSessionEnded
      <3>1. [NoCmd EXCEPT !.kind = "SessionEnded", !.sess = root.sess] \in Cmd
        BY DEF Cmd, NoCmd, nil, Reports, TypeTasks
      <3>2. UNCHANGED <<cmds, cmd>>
        BY <2>5 DEF ReportSessionEnded, TaskFrame
      <3>3. events' = events \/ (Len(events) < EventCap /\ events' = Append(events, [NoCmd EXCEPT !.kind = "SessionEnded", !.sess = root.sess]))
        BY <2>5 DEF ReportSessionEnded, report
      <3> QED
        BY <3>1, <3>2, <3>3, AppendType, ServiceAssumption DEF TypeQueues
    <2>6. CASE LinkDropped \/ Reconnected \/ GivesUp \/ L3SessionGone \/ RunCancelled \/ SOCKSRuns \/ SOCKSEnds \/ SOCKSSessionGone \/ RootSees
      <3>1. UNCHANGED <<cmds, events, cmd>>
        BY <2>6 DEF LinkDropped, Reconnected, GivesUp, L3SessionGone, RunCancelled, SOCKSRuns,
            SOCKSEnds, SOCKSSessionGone, RootSees, TaskFrame, Spend
      <3> QED
        BY <3>1 DEF TypeQueues
    <2> QED
      BY <1>6, <2>1, <2>2, <2>3, <2>4, <2>5, <2>6 DEF L3Task, SOCKSTask, RootTask
  <1>7. CASE CallerSteps
    <2>1. ASSUME NEW c \in Stoppers, StopEnqueue(c) PROVE TypeQueues'
      <3>1. UserCmd("Stop", "none") \in Cmd
        BY DEF Cmd, NoCmd, nil, UserCmd, UserKinds
      <3>2. UNCHANGED <<events, cmd>>
        BY <2>1 DEF StopEnqueue
      <3>3. cmds' = cmds \/ (Len(cmds) < CmdCap /\ cmds' = Append(cmds, UserCmd("Stop", "none")))
        BY <2>1 DEF StopEnqueue
      <3> QED
        BY <3>1, <3>2, <3>3, AppendType, ServiceAssumption DEF TypeQueues
    <2>2. ASSUME NEW kind \in {"Start", "Devices", "Auth", "EpStart", "EpStop"},
                 NEW ep \in {"none", "wg", "socks"}, Call(kind, ep)
          PROVE  TypeQueues'
      <3>1. UserCmd(kind, ep) \in Cmd
        BY DEF Cmd, NoCmd, nil, UserCmd, UserKinds
      <3> QED
        BY <2>2, <3>1, AppendType, ServiceAssumption DEF Call, TypeQueues
    <2>3. ASSUME NEW i \in 1 .. CmdCap, QueuedDeadline(i) PROVE TypeQueues'
      <3>1. i \in 1 .. Len(cmds) /\ cmds[i] \in Cmd /\ cmds' = [cmds EXCEPT ![i].dead = TRUE]
        BY <2>3 DEF QueuedDeadline, TypeQueues
      <3>2. [cmds[i] EXCEPT !.dead = TRUE] \in Cmd
        BY <3>1 DEF Cmd
      <3>3. cmds' \in Seq(Cmd) /\ Len(cmds') = Len(cmds)
        BY <3>1, <3>2 DEF TypeQueues
      <3> QED
        BY <2>3, <3>3 DEF QueuedDeadline, TypeQueues
    <2>4. CASE (\E c \in Stoppers : StopStore(c)) \/ (\E c \in Callers : cancelOpRead(c)) \/ (\E c \in Callers : cancelOpCall(c)) \/ CloseStore \/ RunningDeadline
      <3>1. UNCHANGED <<cmds, events, cmd>>
        BY <2>4 DEF StopStore, cancelOpRead, cancelOpCall, CloseStore, RunningDeadline, Spend
      <3> QED
        BY <3>1 DEF TypeQueues
    <2> QED
      BY <1>7, <2>1, <2>2, <2>3, <2>4 DEF CallerSteps
  <1>8. CASE Timer
    <2>1. ASSUME NEW seq \in fired, reportAuthTimeout(seq) PROVE TypeQueues'
      <3>1. [NoCmd EXCEPT !.kind = "AuthTimeout", !.gen = seq] \in Cmd
        BY DEF Cmd, NoCmd, nil, TypeFields
      <3>2. UNCHANGED <<events, cmd>>
        BY <2>1 DEF reportAuthTimeout
      <3>3. \/ cmds' = cmds
            \/ /\ Len(cmds) < CmdCap
               /\ cmds' = Append(cmds, [NoCmd EXCEPT !.kind = "AuthTimeout", !.gen = seq])
        BY <2>1 DEF reportAuthTimeout
      <3> QED
        BY <3>1, <3>2, <3>3, AppendType, ServiceAssumption DEF TypeQueues
    <2>2. CASE TimerFires
      <3>1. UNCHANGED <<cmds, events, cmd>>
        BY <2>2 DEF TimerFires
      <3> QED
        BY <3>1 DEF TypeQueues
    <2> QED
      BY <1>8, <2>1, <2>2 DEF Timer
  <1>9. CASE UNCHANGED vars
    BY <1>9 DEF vars, TypeQueues
  <1> QED
    BY <1>1, <1>2, <1>3, <1>4, <1>5, <1>6, <1>7, <1>8, <1>9
    DEF Next, Actor, Terminated

\* The flags and cancel functions the callers share with the actor.
LEMMA CallersNext == TypeCallers /\ [Next]_vars => TypeCallers'
  <1> SUFFICES ASSUME TypeCallers, [Next]_vars PROVE TypeCallers'
    OBVIOUS
  <1> USE DEF shared, opVars, status, fields, wait, bearer, objects, tasks, env, goto
  <1>1. CASE Dispatch \/ TakeCommand \/ TakeReport
    <2>1. CASE TakeCommand
      BY <2>1 DEF TypeCallers, Callers, opVars, TakeCommand, Take
    <2>2. CASE TakeReport
      BY <2>2 DEF TypeCallers, Callers, opVars, TakeReport, Take
    <2>3. CASE Reply
      BY <2>3 DEF TypeCallers, Callers, opVars, Reply
    <2>4. CASE ClosedGate \/ StopGate \/ SelectClosed \/ Exit
      <3>1. UNCHANGED <<closed, stopPending, caller, holds, opVars, budget>>
        BY <2>4 DEF ClosedGate, StopGate, SelectClosed, Exit
      <3> QED
        BY <3>1 DEF TypeCallers, Callers, opVars
    <2> QED
      BY <1>1, <2>1, <2>2, <2>3, <2>4 DEF Dispatch
  <1>2. CASE TeardownSteps
    <2>1. UNCHANGED <<closed, stopPending, caller, holds, opVars, budget>>
      BY <1>2 DEF TeardownSteps, Teardown, RootJoin, SOCKSJoin, TeardownL3, L3Join, Logout,
          SetError, DevClose, StopTimer, CancelSOCKS, CancelL3, Release
    <2> QED
      BY <2>1 DEF TypeCallers, Callers, opVars
  <1>3. CASE LoginSteps
    <2>1. UNCHANGED <<closed, stopPending, caller, holds, opVars, budget>>
      BY <1>3 DEF LoginSteps, start, devices, Credentials, Login, Verify, awaitAuth, auth,
          SubmitCode, DeviceOp, EnsureTrusted, handlerFrame, Fail, DropLogin, Release,
          StopTimer, attach
    <2> QED
      BY <2>1 DEF TypeCallers, Callers, opVars
  <1>4. CASE EndpointSteps
    <2>1. CASE stop
      BY <2>1 DEF TypeCallers, Callers, opVars, stop, handlerFrame
    <2>2. CASE FinishConnect \/ startSOCKS \/ SOCKSWait \/ startL3 \/ L3Dial \/ L3Attach \/ CheckConnect \/ startEndpoint \/ stopEndpoint \/ EndpointStopped
      <3>1. UNCHANGED <<closed, stopPending, caller, holds, opVars, budget>>
        BY <2>2 DEF FinishConnect, startSOCKS, SOCKSWait, startL3, L3Dial, L3Attach,
            CheckConnect, startEndpoint, stopEndpoint, EndpointStopped, attach, Release,
            afterSOCKS, CancelSOCKS, afterL3, L3Failed, Fail, handlerFrame, CancelL3
      <3> QED
        BY <3>1 DEF TypeCallers, Callers, opVars
    <2> QED
      BY <1>4, <2>1, <2>2 DEF EndpointSteps
  <1>5. CASE ReportSteps
    <2>1. UNCHANGED <<closed, stopPending, caller, holds, opVars, budget>>
      BY <1>5 DEF ReportSteps, authTimeout, tunnelDown, L3Stopped, tunnelRetry, tunnelRestored,
          sessionEnded, socksDown, SOCKSStopped, handlerFrame, Fail, CancelL3, CancelSOCKS
    <2> QED
      BY <2>1 DEF TypeCallers, Callers, opVars
  <1>6. CASE L3Task \/ SOCKSTask \/ RootTask
    <2>1. CASE LinkDropped
      BY <2>1 DEF TypeCallers, Callers, opVars, LinkDropped, TaskFrame, Spend
    <2>2. CASE GivesUp
      BY <2>2 DEF TypeCallers, Callers, opVars, GivesUp, TaskFrame, Spend
    <2>3. CASE L3SessionGone
      BY <2>3 DEF TypeCallers, Callers, opVars, L3SessionGone, TaskFrame, Spend
    <2>4. CASE SOCKSEnds
      BY <2>4 DEF TypeCallers, Callers, opVars, SOCKSEnds, TaskFrame, Spend
    <2>5. CASE SOCKSSessionGone
      BY <2>5 DEF TypeCallers, Callers, opVars, SOCKSSessionGone, TaskFrame, Spend
    <2>6. CASE ReportRetry \/ Reconnected \/ ReportRestored \/ RunCancelled \/ ReportDown \/ SOCKSRuns \/ ReportSOCKSDown \/ RootSees \/ ReportSessionEnded
      <3>1. UNCHANGED <<closed, stopPending, caller, holds, opVars, budget>>
        BY <2>6 DEF ReportRetry, Reconnected, ReportRestored, RunCancelled, ReportDown,
            SOCKSRuns, ReportSOCKSDown, RootSees, ReportSessionEnded, TaskFrame, report
      <3> QED
        BY <3>1 DEF TypeCallers, Callers, opVars
    <2> QED
      BY <1>6, <2>1, <2>2, <2>3, <2>4, <2>5, <2>6 DEF L3Task, SOCKSTask, RootTask
  <1>7. CASE CallerSteps
    <2>1. ASSUME NEW c \in Stoppers, StopStore(c) PROVE TypeCallers'
      BY <2>1 DEF TypeCallers, Callers, opVars, StopStore, Spend
    <2>2. ASSUME NEW c \in Stoppers, StopEnqueue(c) PROVE TypeCallers'
      BY <2>2, ServiceAssumption DEF TypeCallers, Callers, opVars, StopEnqueue, Spend
    <2>3. ASSUME NEW c \in Callers, cancelOpRead(c) PROVE TypeCallers'
      BY <2>3 DEF TypeCallers, Callers, opVars, cancelOpRead
    <2>4. ASSUME NEW c \in Callers, cancelOpCall(c) PROVE TypeCallers'
      BY <2>4 DEF TypeCallers, Callers, opVars, cancelOpCall
    <2>5. CASE CloseStore
      BY <2>5 DEF TypeCallers, Callers, opVars, CloseStore
    <2>6. ASSUME NEW kind \in {"Start", "Devices", "Auth", "EpStart", "EpStop"},
                 NEW ep \in {"none", "wg", "socks"}, Call(kind, ep)
          PROVE  TypeCallers'
      BY <2>6, ServiceAssumption DEF TypeCallers, Callers, opVars, Call, Spend
    <2>7. ASSUME NEW i \in 1 .. CmdCap, QueuedDeadline(i) PROVE TypeCallers'
      BY <2>7, ServiceAssumption DEF TypeCallers, Callers, opVars, QueuedDeadline, Spend
    <2>8. CASE RunningDeadline
      BY <2>8 DEF TypeCallers, Callers, opVars, RunningDeadline, Spend
    <2> QED
      BY <1>7, <2>1, <2>2, <2>3, <2>4, <2>5, <2>6, <2>7, <2>8 DEF CallerSteps
  <1>8. CASE Timer
    <2>1. UNCHANGED <<closed, stopPending, caller, holds, opVars, budget>>
      BY <1>8 DEF Timer, TimerFires, reportAuthTimeout
    <2> QED
      BY <2>1 DEF TypeCallers, Callers, opVars
  <1>9. CASE UNCHANGED vars
    BY <1>9 DEF vars, TypeCallers, Callers, opVars
  <1> QED
    BY <1>1, <1>2, <1>3, <1>4, <1>5, <1>6, <1>7, <1>8, <1>9
    DEF Next, Actor, Terminated

\* The goroutines the actor starts, waits for and forgets.
LEMMA TasksNext == TypeTasks /\ TypeFields /\ [Next]_vars => TypeTasks'
  <1> SUFFICES ASSUME TypeTasks, TypeFields, [Next]_vars PROVE TypeTasks'
    OBVIOUS
  <1> USE DEF shared, opVars, status, fields, wait, bearer, objects, tasks, env, goto
  <1>1. CASE Dispatch \/ TakeCommand \/ TakeReport
    <2>1. UNCHANGED <<l3, socks, root>>
      BY <1>1 DEF Dispatch, TakeCommand, TakeReport, ClosedGate, StopGate, Reply, SelectClosed,
          Exit, Take
    <2> QED
      BY <2>1 DEF TypeTasks, NoRoot, NoSOCKS, NoL3, nil
  <1>2. CASE TeardownSteps
    <2>1. CASE Teardown
      BY <2>1 DEF TypeTasks, NoRoot, NoSOCKS, NoL3, nil, Teardown, StopTimer
    <2>2. CASE RootJoin
      BY <2>2 DEF TypeTasks, NoRoot, NoSOCKS, NoL3, nil, RootJoin, CancelSOCKS
    <2>3. CASE SOCKSJoin
      BY <2>3 DEF TypeTasks, NoRoot, NoSOCKS, NoL3, nil, SOCKSJoin
    <2>4. CASE TeardownL3
      BY <2>4 DEF TypeTasks, NoRoot, NoSOCKS, NoL3, nil, TeardownL3, CancelL3
    <2>5. CASE L3Join
      BY <2>5 DEF TypeTasks, NoRoot, NoSOCKS, NoL3, nil, L3Join
    <2>6. CASE Logout \/ SetError \/ DevClose
      <3>1. UNCHANGED <<l3, socks, root>>
        BY <2>6 DEF Logout, SetError, DevClose, Release
      <3> QED
        BY <3>1 DEF TypeTasks, NoRoot, NoSOCKS, NoL3, nil
    <2> QED
      BY <1>2, <2>1, <2>2, <2>3, <2>4, <2>5, <2>6 DEF TeardownSteps
  <1>3. CASE LoginSteps
    <2>1. UNCHANGED <<l3, socks, root>>
      BY <1>3 DEF LoginSteps, start, devices, Credentials, Login, Verify, awaitAuth, auth,
          SubmitCode, DeviceOp, EnsureTrusted, handlerFrame, Fail, DropLogin, Release,
          StopTimer, attach
    <2> QED
      BY <2>1 DEF TypeTasks, NoRoot, NoSOCKS, NoL3, nil
  <1>4. CASE EndpointSteps
    <2>1. CASE startSOCKS
      <3>1. UNCHANGED <<l3, root>>
        BY <2>1 DEF startSOCKS
      <3>2. \/ socks' = socks \/ socks' = NoSOCKS
            \/ socks' = [phase |-> "starting", id |-> socksObj', sess |-> session,
                         cancelled |-> FALSE]
        BY <2>1 DEF startSOCKS
      <3>3. session \in Nat /\ socksObj' \in Nat
        BY <2>1 DEF TypeFields, startSOCKS
      <3>4. CASE socks' = socks
        BY <3>1, <3>4 DEF TypeTasks
      <3>5. CASE socks' = NoSOCKS
        BY <3>1, <3>5 DEF TypeTasks, NoSOCKS, nil
      <3>6. CASE socks' = [phase |-> "starting", id |-> socksObj', sess |-> session,
                           cancelled |-> FALSE]
        BY <3>1, <3>3, <3>6 DEF TypeTasks
      <3> QED
        BY <3>2, <3>4, <3>5, <3>6
    <2>2. CASE SOCKSWait
      BY <2>2 DEF TypeTasks, NoRoot, NoSOCKS, NoL3, nil, SOCKSWait, afterSOCKS, CancelSOCKS
    <2>3. CASE startL3
      <3>1. UNCHANGED <<socks, root>> /\ l3' \in {l3, NoL3}
        BY <2>3 DEF startL3
      <3>2. CASE l3' = l3
        BY <3>1, <3>2 DEF TypeTasks
      <3>3. CASE l3' = NoL3
        BY <3>1, <3>3 DEF TypeTasks, NoL3, nil
      <3> QED
        BY <3>1, <3>2, <3>3
    <2>4. CASE L3Attach
      <3>1. UNCHANGED <<socks, root>>
        BY <2>4 DEF L3Attach
      <3>2. \/ l3' = l3
            \/ l3' = [phase |-> "run", gen |-> gen + 1, sess |-> session, gone |-> FALSE,
                      cancelled |-> FALSE]
        BY <2>4 DEF L3Attach
      <3>3. session \in Nat /\ gen + 1 \in Nat
        BY DEF TypeFields
      <3>4. CASE l3' = l3
        BY <3>1, <3>4 DEF TypeTasks
      <3>5. CASE l3' = [phase |-> "run", gen |-> gen + 1, sess |-> session, gone |-> FALSE,
                        cancelled |-> FALSE]
        BY <3>1, <3>3, <3>5 DEF TypeTasks
      <3> QED
        BY <3>2, <3>4, <3>5
    <2>5. CASE CheckConnect
      <3>1. UNCHANGED <<l3, socks>>
        BY <2>5 DEF CheckConnect
      <3>2. \/ root' = root
            \/ root' = [phase |-> "watch", sess |-> session, cancelled |-> FALSE]
        BY <2>5 DEF CheckConnect
      <3>3. session \in Nat
        BY DEF TypeFields
      <3>4. CASE root' = root
        BY <3>1, <3>4 DEF TypeTasks
      <3>5. CASE root' = [phase |-> "watch", sess |-> session, cancelled |-> FALSE]
        BY <3>1, <3>3, <3>5 DEF TypeTasks
      <3> QED
        BY <3>2, <3>4, <3>5
    <2>6. CASE stopEndpoint
      BY <2>6 DEF TypeTasks, NoRoot, NoSOCKS, NoL3, nil, stopEndpoint, CancelL3, CancelSOCKS
    <2>7. CASE FinishConnect \/ L3Dial \/ startEndpoint \/ EndpointStopped \/ stop
      <3>1. UNCHANGED <<l3, socks, root>>
        BY <2>7 DEF FinishConnect, L3Dial, startEndpoint, EndpointStopped, stop, attach,
            Release, L3Failed, afterL3, handlerFrame
      <3> QED
        BY <3>1 DEF TypeTasks, NoRoot, NoSOCKS, NoL3, nil
    <2> QED
      BY <1>4, <2>1, <2>2, <2>3, <2>4, <2>5, <2>6, <2>7 DEF EndpointSteps
  <1>5. CASE ReportSteps
    <2>1. CASE tunnelDown
      BY <2>1 DEF TypeTasks, NoRoot, NoSOCKS, NoL3, nil, tunnelDown, CancelL3, Fail
    <2>2. CASE socksDown
      BY <2>2 DEF TypeTasks, NoRoot, NoSOCKS, NoL3, nil, socksDown, CancelSOCKS
    <2>3. CASE authTimeout \/ L3Stopped \/ tunnelRetry \/ tunnelRestored \/ sessionEnded \/ SOCKSStopped
      <3>1. UNCHANGED <<l3, socks, root>>
        BY <2>3 DEF authTimeout, L3Stopped, tunnelRetry, tunnelRestored, sessionEnded,
            SOCKSStopped, handlerFrame, Fail
      <3> QED
        BY <3>1 DEF TypeTasks, NoRoot, NoSOCKS, NoL3, nil
    <2> QED
      BY <1>5, <2>1, <2>2, <2>3 DEF ReportSteps
  <1>6. CASE L3Task \/ SOCKSTask \/ RootTask
    <2>1. CASE LinkDropped
      BY <2>1 DEF TypeTasks, NoRoot, NoSOCKS, NoL3, nil, LinkDropped, TaskFrame, Spend
    <2>2. CASE ReportRetry
      BY <2>2 DEF TypeTasks, NoRoot, NoSOCKS, NoL3, nil, ReportRetry, TaskFrame, report
    <2>3. CASE Reconnected
      BY <2>3 DEF TypeTasks, NoRoot, NoSOCKS, NoL3, nil, Reconnected, TaskFrame
    <2>4. CASE ReportRestored
      BY <2>4 DEF TypeTasks, NoRoot, NoSOCKS, NoL3, nil, ReportRestored, TaskFrame, report
    <2>5. CASE GivesUp
      BY <2>5 DEF TypeTasks, NoRoot, NoSOCKS, NoL3, nil, GivesUp, TaskFrame, Spend
    <2>6. CASE L3SessionGone
      BY <2>6 DEF TypeTasks, NoRoot, NoSOCKS, NoL3, nil, L3SessionGone, TaskFrame, Spend
    <2>7. CASE RunCancelled
      BY <2>7 DEF TypeTasks, NoRoot, NoSOCKS, NoL3, nil, RunCancelled, TaskFrame
    <2>8. CASE ReportDown
      BY <2>8 DEF TypeTasks, NoRoot, NoSOCKS, NoL3, nil, ReportDown, TaskFrame, report
    <2>9. CASE SOCKSRuns
      BY <2>9 DEF TypeTasks, NoRoot, NoSOCKS, NoL3, nil, SOCKSRuns, TaskFrame
    <2>10. CASE SOCKSEnds
      BY <2>10 DEF TypeTasks, NoRoot, NoSOCKS, NoL3, nil, SOCKSEnds, TaskFrame, Spend
    <2>11. CASE ReportSOCKSDown
      BY <2>11 DEF TypeTasks, NoRoot, NoSOCKS, NoL3, nil, ReportSOCKSDown, TaskFrame, report
    <2>12. CASE RootSees
      BY <2>12 DEF TypeTasks, NoRoot, NoSOCKS, NoL3, nil, RootSees, TaskFrame
    <2>13. CASE ReportSessionEnded
      BY <2>13 DEF TypeTasks, NoRoot, NoSOCKS, NoL3, nil, ReportSessionEnded, TaskFrame, report
    <2>14. CASE SOCKSSessionGone
      <3>1. UNCHANGED <<l3, socks, root>>
        BY <2>14 DEF SOCKSSessionGone, TaskFrame, Spend
      <3> QED
        BY <3>1 DEF TypeTasks, NoRoot, NoSOCKS, NoL3, nil
    <2> QED
      BY <1>6, <2>1, <2>2, <2>3, <2>4, <2>5, <2>6, <2>7, <2>8, <2>9, <2>10, <2>11, <2>12, <2>13,
          <2>14 DEF L3Task, SOCKSTask, RootTask
  <1>7. CASE CallerSteps
    <2>1. UNCHANGED <<l3, socks, root>>
      BY <1>7 DEF CallerSteps, StopStore, StopEnqueue, cancelOpRead, cancelOpCall, CloseStore,
          Call, QueuedDeadline, RunningDeadline, Spend
    <2> QED
      BY <2>1 DEF TypeTasks, NoRoot, NoSOCKS, NoL3, nil
  <1>8. CASE Timer
    <2>1. UNCHANGED <<l3, socks, root>>
      BY <1>8 DEF Timer, TimerFires, reportAuthTimeout
    <2> QED
      BY <2>1 DEF TypeTasks, NoRoot, NoSOCKS, NoL3, nil
  <1>9. CASE UNCHANGED vars
    BY <1>9 DEF vars, TypeTasks, NoRoot, NoSOCKS, NoL3, nil
  <1> QED
    BY <1>1, <1>2, <1>3, <1>4, <1>5, <1>6, <1>7, <1>8, <1>9
    DEF Next, Actor, Terminated

\* New leaves every field in its type.
LEMMA TypeInit == Init => TypeOK
  <1> SUFFICES ASSUME Init PROVE TypeOK
    OBVIOUS
  <1>1. TypeQueues
    BY ServiceAssumption DEF Init, TypeQueues, Cmd, NoCmd, nil
  <1>2. TypeCallers
    <2>1. budget \in [{"call", "stop", "fault", "expire"} -> Nat]
      <3>1. budget = [call |-> MaxCalls, stop |-> MaxStops, fault |-> MaxFaults, expire |-> MaxExpiries]
        BY DEF Init
      <3> QED
        BY <3>1, ServiceAssumption
    <2>2. caller \in [Callers -> {"idle", "stored", "read", "waiting"}]
      BY DEF Init
    <2>3. holds \in [Callers -> BOOLEAN]
      BY DEF Init
    <2> QED
      BY <2>1, <2>2, <2>3 DEF Init, TypeCallers
  <1>3. TypeControl /\ TypeStatus
    BY ServiceAssumption DEF Init, TypeControl, PCs, TypeStatus, States
  <1>4. TypeFields
    <2>1. br \in BOOLEAN
      BY ServiceAssumption DEF Init
    <2>2. socksObj \in Nat /\ socksMade \in Nat
      BY DEF Init
    <2> QED
      BY <2>1, <2>2 DEF Init, TypeFields, nil
  <1>5. TypeTasks
    BY DEF Init, TypeTasks, NoL3, NoSOCKS, NoRoot, nil
  <1> QED
    BY <1>1, <1>2, <1>3, <1>4, <1>5 DEF TypeOK

\* Every variable keeps its type, whatever the configuration, the queue capacities
\* and the number of calls, failures and expired deadlines.
THEOREM TypeCorrect == Spec => []TypeOK
  <1>1. TypeOK /\ [Next]_vars => TypeOK'
    BY ControlNext, StatusNext, FieldsNext, QueuesNext, CallersNext, TasksNext DEF TypeOK
  <1> QED
    BY TypeInit, <1>1, PTL DEF Spec

\* SlotInv is inductive.  The task and caller goroutines never touch a login; of
\* the actor's steps, only Logout needs to know where teardown may continue.
LEMMA SlotNext == SlotInv /\ TypeControl /\ [Next]_vars => SlotInv'
  <1> SUFFICES ASSUME SlotInv, TypeControl, [Next]_vars PROVE SlotInv'
    OBVIOUS
  <1> USE DEF shared, opVars, status, fields, wait, bearer, objects, tasks, env, goto
  <1>1. CASE Dispatch \/ TakeCommand \/ TakeReport
    <2>1. CASE TakeCommand
      BY <2>1 DEF SlotInv, nil, TakeCommand, Take
    <2>2. CASE TakeReport
      BY <2>2 DEF SlotInv, nil, TakeReport, Take
    <2>3. CASE ClosedGate
      BY <2>3 DEF SlotInv, nil, ClosedGate
    <2>4. CASE StopGate
      BY <2>4 DEF SlotInv, nil, StopGate
    <2>5. CASE Reply
      BY <2>5 DEF SlotInv, nil, Reply
    <2>6. CASE SelectClosed
      BY <2>6 DEF SlotInv, nil, SelectClosed
    <2>7. CASE Exit
      BY <2>7 DEF SlotInv, nil, Exit
    <2> QED
      BY <1>1, <2>1, <2>2, <2>3, <2>4, <2>5, <2>6, <2>7 DEF Dispatch
  <1>2. CASE TeardownSteps
    <2>1. CASE Teardown
      BY <2>1 DEF SlotInv, nil, Teardown, StopTimer
    <2>2. CASE RootJoin
      BY <2>2 DEF SlotInv, nil, RootJoin, CancelSOCKS
    <2>3. CASE SOCKSJoin
      BY <2>3 DEF SlotInv, nil, SOCKSJoin
    <2>4. CASE TeardownL3
      BY <2>4 DEF SlotInv, nil, TeardownL3, CancelL3
    <2>5. CASE L3Join
      BY <2>5 DEF SlotInv, nil, L3Join
    <2>6. CASE Logout
      BY <2>6 DEF SlotInv, nil, Logout, Release, TypeControl
    <2>7. CASE SetError
      BY <2>7 DEF SlotInv, nil, SetError
    <2>8. CASE DevClose
      BY <2>8 DEF SlotInv, nil, DevClose, Release
    <2> QED
      BY <1>2, <2>1, <2>2, <2>3, <2>4, <2>5, <2>6, <2>7, <2>8 DEF TeardownSteps
  <1>3. CASE LoginSteps
    <2>1. CASE start
      BY <2>1 DEF SlotInv, nil, start, handlerFrame
    <2>2. CASE devices
      BY <2>2 DEF SlotInv, nil, devices, handlerFrame
    <2>3. CASE Credentials
      BY <2>3 DEF SlotInv, nil, Credentials, Fail
    <2>4. CASE Login
      BY <2>4 DEF SlotInv, nil, Login, DropLogin, Release, Fail
    <2>5. CASE Verify
      BY <2>5 DEF SlotInv, nil, Verify, DropLogin, Release, Fail
    <2>6. CASE awaitAuth
      BY <2>6 DEF SlotInv, nil, awaitAuth
    <2>7. CASE auth
      BY <2>7 DEF SlotInv, nil, auth, handlerFrame
    <2>8. CASE SubmitCode
      BY <2>8 DEF SlotInv, nil, SubmitCode, Fail, StopTimer
    <2>9. CASE DeviceOp
      BY <2>9 DEF SlotInv, nil, DeviceOp, Fail
    <2>10. CASE EnsureTrusted
      BY <2>10 DEF SlotInv, nil, EnsureTrusted, attach, Release, Fail
    <2> QED
      BY <1>3, <2>1, <2>2, <2>3, <2>4, <2>5, <2>6, <2>7, <2>8, <2>9, <2>10 DEF LoginSteps
  <1>4. CASE EndpointSteps
    <2>1. CASE FinishConnect
      BY <2>1 DEF SlotInv, nil, FinishConnect, attach, Release
    <2>2. CASE startSOCKS
      BY <2>2 DEF SlotInv, nil, startSOCKS, afterSOCKS
    <2>3. CASE SOCKSWait
      BY <2>3 DEF SlotInv, nil, SOCKSWait, afterSOCKS, CancelSOCKS
    <2>4. CASE startL3
      BY <2>4 DEF SlotInv, nil, startL3, afterL3
    <2>5. CASE L3Dial
      BY <2>5 DEF SlotInv, nil, L3Dial, L3Failed, afterL3
    <2>6. CASE L3Attach
      BY <2>6 DEF SlotInv, nil, L3Attach, L3Failed, afterL3
    <2>7. CASE CheckConnect
      BY <2>7 DEF SlotInv, nil, CheckConnect, Fail
    <2>8. CASE startEndpoint
      BY <2>8 DEF SlotInv, nil, startEndpoint, handlerFrame
    <2>9. CASE stopEndpoint
      BY <2>9 DEF SlotInv, nil, stopEndpoint, CancelL3, CancelSOCKS
    <2>10. CASE EndpointStopped
      BY <2>10 DEF SlotInv, nil, EndpointStopped
    <2>11. CASE stop
      BY <2>11 DEF SlotInv, nil, stop, handlerFrame
    <2> QED
      BY <1>4, <2>1, <2>2, <2>3, <2>4, <2>5, <2>6, <2>7, <2>8, <2>9, <2>10, <2>11 DEF
          EndpointSteps
  <1>5. CASE ReportSteps
    <2>1. CASE authTimeout
      BY <2>1 DEF SlotInv, nil, authTimeout, handlerFrame, Fail
    <2>2. CASE tunnelDown
      BY <2>2 DEF SlotInv, nil, tunnelDown, CancelL3, Fail
    <2>3. CASE L3Stopped
      BY <2>3 DEF SlotInv, nil, L3Stopped
    <2>4. CASE tunnelRetry
      BY <2>4 DEF SlotInv, nil, tunnelRetry
    <2>5. CASE tunnelRestored
      BY <2>5 DEF SlotInv, nil, tunnelRestored
    <2>6. CASE sessionEnded
      BY <2>6 DEF SlotInv, nil, sessionEnded, handlerFrame, Fail
    <2>7. CASE socksDown
      BY <2>7 DEF SlotInv, nil, socksDown, CancelSOCKS
    <2>8. CASE SOCKSStopped
      BY <2>8 DEF SlotInv, nil, SOCKSStopped, Fail
    <2> QED
      BY <1>5, <2>1, <2>2, <2>3, <2>4, <2>5, <2>6, <2>7, <2>8 DEF ReportSteps
  <1>6. CASE L3Task \/ SOCKSTask \/ RootTask
    <2>1. UNCHANGED <<made, held, session, pend, cur, pc, ret, after, state>>
      BY <1>6 DEF L3Task, SOCKSTask, RootTask, LinkDropped, ReportRetry, Reconnected,
          ReportRestored, GivesUp, L3SessionGone, RunCancelled, ReportDown, SOCKSRuns,
          SOCKSEnds, SOCKSSessionGone, ReportSOCKSDown, RootSees, ReportSessionEnded, TaskFrame,
          Spend, report
    <2> QED
      BY <2>1 DEF SlotInv, nil
  <1>7. CASE CallerSteps
    <2>1. UNCHANGED <<made, held, session, pend, cur, pc, ret, after, state>>
      BY <1>7 DEF CallerSteps, StopStore, StopEnqueue, cancelOpRead, cancelOpCall, CloseStore,
          Call, QueuedDeadline, RunningDeadline, Spend
    <2> QED
      BY <2>1 DEF SlotInv, nil
  <1>8. CASE Timer
    <2>1. UNCHANGED <<made, held, session, pend, cur, pc, ret, after, state>>
      BY <1>8 DEF Timer, TimerFires, reportAuthTimeout
    <2> QED
      BY <2>1 DEF SlotInv, nil
  <1>9. CASE UNCHANGED vars
    BY <1>9 DEF vars, SlotInv, nil
  <1> QED
    BY <1>1, <1>2, <1>3, <1>4, <1>5, <1>6, <1>7, <1>8, <1>9
    DEF Next, Actor, Terminated

\* SlotInv holds throughout.
LEMMA SlotInvariant == Spec => []SlotInv
  <1>1. Init => SlotInv
    BY DEF Init, SlotInv, nil
  <1>2. TypeOK /\ SlotInv /\ [Next]_vars => SlotInv'
    BY SlotNext DEF TypeOK
  <1> QED
    BY <1>1, <1>2, TypeCorrect, PTL DEF Spec

\* The account's only slot: whatever commands are queued, cancelled or fail, the
\* service never keeps two logins, and a login whose Close has not run is one it has
\* at hand to close (service.go: start, devices, auth, attach, teardown).  It says nothing
\* of a login whose logout failed: nobody keeps that one (lost).
THEOREM OneLogin == Spec => [](SlotHasOwner /\ OneSlot)
  <1>1. TypeControl /\ SlotInv => SlotHasOwner
    BY DEF SlotInv, SlotHasOwner
  <1>2. TypeControl /\ SlotInv => OneSlot
    <2> SUFFICES ASSUME TypeControl, SlotInv PROVE OneSlot
      OBVIOUS
    <2>1. \/ session = nil /\ pend = nil
          \/ session = nil /\ cur = nil
          \/ pend = nil /\ cur = nil
      BY DEF TypeControl, PCs, SlotInv
    <2> QED
      BY <2>1 DEF SlotInv, OneSlot
  <1> QED
    BY <1>1, <1>2, SlotInvariant, TypeCorrect, PTL DEF TypeOK

\* How a step may change the logins: the session that the actor is working on (cur) is
\* entered; some are given up, and the server may go on counting those; or the login in
\* progress is given up, whether or not the server had accepted it.
HeldStep ==
    \/ UNCHANGED <<held, lost>>
    \/ held' = held \cup {cur} /\ lost' = lost
    \/ held' \subseteq held /\ \E failed \in SUBSET (held \ held') : lost' = lost \cup failed
    \/ pc \in {"login", "verify"} /\ held' = {} /\ lost' \in {lost, lost \cup {cur}}

LEMMA HeldSteps == SlotInv /\ TypeControl /\ [Next]_vars => HeldStep
  <1> SUFFICES ASSUME SlotInv, TypeControl, [Next]_vars
               PROVE  HeldStep
    OBVIOUS
  <1> USE DEF HeldStep
  <1> USE DEF shared, opVars, status, fields, wait, bearer, objects, tasks, env, goto
  <1>1. CASE Dispatch \/ TakeCommand \/ TakeReport
    BY <1>1 DEF Dispatch, TakeCommand, TakeReport, Take, ClosedGate, StopGate, Reply, SelectClosed, Exit
  <1>2. ASSUME NEW S, Release(S, held) PROVE HeldStep
    <2>1. PICK failed \in SUBSET (S \cap held) : lost' = lost \cup failed
      BY <1>2 DEF Release
    <2>2. held' \subseteq held /\ failed \in SUBSET (held \ held')
      BY <1>2, <2>1 DEF Release
    <2> QED
      BY <2>1, <2>2
  <1>3. CASE TeardownSteps
    <2>1. CASE Logout \/ DevClose
      BY <1>2, <2>1 DEF Logout, DevClose
    <2>2. CASE Teardown \/ RootJoin \/ SOCKSJoin \/ TeardownL3 \/ L3Join \/ SetError
      BY <2>2 DEF Teardown, RootJoin, SOCKSJoin, TeardownL3, L3Join, SetError, StopTimer, CancelSOCKS,
          CancelL3
    <2> QED
      BY <1>3, <2>1, <2>2 DEF TeardownSteps
  <1>4. CASE LoginSteps
    <2>1. CASE Login \/ Verify
      <3>1. CASE DropLogin
        <4>1. pc \in {"login", "verify"} /\ session = nil /\ cur # nil /\ held \subseteq {cur}
          BY <2>1 DEF Login, Verify, SlotInv
        <4>2. PICK S \in {{cur}, {cur, session}} : Release(S, held \cup {cur})
          BY <3>1 DEF DropLogin
        <4>3. PICK failed \in SUBSET (S \cap (held \cup {cur})) : lost' = lost \cup failed
          BY <4>2 DEF Release
        <4>4. failed \subseteq {cur}
          BY <4>1, <4>3
        <4>5. lost' \in {lost, lost \cup {cur}}
          BY <4>3, <4>4
        <4>6. held' = {}
          BY <4>1, <4>2 DEF Release
        <4> QED
          BY <4>1, <4>5, <4>6
      <3>2. CASE ~DropLogin
        BY <2>1, <3>2 DEF Login, Verify
      <3> QED
        BY <3>1, <3>2
    <2>2. CASE EnsureTrusted
      <3>1. Release({session} \ {cur}, held) \/ UNCHANGED <<held, lost>>
        BY <2>2 DEF EnsureTrusted, attach
      <3> QED
        BY <1>2, <3>1
    <2>3. CASE start \/ devices \/ Credentials \/ awaitAuth \/ auth \/ SubmitCode \/ DeviceOp
      BY <2>3 DEF start, devices, Credentials, awaitAuth, auth, SubmitCode, DeviceOp, handlerFrame, Fail
    <2> QED
      BY <1>4, <2>1, <2>2, <2>3 DEF LoginSteps
  <1>5. CASE EndpointSteps
    <2>1. CASE FinishConnect
      BY <1>2, <2>1 DEF FinishConnect, attach
    <2>2. CASE ~FinishConnect
      BY <1>5, <2>2 DEF EndpointSteps, startSOCKS, SOCKSWait, startL3, L3Dial, L3Attach, CheckConnect,
          startEndpoint, stopEndpoint, EndpointStopped, stop, handlerFrame
    <2> QED
      BY <2>1, <2>2
  <1>6. CASE ReportSteps
    BY <1>6 DEF ReportSteps, authTimeout, tunnelDown, L3Stopped, tunnelRetry, tunnelRestored,
        sessionEnded, socksDown, SOCKSStopped, handlerFrame
  <1>7. CASE L3Task \/ SOCKSTask \/ RootTask
    BY <1>7 DEF L3Task, SOCKSTask, RootTask, LinkDropped, ReportRetry, Reconnected,
        ReportRestored, GivesUp, L3SessionGone, RunCancelled, ReportDown, SOCKSRuns,
        SOCKSEnds, SOCKSSessionGone, ReportSOCKSDown, RootSees, ReportSessionEnded, TaskFrame
  <1>8. CASE CallerSteps
    BY <1>8 DEF CallerSteps, StopStore, StopEnqueue, cancelOpRead, cancelOpCall, CloseStore,
        Call, QueuedDeadline, RunningDeadline
  <1>9. CASE Timer
    BY <1>9 DEF Timer, TimerFires, reportAuthTimeout
  <1>10. CASE UNCHANGED vars
    BY <1>10 DEF vars
  <1> QED
    BY <1>1, <1>3, <1>4, <1>5, <1>6, <1>7, <1>8, <1>9, <1>10
    DEF Next, Actor, Terminated

\* The service implements the account's slot: it enters a login only when it has given up
\* the one before, no step replaces one login by another, and what the server may count
\* besides are logins whose logout failed or whose answer was lost (service.go: login,
\* attach, teardown, devices; session.go: Close).
THEOREM ImplementsSlot == Spec => OneLoginAtATime
  <1>1. Init => Account!Init
    BY DEF Init, Account!Init
  <1>2. /\ TypeControl /\ SlotInv /\ OneSlot /\ (SlotInv /\ OneSlot)'
        /\ TypeFields /\ TypeFields' /\ [Next]_vars
        => [Account!Next]_<<held, lost>>
    <2> SUFFICES ASSUME TypeControl, SlotInv, OneSlot, SlotInv', OneSlot', TypeFields, TypeFields',
                        [Next]_vars, ~UNCHANGED <<held, lost>>
                 PROVE  Account!Next
      BY DEF Account!Next
    <2>1. HeldStep
      BY HeldSteps
    <2>2. CASE held' \subseteq held /\ \E failed \in SUBSET (held \ held') : lost' = lost \cup failed
      <3>1. PICK failed \in SUBSET (held \ held') : lost' = lost \cup failed
        BY <2>2
      <3>2. held' # held
        BY <3>1
      <3>3. held # {} /\ held' = {}
        BY <2>2, <3>2 DEF OneSlot
      <3>4. failed \in {{}, held}
        BY <3>1, <3>3 DEF OneSlot
      <3> QED
        BY <3>1, <3>3, <3>4 DEF Account!Next, Account!Give
    <2>3. CASE held' = held \cup {cur} /\ lost' = lost
      <3>1. held = {} /\ held' = {cur}
        BY <2>3 DEF OneSlot
      <3>2. cur \in Nat \ {nil}
        BY <3>1 DEF SlotInv, TypeFields
      <3> QED
        BY <2>3, <3>1, <3>2 DEF Account!Next, Account!Take
    <2>4. CASE pc \in {"login", "verify"} /\ held' = {} /\ lost' \in {lost, lost \cup {cur}}
      <3>1. cur \in Nat \ {nil} /\ held \subseteq {cur}
        BY <2>4 DEF SlotInv, TypeFields
      <3>2. CASE held = {}
        BY <2>4, <3>1, <3>2 DEF Account!Next, Account!Miss
      <3>3. CASE held = {cur}
        BY <2>4, <3>3 DEF Account!Next, Account!Give
      <3> QED
        BY <3>1, <3>2, <3>3
    <2> QED
      BY <2>1, <2>2, <2>3, <2>4 DEF HeldStep
  <1> QED
    BY <1>1, <1>2, TypeCorrect, OneLogin, SlotInvariant, PTL DEF Spec, TypeOK, OneLoginAtATime, Account!Spec

\* PathInv is inductive.
LEMMA PathNext == PathInv /\ TypeControl /\ [Next]_vars => PathInv'
  <1> SUFFICES ASSUME PathInv, TypeControl, [Next]_vars PROVE PathInv'
    OBVIOUS
  <1> USE DEF shared, opVars, status, fields, wait, bearer, objects, tasks, env, goto
  <1>1. CASE Dispatch \/ TakeCommand \/ TakeReport
    <2>1. CASE TakeCommand
      BY <2>1 DEF PathInv, TakeCommand, Take
    <2>2. CASE TakeReport
      BY <2>2 DEF PathInv, TakeReport, Take
    <2>3. CASE ClosedGate
      BY <2>3 DEF PathInv, ClosedGate
    <2>4. CASE StopGate
      BY <2>4 DEF PathInv, StopGate
    <2>5. CASE Reply
      BY <2>5 DEF PathInv, Reply
    <2>6. CASE SelectClosed
      BY <2>6 DEF PathInv, SelectClosed
    <2>7. CASE Exit
      BY <2>7 DEF PathInv, Exit
    <2> QED
      BY <1>1, <2>1, <2>2, <2>3, <2>4, <2>5, <2>6, <2>7 DEF Dispatch
  <1>2. CASE TeardownSteps
    <2>1. CASE Teardown
      BY <2>1 DEF PathInv, Teardown, StopTimer
    <2>2. CASE RootJoin
      BY <2>2 DEF PathInv, RootJoin, CancelSOCKS
    <2>3. CASE SOCKSJoin
      BY <2>3 DEF PathInv, SOCKSJoin
    <2>4. CASE TeardownL3
      BY <2>4 DEF PathInv, TeardownL3, CancelL3
    <2>5. CASE L3Join
      BY <2>5 DEF PathInv, L3Join
    <2>6. CASE Logout
      BY <2>6 DEF PathInv, Logout, Release, TypeControl
    <2>7. CASE SetError
      BY <2>7 DEF PathInv, SetError
    <2>8. CASE DevClose
      BY <2>8 DEF PathInv, DevClose, Release
    <2> QED
      BY <1>2, <2>1, <2>2, <2>3, <2>4, <2>5, <2>6, <2>7, <2>8 DEF TeardownSteps
  <1>3. CASE LoginSteps
    <2>1. CASE start
      BY <2>1 DEF PathInv, start, handlerFrame
    <2>2. CASE devices
      BY <2>2 DEF PathInv, devices, handlerFrame
    <2>3. CASE Credentials
      BY <2>3 DEF PathInv, Credentials, Fail
    <2>4. CASE Login
      BY <2>4 DEF PathInv, Login, DropLogin, Release, Fail
    <2>5. CASE Verify
      BY <2>5 DEF PathInv, Verify, DropLogin, Release, Fail
    <2>6. CASE awaitAuth
      BY <2>6 DEF PathInv, awaitAuth
    <2>7. CASE auth
      BY <2>7 DEF PathInv, auth, handlerFrame
    <2>8. CASE SubmitCode
      BY <2>8 DEF PathInv, SubmitCode, Fail, StopTimer
    <2>9. CASE DeviceOp
      BY <2>9 DEF PathInv, DeviceOp, Fail
    <2>10. CASE EnsureTrusted
      BY <2>10 DEF PathInv, EnsureTrusted, attach, Release, Fail
    <2> QED
      BY <1>3, <2>1, <2>2, <2>3, <2>4, <2>5, <2>6, <2>7, <2>8, <2>9, <2>10 DEF LoginSteps
  <1>4. CASE EndpointSteps
    <2>1. CASE FinishConnect
      BY <2>1 DEF PathInv, FinishConnect, attach, Release
    <2>2. CASE startSOCKS
      BY <2>2 DEF PathInv, startSOCKS, afterSOCKS
    <2>3. CASE SOCKSWait
      BY <2>3 DEF PathInv, SOCKSWait, afterSOCKS, CancelSOCKS
    <2>4. CASE startL3
      BY <2>4 DEF PathInv, startL3, afterL3
    <2>5. CASE L3Dial
      BY <2>5 DEF PathInv, L3Dial, L3Failed, afterL3
    <2>6. CASE L3Attach
      BY <2>6 DEF PathInv, L3Attach, L3Failed, afterL3
    <2>7. CASE CheckConnect
      BY <2>7 DEF PathInv, CheckConnect, Fail
    <2>8. CASE startEndpoint
      BY <2>8 DEF PathInv, startEndpoint, handlerFrame
    <2>9. CASE stopEndpoint
      BY <2>9 DEF PathInv, stopEndpoint, CancelL3, CancelSOCKS
    <2>10. CASE EndpointStopped
      BY <2>10 DEF PathInv, EndpointStopped
    <2>11. CASE stop
      BY <2>11 DEF PathInv, stop, handlerFrame
    <2> QED
      BY <1>4, <2>1, <2>2, <2>3, <2>4, <2>5, <2>6, <2>7, <2>8, <2>9, <2>10, <2>11 DEF
          EndpointSteps
  <1>5. CASE ReportSteps
    <2>1. CASE authTimeout
      BY <2>1 DEF PathInv, authTimeout, handlerFrame, Fail
    <2>2. CASE tunnelDown
      BY <2>2 DEF PathInv, tunnelDown, CancelL3, Fail
    <2>3. CASE L3Stopped
      BY <2>3 DEF PathInv, L3Stopped
    <2>4. CASE tunnelRetry
      BY <2>4 DEF PathInv, tunnelRetry
    <2>5. CASE tunnelRestored
      BY <2>5 DEF PathInv, tunnelRestored
    <2>6. CASE sessionEnded
      BY <2>6 DEF PathInv, sessionEnded, handlerFrame, Fail
    <2>7. CASE socksDown
      BY <2>7 DEF PathInv, socksDown, CancelSOCKS
    <2>8. CASE SOCKSStopped
      BY <2>8 DEF PathInv, SOCKSStopped, Fail
    <2> QED
      BY <1>5, <2>1, <2>2, <2>3, <2>4, <2>5, <2>6, <2>7, <2>8 DEF ReportSteps
  <1>6. CASE L3Task \/ SOCKSTask \/ RootTask
    <2>1. UNCHANGED <<pc, ret, after, state>>
      BY <1>6 DEF L3Task, SOCKSTask, RootTask, LinkDropped, ReportRetry, Reconnected,
          ReportRestored, GivesUp, L3SessionGone, RunCancelled, ReportDown, SOCKSRuns,
          SOCKSEnds, SOCKSSessionGone, ReportSOCKSDown, RootSees, ReportSessionEnded, TaskFrame,
          Spend, report
    <2> QED
      BY <2>1 DEF PathInv
  <1>7. CASE CallerSteps
    <2>1. UNCHANGED <<pc, ret, after, state>>
      BY <1>7 DEF CallerSteps, StopStore, StopEnqueue, cancelOpRead, cancelOpCall, CloseStore,
          Call, QueuedDeadline, RunningDeadline, Spend
    <2> QED
      BY <2>1 DEF PathInv
  <1>8. CASE Timer
    <2>1. UNCHANGED <<pc, ret, after, state>>
      BY <1>8 DEF Timer, TimerFires, reportAuthTimeout
    <2> QED
      BY <2>1 DEF PathInv
  <1>9. CASE UNCHANGED vars
    BY <1>9 DEF vars, PathInv
  <1> QED
    BY <1>1, <1>2, <1>3, <1>4, <1>5, <1>6, <1>7, <1>8, <1>9
    DEF Next, Actor, Terminated

\* With it, every step that publishes a state publishes a legal successor.
LEMMA TransitionNext == PathInv /\ TypeStatus /\ [Next]_vars => validTransition(state, state')
  <1> SUFFICES ASSUME PathInv, TypeStatus, [Next]_vars PROVE validTransition(state, state')
    OBVIOUS
  <1> USE DEF PathInv, TypeStatus, States, shared, opVars, status, fields, wait, bearer, objects, tasks, env, goto
  <1>1. CASE Dispatch \/ TakeCommand \/ TakeReport
    <2>1. UNCHANGED state
      BY <1>1 DEF Dispatch, TakeCommand, TakeReport, ClosedGate, StopGate, Reply, SelectClosed,
          Exit, Take
    <2> QED
      BY <2>1 DEF validTransition
  <1>2. CASE TeardownSteps
    <2>1. CASE Teardown
      BY <2>1 DEF validTransition, Teardown, StopTimer
    <2>2. CASE SetError
      BY <2>2 DEF validTransition, SetError
    <2>3. CASE RootJoin \/ SOCKSJoin \/ TeardownL3 \/ L3Join \/ Logout \/ DevClose
      <3>1. UNCHANGED state
        BY <2>3 DEF RootJoin, SOCKSJoin, TeardownL3, L3Join, Logout, DevClose, CancelSOCKS,
            CancelL3, Release
      <3> QED
        BY <3>1 DEF validTransition
    <2> QED
      BY <1>2, <2>1, <2>2, <2>3 DEF TeardownSteps
  <1>3. CASE LoginSteps
    <2>1. CASE Credentials
      BY <2>1 DEF validTransition, Credentials, Fail
    <2>2. CASE awaitAuth
      BY <2>2 DEF validTransition, awaitAuth
    <2>3. CASE DeviceOp
      BY <2>3 DEF validTransition, DeviceOp, Fail
    <2>4. CASE start \/ devices \/ Login \/ Verify \/ auth \/ SubmitCode \/ EnsureTrusted
      <3>1. UNCHANGED state
        BY <2>4 DEF start, devices, Login, Verify, auth, SubmitCode, EnsureTrusted,
            handlerFrame, DropLogin, Release, Fail, StopTimer, attach
      <3> QED
        BY <3>1 DEF validTransition
    <2> QED
      BY <1>3, <2>1, <2>2, <2>3, <2>4 DEF LoginSteps
  <1>4. CASE EndpointSteps
    <2>1. CASE FinishConnect
      BY <2>1 DEF validTransition, FinishConnect, attach, Release
    <2>2. CASE startSOCKS \/ SOCKSWait \/ startL3 \/ L3Dial \/ L3Attach \/ CheckConnect \/ startEndpoint \/ stopEndpoint \/ EndpointStopped \/ stop
      <3>1. UNCHANGED state
        BY <2>2 DEF startSOCKS, SOCKSWait, startL3, L3Dial, L3Attach, CheckConnect,
            startEndpoint, stopEndpoint, EndpointStopped, stop, afterSOCKS, CancelSOCKS,
            afterL3, L3Failed, Fail, handlerFrame, CancelL3
      <3> QED
        BY <3>1 DEF validTransition
    <2> QED
      BY <1>4, <2>1, <2>2 DEF EndpointSteps
  <1>5. CASE ReportSteps
    <2>1. UNCHANGED state
      BY <1>5 DEF ReportSteps, authTimeout, tunnelDown, L3Stopped, tunnelRetry, tunnelRestored,
          sessionEnded, socksDown, SOCKSStopped, handlerFrame, Fail, CancelL3, CancelSOCKS
    <2> QED
      BY <2>1 DEF validTransition
  <1>6. CASE L3Task \/ SOCKSTask \/ RootTask
    <2>1. UNCHANGED state
      BY <1>6 DEF L3Task, SOCKSTask, RootTask, LinkDropped, ReportRetry, Reconnected,
          ReportRestored, GivesUp, L3SessionGone, RunCancelled, ReportDown, SOCKSRuns,
          SOCKSEnds, SOCKSSessionGone, ReportSOCKSDown, RootSees, ReportSessionEnded, TaskFrame,
          Spend, report
    <2> QED
      BY <2>1 DEF validTransition
  <1>7. CASE CallerSteps
    <2>1. UNCHANGED state
      BY <1>7 DEF CallerSteps, StopStore, StopEnqueue, cancelOpRead, cancelOpCall, CloseStore,
          Call, QueuedDeadline, RunningDeadline, Spend
    <2> QED
      BY <2>1 DEF validTransition
  <1>8. CASE Timer
    <2>1. UNCHANGED state
      BY <1>8 DEF Timer, TimerFires, reportAuthTimeout
    <2> QED
      BY <2>1 DEF validTransition
  <1>9. CASE UNCHANGED vars
    BY <1>9 DEF vars, validTransition
  <1> QED
    BY <1>1, <1>2, <1>3, <1>4, <1>5, <1>6, <1>7, <1>8, <1>9
    DEF Next, Actor, Terminated

\* PathInv holds throughout.
LEMMA PathInvariant == Spec => []PathInv
  <1>1. Init => PathInv
    BY DEF Init, PathInv
  <1>2. TypeOK /\ PathInv /\ [Next]_vars => PathInv'
    BY PathNext DEF TypeOK
  <1> QED
    BY <1>1, <1>2, TypeCorrect, PTL DEF Spec

\* applyLocked never meets a transition outside the table, so it never panics in
\* the actor (status.go: validTransition, applyLocked).
THEOREM LegalTransitions == Spec => NoIllegalTransition
  <1>1. TypeOK /\ PathInv /\ [Next]_vars => [validTransition(state, state')]_vars
    BY TransitionNext DEF TypeOK
  <1> QED
    BY <1>1, TypeCorrect, PathInvariant, PTL DEF Spec, NoIllegalTransition

-----------------------------------------------------------------------------
(* What the actor starts and must stop again: the tasks of the endpoints,  *)
(* the session watcher, the timer and the commands that run.               *)

\* Tasks, sessions and logout.

\* TasksInv is inductive: a task is started by the handler that has the session it runs on, and the
\* session is given back only by a path that has joined it.
LEMMA TasksInvNext == TasksInv /\ SlotInv /\ PathInv /\ TypeControl /\ TypeTasks /\ [Next]_vars => TasksInv'
  <1> SUFFICES ASSUME TasksInv, SlotInv, PathInv, TypeControl, TypeTasks, [Next]_vars PROVE TasksInv'
    OBVIOUS
  <1> USE DEF shared, opVars, status, fields, wait, bearer, objects, tasks, env, goto
  <1>1. CASE Dispatch \/ TakeCommand \/ TakeReport
    <2>1. CASE TakeCommand
      BY <2>1 DEF TasksInv, nil, TakeCommand, Take
    <2>2. CASE TakeReport
      BY <2>2 DEF TasksInv, nil, TakeReport, Take
    <2>3. CASE ClosedGate
      BY <2>3 DEF TasksInv, nil, ClosedGate
    <2>4. CASE StopGate
      BY <2>4 DEF TasksInv, nil, StopGate
    <2>5. CASE Reply
      BY <2>5 DEF TasksInv, nil, Reply
    <2>6. CASE SelectClosed
      BY <2>6 DEF TasksInv, nil, SelectClosed
    <2>7. CASE Exit
      BY <2>7 DEF TasksInv, nil, Exit
    <2> QED
      BY <1>1, <2>1, <2>2, <2>3, <2>4, <2>5, <2>6, <2>7 DEF Dispatch
  <1>2. CASE TeardownSteps
    <2>1. CASE Teardown
      BY <2>1 DEF TasksInv, nil, Teardown, StopTimer
    <2>2. CASE RootJoin
      BY <2>2 DEF TasksInv, nil, RootJoin, CancelSOCKS, SlotInv, PathInv, NoRoot
    <2>3. CASE SOCKSJoin
      BY <2>3 DEF TasksInv, nil, SOCKSJoin, NoSOCKS, SlotInv, TypeControl
    <2>4. CASE TeardownL3
      BY <2>4 DEF TasksInv, nil, TeardownL3, CancelL3
    <2>5. CASE L3Join
      BY <2>5 DEF TasksInv, nil, L3Join, NoL3, SlotInv, TypeControl
    <2>6. CASE Logout
      BY <2>6 DEF TasksInv, nil, Logout, Release, TypeControl
    <2>7. CASE SetError
      BY <2>7 DEF TasksInv, nil, SetError, SlotInv
    <2>8. CASE DevClose
      BY <2>8 DEF TasksInv, nil, DevClose, Release
    <2> QED
      BY <1>2, <2>1, <2>2, <2>3, <2>4, <2>5, <2>6, <2>7, <2>8 DEF TeardownSteps
  <1>3. CASE LoginSteps
    <2>1. CASE start
      BY <2>1 DEF TasksInv, nil, start, handlerFrame
    <2>2. CASE devices
      BY <2>2 DEF TasksInv, nil, devices, handlerFrame
    <2>3. CASE Credentials
      BY <2>3 DEF TasksInv, nil, Credentials, Fail, SlotInv
    <2>4. CASE Login
      BY <2>4 DEF TasksInv, nil, Login, DropLogin, Release, Fail, SlotInv
    <2>5. CASE Verify
      BY <2>5 DEF TasksInv, nil, Verify, DropLogin, Release, Fail, SlotInv
    <2>6. CASE awaitAuth
      BY <2>6 DEF TasksInv, nil, awaitAuth, SlotInv
    <2>7. CASE auth
      BY <2>7 DEF TasksInv, nil, auth, handlerFrame
    <2>8. CASE SubmitCode
      BY <2>8 DEF TasksInv, nil, SubmitCode, Fail, StopTimer, SlotInv
    <2>9. CASE DeviceOp
      BY <2>9 DEF TasksInv, nil, DeviceOp, Fail, SlotInv
    <2>10. CASE EnsureTrusted
      BY <2>10 DEF TasksInv, nil, EnsureTrusted, attach, Release, Fail, SlotInv
    <2> QED
      BY <1>3, <2>1, <2>2, <2>3, <2>4, <2>5, <2>6, <2>7, <2>8, <2>9, <2>10 DEF LoginSteps
  <1>4. CASE EndpointSteps
    <2>1. CASE FinishConnect
      BY <2>1 DEF TasksInv, nil, FinishConnect, attach, Release, SlotInv
    <2>2. CASE startSOCKS
      BY <2>2 DEF TasksInv, nil, startSOCKS, afterSOCKS, NoSOCKS, SlotInv
    <2>3. CASE SOCKSWait
      BY <2>3 DEF TasksInv, nil, SOCKSWait, afterSOCKS, CancelSOCKS, SlotInv
    <2>4. CASE startL3
      BY <2>4 DEF TasksInv, nil, startL3, afterL3, NoL3, SlotInv
    <2>5. CASE L3Dial
      BY <2>5 DEF TasksInv, nil, L3Dial, L3Failed, afterL3
    <2>6. CASE L3Attach
      BY <2>6 DEF TasksInv, nil, L3Attach, L3Failed, afterL3, SlotInv
    <2>7. CASE CheckConnect
      BY <2>7 DEF TasksInv, nil, CheckConnect, Fail
    <2>8. CASE startEndpoint
      BY <2>8 DEF TasksInv, nil, startEndpoint, handlerFrame
    <2>9. CASE stopEndpoint
      BY <2>9 DEF TasksInv, nil, stopEndpoint, CancelL3, CancelSOCKS, SlotInv, TypeTasks
    <2>10. CASE EndpointStopped
      BY <2>10 DEF TasksInv, nil, EndpointStopped
    <2>11. CASE stop
      BY <2>11 DEF TasksInv, nil, stop, handlerFrame
    <2> QED
      BY <1>4, <2>1, <2>2, <2>3, <2>4, <2>5, <2>6, <2>7, <2>8, <2>9, <2>10, <2>11 DEF EndpointSteps
  <1>5. CASE ReportSteps
    <2>1. CASE authTimeout
      BY <2>1 DEF TasksInv, nil, authTimeout, handlerFrame, Fail
    <2>2. CASE tunnelDown
      BY <2>2 DEF TasksInv, nil, tunnelDown, CancelL3, Fail, SlotInv, TypeTasks
    <2>3. CASE L3Stopped
      BY <2>3 DEF TasksInv, nil, L3Stopped
    <2>4. CASE tunnelRetry
      BY <2>4 DEF TasksInv, nil, tunnelRetry
    <2>5. CASE tunnelRestored
      BY <2>5 DEF TasksInv, nil, tunnelRestored
    <2>6. CASE sessionEnded
      BY <2>6 DEF TasksInv, nil, sessionEnded, handlerFrame, Fail
    <2>7. CASE socksDown
      BY <2>7 DEF TasksInv, nil, socksDown, CancelSOCKS, SlotInv, TypeTasks
    <2>8. CASE SOCKSStopped
      BY <2>8 DEF TasksInv, nil, SOCKSStopped, Fail
    <2> QED
      BY <1>5, <2>1, <2>2, <2>3, <2>4, <2>5, <2>6, <2>7, <2>8 DEF ReportSteps
  <1>6. CASE L3Task \/ SOCKSTask \/ RootTask
    <2>1. CASE LinkDropped
      BY <2>1 DEF TasksInv, nil, LinkDropped, TaskFrame
    <2>2. CASE ReportRetry
      BY <2>2 DEF TasksInv, nil, ReportRetry, TaskFrame, report
    <2>3. CASE Reconnected
      BY <2>3 DEF TasksInv, nil, Reconnected, TaskFrame
    <2>4. CASE ReportRestored
      BY <2>4 DEF TasksInv, nil, ReportRestored, TaskFrame, report
    <2>5. CASE GivesUp
      BY <2>5 DEF TasksInv, nil, GivesUp, TaskFrame
    <2>6. CASE L3SessionGone
      BY <2>6 DEF TasksInv, nil, L3SessionGone, TaskFrame
    <2>7. CASE RunCancelled
      BY <2>7 DEF TasksInv, nil, RunCancelled, TaskFrame
    <2>8. CASE ReportDown
      BY <2>8 DEF TasksInv, nil, ReportDown, TaskFrame, report
    <2>9. CASE SOCKSRuns
      BY <2>9 DEF TasksInv, nil, SOCKSRuns, TaskFrame
    <2>10. CASE SOCKSEnds
      BY <2>10 DEF TasksInv, nil, SOCKSEnds, TaskFrame
    <2>11. CASE SOCKSSessionGone
      BY <2>11 DEF TasksInv, nil, SOCKSSessionGone, TaskFrame
    <2>12. CASE ReportSOCKSDown
      BY <2>12 DEF TasksInv, nil, ReportSOCKSDown, TaskFrame, report
    <2>13. CASE RootSees
      BY <2>13 DEF TasksInv, nil, RootSees, TaskFrame
    <2>14. CASE ReportSessionEnded
      BY <2>14 DEF TasksInv, nil, ReportSessionEnded, TaskFrame, report
    <2> QED
      BY <1>6, <2>1, <2>2, <2>3, <2>4, <2>5, <2>6, <2>7, <2>8, <2>9, <2>10, <2>11, <2>12, <2>13, <2>14
          DEF L3Task, SOCKSTask, RootTask
  <1>7. CASE CallerSteps
    <2>1. UNCHANGED <<l3, socks, root, session, bound, br, pc, ret, state>>
      BY <1>7 DEF CallerSteps, StopStore, StopEnqueue, cancelOpRead, cancelOpCall, CloseStore, Call,
          QueuedDeadline, RunningDeadline, Spend
    <2> QED
      BY <2>1 DEF TasksInv, nil
  <1>8. CASE Timer
    <2>1. UNCHANGED <<l3, socks, root, session, bound, br, pc, ret, state>>
      BY <1>8 DEF Timer, TimerFires, reportAuthTimeout
    <2> QED
      BY <2>1 DEF TasksInv, nil
  <1>9. CASE UNCHANGED vars
    BY <1>9 DEF vars, TasksInv, nil
  <1> QED
    BY <1>1, <1>2, <1>3, <1>4, <1>5, <1>6, <1>7, <1>8, <1>9 DEF Next, Actor, Terminated

\* PendInv is inductive: the status says that a code is awaited only while there
\* is a login to verify with it.
LEMMA PendInvNext == PendInv /\ SlotInv /\ PathInv /\ TasksInv /\ TypeControl /\ [Next]_vars => PendInv'
  <1> SUFFICES ASSUME PendInv, SlotInv, PathInv, TasksInv, TypeControl, [Next]_vars PROVE PendInv'
    OBVIOUS
  <1> USE DEF shared, opVars, status, fields, wait, bearer, objects, tasks, env, goto
  <1>1. CASE Dispatch \/ TakeCommand \/ TakeReport
    <2>1. CASE TakeCommand
      BY <2>1 DEF PendInv, nil, TakeCommand, Take
    <2>2. CASE TakeReport
      BY <2>2 DEF PendInv, nil, TakeReport, Take
    <2>3. CASE ClosedGate
      BY <2>3 DEF PendInv, nil, ClosedGate
    <2>4. CASE StopGate
      BY <2>4 DEF PendInv, nil, StopGate
    <2>5. CASE Reply
      BY <2>5 DEF PendInv, nil, Reply
    <2>6. CASE SelectClosed
      BY <2>6 DEF PendInv, nil, SelectClosed
    <2>7. CASE Exit
      BY <2>7 DEF PendInv, nil, Exit
    <2> QED
      BY <1>1, <2>1, <2>2, <2>3, <2>4, <2>5, <2>6, <2>7 DEF Dispatch
  <1>2. CASE TeardownSteps
    <2>1. CASE Teardown
      BY <2>1 DEF PendInv, nil, Teardown, StopTimer
    <2>2. CASE RootJoin
      BY <2>2 DEF PendInv, nil, RootJoin, CancelSOCKS
    <2>3. CASE SOCKSJoin
      BY <2>3 DEF PendInv, nil, SOCKSJoin, SlotInv, PathInv, TasksInv, TypeControl
    <2>4. CASE TeardownL3
      BY <2>4 DEF PendInv, nil, TeardownL3, CancelL3
    <2>5. CASE L3Join
      BY <2>5 DEF PendInv, nil, L3Join, SlotInv, PathInv, TasksInv, TypeControl
    <2>6. CASE Logout
      BY <2>6 DEF PendInv, nil, Logout, Release, SlotInv, PathInv, TasksInv, TypeControl
    <2>7. CASE SetError
      BY <2>7 DEF PendInv, nil, SetError, SlotInv, PathInv, TasksInv, TypeControl
    <2>8. CASE DevClose
      BY <2>8 DEF PendInv, nil, DevClose, Release, SlotInv, PathInv, TasksInv, TypeControl
    <2> QED
      BY <1>2, <2>1, <2>2, <2>3, <2>4, <2>5, <2>6, <2>7, <2>8 DEF TeardownSteps
  <1>3. CASE LoginSteps
    <2>1. CASE start
      BY <2>1 DEF PendInv, nil, start, handlerFrame
    <2>2. CASE devices
      BY <2>2 DEF PendInv, nil, devices, handlerFrame
    <2>3. CASE Credentials
      BY <2>3 DEF PendInv, nil, Credentials, Fail
    <2>4. CASE Login
      BY <2>4 DEF PendInv, nil, Login, DropLogin, Release, Fail
    <2>5. CASE Verify
      BY <2>5 DEF PendInv, nil, Verify, DropLogin, Release, Fail, SlotInv, PathInv, TasksInv, TypeControl
    <2>6. CASE awaitAuth
      BY <2>6 DEF PendInv, nil, awaitAuth, SlotInv, PathInv, TasksInv, TypeControl
    <2>7. CASE auth
      BY <2>7 DEF PendInv, nil, auth, handlerFrame, SlotInv, PathInv, TasksInv, TypeControl
    <2>8. CASE SubmitCode
      BY <2>8 DEF PendInv, nil, SubmitCode, Fail, StopTimer, SlotInv, PathInv, TasksInv, TypeControl
    <2>9. CASE DeviceOp
      BY <2>9 DEF PendInv, nil, DeviceOp, Fail, SlotInv, PathInv, TasksInv, TypeControl
    <2>10. CASE EnsureTrusted
      BY <2>10 DEF PendInv, nil, EnsureTrusted, attach, Release, Fail
    <2> QED
      BY <1>3, <2>1, <2>2, <2>3, <2>4, <2>5, <2>6, <2>7, <2>8, <2>9, <2>10 DEF LoginSteps
  <1>4. CASE EndpointSteps
    <2>1. CASE FinishConnect
      BY <2>1 DEF PendInv, nil, FinishConnect, attach, Release
    <2>2. CASE startSOCKS
      BY <2>2 DEF PendInv, nil, startSOCKS, afterSOCKS, SlotInv, PathInv, TasksInv, TypeControl
    <2>3. CASE SOCKSWait
      BY <2>3 DEF PendInv, nil, SOCKSWait, afterSOCKS, CancelSOCKS, SlotInv, PathInv, TasksInv,
          TypeControl
    <2>4. CASE startL3
      BY <2>4 DEF PendInv, nil, startL3, afterL3, SlotInv, PathInv, TasksInv, TypeControl
    <2>5. CASE L3Dial
      BY <2>5 DEF PendInv, nil, L3Dial, L3Failed, afterL3, SlotInv, PathInv, TasksInv, TypeControl
    <2>6. CASE L3Attach
      BY <2>6 DEF PendInv, nil, L3Attach, L3Failed, afterL3, SlotInv, PathInv, TasksInv, TypeControl
    <2>7. CASE CheckConnect
      BY <2>7 DEF PendInv, nil, CheckConnect, Fail, SlotInv, PathInv, TasksInv, TypeControl
    <2>8. CASE startEndpoint
      BY <2>8 DEF PendInv, nil, startEndpoint, handlerFrame
    <2>9. CASE stopEndpoint
      BY <2>9 DEF PendInv, nil, stopEndpoint, CancelL3, CancelSOCKS
    <2>10. CASE EndpointStopped
      BY <2>10 DEF PendInv, nil, EndpointStopped
    <2>11. CASE stop
      BY <2>11 DEF PendInv, nil, stop, handlerFrame
    <2> QED
      BY <1>4, <2>1, <2>2, <2>3, <2>4, <2>5, <2>6, <2>7, <2>8, <2>9, <2>10, <2>11 DEF EndpointSteps
  <1>5. CASE ReportSteps
    <2>1. CASE authTimeout
      BY <2>1 DEF PendInv, nil, authTimeout, handlerFrame, Fail
    <2>2. CASE tunnelDown
      BY <2>2 DEF PendInv, nil, tunnelDown, CancelL3, Fail
    <2>3. CASE L3Stopped
      BY <2>3 DEF PendInv, nil, L3Stopped
    <2>4. CASE tunnelRetry
      BY <2>4 DEF PendInv, nil, tunnelRetry
    <2>5. CASE tunnelRestored
      BY <2>5 DEF PendInv, nil, tunnelRestored
    <2>6. CASE sessionEnded
      BY <2>6 DEF PendInv, nil, sessionEnded, handlerFrame, Fail
    <2>7. CASE socksDown
      BY <2>7 DEF PendInv, nil, socksDown, CancelSOCKS
    <2>8. CASE SOCKSStopped
      BY <2>8 DEF PendInv, nil, SOCKSStopped, Fail
    <2> QED
      BY <1>5, <2>1, <2>2, <2>3, <2>4, <2>5, <2>6, <2>7, <2>8 DEF ReportSteps
  <1>6. CASE L3Task \/ SOCKSTask \/ RootTask
    <2>1. UNCHANGED <<pend, pc, ret, state>>
      BY <1>6 DEF L3Task, SOCKSTask, RootTask, LinkDropped, ReportRetry, Reconnected, ReportRestored,
          GivesUp, L3SessionGone, RunCancelled, ReportDown, SOCKSRuns, SOCKSEnds, SOCKSSessionGone,
          ReportSOCKSDown, RootSees, ReportSessionEnded, TaskFrame
    <2> QED
      BY <2>1 DEF PendInv, nil
  <1>7. CASE CallerSteps
    <2>1. UNCHANGED <<pend, pc, ret, state>>
      BY <1>7 DEF CallerSteps, StopStore, StopEnqueue, cancelOpRead, cancelOpCall, CloseStore, Call,
          QueuedDeadline, RunningDeadline, Spend
    <2> QED
      BY <2>1 DEF PendInv, nil
  <1>8. CASE Timer
    <2>1. UNCHANGED <<pend, pc, ret, state>>
      BY <1>8 DEF Timer, TimerFires, reportAuthTimeout
    <2> QED
      BY <2>1 DEF PendInv, nil
  <1>9. CASE UNCHANGED vars
    BY <1>9 DEF vars, PendInv, nil
  <1> QED
    BY <1>1, <1>2, <1>3, <1>4, <1>5, <1>6, <1>7, <1>8, <1>9 DEF Next, Actor, Terminated

\* What is clear of a session before it is logged out.
Unused == l3.phase = "none" /\ socks.phase = "none" /\ root.phase = "none" /\ bound = nil /\ state # "up"

\* The steps that give a login back (teardown, the end of a device operation, a login that
\* fails) do so when nothing uses it; Connect fails before anything runs on its session.
LEMMA LogoutSteps == TasksInv /\ SlotInv /\ PathInv /\ [Next]_vars => held \subseteq held' \/ Unused
  <1> SUFFICES ASSUME TasksInv, SlotInv, PathInv, [Next]_vars PROVE held \subseteq held' \/ Unused
    OBVIOUS
  <1> USE DEF shared, opVars, status, fields, wait, bearer, objects, tasks, env, goto
  <1>1. CASE Dispatch \/ TakeCommand \/ TakeReport
    <2>1. CASE TakeCommand
      BY <2>1 DEF nil, TakeCommand, Take
    <2>2. CASE TakeReport
      BY <2>2 DEF nil, TakeReport, Take
    <2>3. CASE ClosedGate
      BY <2>3 DEF nil, ClosedGate
    <2>4. CASE StopGate
      BY <2>4 DEF nil, StopGate
    <2>5. CASE Reply
      BY <2>5 DEF nil, Reply
    <2>6. CASE SelectClosed
      BY <2>6 DEF nil, SelectClosed
    <2>7. CASE Exit
      BY <2>7 DEF nil, Exit
    <2> QED
      BY <1>1, <2>1, <2>2, <2>3, <2>4, <2>5, <2>6, <2>7 DEF Dispatch
  <1>2. CASE TeardownSteps
    <2>1. CASE Teardown
      BY <2>1 DEF nil, Teardown, StopTimer
    <2>2. CASE RootJoin
      BY <2>2 DEF nil, RootJoin, CancelSOCKS
    <2>3. CASE SOCKSJoin
      BY <2>3 DEF nil, SOCKSJoin
    <2>4. CASE TeardownL3
      BY <2>4 DEF nil, TeardownL3, CancelL3
    <2>5. CASE L3Join
      BY <2>5 DEF nil, L3Join
    <2>6. CASE Logout
      BY <2>6 DEF nil, Logout, Release, TasksInv, PathInv, Release, Unused
    <2>7. CASE SetError
      BY <2>7 DEF nil, SetError
    <2>8. CASE DevClose
      BY <2>8 DEF nil, DevClose, Release, TasksInv, SlotInv, Release, Unused
    <2> QED
      BY <1>2, <2>1, <2>2, <2>3, <2>4, <2>5, <2>6, <2>7, <2>8 DEF TeardownSteps
  <1>3. CASE LoginSteps
    <2>1. CASE start
      BY <2>1 DEF nil, start, handlerFrame
    <2>2. CASE devices
      BY <2>2 DEF nil, devices, handlerFrame
    <2>3. CASE Credentials
      BY <2>3 DEF nil, Credentials, Fail
    <2>4. CASE Login
      BY <2>4 DEF nil, Login, DropLogin, Release, Fail, SlotInv, TasksInv, PathInv, Unused
    <2>5. CASE Verify
      BY <2>5 DEF nil, Verify, DropLogin, Release, Fail, SlotInv, TasksInv, PathInv, Unused
    <2>6. CASE awaitAuth
      BY <2>6 DEF nil, awaitAuth
    <2>7. CASE auth
      BY <2>7 DEF nil, auth, handlerFrame
    <2>8. CASE SubmitCode
      BY <2>8 DEF nil, SubmitCode, Fail, StopTimer
    <2>9. CASE DeviceOp
      BY <2>9 DEF nil, DeviceOp, Fail
    <2>10. CASE EnsureTrusted
      BY <2>10 DEF nil, EnsureTrusted, attach, Release, Fail, SlotInv, TasksInv, PathInv, Unused
    <2> QED
      BY <1>3, <2>1, <2>2, <2>3, <2>4, <2>5, <2>6, <2>7, <2>8, <2>9, <2>10 DEF LoginSteps
  <1>4. CASE EndpointSteps
    <2>1. CASE FinishConnect
      BY <2>1 DEF nil, FinishConnect, attach, Release, SlotInv, TasksInv, PathInv, Unused
    <2>2. CASE startSOCKS
      BY <2>2 DEF nil, startSOCKS, afterSOCKS
    <2>3. CASE SOCKSWait
      BY <2>3 DEF nil, SOCKSWait, afterSOCKS, CancelSOCKS
    <2>4. CASE startL3
      BY <2>4 DEF nil, startL3, afterL3
    <2>5. CASE L3Dial
      BY <2>5 DEF nil, L3Dial, L3Failed, afterL3
    <2>6. CASE L3Attach
      BY <2>6 DEF nil, L3Attach, L3Failed, afterL3
    <2>7. CASE CheckConnect
      BY <2>7 DEF nil, CheckConnect, Fail
    <2>8. CASE startEndpoint
      BY <2>8 DEF nil, startEndpoint, handlerFrame
    <2>9. CASE stopEndpoint
      BY <2>9 DEF nil, stopEndpoint, CancelL3, CancelSOCKS
    <2>10. CASE EndpointStopped
      BY <2>10 DEF nil, EndpointStopped
    <2>11. CASE stop
      BY <2>11 DEF nil, stop, handlerFrame
    <2> QED
      BY <1>4, <2>1, <2>2, <2>3, <2>4, <2>5, <2>6, <2>7, <2>8, <2>9, <2>10, <2>11 DEF EndpointSteps
  <1>5. CASE ReportSteps
    <2>1. CASE authTimeout
      BY <2>1 DEF nil, authTimeout, handlerFrame, Fail
    <2>2. CASE tunnelDown
      BY <2>2 DEF nil, tunnelDown, CancelL3, Fail
    <2>3. CASE L3Stopped
      BY <2>3 DEF nil, L3Stopped
    <2>4. CASE tunnelRetry
      BY <2>4 DEF nil, tunnelRetry
    <2>5. CASE tunnelRestored
      BY <2>5 DEF nil, tunnelRestored
    <2>6. CASE sessionEnded
      BY <2>6 DEF nil, sessionEnded, handlerFrame, Fail
    <2>7. CASE socksDown
      BY <2>7 DEF nil, socksDown, CancelSOCKS
    <2>8. CASE SOCKSStopped
      BY <2>8 DEF nil, SOCKSStopped, Fail
    <2> QED
      BY <1>5, <2>1, <2>2, <2>3, <2>4, <2>5, <2>6, <2>7, <2>8 DEF ReportSteps
  <1>6. CASE L3Task \/ SOCKSTask \/ RootTask
    BY <1>6 DEF L3Task, SOCKSTask, RootTask, LinkDropped, ReportRetry, Reconnected, ReportRestored,
        GivesUp, L3SessionGone, RunCancelled, ReportDown, SOCKSRuns, SOCKSEnds, SOCKSSessionGone,
        ReportSOCKSDown, RootSees, ReportSessionEnded, TaskFrame
  <1>7. CASE CallerSteps
    BY <1>7 DEF CallerSteps, StopStore, StopEnqueue, cancelOpRead, cancelOpCall, CloseStore, Call,
        QueuedDeadline, RunningDeadline, Spend
  <1>8. CASE Timer
    BY <1>8 DEF Timer, TimerFires, reportAuthTimeout
  <1>9. CASE UNCHANGED vars
    BY <1>9 DEF vars
  <1> QED
    BY <1>1, <1>2, <1>3, <1>4, <1>5, <1>6, <1>7, <1>8, <1>9 DEF Next, Actor, Terminated

\* TasksInv and PendInv hold throughout, from newActor on.
LEMMA TasksInvariant == Spec => [](TasksInv /\ PendInv)
  <1>1. Init => TasksInv /\ PendInv
    BY DEF Init, TasksInv, PendInv, nil, NoL3, NoSOCKS, NoRoot
  <1>2. TypeOK /\ SlotInv /\ PathInv /\ TasksInv /\ PendInv /\ [Next]_vars => (TasksInv /\ PendInv)'
    BY TasksInvNext, PendInvNext DEF TypeOK
  <1> QED
    BY <1>1, <1>2, TypeCorrect, SlotInvariant, PathInvariant, PTL DEF Spec

\* Nothing outlives the session it belongs to: the bearer never carries packets of a session
\* that is gone, and the actor returns with no task, no bearer and no login it has not closed,
\* whatever failed or was cancelled on the way (service.go: teardown, stopL3, loop).  A logout
\* may be among what failed: then the login is left on the server (lost), not in the service.
THEOREM NothingStays == Spec => []NothingIsLeftBehind
  <1>1. SlotInv /\ TasksInv => NothingIsLeftBehind
    BY DEF SlotInv, TasksInv, NothingIsLeftBehind, ExitIsClean, BearerFollowsSession, nil
  <1> QED
    BY <1>1, SlotInvariant, TasksInvariant, PTL

\* Logout is the last thing done with a session: the tasks that use it have returned, the
\* bearer is detached and the status no longer says "up" (service.go: teardown).
THEOREM LogoutComesLast == Spec => LogoutAfterTasks
  <1>1. TasksInv /\ SlotInv /\ PathInv /\ [Next]_vars
           => [held \ held' # {} => /\ l3.phase = "none" /\ socks.phase = "none" /\ root.phase = "none"
                                   /\ bound = nil /\ state # "up"]_vars
    BY LogoutSteps DEF Unused
  <1> QED
    BY <1>1, TasksInvariant, SlotInvariant, PathInvariant, PTL DEF Spec, LogoutAfterTasks

---------------------------------------------------------------------------
\* Commands and the two flags.

\* CancelInv is inductive: dispatch sets opCancel before it reads the two flags, and a caller sets
\* its flag before it reads opCancel.
LEMMA CancelInvNext == CancelInv /\ TypeCallers /\ TypeControl /\ [Next]_vars => CancelInv'
  <1> SUFFICES ASSUME CancelInv, TypeCallers, TypeControl, [Next]_vars PROVE CancelInv'
    OBVIOUS
  <1> USE DEF shared, opVars, status, fields, wait, bearer, objects, tasks, env, goto
  <1>1. CASE Dispatch \/ TakeCommand \/ TakeReport
    <2>1. CASE TakeCommand
      BY <2>1 DEF CancelInv, Cancelling, LoginRunning, TakeCommand, Take, LoginKinds
    <2>2. CASE TakeReport
      BY <2>2 DEF CancelInv, Cancelling, LoginRunning, TakeReport, Take, LoginKinds
    <2>3. CASE ClosedGate
      BY <2>3 DEF CancelInv, Cancelling, LoginRunning, ClosedGate, LoginKinds, Reports
    <2>4. CASE StopGate
      BY <2>4 DEF CancelInv, Cancelling, LoginRunning, StopGate, LoginKinds
    <2>5. CASE Reply
      BY <2>5 DEF CancelInv, Cancelling, LoginRunning, Reply, NoCmd, LoginKinds
    <2>6. CASE SelectClosed
      BY <2>6 DEF CancelInv, Cancelling, LoginRunning, SelectClosed, LoginKinds
    <2>7. CASE Exit
      BY <2>7 DEF CancelInv, Cancelling, LoginRunning, Exit
    <2> QED
      BY <1>1, <2>1, <2>2, <2>3, <2>4, <2>5, <2>6, <2>7 DEF Dispatch
  <1>2. CASE TeardownSteps
    <2>1. CASE Teardown
      BY <2>1 DEF CancelInv, Cancelling, LoginRunning, Teardown, StopTimer
    <2>2. CASE RootJoin
      BY <2>2 DEF CancelInv, Cancelling, LoginRunning, RootJoin, CancelSOCKS
    <2>3. CASE SOCKSJoin
      BY <2>3 DEF CancelInv, Cancelling, LoginRunning, SOCKSJoin, TypeControl
    <2>4. CASE TeardownL3
      BY <2>4 DEF CancelInv, Cancelling, LoginRunning, TeardownL3, CancelL3
    <2>5. CASE L3Join
      BY <2>5 DEF CancelInv, Cancelling, LoginRunning, L3Join, TypeControl
    <2>6. CASE Logout
      BY <2>6 DEF CancelInv, Cancelling, LoginRunning, Logout, Release, TypeControl
    <2>7. CASE SetError
      BY <2>7 DEF CancelInv, Cancelling, LoginRunning, SetError
    <2>8. CASE DevClose
      BY <2>8 DEF CancelInv, Cancelling, LoginRunning, DevClose, Release
    <2> QED
      BY <1>2, <2>1, <2>2, <2>3, <2>4, <2>5, <2>6, <2>7, <2>8 DEF TeardownSteps
  <1>3. CASE LoginSteps
    <2>1. CASE start
      BY <2>1 DEF CancelInv, Cancelling, LoginRunning, start, handlerFrame
    <2>2. CASE devices
      BY <2>2 DEF CancelInv, Cancelling, LoginRunning, devices, handlerFrame
    <2>3. CASE Credentials
      BY <2>3 DEF CancelInv, Cancelling, LoginRunning, Credentials, Fail
    <2>4. CASE Login
      BY <2>4 DEF CancelInv, Cancelling, LoginRunning, Login, DropLogin, Release, Fail
    <2>5. CASE Verify
      BY <2>5 DEF CancelInv, Cancelling, LoginRunning, Verify, DropLogin, Release, Fail
    <2>6. CASE awaitAuth
      BY <2>6 DEF CancelInv, Cancelling, LoginRunning, awaitAuth
    <2>7. CASE auth
      BY <2>7 DEF CancelInv, Cancelling, LoginRunning, auth, handlerFrame
    <2>8. CASE SubmitCode
      BY <2>8 DEF CancelInv, Cancelling, LoginRunning, SubmitCode, Fail, StopTimer
    <2>9. CASE DeviceOp
      BY <2>9 DEF CancelInv, Cancelling, LoginRunning, DeviceOp, Fail
    <2>10. CASE EnsureTrusted
      BY <2>10 DEF CancelInv, Cancelling, LoginRunning, EnsureTrusted, attach, Release, Fail
    <2> QED
      BY <1>3, <2>1, <2>2, <2>3, <2>4, <2>5, <2>6, <2>7, <2>8, <2>9, <2>10 DEF LoginSteps
  <1>4. CASE EndpointSteps
    <2>1. CASE FinishConnect
      BY <2>1 DEF CancelInv, Cancelling, LoginRunning, FinishConnect, attach, Release
    <2>2. CASE startSOCKS
      BY <2>2 DEF CancelInv, Cancelling, LoginRunning, startSOCKS, afterSOCKS
    <2>3. CASE SOCKSWait
      BY <2>3 DEF CancelInv, Cancelling, LoginRunning, SOCKSWait, afterSOCKS, CancelSOCKS
    <2>4. CASE startL3
      BY <2>4 DEF CancelInv, Cancelling, LoginRunning, startL3, afterL3
    <2>5. CASE L3Dial
      BY <2>5 DEF CancelInv, Cancelling, LoginRunning, L3Dial, L3Failed, afterL3
    <2>6. CASE L3Attach
      BY <2>6 DEF CancelInv, Cancelling, LoginRunning, L3Attach, L3Failed, afterL3
    <2>7. CASE CheckConnect
      BY <2>7 DEF CancelInv, Cancelling, LoginRunning, CheckConnect, Fail
    <2>8. CASE startEndpoint
      BY <2>8 DEF CancelInv, Cancelling, LoginRunning, startEndpoint, handlerFrame, LoginKinds
    <2>9. CASE stopEndpoint
      BY <2>9 DEF CancelInv, Cancelling, LoginRunning, stopEndpoint, CancelL3, CancelSOCKS
    <2>10. CASE EndpointStopped
      BY <2>10 DEF CancelInv, Cancelling, LoginRunning, EndpointStopped
    <2>11. CASE stop
      BY <2>11 DEF CancelInv, Cancelling, LoginRunning, stop, handlerFrame, LoginKinds
    <2> QED
      BY <1>4, <2>1, <2>2, <2>3, <2>4, <2>5, <2>6, <2>7, <2>8, <2>9, <2>10, <2>11 DEF EndpointSteps
  <1>5. CASE ReportSteps
    <2>1. CASE authTimeout
      BY <2>1 DEF CancelInv, Cancelling, LoginRunning, authTimeout, handlerFrame, Fail
    <2>2. CASE tunnelDown
      BY <2>2 DEF CancelInv, Cancelling, LoginRunning, tunnelDown, CancelL3, Fail
    <2>3. CASE L3Stopped
      BY <2>3 DEF CancelInv, Cancelling, LoginRunning, L3Stopped
    <2>4. CASE tunnelRetry
      BY <2>4 DEF CancelInv, Cancelling, LoginRunning, tunnelRetry
    <2>5. CASE tunnelRestored
      BY <2>5 DEF CancelInv, Cancelling, LoginRunning, tunnelRestored
    <2>6. CASE sessionEnded
      BY <2>6 DEF CancelInv, Cancelling, LoginRunning, sessionEnded, handlerFrame, Fail
    <2>7. CASE socksDown
      BY <2>7 DEF CancelInv, Cancelling, LoginRunning, socksDown, CancelSOCKS
    <2>8. CASE SOCKSStopped
      BY <2>8 DEF CancelInv, Cancelling, LoginRunning, SOCKSStopped, Fail
    <2> QED
      BY <1>5, <2>1, <2>2, <2>3, <2>4, <2>5, <2>6, <2>7, <2>8 DEF ReportSteps
  <1>6. CASE L3Task \/ SOCKSTask \/ RootTask
    <2>1. UNCHANGED <<pc, cmd, opSet, opDone, caller, holds, closed, stopPending>>
      BY <1>6 DEF L3Task, SOCKSTask, RootTask, LinkDropped, ReportRetry, Reconnected, ReportRestored,
          GivesUp, L3SessionGone, RunCancelled, ReportDown, SOCKSRuns, SOCKSEnds, SOCKSSessionGone,
          ReportSOCKSDown, RootSees, ReportSessionEnded, TaskFrame
    <2> QED
      BY <2>1 DEF CancelInv, Cancelling, LoginRunning
  <1>7. CASE CallerSteps
    <2>1. CASE \E c \in Stoppers : StopStore(c) \/ StopEnqueue(c)
      <3>1. PICK c \in Stoppers : StopStore(c) \/ StopEnqueue(c)
        BY <2>1
      <3>2. CASE StopStore(c)
        <4>1. Cancelling(c)' /\ caller'[Closer] = caller[Closer] /\ UNCHANGED <<pc, cmd, opSet, opDone, holds, closed>>
          BY <3>1, <3>2, ServiceAssumption DEF StopStore, Cancelling, TypeCallers, Callers
        <4> QED
          BY <3>1, <4>1 DEF CancelInv, Cancelling, LoginRunning
      <3>3. CASE StopEnqueue(c)
        <4>1. /\ UNCHANGED <<pc, cmd, opSet, opDone, holds, closed, stopPending>> /\ caller'[Closer] = caller[Closer]
              /\ \A d \in Callers : Cancelling(d) => Cancelling(d)'
          BY <3>1, <3>3, ServiceAssumption DEF StopEnqueue, Cancelling, TypeCallers, Callers
        <4> QED
          BY <4>1 DEF CancelInv, LoginRunning, Callers
      <3> QED
        BY <3>1, <3>2, <3>3
    <2>2. CASE \E c \in Callers : cancelOpRead(c) \/ cancelOpCall(c)
      <3>1. PICK c \in Callers : cancelOpRead(c) \/ cancelOpCall(c)
        BY <2>2
      <3>2. CASE cancelOpRead(c)
        <4>1. UNCHANGED <<pc, cmd, opSet, opDone, closed, stopPending>> /\ (caller'[Closer] # "idle" => closed)
          BY <3>1, <3>2 DEF cancelOpRead, TypeCallers, CancelInv, Callers
        <4>2. ASSUME NEW d \in Callers, Cancelling(d), opSet PROVE Cancelling(d)'
          BY <3>1, <3>2, <4>2 DEF cancelOpRead, TypeCallers, Cancelling
        <4>3. cmd.kind \in LoginKinds => opSet
          BY DEF CancelInv, LoginKinds
        <4> QED
          BY <4>1, <4>2, <4>3 DEF CancelInv, LoginRunning, Callers
      <3>3. CASE cancelOpCall(c)
        <4>1. /\ UNCHANGED <<pc, cmd, opSet, closed, stopPending>> /\ (caller'[Closer] # "idle" => closed)
              /\ opDone => opDone'
          BY <3>1, <3>3 DEF cancelOpCall, TypeCallers, CancelInv, Callers
        <4>2. ASSUME NEW d \in Callers, Cancelling(d) PROVE opDone' \/ Cancelling(d)'
          BY <3>1, <3>3, <4>2 DEF cancelOpCall, TypeCallers, Cancelling
        <4> QED
          BY <4>1, <4>2 DEF CancelInv, LoginRunning, Callers
      <3> QED
        BY <3>1, <3>2, <3>3
    <2>3. CASE CloseStore
      <3>1. /\ UNCHANGED <<pc, cmd, opSet, opDone, holds, stopPending>> /\ closed' /\ Cancelling(Closer)'
            /\ \A d \in Stoppers : Cancelling(d) => Cancelling(d)'
        BY <2>3, ServiceAssumption DEF CloseStore, Cancelling, TypeCallers, Callers
      <3> QED
        BY <3>1 DEF CancelInv, LoginRunning
    <2>4. CASE \/ \E kind \in {"Start", "Devices", "Auth"} : Call(kind, "none")
               \/ \E kind \in {"EpStart", "EpStop"}, ep \in {"wg", "socks"} : Call(kind, ep)
               \/ \E i \in 1 .. CmdCap : QueuedDeadline(i)
      <3>1. UNCHANGED <<pc, cmd, opSet, opDone, caller, holds, closed, stopPending>>
        BY <2>4 DEF Call, QueuedDeadline
      <3> QED
        BY <3>1 DEF CancelInv, Cancelling, LoginRunning
    <2>5. CASE RunningDeadline
      BY <2>5 DEF RunningDeadline, CancelInv, Cancelling, LoginRunning
    <2> QED
      BY <1>7, <2>1, <2>2, <2>3, <2>4, <2>5 DEF CallerSteps
  <1>8. CASE Timer
    <2>1. UNCHANGED <<pc, cmd, opSet, opDone, caller, holds, closed, stopPending>>
      BY <1>8 DEF Timer, TimerFires, reportAuthTimeout
    <2> QED
      BY <2>1 DEF CancelInv, Cancelling, LoginRunning
  <1>9. CASE UNCHANGED vars
    BY <1>9 DEF vars, CancelInv, Cancelling, LoginRunning
  <1> QED
    BY <1>1, <1>2, <1>3, <1>4, <1>5, <1>6, <1>7, <1>8, <1>9 DEF Next, Actor, Terminated

\* CancelInv holds throughout, from newActor on.
LEMMA CancelInvariant == Spec => []CancelInv
  <1>1. Init => CancelInv
    BY DEF Init, CancelInv, NoCmd, Cancelling, LoginRunning, LoginKinds, Callers
  <1>2. TypeOK /\ CancelInv /\ [Next]_vars => CancelInv'
    BY CancelInvNext DEF TypeOK
  <1> QED
    BY <1>1, <1>2, TypeCorrect, PTL DEF Spec

\* Once Stop or Close has set its flag and called opCancel, no login and no start of an endpoint
\* goes on behind its back: the command that runs is cancelled, wherever it was when the flag was
\* set, and the ones behind it do not get past dispatch (service.go: dispatch, Stop, Close).
THEOREM CancelIsSeen == Spec => []CancelReachesLogin
  <1>1. CancelInv => CancelReachesLogin
    <2> SUFFICES ASSUME CancelInv PROVE CancelReachesLogin
      OBVIOUS
    <2>1. stopPending /\ (\A c \in Stoppers : caller[c] \notin {"stored", "read"}) /\ LoginRunning => opDone
      BY DEF CancelInv, Cancelling
    <2>2. caller[Closer] = "waiting" /\ LoginRunning => opDone
      BY DEF CancelInv, Cancelling, LoginRunning
    <2> QED
      BY <2>1, <2>2 DEF CancelReachesLogin
  <1> QED
    BY <1>1, CancelInvariant, PTL

\* StopInv is inductive: only teardown stands between a Stop that finds the service busy and
\* its answer, and it leaves the status at "idle".
LEMMA StopInvNext == StopInv /\ PathInv /\ CancelInv /\ TypeControl /\ [Next]_vars => StopInv'
  <1> SUFFICES ASSUME StopInv, PathInv, CancelInv, TypeControl, [Next]_vars PROVE StopInv'
    OBVIOUS
  <1> USE DEF shared, opVars, status, fields, wait, bearer, objects, tasks, env, goto, StopInv
  <1>1. CASE TakeCommand \/ TakeReport
    BY <1>1 DEF TakeCommand, TakeReport, Take
  <1>2. CASE Dispatch
    <2>1. CASE ClosedGate \/ StopGate
      BY <2>1 DEF ClosedGate, StopGate, Reports, LoginKinds
    <2>2. CASE Reply
      BY <2>2 DEF Reply, NoCmd
    <2>3. CASE SelectClosed \/ Exit
      BY <2>3 DEF SelectClosed, Exit, CancelInv
    <2> QED
      BY <1>2, <2>1, <2>2, <2>3 DEF Dispatch
  <1>3. CASE TeardownSteps
    <2>1. CASE Teardown \/ RootJoin \/ SOCKSJoin \/ TeardownL3 \/ L3Join
      BY <2>1 DEF Teardown, RootJoin, SOCKSJoin, TeardownL3, L3Join, StopTimer, CancelSOCKS, CancelL3
    <2>2. CASE Logout
      BY <2>2 DEF Logout, PathInv
    <2>3. CASE SetError \/ DevClose
      BY <2>3 DEF SetError, DevClose
    <2> QED
      BY <1>3, <2>1, <2>2, <2>3 DEF TeardownSteps
  <1>4. CASE LoginSteps
    BY <1>4 DEF LoginSteps, start, devices, Credentials, Login, Verify, awaitAuth, auth, SubmitCode,
        DeviceOp, EnsureTrusted, handlerFrame, Fail
  <1>5. CASE EndpointSteps
    BY <1>5 DEF EndpointSteps, FinishConnect, startSOCKS, SOCKSWait, startL3, L3Dial, L3Attach,
        CheckConnect, startEndpoint, stopEndpoint, EndpointStopped, stop, handlerFrame
  <1>6. CASE ReportSteps
    BY <1>6 DEF ReportSteps, authTimeout, tunnelDown, L3Stopped, tunnelRetry, tunnelRestored,
        sessionEnded, socksDown, SOCKSStopped, handlerFrame
  <1>7. CASE L3Task \/ SOCKSTask \/ RootTask
    BY <1>7 DEF L3Task, SOCKSTask, RootTask, LinkDropped, ReportRetry, Reconnected,
        ReportRestored, GivesUp, L3SessionGone, RunCancelled, ReportDown, SOCKSRuns,
        SOCKSEnds, SOCKSSessionGone, ReportSOCKSDown, RootSees, ReportSessionEnded, TaskFrame
  <1>8. CASE CallerSteps
    BY <1>8 DEF CallerSteps, StopStore, StopEnqueue, cancelOpRead, cancelOpCall, CloseStore,
        Call, QueuedDeadline, RunningDeadline
  <1>9. CASE Timer
    BY <1>9 DEF Timer, TimerFires, reportAuthTimeout
  <1>10. CASE UNCHANGED vars
    BY <1>10 DEF vars
  <1> QED
    BY <1>1, <1>2, <1>3, <1>4, <1>5, <1>6, <1>7, <1>8, <1>9, <1>10 DEF Next, Actor, Terminated

\* A Stop that is answered has disconnected, however many Stops there are and whichever of them
\* cleared the flag they share (service.go: stop, teardown, dispatch).
THEOREM StopDisconnects == Spec => []StopLogsOut
  <1>1. Init => StopInv
    BY DEF Init, StopInv, NoCmd
  <1>2. TypeOK /\ PathInv /\ CancelInv /\ StopInv /\ [Next]_vars => StopInv'
    BY StopInvNext DEF TypeOK
  <1>3. SlotInv /\ TasksInv /\ StopInv => StopLogsOut
    BY DEF SlotInv, TasksInv, StopInv, StopLogsOut, nil
  <1> QED
    BY <1>1, <1>2, <1>3, TypeCorrect, SlotInvariant, TasksInvariant, PathInvariant, CancelInvariant, PTL
    DEF Spec

---------------------------------------------------------------------------
\* Reports and what they are about.

\* CountersInv is inductive: the generation goes up when a run of the link ends, a SOCKS object is
\* made once, and a round of waiting is numbered when its timer is set.
LEMMA CountersInvNext == CountersInv /\ SlotInv /\ TasksInv /\ TypeControl /\ TypeTasks /\ TypeFields /\ [Next]_vars => CountersInv'
  <1> SUFFICES ASSUME CountersInv, SlotInv, TasksInv, TypeControl, TypeTasks, TypeFields, [Next]_vars PROVE CountersInv'
    OBVIOUS
  <1> USE DEF shared, opVars, status, fields, wait, bearer, objects, tasks, env, goto
  <1>1. CASE Dispatch \/ TakeCommand \/ TakeReport
    <2>1. CASE TakeCommand
      BY <2>1 DEF CountersInv, nil, TypeTasks, TypeFields, TakeCommand, Take
    <2>2. CASE TakeReport
      BY <2>2 DEF CountersInv, nil, TypeTasks, TypeFields, TakeReport, Take
    <2>3. CASE ClosedGate
      BY <2>3 DEF CountersInv, nil, TypeTasks, TypeFields, ClosedGate
    <2>4. CASE StopGate
      BY <2>4 DEF CountersInv, nil, TypeTasks, TypeFields, StopGate
    <2>5. CASE Reply
      BY <2>5 DEF CountersInv, nil, TypeTasks, TypeFields, Reply
    <2>6. CASE SelectClosed
      BY <2>6 DEF CountersInv, nil, TypeTasks, TypeFields, SelectClosed
    <2>7. CASE Exit
      BY <2>7 DEF CountersInv, nil, TypeTasks, TypeFields, Exit
    <2> QED
      BY <1>1, <2>1, <2>2, <2>3, <2>4, <2>5, <2>6, <2>7 DEF Dispatch
  <1>2. CASE TeardownSteps
    <2>1. CASE Teardown
      BY <2>1 DEF CountersInv, nil, TypeTasks, TypeFields, Teardown, StopTimer
    <2>2. CASE RootJoin
      BY <2>2 DEF CountersInv, nil, TypeTasks, TypeFields, RootJoin, CancelSOCKS, NoRoot
    <2>3. CASE SOCKSJoin
      BY <2>3 DEF CountersInv, nil, TypeTasks, TypeFields, SOCKSJoin, NoSOCKS, TypeControl
    <2>4. CASE TeardownL3
      BY <2>4 DEF CountersInv, nil, TypeTasks, TypeFields, TeardownL3, CancelL3
    <2>5. CASE L3Join
      BY <2>5 DEF CountersInv, nil, TypeTasks, TypeFields, L3Join, NoL3, TypeControl
    <2>6. CASE Logout
      BY <2>6 DEF CountersInv, nil, TypeTasks, TypeFields, Logout, Release, SlotInv, TasksInv, TypeControl
    <2>7. CASE SetError
      BY <2>7 DEF CountersInv, nil, TypeTasks, TypeFields, SetError
    <2>8. CASE DevClose
      BY <2>8 DEF CountersInv, nil, TypeTasks, TypeFields, DevClose, Release
    <2> QED
      BY <1>2, <2>1, <2>2, <2>3, <2>4, <2>5, <2>6, <2>7, <2>8 DEF TeardownSteps
  <1>3. CASE LoginSteps
    <2>1. CASE start
      BY <2>1 DEF CountersInv, nil, TypeTasks, TypeFields, start, handlerFrame
    <2>2. CASE devices
      BY <2>2 DEF CountersInv, nil, TypeTasks, TypeFields, devices, handlerFrame
    <2>3. CASE Credentials
      BY <2>3 DEF CountersInv, nil, TypeTasks, TypeFields, Credentials, Fail
    <2>4. CASE Login
      BY <2>4 DEF CountersInv, nil, TypeTasks, TypeFields, Login, DropLogin, Release, Fail, SlotInv,
          TasksInv, TypeControl
    <2>5. CASE Verify
      BY <2>5 DEF CountersInv, nil, TypeTasks, TypeFields, Verify, DropLogin, Release, Fail, SlotInv,
          TasksInv, TypeControl
    <2>6. CASE awaitAuth
      BY <2>6 DEF CountersInv, nil, TypeTasks, TypeFields, awaitAuth
    <2>7. CASE auth
      BY <2>7 DEF CountersInv, nil, TypeTasks, TypeFields, auth, handlerFrame
    <2>8. CASE SubmitCode
      BY <2>8 DEF CountersInv, nil, TypeTasks, TypeFields, SubmitCode, Fail, StopTimer
    <2>9. CASE DeviceOp
      BY <2>9 DEF CountersInv, nil, TypeTasks, TypeFields, DeviceOp, Fail
    <2>10. CASE EnsureTrusted
      BY <2>10 DEF CountersInv, nil, TypeTasks, TypeFields, EnsureTrusted, attach, Release, Fail,
          SlotInv, TasksInv, TypeControl
    <2> QED
      BY <1>3, <2>1, <2>2, <2>3, <2>4, <2>5, <2>6, <2>7, <2>8, <2>9, <2>10 DEF LoginSteps
  <1>4. CASE EndpointSteps
    <2>1. CASE FinishConnect
      BY <2>1 DEF CountersInv, nil, TypeTasks, TypeFields, FinishConnect, attach, Release, SlotInv,
          TasksInv, TypeControl
    <2>2. CASE startSOCKS
      BY <2>2 DEF CountersInv, nil, TypeTasks, TypeFields, startSOCKS, afterSOCKS, NoSOCKS
    <2>3. CASE SOCKSWait
      BY <2>3 DEF CountersInv, nil, TypeTasks, TypeFields, SOCKSWait, afterSOCKS, CancelSOCKS
    <2>4. CASE startL3
      BY <2>4 DEF CountersInv, nil, TypeTasks, TypeFields, startL3, afterL3, NoL3
    <2>5. CASE L3Dial
      BY <2>5 DEF CountersInv, nil, TypeTasks, TypeFields, L3Dial, L3Failed, afterL3
    <2>6. CASE L3Attach
      BY <2>6 DEF CountersInv, nil, TypeTasks, TypeFields, L3Attach, L3Failed, afterL3
    <2>7. CASE CheckConnect
      BY <2>7 DEF CountersInv, nil, TypeTasks, TypeFields, CheckConnect, Fail
    <2>8. CASE startEndpoint
      BY <2>8 DEF CountersInv, nil, TypeTasks, TypeFields, startEndpoint, handlerFrame
    <2>9. CASE stopEndpoint
      BY <2>9 DEF CountersInv, nil, TypeTasks, TypeFields, stopEndpoint, CancelL3, CancelSOCKS
    <2>10. CASE EndpointStopped
      BY <2>10 DEF CountersInv, nil, TypeTasks, TypeFields, EndpointStopped
    <2>11. CASE stop
      BY <2>11 DEF CountersInv, nil, TypeTasks, TypeFields, stop, handlerFrame
    <2> QED
      BY <1>4, <2>1, <2>2, <2>3, <2>4, <2>5, <2>6, <2>7, <2>8, <2>9, <2>10, <2>11 DEF EndpointSteps
  <1>5. CASE ReportSteps
    <2>1. CASE authTimeout
      BY <2>1 DEF CountersInv, nil, TypeTasks, TypeFields, authTimeout, handlerFrame, Fail
    <2>2. CASE tunnelDown
      BY <2>2 DEF CountersInv, nil, TypeTasks, TypeFields, tunnelDown, CancelL3, Fail
    <2>3. CASE L3Stopped
      BY <2>3 DEF CountersInv, nil, TypeTasks, TypeFields, L3Stopped
    <2>4. CASE tunnelRetry
      BY <2>4 DEF CountersInv, nil, TypeTasks, TypeFields, tunnelRetry
    <2>5. CASE tunnelRestored
      BY <2>5 DEF CountersInv, nil, TypeTasks, TypeFields, tunnelRestored
    <2>6. CASE sessionEnded
      BY <2>6 DEF CountersInv, nil, TypeTasks, TypeFields, sessionEnded, handlerFrame, Fail
    <2>7. CASE socksDown
      BY <2>7 DEF CountersInv, nil, TypeTasks, TypeFields, socksDown, CancelSOCKS
    <2>8. CASE SOCKSStopped
      BY <2>8 DEF CountersInv, nil, TypeTasks, TypeFields, SOCKSStopped, Fail
    <2> QED
      BY <1>5, <2>1, <2>2, <2>3, <2>4, <2>5, <2>6, <2>7, <2>8 DEF ReportSteps
  <1>6. CASE L3Task \/ SOCKSTask \/ RootTask
    <2>1. CASE LinkDropped
      BY <2>1 DEF CountersInv, nil, TypeTasks, TypeFields, LinkDropped, TaskFrame
    <2>2. CASE ReportRetry
      BY <2>2 DEF CountersInv, nil, TypeTasks, TypeFields, ReportRetry, TaskFrame, report
    <2>3. CASE Reconnected
      BY <2>3 DEF CountersInv, nil, TypeTasks, TypeFields, Reconnected, TaskFrame
    <2>4. CASE ReportRestored
      BY <2>4 DEF CountersInv, nil, TypeTasks, TypeFields, ReportRestored, TaskFrame, report
    <2>5. CASE GivesUp
      BY <2>5 DEF CountersInv, nil, TypeTasks, TypeFields, GivesUp, TaskFrame
    <2>6. CASE L3SessionGone
      BY <2>6 DEF CountersInv, nil, TypeTasks, TypeFields, L3SessionGone, TaskFrame
    <2>7. CASE RunCancelled
      BY <2>7 DEF CountersInv, nil, TypeTasks, TypeFields, RunCancelled, TaskFrame
    <2>8. CASE ReportDown
      BY <2>8 DEF CountersInv, nil, TypeTasks, TypeFields, ReportDown, TaskFrame, report
    <2>9. CASE SOCKSRuns
      BY <2>9 DEF CountersInv, nil, TypeTasks, TypeFields, SOCKSRuns, TaskFrame
    <2>10. CASE SOCKSEnds
      BY <2>10 DEF CountersInv, nil, TypeTasks, TypeFields, SOCKSEnds, TaskFrame
    <2>11. CASE SOCKSSessionGone
      BY <2>11 DEF CountersInv, nil, TypeTasks, TypeFields, SOCKSSessionGone, TaskFrame
    <2>12. CASE ReportSOCKSDown
      BY <2>12 DEF CountersInv, nil, TypeTasks, TypeFields, ReportSOCKSDown, TaskFrame, report
    <2>13. CASE RootSees
      BY <2>13 DEF CountersInv, nil, TypeTasks, TypeFields, RootSees, TaskFrame
    <2>14. CASE ReportSessionEnded
      BY <2>14 DEF CountersInv, nil, TypeTasks, TypeFields, ReportSessionEnded, TaskFrame, report
    <2> QED
      BY <1>6, <2>1, <2>2, <2>3, <2>4, <2>5, <2>6, <2>7, <2>8, <2>9, <2>10, <2>11, <2>12, <2>13, <2>14
          DEF L3Task, SOCKSTask, RootTask
  <1>7. CASE CallerSteps
    <2>1. UNCHANGED <<gen, l3, pc, socksMade, socksObj, socks, ended, authSeq, armed, session, root, fired>>
      BY <1>7 DEF CallerSteps, StopStore, StopEnqueue, cancelOpRead, cancelOpCall, CloseStore, Call,
          QueuedDeadline, RunningDeadline, Spend
    <2> QED
      BY <2>1 DEF CountersInv, nil, TypeTasks, TypeFields
  <1>8. CASE Timer
    <2>1. CASE TimerFires
      BY <2>1 DEF TimerFires, CountersInv, nil, TypeTasks, TypeFields
    <2>2. CASE \E seq \in fired : reportAuthTimeout(seq)
      BY <2>2 DEF reportAuthTimeout, CountersInv, nil
    <2> QED
      BY <1>8, <2>1, <2>2 DEF Timer
  <1>9. CASE UNCHANGED vars
    BY <1>9 DEF vars, CountersInv, nil, TypeTasks, TypeFields
  <1> QED
    BY <1>1, <1>2, <1>3, <1>4, <1>5, <1>6, <1>7, <1>8, <1>9 DEF Next, Actor, Terminated

\* A report that was right about its task stays right: what a step does to a task makes the reports
\* about it stale.
LEMMA SaneNext == TypeControl /\ TypeTasks /\ TypeFields /\ CountersInv /\ [Next]_vars => \A e \in Cmd : Sane(e) => Sane(e)'
  <1> SUFFICES ASSUME TypeControl, TypeTasks, TypeFields, CountersInv, [Next]_vars, NEW e \in Cmd, Sane(e) PROVE Sane(e)'
    OBVIOUS
  <1> USE DEF shared, opVars, status, fields, wait, bearer, objects, tasks, env, goto
  <1>1. CASE Dispatch \/ TakeCommand \/ TakeReport
    <2>1. CASE TakeCommand
      BY <2>1 DEF Sane, Cmd, TakeCommand, Take
    <2>2. CASE TakeReport
      BY <2>2 DEF Sane, Cmd, TakeReport, Take
    <2>3. CASE ClosedGate
      BY <2>3 DEF Sane, Cmd, ClosedGate
    <2>4. CASE StopGate
      BY <2>4 DEF Sane, Cmd, StopGate
    <2>5. CASE Reply
      BY <2>5 DEF Sane, Cmd, Reply
    <2>6. CASE SelectClosed
      BY <2>6 DEF Sane, Cmd, SelectClosed
    <2>7. CASE Exit
      BY <2>7 DEF Sane, Cmd, Exit
    <2> QED
      BY <1>1, <2>1, <2>2, <2>3, <2>4, <2>5, <2>6, <2>7 DEF Dispatch
  <1>2. CASE TeardownSteps
    <2>1. CASE Teardown
      BY <2>1 DEF Sane, Cmd, Teardown, StopTimer, TypeTasks, TypeFields, CountersInv
    <2>2. CASE RootJoin
      BY <2>2 DEF Sane, Cmd, RootJoin, CancelSOCKS, NoL3, NoSOCKS, NoRoot, CountersInv, TypeControl,
          TypeTasks, TypeFields
    <2>3. CASE SOCKSJoin
      BY <2>3 DEF Sane, Cmd, SOCKSJoin, NoL3, NoSOCKS, NoRoot, CountersInv, TypeControl, TypeTasks,
          TypeFields
    <2>4. CASE TeardownL3
      BY <2>4 DEF Sane, Cmd, TeardownL3, CancelL3, TypeTasks, TypeFields, CountersInv
    <2>5. CASE L3Join
      BY <2>5 DEF Sane, Cmd, L3Join, NoL3, NoSOCKS, NoRoot, CountersInv, TypeControl, TypeTasks,
          TypeFields
    <2>6. CASE Logout
      BY <2>6 DEF Sane, Cmd, Logout, Release, TypeControl
    <2>7. CASE SetError
      BY <2>7 DEF Sane, Cmd, SetError
    <2>8. CASE DevClose
      BY <2>8 DEF Sane, Cmd, DevClose, Release
    <2> QED
      BY <1>2, <2>1, <2>2, <2>3, <2>4, <2>5, <2>6, <2>7, <2>8 DEF TeardownSteps
  <1>3. CASE LoginSteps
    <2>1. CASE start
      BY <2>1 DEF Sane, Cmd, start, handlerFrame
    <2>2. CASE devices
      BY <2>2 DEF Sane, Cmd, devices, handlerFrame
    <2>3. CASE Credentials
      BY <2>3 DEF Sane, Cmd, Credentials, Fail
    <2>4. CASE Login
      BY <2>4 DEF Sane, Cmd, Login, DropLogin, Release, Fail, TypeTasks, TypeFields, CountersInv
    <2>5. CASE Verify
      BY <2>5 DEF Sane, Cmd, Verify, DropLogin, Release, Fail, TypeTasks, TypeFields, CountersInv
    <2>6. CASE awaitAuth
      BY <2>6 DEF Sane, Cmd, awaitAuth, TypeFields
    <2>7. CASE auth
      BY <2>7 DEF Sane, Cmd, auth, handlerFrame
    <2>8. CASE SubmitCode
      BY <2>8 DEF Sane, Cmd, SubmitCode, Fail, StopTimer, TypeFields
    <2>9. CASE DeviceOp
      BY <2>9 DEF Sane, Cmd, DeviceOp, Fail
    <2>10. CASE EnsureTrusted
      BY <2>10 DEF Sane, Cmd, EnsureTrusted, attach, Release, Fail, TypeTasks, TypeFields, CountersInv
    <2> QED
      BY <1>3, <2>1, <2>2, <2>3, <2>4, <2>5, <2>6, <2>7, <2>8, <2>9, <2>10 DEF LoginSteps
  <1>4. CASE EndpointSteps
    <2>1. CASE FinishConnect
      BY <2>1 DEF Sane, Cmd, FinishConnect, attach, Release, TypeTasks, TypeFields, CountersInv
    <2>2. CASE startSOCKS
      BY <2>2 DEF Sane, Cmd, startSOCKS, afterSOCKS, NoL3, NoSOCKS, NoRoot, CountersInv, TypeControl,
          TypeTasks, TypeFields
    <2>3. CASE SOCKSWait
      BY <2>3 DEF Sane, Cmd, SOCKSWait, afterSOCKS, CancelSOCKS, TypeTasks, TypeFields, CountersInv
    <2>4. CASE startL3
      BY <2>4 DEF Sane, Cmd, startL3, afterL3, NoL3, NoSOCKS, NoRoot, CountersInv, TypeControl,
          TypeTasks, TypeFields
    <2>5. CASE L3Dial
      BY <2>5 DEF Sane, Cmd, L3Dial, L3Failed, afterL3
    <2>6. CASE L3Attach
      BY <2>6 DEF Sane, Cmd, L3Attach, L3Failed, afterL3, TypeTasks, TypeFields, CountersInv
    <2>7. CASE CheckConnect
      BY <2>7 DEF Sane, Cmd, CheckConnect, Fail
    <2>8. CASE startEndpoint
      BY <2>8 DEF Sane, Cmd, startEndpoint, handlerFrame
    <2>9. CASE stopEndpoint
      BY <2>9 DEF Sane, Cmd, stopEndpoint, CancelL3, CancelSOCKS, TypeTasks, TypeFields, CountersInv
    <2>10. CASE EndpointStopped
      BY <2>10 DEF Sane, Cmd, EndpointStopped
    <2>11. CASE stop
      BY <2>11 DEF Sane, Cmd, stop, handlerFrame
    <2> QED
      BY <1>4, <2>1, <2>2, <2>3, <2>4, <2>5, <2>6, <2>7, <2>8, <2>9, <2>10, <2>11 DEF EndpointSteps
  <1>5. CASE ReportSteps
    <2>1. CASE authTimeout
      BY <2>1 DEF Sane, Cmd, authTimeout, handlerFrame, Fail
    <2>2. CASE tunnelDown
      BY <2>2 DEF Sane, Cmd, tunnelDown, CancelL3, Fail, TypeTasks, TypeFields, CountersInv
    <2>3. CASE L3Stopped
      BY <2>3 DEF Sane, Cmd, L3Stopped
    <2>4. CASE tunnelRetry
      BY <2>4 DEF Sane, Cmd, tunnelRetry
    <2>5. CASE tunnelRestored
      BY <2>5 DEF Sane, Cmd, tunnelRestored
    <2>6. CASE sessionEnded
      BY <2>6 DEF Sane, Cmd, sessionEnded, handlerFrame, Fail
    <2>7. CASE socksDown
      BY <2>7 DEF Sane, Cmd, socksDown, CancelSOCKS, TypeTasks, TypeFields, CountersInv
    <2>8. CASE SOCKSStopped
      BY <2>8 DEF Sane, Cmd, SOCKSStopped, Fail
    <2> QED
      BY <1>5, <2>1, <2>2, <2>3, <2>4, <2>5, <2>6, <2>7, <2>8 DEF ReportSteps
  <1>6. CASE L3Task \/ SOCKSTask \/ RootTask
    <2>1. CASE LinkDropped
      BY <2>1 DEF Sane, Cmd, LinkDropped, TaskFrame, TypeTasks
    <2>2. CASE ReportRetry
      BY <2>2 DEF Sane, Cmd, ReportRetry, TaskFrame, report, TypeTasks
    <2>3. CASE Reconnected
      BY <2>3 DEF Sane, Cmd, Reconnected, TaskFrame, TypeTasks
    <2>4. CASE ReportRestored
      BY <2>4 DEF Sane, Cmd, ReportRestored, TaskFrame, report, TypeTasks
    <2>5. CASE GivesUp
      BY <2>5 DEF Sane, Cmd, GivesUp, TaskFrame, TypeTasks
    <2>6. CASE L3SessionGone
      BY <2>6 DEF Sane, Cmd, L3SessionGone, TaskFrame, TypeTasks
    <2>7. CASE RunCancelled
      BY <2>7 DEF Sane, Cmd, RunCancelled, TaskFrame, TypeTasks
    <2>8. CASE ReportDown
      BY <2>8 DEF Sane, Cmd, ReportDown, TaskFrame, report, TypeTasks
    <2>9. CASE SOCKSRuns
      BY <2>9 DEF Sane, Cmd, SOCKSRuns, TaskFrame, TypeTasks
    <2>10. CASE SOCKSEnds
      BY <2>10 DEF Sane, Cmd, SOCKSEnds, TaskFrame, TypeTasks
    <2>11. CASE SOCKSSessionGone
      BY <2>11 DEF Sane, Cmd, SOCKSSessionGone, TaskFrame, TypeTasks
    <2>12. CASE ReportSOCKSDown
      BY <2>12 DEF Sane, Cmd, ReportSOCKSDown, TaskFrame, report, TypeTasks
    <2>13. CASE RootSees
      BY <2>13 DEF Sane, Cmd, RootSees, TaskFrame
    <2>14. CASE ReportSessionEnded
      BY <2>14 DEF Sane, Cmd, ReportSessionEnded, TaskFrame, report
    <2> QED
      BY <1>6, <2>1, <2>2, <2>3, <2>4, <2>5, <2>6, <2>7, <2>8, <2>9, <2>10, <2>11, <2>12, <2>13, <2>14
          DEF L3Task, SOCKSTask, RootTask
  <1>7. CASE CallerSteps
    <2>1. UNCHANGED <<gen, l3, pc, socksMade, socksObj, socks, ended, authSeq, armed>>
      BY <1>7 DEF CallerSteps, StopStore, StopEnqueue, cancelOpRead, cancelOpCall, CloseStore, Call,
          QueuedDeadline, RunningDeadline, Spend
    <2> QED
      BY <2>1 DEF Sane, Cmd
  <1>8. CASE Timer
    <2>1. UNCHANGED <<gen, l3, pc, socksMade, socksObj, socks, ended, authSeq>> /\ armed' \in {armed, FALSE}
      BY <1>8 DEF Timer, TimerFires, reportAuthTimeout
    <2>2. CASE armed' = armed
      BY <2>1, <2>2 DEF Sane
    <2>3. CASE armed' = FALSE
      BY <2>1, <2>3 DEF Sane
    <2> QED
      BY <2>1, <2>2, <2>3
  <1>9. CASE UNCHANGED vars
    BY <1>9 DEF vars, Sane, Cmd
  <1> QED
    BY <1>1, <1>2, <1>3, <1>4, <1>5, <1>6, <1>7, <1>8, <1>9 DEF Next, Actor, Terminated

\* A channel of commands that are right about their tasks, when one is sent or taken out, or the
\* deadline of one passes.
LEMMA Sends == ASSUME NEW S, NEW q \in Seq(S), NEW e \in S PROVE Append(q, e) \in Seq(S)
  OBVIOUS

\* The first of them, and the rest.
LEMMA Receives == ASSUME NEW S, NEW q \in Seq(S), q # <<>> PROVE Head(q) \in S /\ Tail(q) \in Seq(S)
  OBVIOUS

\* No channel loses its order by what is learnt of its commands.
LEMMA Widens == ASSUME NEW S, NEW T, S \subseteq T, NEW q \in Seq(S) PROVE q \in Seq(T)
  OBVIOUS

\* A deadline that passes says nothing about a task.
LEMMA Expires == ASSUME NEW q \in Seq(SaneCmds), NEW i \in DOMAIN q
                 PROVE  [q EXCEPT ![i].dead = TRUE] \in Seq(SaneCmds)
  <1>1. q[i] \in SaneCmds
    OBVIOUS
  <1>2. [q[i] EXCEPT !.dead = TRUE] \in SaneCmds
    BY <1>1 DEF SaneCmds, Sane, Cmd
  <1>3. \A f \in SaneCmds : [q EXCEPT ![i] = f] \in Seq(SaneCmds)
    <2> HIDE DEF SaneCmds
    <2> QED
      OBVIOUS
  <1> QED
    BY <1>2, <1>3

\* What is sent is right about its task; what is taken out of a queue, or left there, still is.
LEMMA ReportsNext == ReportsInv /\ TypeQueues /\ TypeControl /\ TypeTasks /\ TypeFields /\ [Next]_vars => cmd' \in SaneCmds' /\ cmds' \in Seq(SaneCmds') /\ events' \in Seq(SaneCmds')
  <1> SUFFICES ASSUME ReportsInv, TypeQueues, TypeControl, TypeTasks, TypeFields, [Next]_vars PROVE cmd' \in SaneCmds' /\ cmds' \in Seq(SaneCmds') /\ events' \in Seq(SaneCmds')
    OBVIOUS
  <1>0. /\ SaneCmds \subseteq SaneCmds' /\ cmd \in SaneCmds /\ cmds \in Seq(SaneCmds) /\ events \in Seq(SaneCmds)
        /\ cmd \in SaneCmds' /\ cmds \in Seq(SaneCmds') /\ events \in Seq(SaneCmds')
    <2>1. SaneCmds \subseteq SaneCmds' /\ cmd \in SaneCmds /\ cmds \in Seq(SaneCmds) /\ events \in Seq(SaneCmds)
      BY SaneNext DEF SaneCmds, ReportsInv
    <2> QED
      BY <2>1
  <1> USE DEF shared, opVars, status, fields, wait, bearer, objects, tasks, env, goto
  <1>1. CASE Dispatch \/ TakeCommand \/ TakeReport
    <2>1. CASE TakeCommand
      BY <2>1, <1>0, Receives DEF TakeCommand, Take, ReportsInv
    <2>2. CASE TakeReport
      BY <2>2, <1>0, Receives DEF TakeReport, Take, ReportsInv
    <2>3. CASE ClosedGate
      BY <2>3, <1>0 DEF ClosedGate
    <2>4. CASE StopGate
      BY <2>4, <1>0 DEF StopGate
    <2>5. CASE Reply
      <3>1. NoCmd \in SaneCmds'
        BY DEF NoCmd, SaneCmds, Sane, Cmd, UserKinds, Reports, nil
      <3> QED
        BY <2>5, <1>0, <3>1 DEF Reply
    <2>6. CASE SelectClosed
      BY <2>6, <1>0 DEF SelectClosed
    <2>7. CASE Exit
      BY <2>7, <1>0 DEF Exit
    <2> QED
      BY <1>1, <2>1, <2>2, <2>3, <2>4, <2>5, <2>6, <2>7 DEF Dispatch
  <1>2. CASE TeardownSteps
    <2>1. CASE Teardown
      BY <2>1, <1>0 DEF Teardown, StopTimer
    <2>2. CASE RootJoin
      BY <2>2, <1>0 DEF RootJoin, CancelSOCKS
    <2>3. CASE SOCKSJoin
      BY <2>3, <1>0 DEF SOCKSJoin
    <2>4. CASE TeardownL3
      BY <2>4, <1>0 DEF TeardownL3, CancelL3
    <2>5. CASE L3Join
      BY <2>5, <1>0 DEF L3Join
    <2>6. CASE Logout
      BY <2>6, <1>0 DEF Logout, Release
    <2>7. CASE SetError
      BY <2>7, <1>0 DEF SetError
    <2>8. CASE DevClose
      BY <2>8, <1>0 DEF DevClose, Release
    <2> QED
      BY <1>2, <2>1, <2>2, <2>3, <2>4, <2>5, <2>6, <2>7, <2>8 DEF TeardownSteps
  <1>3. CASE LoginSteps
    <2>1. CASE start
      BY <2>1, <1>0 DEF start, handlerFrame
    <2>2. CASE devices
      BY <2>2, <1>0 DEF devices, handlerFrame
    <2>3. CASE Credentials
      BY <2>3, <1>0 DEF Credentials, Fail
    <2>4. CASE Login
      BY <2>4, <1>0 DEF Login, DropLogin, Release, Fail
    <2>5. CASE Verify
      BY <2>5, <1>0 DEF Verify, DropLogin, Release, Fail
    <2>6. CASE awaitAuth
      BY <2>6, <1>0 DEF awaitAuth
    <2>7. CASE auth
      BY <2>7, <1>0 DEF auth, handlerFrame
    <2>8. CASE SubmitCode
      BY <2>8, <1>0 DEF SubmitCode, Fail, StopTimer
    <2>9. CASE DeviceOp
      BY <2>9, <1>0 DEF DeviceOp, Fail
    <2>10. CASE EnsureTrusted
      BY <2>10, <1>0 DEF EnsureTrusted, attach, Release, Fail
    <2> QED
      BY <1>3, <2>1, <2>2, <2>3, <2>4, <2>5, <2>6, <2>7, <2>8, <2>9, <2>10 DEF LoginSteps
  <1>4. CASE EndpointSteps
    <2>1. CASE FinishConnect
      BY <2>1, <1>0 DEF FinishConnect, attach, Release
    <2>2. CASE startSOCKS
      BY <2>2, <1>0 DEF startSOCKS, afterSOCKS
    <2>3. CASE SOCKSWait
      BY <2>3, <1>0 DEF SOCKSWait, afterSOCKS, CancelSOCKS
    <2>4. CASE startL3
      BY <2>4, <1>0 DEF startL3, afterL3
    <2>5. CASE L3Dial
      BY <2>5, <1>0 DEF L3Dial, L3Failed, afterL3
    <2>6. CASE L3Attach
      BY <2>6, <1>0 DEF L3Attach, L3Failed, afterL3
    <2>7. CASE CheckConnect
      BY <2>7, <1>0 DEF CheckConnect, Fail
    <2>8. CASE startEndpoint
      BY <2>8, <1>0 DEF startEndpoint, handlerFrame
    <2>9. CASE stopEndpoint
      BY <2>9, <1>0 DEF stopEndpoint, CancelL3, CancelSOCKS
    <2>10. CASE EndpointStopped
      BY <2>10, <1>0 DEF EndpointStopped
    <2>11. CASE stop
      BY <2>11, <1>0 DEF stop, handlerFrame
    <2> QED
      BY <1>4, <2>1, <2>2, <2>3, <2>4, <2>5, <2>6, <2>7, <2>8, <2>9, <2>10, <2>11 DEF EndpointSteps
  <1>5. CASE ReportSteps
    <2>1. CASE authTimeout
      BY <2>1, <1>0 DEF authTimeout, handlerFrame, Fail
    <2>2. CASE tunnelDown
      BY <2>2, <1>0 DEF tunnelDown, CancelL3, Fail
    <2>3. CASE L3Stopped
      BY <2>3, <1>0 DEF L3Stopped
    <2>4. CASE tunnelRetry
      BY <2>4, <1>0 DEF tunnelRetry
    <2>5. CASE tunnelRestored
      BY <2>5, <1>0 DEF tunnelRestored
    <2>6. CASE sessionEnded
      BY <2>6, <1>0 DEF sessionEnded, handlerFrame, Fail
    <2>7. CASE socksDown
      BY <2>7, <1>0 DEF socksDown, CancelSOCKS
    <2>8. CASE SOCKSStopped
      BY <2>8, <1>0 DEF SOCKSStopped, Fail
    <2> QED
      BY <1>5, <2>1, <2>2, <2>3, <2>4, <2>5, <2>6, <2>7, <2>8 DEF ReportSteps
  <1>6. CASE L3Task \/ SOCKSTask \/ RootTask
    <2>1. CASE LinkDropped
      BY <2>1, <1>0 DEF LinkDropped, TaskFrame
    <2>2. CASE ReportRetry
      <3>1. GenReport("TunnelRetry", l3.gen, FALSE) \in Cmd
        BY DEF GenReport, NoCmd, Cmd, UserKinds, Reports, TypeTasks, nil
      <3>2. PICK e \in Cmd : e = GenReport("TunnelRetry", l3.gen, FALSE)
        BY <3>1
      <3>3. e \in SaneCmds'
        <4>1. e.kind = "TunnelRetry"
          BY <3>2 DEF GenReport, NoCmd
        <4>2. TRUE
          BY <2>2 DEF ReportRetry, TaskFrame, report, ReportsInv, CountersInv, TypeTasks, TypeFields
        <4> QED
          BY <4>1, <4>2 DEF Sane, SaneCmds
      <3>4. events' \in {events, Append(events, e)} /\ cmds' = cmds /\ cmd' = cmd
        BY <2>2, <3>2 DEF ReportRetry, TaskFrame, report
      <3> QED
        BY <1>0, <3>3, <3>4, Sends
    <2>3. CASE Reconnected
      BY <2>3, <1>0 DEF Reconnected, TaskFrame
    <2>4. CASE ReportRestored
      <3>1. GenReport("TunnelRestored", l3.gen, FALSE) \in Cmd
        BY DEF GenReport, NoCmd, Cmd, UserKinds, Reports, TypeTasks, nil
      <3>2. PICK e \in Cmd : e = GenReport("TunnelRestored", l3.gen, FALSE)
        BY <3>1
      <3>3. e \in SaneCmds'
        <4>1. e.kind = "TunnelRestored"
          BY <3>2 DEF GenReport, NoCmd
        <4>2. TRUE
          BY <2>4 DEF ReportRestored, TaskFrame, report, ReportsInv, CountersInv, TypeTasks, TypeFields
        <4> QED
          BY <4>1, <4>2 DEF Sane, SaneCmds
      <3>4. events' \in {events, Append(events, e)} /\ cmds' = cmds /\ cmd' = cmd
        BY <2>4, <3>2 DEF ReportRestored, TaskFrame, report
      <3> QED
        BY <1>0, <3>3, <3>4, Sends
    <2>5. CASE GivesUp
      BY <2>5, <1>0 DEF GivesUp, TaskFrame
    <2>6. CASE L3SessionGone
      BY <2>6, <1>0 DEF L3SessionGone, TaskFrame
    <2>7. CASE RunCancelled
      BY <2>7, <1>0 DEF RunCancelled, TaskFrame
    <2>8. CASE ReportDown
      <3>1. GenReport("TunnelDown", l3.gen, l3.gone) \in Cmd
        BY DEF GenReport, NoCmd, Cmd, UserKinds, Reports, TypeTasks, nil
      <3>2. PICK e \in Cmd : e = GenReport("TunnelDown", l3.gen, l3.gone)
        BY <3>1
      <3>3. e \in SaneCmds'
        <4>1. e.kind = "TunnelDown" /\ e.gen = l3.gen
          BY <3>2 DEF GenReport, NoCmd
        <4>2. l3.gen <= gen /\ (pc = "l3Join" => l3.gen < gen) /\ gen' = gen /\ pc' = pc /\ l3'.phase = "done"
               /\ l3.gen \in Nat /\ gen \in Nat
          BY <2>8 DEF ReportDown, TaskFrame, report, ReportsInv, CountersInv, TypeTasks, TypeFields
        <4> QED
          BY <4>1, <4>2 DEF Sane, SaneCmds
      <3>4. events' \in {events, Append(events, e)} /\ cmds' = cmds /\ cmd' = cmd
        BY <2>8, <3>2 DEF ReportDown, TaskFrame, report
      <3> QED
        BY <1>0, <3>3, <3>4, Sends
    <2>9. CASE SOCKSRuns
      BY <2>9, <1>0 DEF SOCKSRuns, TaskFrame
    <2>10. CASE SOCKSEnds
      BY <2>10, <1>0 DEF SOCKSEnds, TaskFrame
    <2>11. CASE SOCKSSessionGone
      BY <2>11, <1>0 DEF SOCKSSessionGone, TaskFrame
    <2>12. CASE ReportSOCKSDown
      <3>1. [NoCmd EXCEPT !.kind = "SOCKSDown", !.sess = socks.sess, !.id = socks.id] \in Cmd
        BY DEF GenReport, NoCmd, Cmd, UserKinds, Reports, TypeTasks, nil
      <3>2. PICK e \in Cmd : e = [NoCmd EXCEPT !.kind = "SOCKSDown", !.sess = socks.sess, !.id = socks.id]
        BY <3>1
      <3>3. e \in SaneCmds'
        <4>1. e.kind = "SOCKSDown" /\ e.id = socks.id /\ e.sess = socks.sess
          BY <3>2 DEF GenReport, NoCmd
        <4>2. socks.id \in 1 .. socksMade /\ socksMade' = socksMade /\ socks'.phase = "done" /\ socks'.sess = socks.sess
          BY <2>12 DEF ReportSOCKSDown, TaskFrame, report, ReportsInv, CountersInv, TypeTasks, TypeFields
        <4> QED
          BY <4>1, <4>2 DEF Sane, SaneCmds
      <3>4. events' \in {events, Append(events, e)} /\ cmds' = cmds /\ cmd' = cmd
        BY <2>12, <3>2 DEF ReportSOCKSDown, TaskFrame, report
      <3> QED
        BY <1>0, <3>3, <3>4, Sends
    <2>13. CASE RootSees
      BY <2>13, <1>0 DEF RootSees, TaskFrame
    <2>14. CASE ReportSessionEnded
      <3>1. [NoCmd EXCEPT !.kind = "SessionEnded", !.sess = root.sess] \in Cmd
        BY DEF GenReport, NoCmd, Cmd, UserKinds, Reports, TypeTasks, nil
      <3>2. PICK e \in Cmd : e = [NoCmd EXCEPT !.kind = "SessionEnded", !.sess = root.sess]
        BY <3>1
      <3>3. e \in SaneCmds'
        <4>1. e.kind = "SessionEnded" /\ e.sess = root.sess
          BY <3>2 DEF GenReport, NoCmd
        <4>2. root.sess \in ended /\ ended' = ended
          BY <2>14 DEF ReportSessionEnded, TaskFrame, report, ReportsInv, CountersInv, TypeTasks, TypeFields
        <4> QED
          BY <4>1, <4>2 DEF Sane, SaneCmds
      <3>4. events' \in {events, Append(events, e)} /\ cmds' = cmds /\ cmd' = cmd
        BY <2>14, <3>2 DEF ReportSessionEnded, TaskFrame, report
      <3> QED
        BY <1>0, <3>3, <3>4, Sends
    <2> QED
      BY <1>6, <2>1, <2>2, <2>3, <2>4, <2>5, <2>6, <2>7, <2>8, <2>9, <2>10, <2>11, <2>12, <2>13, <2>14
          DEF L3Task, SOCKSTask, RootTask
  <1>7. CASE CallerSteps
    <2>1. CASE \E c \in Stoppers : StopStore(c) \/ StopEnqueue(c)
      <3>1. PICK c \in Stoppers : StopStore(c) \/ StopEnqueue(c)
        BY <2>1
      <3>2. PICK e \in Cmd : e = UserCmd("Stop", "none")
        BY DEF UserCmd, NoCmd, Cmd, UserKinds, Reports, nil
      <3>4. e \in SaneCmds'
        BY <3>2 DEF UserCmd, NoCmd, UserKinds, SaneCmds, Sane
      <3>3. cmds' \in {cmds, Append(cmds, e)} /\ events' = events /\ cmd' = cmd
        BY <3>1, <3>2 DEF StopStore, StopEnqueue
      <3> QED
        BY <1>0, <3>3, <3>4, Sends
    <2>2. CASE \/ \E c \in Callers : cancelOpRead(c) \/ cancelOpCall(c)
               \/ CloseStore \/ RunningDeadline
      <3>1. UNCHANGED <<cmds, events, cmd>>
        BY <2>2 DEF cancelOpRead, cancelOpCall, CloseStore, RunningDeadline
      <3> QED
        BY <1>0, <3>1
    <2>3. CASE \/ \E kind \in {"Start", "Devices", "Auth"} : Call(kind, "none")
               \/ \E kind \in {"EpStart", "EpStop"}, ep \in {"wg", "socks"} : Call(kind, ep)
      <3>1. PICK kind \in UserKinds, ep \in {"none", "wg", "socks"} : Call(kind, ep)
        BY <2>3 DEF UserKinds
      <3>2. PICK e \in Cmd : e = UserCmd(kind, ep)
        BY DEF UserCmd, NoCmd, Cmd, UserKinds, Reports, nil
      <3>4. e \in SaneCmds'
        BY <3>2 DEF UserCmd, NoCmd, UserKinds, SaneCmds, Sane
      <3>3. cmds' = Append(cmds, e) /\ events' = events /\ cmd' = cmd
        BY <3>1, <3>2 DEF Call
      <3> QED
        BY <1>0, <3>3, <3>4, Sends
    <2>4. CASE \E i \in 1 .. CmdCap : QueuedDeadline(i)
      <3>1. PICK i \in DOMAIN cmds : cmds' = [cmds EXCEPT ![i].dead = TRUE] /\ events' = events /\ cmd' = cmd
        BY <2>4 DEF QueuedDeadline
      <3> QED
        BY <1>0, <3>1, Expires, Widens
    <2> QED
      BY <1>7, <2>1, <2>2, <2>3, <2>4 DEF CallerSteps
  <1>8. CASE Timer
    <2>1. CASE TimerFires
      BY <2>1, <1>0 DEF TimerFires
    <2>2. CASE \E seq \in fired : reportAuthTimeout(seq)
      <3>1. PICK seq \in fired : reportAuthTimeout(seq)
        BY <2>2
      <3> DEFINE e == [NoCmd EXCEPT !.kind = "AuthTimeout", !.gen = seq]
      <3>2. e \in Cmd
        BY DEF NoCmd, Cmd, UserKinds, Reports, TypeFields, nil
      <3>3. Sane(e)'
        <4>1. e.kind = "AuthTimeout" /\ e.gen = seq
          BY DEF NoCmd
        <4>2. seq <= authSeq /\ (seq = authSeq => ~armed) /\ authSeq' = authSeq /\ armed' = armed
          BY <3>1 DEF reportAuthTimeout, ReportsInv, CountersInv
        <4> HIDE DEF e
        <4> QED
          BY <4>1, <4>2 DEF Sane
      <3> HIDE DEF e
      <3>4. cmds' \in {cmds, Append(cmds, e)} /\ events' = events /\ cmd' = cmd
        BY <3>1 DEF reportAuthTimeout, e
      <3> QED
        BY <1>0, <3>2, <3>3, <3>4, Sends DEF SaneCmds
    <2> QED
      BY <1>8, <2>1, <2>2 DEF Timer
  <1>9. CASE UNCHANGED vars
    BY <1>9, <1>0 DEF vars
  <1> QED
    BY <1>1, <1>2, <1>3, <1>4, <1>5, <1>6, <1>7, <1>8, <1>9 DEF Next, Actor, Terminated

\* ReportsInv holds throughout: both channels are empty at first.
LEMMA ReportsInvariant == Spec => []ReportsInv
  <1>1. TypeOK /\ Init => ReportsInv
    <2> SUFFICES ASSUME TypeOK, Init PROVE ReportsInv
      OBVIOUS
    <2>1. CountersInv
      BY DEF Init, CountersInv, NoL3, NoSOCKS, NoRoot, TypeOK, TypeFields
    <2>2. cmd \in SaneCmds
      BY DEF Init, NoCmd, SaneCmds, Sane, TypeOK, TypeQueues
    <2> QED
      BY <2>1, <2>2 DEF Init, ReportsInv
  <1>2. TypeOK /\ SlotInv /\ TasksInv /\ ReportsInv /\ [Next]_vars => ReportsInv'
    BY CountersInvNext, ReportsNext DEF TypeOK, ReportsInv
  <1> QED
    BY <1>1, <1>2, TypeCorrect, SlotInvariant, TasksInvariant, PTL DEF Spec

\* The report that is acted on is about the task, the session or the round there is now.
Matches == pc = "run" /\ pc' \notin {"run", "reply"} =>
              /\ cmd.kind = "TunnelDown"   => l3.phase = "done" /\ l3.sess = session
              /\ cmd.kind = "SOCKSDown"    => socks.phase = "done" /\ socks.sess = session
              /\ cmd.kind = "SessionEnded" => session \in ended
              /\ cmd.kind = "AuthTimeout"  => ~armed /\ pend # nil

\* Of the steps that look at a command, the four that act on a report compare it with what there is.
LEMMA MatchSteps == ReportsInv /\ PendInv /\ TypeFields /\ [Next]_vars => Matches
  <1> SUFFICES ASSUME ReportsInv, PendInv, TypeFields, [Next]_vars PROVE Matches
    OBVIOUS
  <1> USE DEF shared, opVars, status, fields, wait, bearer, objects, tasks, env, goto
  <1>1. CASE Dispatch \/ TakeCommand \/ TakeReport
    <2>1. CASE TakeCommand
      BY <2>1 DEF Matches, nil, TakeCommand, Take
    <2>2. CASE TakeReport
      BY <2>2 DEF Matches, nil, TakeReport, Take
    <2>3. CASE ClosedGate
      BY <2>3 DEF Matches, nil, ClosedGate
    <2>4. CASE StopGate
      BY <2>4 DEF Matches, nil, StopGate
    <2>5. CASE Reply
      BY <2>5 DEF Matches, nil, Reply
    <2>6. CASE SelectClosed
      BY <2>6 DEF Matches, nil, SelectClosed
    <2>7. CASE Exit
      BY <2>7 DEF Matches, nil, Exit
    <2> QED
      BY <1>1, <2>1, <2>2, <2>3, <2>4, <2>5, <2>6, <2>7 DEF Dispatch
  <1>2. CASE TeardownSteps
    <2>1. CASE Teardown
      BY <2>1 DEF Matches, nil, Teardown, StopTimer
    <2>2. CASE RootJoin
      BY <2>2 DEF Matches, nil, RootJoin, CancelSOCKS
    <2>3. CASE SOCKSJoin
      BY <2>3 DEF Matches, nil, SOCKSJoin
    <2>4. CASE TeardownL3
      BY <2>4 DEF Matches, nil, TeardownL3, CancelL3
    <2>5. CASE L3Join
      BY <2>5 DEF Matches, nil, L3Join
    <2>6. CASE Logout
      BY <2>6 DEF Matches, nil, Logout, Release
    <2>7. CASE SetError
      BY <2>7 DEF Matches, nil, SetError
    <2>8. CASE DevClose
      BY <2>8 DEF Matches, nil, DevClose, Release
    <2> QED
      BY <1>2, <2>1, <2>2, <2>3, <2>4, <2>5, <2>6, <2>7, <2>8 DEF TeardownSteps
  <1>3. CASE LoginSteps
    <2>1. CASE start
      BY <2>1 DEF Matches, nil, start, handlerFrame
    <2>2. CASE devices
      BY <2>2 DEF Matches, nil, devices, handlerFrame
    <2>3. CASE Credentials
      BY <2>3 DEF Matches, nil, Credentials, Fail
    <2>4. CASE Login
      BY <2>4 DEF Matches, nil, Login, DropLogin, Release, Fail
    <2>5. CASE Verify
      BY <2>5 DEF Matches, nil, Verify, DropLogin, Release, Fail
    <2>6. CASE awaitAuth
      BY <2>6 DEF Matches, nil, awaitAuth
    <2>7. CASE auth
      BY <2>7 DEF Matches, nil, auth, handlerFrame
    <2>8. CASE SubmitCode
      BY <2>8 DEF Matches, nil, SubmitCode, Fail, StopTimer
    <2>9. CASE DeviceOp
      BY <2>9 DEF Matches, nil, DeviceOp, Fail
    <2>10. CASE EnsureTrusted
      BY <2>10 DEF Matches, nil, EnsureTrusted, attach, Release, Fail
    <2> QED
      BY <1>3, <2>1, <2>2, <2>3, <2>4, <2>5, <2>6, <2>7, <2>8, <2>9, <2>10 DEF LoginSteps
  <1>4. CASE EndpointSteps
    <2>1. CASE FinishConnect
      BY <2>1 DEF Matches, nil, FinishConnect, attach, Release
    <2>2. CASE startSOCKS
      BY <2>2 DEF Matches, nil, startSOCKS, afterSOCKS
    <2>3. CASE SOCKSWait
      BY <2>3 DEF Matches, nil, SOCKSWait, afterSOCKS, CancelSOCKS
    <2>4. CASE startL3
      BY <2>4 DEF Matches, nil, startL3, afterL3
    <2>5. CASE L3Dial
      BY <2>5 DEF Matches, nil, L3Dial, L3Failed, afterL3
    <2>6. CASE L3Attach
      BY <2>6 DEF Matches, nil, L3Attach, L3Failed, afterL3
    <2>7. CASE CheckConnect
      BY <2>7 DEF Matches, nil, CheckConnect, Fail
    <2>8. CASE startEndpoint
      BY <2>8 DEF Matches, nil, startEndpoint, handlerFrame
    <2>9. CASE stopEndpoint
      BY <2>9 DEF Matches, nil, stopEndpoint, CancelL3, CancelSOCKS
    <2>10. CASE EndpointStopped
      BY <2>10 DEF Matches, nil, EndpointStopped
    <2>11. CASE stop
      BY <2>11 DEF Matches, nil, stop, handlerFrame
    <2> QED
      BY <1>4, <2>1, <2>2, <2>3, <2>4, <2>5, <2>6, <2>7, <2>8, <2>9, <2>10, <2>11 DEF EndpointSteps
  <1>5. CASE ReportSteps
    <2>1. CASE authTimeout
      BY <2>1 DEF Matches, nil, authTimeout, handlerFrame, Fail, SaneCmds, Sane, CountersInv,
          ReportsInv, PendInv
    <2>2. CASE tunnelDown
      BY <2>2 DEF Matches, nil, tunnelDown, CancelL3, Fail, SaneCmds, Sane, CountersInv, ReportsInv,
          PendInv
    <2>3. CASE L3Stopped
      BY <2>3 DEF Matches, nil, L3Stopped
    <2>4. CASE tunnelRetry
      BY <2>4 DEF Matches, nil, tunnelRetry
    <2>5. CASE tunnelRestored
      BY <2>5 DEF Matches, nil, tunnelRestored
    <2>6. CASE sessionEnded
      BY <2>6 DEF Matches, nil, sessionEnded, handlerFrame, Fail, SaneCmds, Sane, CountersInv,
          ReportsInv, PendInv
    <2>7. CASE socksDown
      BY <2>7 DEF Matches, nil, socksDown, CancelSOCKS, SaneCmds, Sane, CountersInv, ReportsInv, PendInv
    <2>8. CASE SOCKSStopped
      BY <2>8 DEF Matches, nil, SOCKSStopped, Fail
    <2> QED
      BY <1>5, <2>1, <2>2, <2>3, <2>4, <2>5, <2>6, <2>7, <2>8 DEF ReportSteps
  <1>6. CASE L3Task \/ SOCKSTask \/ RootTask
    <2>1. pc' = pc
      BY <1>6 DEF L3Task, SOCKSTask, RootTask, LinkDropped, ReportRetry, Reconnected, ReportRestored,
          GivesUp, L3SessionGone, RunCancelled, ReportDown, SOCKSRuns, SOCKSEnds, SOCKSSessionGone,
          ReportSOCKSDown, RootSees, ReportSessionEnded, TaskFrame
    <2> QED
      BY <2>1 DEF Matches
  <1>7. CASE CallerSteps
    <2>1. pc' = pc
      BY <1>7 DEF CallerSteps, StopStore, StopEnqueue, cancelOpRead, cancelOpCall, CloseStore, Call,
          QueuedDeadline, RunningDeadline, Spend
    <2> QED
      BY <2>1 DEF Matches
  <1>8. CASE Timer
    <2>1. pc' = pc
      BY <1>8 DEF Timer, TimerFires, reportAuthTimeout
    <2> QED
      BY <2>1 DEF Matches
  <1>9. CASE UNCHANGED vars
    BY <1>9 DEF vars, Matches
  <1> QED
    BY <1>1, <1>2, <1>3, <1>4, <1>5, <1>6, <1>7, <1>8, <1>9 DEF Next, Actor, Terminated

\* A report acts only on the task that sent it, however long it waited in the queue and whatever was
\* stopped, started or logged in again meanwhile: the actor never tears a new tunnel, SOCKS listener or
\* login down for the end of an old one (service.go: tunnelDown, socksDown, sessionEnded, authTimeout).
THEOREM ReportsAreTimely == Spec => ReportsMatchTheirTask
  <1>1. ReportsInv /\ PendInv /\ TypeOK /\ [Next]_vars => [Matches]_vars
    BY MatchSteps DEF TypeOK
  <1>2. Spec => [][Matches]_vars
    BY <1>1, ReportsInvariant, TasksInvariant, TypeCorrect, PTL DEF Spec
  <1> QED
    BY <1>2, Zenon DEF ReportsMatchTheirTask, Matches

==============================================================================
