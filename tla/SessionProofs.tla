---------------------------- MODULE SessionProofs ----------------------------
(***************************************************************************)
(* Theorems about one login and the connections that live on it, for every *)
(* number of streams, attempts, reconnects and authentication steps.  Each *)
(* ...Next lemma shows that one part of the inductive invariant survives   *)
(* every step: one step of the proof per action.                           *)
(***************************************************************************)
EXTENDS Session, FiniteSetTheorems, TLAPS

\* s.dials, as the number of calls that dial, is a natural number.
LEMMA CountingNext == DialsInv' => dials' \in Nat
  <1>1. IsFiniteSet(Dialers) /\ IsFiniteSet({"l3"})
    BY SessionAssumption, FS_Singleton
  <1>2. IsFiniteSet(Dialers \cup {"l3"})
    BY <1>1, FS_Union
  <1>3. IsFiniteSet(Pending')
    <2>1. Pending' \subseteq Dialers \cup {"l3"}
      BY DEF Pending
    <2> QED
      BY <1>2, <2>1, FS_Subset
  <1> QED
    BY <1>3, FS_CardinalityType DEF DialsInv

\* newSession and Auth go to places that exist, and the chain of authentication steps is
\* no longer than continueAuth allows.
LEMMA LoginTypeNext == TypeOK /\ [Next]_vars => TypeLogin'
  <1> SUFFICES ASSUME TypeOK, [Next]_vars PROVE TypeLogin'
    OBVIOUS
  <1> USE DEF TypeLogin, Services, chain, life, tunnel, tcp, LoginFrame, OwnerFrame, RunFrame,
      DialFrame, CloseFrame, nil
  <1>0. TypeLogin /\ MaxHops \in Nat
    BY SessionAssumption DEF TypeOK
  <1> DEFINE LoginType == [pc : {"config", "method", "password", "env", "chain", "check", "sms", "submit",
                                 "info", "resource", "prepare", "ready", "failed"},
                           service : Services, hops : 0..MaxHops, out : BOOLEAN]
  <1>1. CASE authConfig
    BY <1>1, <1>0 DEF authConfig, Asks, LoginFails
  <1>2. CASE pickPasswordMethod
    BY <1>2, <1>0 DEF pickPasswordMethod, Asks, LoginFails
  <1>3. CASE passwordLogin
    BY <1>3, <1>0 DEF passwordLogin, LoginFails
  <1>4. CASE reportEnv
    BY <1>4, <1>0 DEF reportEnv, LoginFails
  <1>5. CASE continueAuth
    <2>1. (login.out \/ devicesOnly) \in BOOLEAN
      OBVIOUS
    <2>0. ASSUME NEW p \in {"sms", "ready", "info", "check"}, NEW h \in 0..MaxHops, NEW b \in BOOLEAN
          PROVE  [login EXCEPT !.pc = p, !.hops = h, !.out = b] \in LoginType
      BY <1>0
    <2>h. MaxHops \in Nat /\ login.hops \in 0..MaxHops /\ 0 \in 0..MaxHops
      <3>1. MaxHops \in Nat
        BY <1>0
      <3>2. login.hops \in 0..MaxHops
        BY <1>0
      <3> QED
        BY <3>1, <3>2
    <2>p. (IF devicesOnly THEN "ready" ELSE "info") \in {"sms", "ready", "info", "check"}
      OBVIOUS
    <2>2. [login EXCEPT !.pc = IF devicesOnly THEN "ready" ELSE "info", !.hops = 0,
                        !.out = login.out \/ devicesOnly] \in LoginType
      <3> HIDE DEF LoginType, TypeLogin
      <3> QED
        BY <2>0, <2>h, <2>p, <2>1
    <2>3. [login EXCEPT !.pc = "sms", !.hops = 0, !.out = TRUE] \in LoginType
      <3> HIDE DEF LoginType, TypeLogin
      <3> QED
        BY <2>0, <2>h
    <2>4. login.hops < MaxHops => [login EXCEPT !.pc = "check", !.hops = login.hops + 1] \in LoginType
      <3>1. login.hops < MaxHops => login.hops + 1 \in 0..MaxHops
        BY <2>h
      <3>2. ASSUME NEW h \in 0..MaxHops PROVE [login EXCEPT !.pc = "check", !.hops = h] \in LoginType
        BY <1>0
      <3> QED
        BY <3>1, <3>2
    <2>5. [login EXCEPT !.pc = "failed"] \in LoginType
      BY <1>0
    <2>6. login' \in LoginType
      <3> HIDE DEF LoginType, TypeLogin
      <3> QED
        BY <1>5, <2>2, <2>3, <2>4, <2>5 DEF continueAuth, LoginFails
    <2> QED
      BY <2>6
  <1>6. CASE authCheck
    BY <1>6, <1>0 DEF authCheck, LoginFails, authStepFromData
  <1>7. CASE Auth
    BY <1>7, <1>0 DEF Auth
  <1>8. CASE submitSMS
    BY <1>8, <1>0 DEF submitSMS, authStepFromData
  <1>9. CASE onlineInfo
    BY <1>9, <1>0 DEF onlineInfo, Asks, LoginFails
  <1>10. CASE clientResource
    BY <1>10, <1>0 DEF clientResource, Asks, LoginFails
  <1>11. CASE prepare
    BY <1>11, <1>0 DEF prepare, LoginFails
  <1>12. CASE StartL3
    BY <1>12, <1>0 DEF StartL3
  <1>13. CASE L3Dial
    BY <1>13, <1>0 DEF L3Dial, invalidate, NoOwner
  <1>14. CASE L3Kill
    BY <1>14, <1>0 DEF L3Kill, CloseListed, NoKill, NoOwner
  <1>15. CASE L3Publish
    BY <1>15, <1>0 DEF L3Publish, NoOwner
  <1>16. CASE RunTunnel
    BY <1>16, <1>0 DEF RunTunnel, NoRun
  <1>17. CASE CancelRun
    BY <1>17, <1>0 DEF CancelRun
  <1>18. CASE JoinRun
    BY <1>18, <1>0 DEF JoinRun, NoRun
  <1>19. CASE StopL3
    BY <1>19, <1>0 DEF StopL3
  <1>20. CASE StopL3Close
    BY <1>20, <1>0 DEF StopL3Close, NoOwner
  <1>21. CASE RunStart
    BY <1>21, <1>0 DEF RunStart, Return, NoRun
  <1>22. CASE RunLoad
    BY <1>22, <1>0 DEF RunLoad, Return, NoRun
  <1>23. CASE RunWait
    BY <1>23, <1>0 DEF RunWait, Return, NoRun, invalidate, runOver
  <1>24. CASE RunKill
    BY <1>24, <1>0 DEF RunKill, Return, NoRun, CloseListed, NoKill
  <1>25. CASE RunDial
    BY <1>25, <1>0 DEF RunDial, Return, NoRun, invalidate, runOver
  <1>26. CASE RunPublish
    BY <1>26, <1>0 DEF RunPublish, Return, NoRun, runOver
  <1>27. CASE CloseCalled
    BY <1>27, <1>0 DEF CloseCalled, GoOn
  <1>28. CASE CloseMark
    BY <1>28, <1>0 DEF CloseMark
  <1>29. CASE CloseStreams
    BY <1>29, <1>0 DEF CloseStreams
  <1>30. CASE CloseDials
    BY <1>30, <1>0 DEF CloseDials, GoOn
  <1>31. CASE CloseTunnel
    BY <1>31, <1>0 DEF CloseTunnel
  <1>32. CASE CloseRun
    BY <1>32, <1>0 DEF CloseRun, GoOn
  <1>33. CASE logout
    BY <1>33, <1>0 DEF logout, GoOn
  <1>34. ASSUME NEW d \in Dialers, DialTCP(d) PROVE TypeLogin'
    BY <1>34, <1>0 DEF DialTCP
  <1>35. ASSUME NEW d \in Dialers, dialTCPNode(d) PROVE TypeLogin'
    BY <1>35, <1>0 DEF dialTCPNode, At, invalidate
  <1>36. ASSUME NEW d \in Dialers, DialKill(d) PROVE TypeLogin'
    BY <1>36, <1>0 DEF DialKill, CloseListed, NoKill
  <1>37. ASSUME NEW d \in Dialers, DialPublish(d) PROVE TypeLogin'
    BY <1>37, <1>0 DEF DialPublish
  <1>38. ASSUME NEW d \in Dialers, DialDiscard(d) PROVE TypeLogin'
    BY <1>38, <1>0 DEF DialDiscard
  <1>39. ASSUME NEW d \in Dialers, StreamClose(d) PROVE TypeLogin'
    BY <1>39, <1>0 DEF StreamClose
  <1>40. ASSUME NEW d \in Dialers, StreamForget(d) PROVE TypeLogin'
    BY <1>40, <1>0 DEF StreamForget
  <1>41. ASSUME NEW c \in 1..MaxConns, LinkDies(c) PROVE TypeLogin'
    BY <1>41, <1>0 DEF LinkDies
  <1>42. CASE UNCHANGED vars
    BY <1>42, <1>0 DEF vars, chain, life, tunnel, tcp
  <1> HIDE DEF TypeLogin, Services, chain, life, tunnel, tcp, LoginFrame, OwnerFrame, RunFrame,
      DialFrame, CloseFrame, nil
  <1> QED
    BY <1>1, <1>2, <1>3, <1>4, <1>5, <1>6, <1>7, <1>8, <1>9, <1>10, <1>11, <1>12, <1>13, <1>14, <1>15,
        <1>16, <1>17, <1>18, <1>19, <1>20, <1>21, <1>22, <1>23, <1>24, <1>25, <1>26, <1>27, <1>28, <1>29,
        <1>30, <1>31, <1>32, <1>33, <1>34, <1>35, <1>36, <1>37, <1>38, <1>39, <1>40, <1>41, <1>42 DEF
        Next, LoginSteps, OwnerSteps, RunSteps, CloseSteps, DialSteps

\* The flags are Booleans.
LEMMA FlagsNext == TypeOK /\ [Next]_vars => TypeFlags'
  <1> SUFFICES ASSUME TypeOK, [Next]_vars PROVE TypeFlags'
    OBVIOUS
  <1> USE DEF TypeFlags, chain, life, tunnel, tcp, LoginFrame, OwnerFrame, RunFrame, DialFrame,
      CloseFrame, nil
  <1>0. TypeFlags
    BY DEF TypeOK
  <1>1. CASE authConfig
    BY <1>1, <1>0, Zenon DEF authConfig, Asks, LoginFails
  <1>2. CASE pickPasswordMethod
    BY <1>2, <1>0, Zenon DEF pickPasswordMethod, Asks, LoginFails
  <1>3. CASE passwordLogin
    BY <1>3, <1>0, Zenon DEF passwordLogin, LoginFails
  <1>4. CASE reportEnv
    BY <1>4, <1>0, Zenon DEF reportEnv, LoginFails
  <1>5. CASE continueAuth
    BY <1>5, <1>0, Zenon DEF continueAuth, LoginFails
  <1>6. CASE authCheck
    BY <1>6, <1>0, Zenon DEF authCheck, LoginFails, authStepFromData
  <1>7. CASE Auth
    BY <1>7, <1>0, Zenon DEF Auth
  <1>8. CASE submitSMS
    BY <1>8, <1>0, Zenon DEF submitSMS, authStepFromData
  <1>9. CASE onlineInfo
    BY <1>9, <1>0, Zenon DEF onlineInfo, Asks, LoginFails
  <1>10. CASE clientResource
    BY <1>10, <1>0, Zenon DEF clientResource, Asks, LoginFails
  <1>11. CASE prepare
    BY <1>11, <1>0, Zenon DEF prepare, LoginFails
  <1>12. CASE StartL3
    BY <1>12, <1>0, Zenon DEF StartL3
  <1>13. CASE L3Dial
    BY <1>13, <1>0, Zenon DEF L3Dial, invalidate, NoOwner
  <1>14. CASE L3Kill
    BY <1>14, <1>0, Zenon DEF L3Kill, CloseListed, NoKill, NoOwner
  <1>15. CASE L3Publish
    BY <1>15, <1>0, Zenon DEF L3Publish, NoOwner
  <1>16. CASE RunTunnel
    BY <1>16, <1>0, Zenon DEF RunTunnel, NoRun
  <1>17. CASE CancelRun
    BY <1>17, <1>0, Zenon DEF CancelRun
  <1>18. CASE JoinRun
    BY <1>18, <1>0, Zenon DEF JoinRun, NoRun
  <1>19. CASE StopL3
    BY <1>19, <1>0, Zenon DEF StopL3
  <1>20. CASE StopL3Close
    BY <1>20, <1>0, Zenon DEF StopL3Close, NoOwner
  <1>21. CASE RunStart
    BY <1>21, <1>0, Zenon DEF RunStart, Return, NoRun
  <1>22. CASE RunLoad
    BY <1>22, <1>0, Zenon DEF RunLoad, Return, NoRun
  <1>23. CASE RunWait
    BY <1>23, <1>0, Zenon DEF RunWait, Return, NoRun, invalidate, runOver
  <1>24. CASE RunKill
    BY <1>24, <1>0, Zenon DEF RunKill, Return, NoRun, CloseListed, NoKill
  <1>25. CASE RunDial
    BY <1>25, <1>0, Zenon DEF RunDial, Return, NoRun, invalidate, runOver
  <1>26. CASE RunPublish
    BY <1>26, <1>0, Zenon DEF RunPublish, Return, NoRun, runOver
  <1>27. CASE CloseCalled
    BY <1>27, <1>0, Zenon DEF CloseCalled, GoOn
  <1>28. CASE CloseMark
    BY <1>28, <1>0, Zenon DEF CloseMark
  <1>29. CASE CloseStreams
    BY <1>29, <1>0, Zenon DEF CloseStreams
  <1>30. CASE CloseDials
    BY <1>30, <1>0, Zenon DEF CloseDials, GoOn
  <1>31. CASE CloseTunnel
    BY <1>31, <1>0, Zenon DEF CloseTunnel
  <1>32. CASE CloseRun
    BY <1>32, <1>0, Zenon DEF CloseRun, GoOn
  <1>33. CASE logout
    BY <1>33, <1>0, Zenon DEF logout, GoOn
  <1>34. ASSUME NEW d \in Dialers, DialTCP(d) PROVE TypeFlags'
    BY <1>34, <1>0, Zenon DEF DialTCP
  <1>35. ASSUME NEW d \in Dialers, dialTCPNode(d) PROVE TypeFlags'
    BY <1>35, <1>0, Zenon DEF dialTCPNode, At, invalidate
  <1>36. ASSUME NEW d \in Dialers, DialKill(d) PROVE TypeFlags'
    BY <1>36, <1>0, Zenon DEF DialKill, CloseListed, NoKill
  <1>37. ASSUME NEW d \in Dialers, DialPublish(d) PROVE TypeFlags'
    BY <1>37, <1>0, Zenon DEF DialPublish
  <1>38. ASSUME NEW d \in Dialers, DialDiscard(d) PROVE TypeFlags'
    BY <1>38, <1>0, Zenon DEF DialDiscard
  <1>39. ASSUME NEW d \in Dialers, StreamClose(d) PROVE TypeFlags'
    BY <1>39, <1>0, Zenon DEF StreamClose
  <1>40. ASSUME NEW d \in Dialers, StreamForget(d) PROVE TypeFlags'
    BY <1>40, <1>0, Zenon DEF StreamForget
  <1>41. ASSUME NEW c \in 1..MaxConns, LinkDies(c) PROVE TypeFlags'
    BY <1>41, <1>0, Zenon DEF LinkDies
  <1>42. CASE UNCHANGED vars
    BY <1>0, <1>42, Zenon DEF vars
  <1> HIDE DEF TypeFlags, chain, life, tunnel, tcp, LoginFrame, OwnerFrame, RunFrame, DialFrame,
      CloseFrame, nil
  <1> QED
    BY <1>1, <1>2, <1>3, <1>4, <1>5, <1>6, <1>7, <1>8, <1>9, <1>10, <1>11, <1>12, <1>13, <1>14, <1>15,
        <1>16, <1>17, <1>18, <1>19, <1>20, <1>21, <1>22, <1>23, <1>24, <1>25, <1>26, <1>27, <1>28, <1>29,
        <1>30, <1>31, <1>32, <1>33, <1>34, <1>35, <1>36, <1>37, <1>38, <1>39, <1>40, <1>41, <1>42 DEF
        Next, LoginSteps, OwnerSteps, RunSteps, CloseSteps, DialSteps

\* So do the owner of the L3 endpoint and Run.
LEMMA TunnelTypeNext == TypeOK /\ [Next]_vars => TypeTunnel'
  <1> SUFFICES ASSUME TypeOK, [Next]_vars PROVE TypeTunnel'
    OBVIOUS
  <1> USE DEF TypeTunnel, chain, life, tunnel, tcp, LoginFrame, OwnerFrame, RunFrame, DialFrame,
      CloseFrame, nil
  <1>0. /\ TypeTunnel /\ \A p \in Callers : inv[p].conn \in Nat
        /\ closer.conn \in Nat /\ "l3" \in Callers /\ "run" \in Callers
    BY DEF TypeOK, TypeTCP, Callers
  <1> DEFINE RunType == [pc : {"off", "start", "load", "wait", "kill", "redial", "publish"}, conn : Nat,
                         failures : Nat, cancelled : BOOLEAN]
  <1>r. /\ run \in RunType /\ NoRun \in RunType /\ [NoRun EXCEPT !.pc = "start"] \in RunType
         /\ [NoRun EXCEPT !.cancelled = run.cancelled] \in RunType
    BY <1>0 DEF NoRun
  <1>e. /\ [run EXCEPT !.pc = "kill"] \in RunType
          /\ [run EXCEPT !.pc = "redial", !.conn = nil] \in RunType
          /\ [run EXCEPT !.pc = "publish", !.conn = made + 1] \in RunType
          /\ [run EXCEPT !.failures = run.failures + 1] \in RunType
          /\ [run EXCEPT !.pc = "load", !.conn = nil, !.failures = 0] \in RunType
    <2>1. ASSUME NEW p \in {"kill", "redial", "publish", "load"} PROVE [run EXCEPT !.pc = p] \in RunType
      BY <1>r
    <2>2. ASSUME NEW p \in {"kill", "redial", "publish", "load"}, NEW n \in Nat
          PROVE  [run EXCEPT !.pc = p, !.conn = n] \in RunType
      BY <1>r
    <2>3. ASSUME NEW n \in Nat PROVE [run EXCEPT !.failures = n] \in RunType
      BY <1>r
    <2>4. [run EXCEPT !.pc = "load", !.conn = nil, !.failures = 0] \in RunType
      BY <1>r
    <2>5. made + 1 \in Nat /\ run.failures + 1 \in Nat
      BY <1>0
    <2> HIDE DEF RunType, TypeTunnel
    <2> QED
      BY <2>1, <2>2, <2>3, <2>4, <2>5
  <1>1. CASE authConfig
    BY <1>1, <1>0 DEF authConfig, Asks, LoginFails
  <1>2. CASE pickPasswordMethod
    BY <1>2, <1>0 DEF pickPasswordMethod, Asks, LoginFails
  <1>3. CASE passwordLogin
    BY <1>3, <1>0 DEF passwordLogin, LoginFails
  <1>4. CASE reportEnv
    BY <1>4, <1>0 DEF reportEnv, LoginFails
  <1>5. CASE continueAuth
    BY <1>5, <1>0 DEF continueAuth, LoginFails
  <1>6. CASE authCheck
    BY <1>6, <1>0 DEF authCheck, LoginFails, authStepFromData
  <1>7. CASE Auth
    BY <1>7, <1>0 DEF Auth
  <1>8. CASE submitSMS
    BY <1>8, <1>0 DEF submitSMS, authStepFromData
  <1>9. CASE onlineInfo
    BY <1>9, <1>0 DEF onlineInfo, Asks, LoginFails
  <1>10. CASE clientResource
    BY <1>10, <1>0 DEF clientResource, Asks, LoginFails
  <1>11. CASE prepare
    BY <1>11, <1>0 DEF prepare, LoginFails
  <1>12. CASE StartL3
    BY <1>12, <1>0 DEF StartL3
  <1>13. CASE L3Dial
    BY <1>13, <1>0 DEF L3Dial, invalidate, NoOwner
  <1>14. CASE L3Kill
    BY <1>14, <1>0 DEF L3Kill, CloseListed, NoKill, NoOwner
  <1>15. CASE L3Publish
    <2>1. owner' \in [pc : {"idle", "dial", "kill", "publish", "attach", "running", "join", "stop", "drop"},
                      conn : Nat]
      BY <1>15, <1>0 DEF L3Publish, NoOwner
    <2>2. active' \in Nat /\ open' \subseteq Nat
      BY <1>15, <1>0 DEF L3Publish, NoOwner
    <2> QED
      BY <1>15, <1>0, <2>1, <2>2 DEF L3Publish, NoOwner
  <1>16. CASE RunTunnel
    <2>1. run' \in RunType
      BY <1>16, <1>r DEF RunTunnel
    <2>2. owner' \in [pc : {"idle", "dial", "kill", "publish", "attach", "running", "join", "stop", "drop"},
                      conn : Nat]
      BY <1>16, <1>0 DEF RunTunnel
    <2> QED
      BY <1>16, <1>0, <2>1, <2>2 DEF RunTunnel
  <1>17. CASE CancelRun
    BY <1>17, <1>0 DEF CancelRun
  <1>18. CASE JoinRun
    BY <1>18, <1>0, <1>r DEF JoinRun
  <1>19. CASE StopL3
    BY <1>19, <1>0 DEF StopL3
  <1>20. CASE StopL3Close
    BY <1>20, <1>0 DEF StopL3Close, NoOwner
  <1>21. CASE RunStart
    <2>1. run' \in RunType
      BY <1>21, <1>0, <1>r DEF RunStart, Return
    <2>2. open' \subseteq Nat /\ active' \in Nat /\ runDone' \in {"none", "open", "closed"} /\ lost' \subseteq Nat
          /\ made' \in Nat
      BY <1>21, <1>0 DEF RunStart, Return
    <2> QED
      BY <1>21, <1>0, <2>1, <2>2 DEF RunStart, Return
  <1>22. CASE RunLoad
    <2>1. run' \in RunType
      BY <1>22, <1>0, <1>r DEF RunLoad, Return
    <2>2. open' \subseteq Nat /\ active' \in Nat /\ runDone' \in {"none", "open", "closed"} /\ lost' \subseteq Nat
          /\ made' \in Nat
      BY <1>22, <1>0 DEF RunLoad, Return
    <2> QED
      BY <1>22, <1>0, <2>1, <2>2 DEF RunLoad, Return
  <1>23. CASE RunWait
    <2>1. run' \in RunType
      <3> HIDE DEF RunType, TypeTunnel
      <3> QED
        BY <1>23, <1>r, <1>e DEF RunWait, Return, invalidate, runOver
    <2>2. open' \subseteq Nat /\ active' \in Nat /\ runDone' \in {"none", "open", "closed"} /\ lost' \subseteq Nat
          /\ made' \in Nat
      BY <1>23, <1>0 DEF RunWait, Return, invalidate, runOver
    <2> QED
      BY <1>23, <1>0, <2>1, <2>2 DEF RunWait, Return, invalidate, runOver
  <1>24. CASE RunKill
    <2>1. run' \in RunType
      BY <1>24, <1>0, <1>r DEF RunKill, Return, CloseListed, NoKill
    <2>2. open' \subseteq Nat /\ active' \in Nat /\ runDone' \in {"none", "open", "closed"} /\ lost' \subseteq Nat
          /\ made' \in Nat
      BY <1>24, <1>0 DEF RunKill, Return, CloseListed, NoKill
    <2> QED
      BY <1>24, <1>0, <2>1, <2>2 DEF RunKill, Return, CloseListed, NoKill
  <1>25. CASE RunDial
    <2>1. run' \in RunType
      <3> HIDE DEF RunType, TypeTunnel
      <3> QED
        BY <1>25, <1>r, <1>e DEF RunDial, Return, invalidate, runOver
    <2>2. open' \subseteq Nat /\ active' \in Nat /\ runDone' \in {"none", "open", "closed"} /\ lost' \subseteq Nat
          /\ made' \in Nat
      BY <1>25, <1>0 DEF RunDial, Return, invalidate, runOver
    <2> QED
      BY <1>25, <1>0, <2>1, <2>2 DEF RunDial, Return, invalidate, runOver
  <1>26. CASE RunPublish
    <2>1. run' \in RunType
      <3> HIDE DEF RunType, TypeTunnel
      <3> QED
        BY <1>26, <1>r, <1>e DEF RunPublish, Return, runOver
    <2>2. open' \subseteq Nat /\ active' \in Nat /\ runDone' \in {"none", "open", "closed"} /\ lost' \subseteq Nat
          /\ made' \in Nat
      BY <1>26, <1>0 DEF RunPublish, Return, runOver
    <2> QED
      BY <1>26, <1>0, <2>1, <2>2 DEF RunPublish, Return, runOver
  <1>27. CASE CloseCalled
    BY <1>27, <1>0 DEF CloseCalled, GoOn
  <1>28. CASE CloseMark
    BY <1>28, <1>0 DEF CloseMark
  <1>29. CASE CloseStreams
    BY <1>29, <1>0 DEF CloseStreams
  <1>30. CASE CloseDials
    BY <1>30, <1>0 DEF CloseDials, GoOn
  <1>31. CASE CloseTunnel
    BY <1>31, <1>0 DEF CloseTunnel
  <1>32. CASE CloseRun
    BY <1>32, <1>0 DEF CloseRun, GoOn
  <1>33. CASE logout
    BY <1>33, <1>0 DEF logout, GoOn
  <1>34. ASSUME NEW d \in Dialers, DialTCP(d) PROVE TypeTunnel'
    BY <1>34, <1>0 DEF DialTCP
  <1>35. ASSUME NEW d \in Dialers, dialTCPNode(d) PROVE TypeTunnel'
    BY <1>35, <1>0 DEF dialTCPNode, At, invalidate
  <1>36. ASSUME NEW d \in Dialers, DialKill(d) PROVE TypeTunnel'
    BY <1>36, <1>0 DEF DialKill, CloseListed, NoKill
  <1>37. ASSUME NEW d \in Dialers, DialPublish(d) PROVE TypeTunnel'
    BY <1>37, <1>0 DEF DialPublish
  <1>38. ASSUME NEW d \in Dialers, DialDiscard(d) PROVE TypeTunnel'
    BY <1>38, <1>0 DEF DialDiscard
  <1>39. ASSUME NEW d \in Dialers, StreamClose(d) PROVE TypeTunnel'
    BY <1>39, <1>0 DEF StreamClose
  <1>40. ASSUME NEW d \in Dialers, StreamForget(d) PROVE TypeTunnel'
    BY <1>40, <1>0 DEF StreamForget
  <1>41. ASSUME NEW c \in 1..MaxConns, LinkDies(c) PROVE TypeTunnel'
    BY <1>41, <1>0 DEF LinkDies
  <1>42. CASE UNCHANGED vars
    BY <1>42, <1>0 DEF vars, chain, life, tunnel, tcp
  <1> HIDE DEF TypeTunnel, chain, life, tunnel, tcp, LoginFrame, OwnerFrame, RunFrame, DialFrame,
      CloseFrame, nil
  <1> QED
    BY <1>1, <1>2, <1>3, <1>4, <1>5, <1>6, <1>7, <1>8, <1>9, <1>10, <1>11, <1>12, <1>13, <1>14, <1>15,
        <1>16, <1>17, <1>18, <1>19, <1>20, <1>21, <1>22, <1>23, <1>24, <1>25, <1>26, <1>27, <1>28, <1>29,
        <1>30, <1>31, <1>32, <1>33, <1>34, <1>35, <1>36, <1>37, <1>38, <1>39, <1>40, <1>41, <1>42 DEF
        Next, LoginSteps, OwnerSteps, RunSteps, CloseSteps, DialSteps

\* The wait group counts the calls that dial: whoever enters is added once, whoever leaves
\* is taken off once, and the count cannot fall below zero.
LEMMA Counting == ASSUME TypeOK, DialsInv, NEW p
                  PROVE  /\ IsFiniteSet(Pending) /\ dials \in Nat
                         /\ Pending' = Pending /\ dials' = dials => DialsInv'
                         /\ p \notin Pending /\ Pending' = Pending \cup {p} /\ dials' = dials + 1 => DialsInv'
                         /\ p \in Pending /\ Pending' = Pending \ {p} /\ dials' = dials - 1 => DialsInv'
  <1>1. IsFiniteSet(Dialers) /\ IsFiniteSet({"l3"})
    BY SessionAssumption, FS_Singleton
  <1>2. IsFiniteSet(Dialers \cup {"l3"})
    BY <1>1, FS_Union
  <1>3. IsFiniteSet(Pending)
    <2>1. Pending \subseteq Dialers \cup {"l3"}
      BY DEF Pending
    <2> QED
      BY <1>2, <2>1, FS_Subset
  <1>4. dials \in Nat
    BY <1>3, FS_CardinalityType DEF DialsInv
  <1>5. CASE p \notin Pending /\ Pending' = Pending \cup {p} /\ dials' = dials + 1
    <2>1. Cardinality(Pending \cup {p}) = Cardinality(Pending) + 1
      BY <1>3, <1>5, FS_AddElement
    <2> QED
      BY <1>3, <1>4, <1>5, <2>1 DEF DialsInv
  <1>6. CASE p \in Pending /\ Pending' = Pending \ {p} /\ dials' = dials - 1
    <2>1. Cardinality(Pending \ {p}) = Cardinality(Pending) - 1
      BY <1>3, <1>6, FS_RemoveElement
    <2> QED
      BY <1>3, <1>4, <1>6, <2>1 DEF DialsInv
  <1> QED
    BY <1>3, <1>4, <1>5, <1>6 DEF DialsInv

\* s.dials counts exactly the calls between their Add and their Done.
LEMMA DialsNext == TypeOK /\ DialsInv /\ [Next]_vars => DialsInv'
  <1> SUFFICES ASSUME TypeOK, DialsInv, [Next]_vars PROVE DialsInv'
    OBVIOUS
  <1> USE DEF chain, life, tunnel, tcp, LoginFrame, OwnerFrame, RunFrame, DialFrame, CloseFrame, nil
  <1>0. TypeTCP /\ "l3" \notin Dialers /\ owner = [pc |-> owner.pc, conn |-> owner.conn]
    BY SessionAssumption DEF TypeOK, TypeTunnel
  <1> USE DEF TypeTCP
  <1>1. CASE authConfig
    <2>1. Pending' = Pending /\ dials' = dials
      BY <1>1, <1>0 DEF authConfig, Asks, LoginFails, Pending
    <2> QED
      BY <2>1, Counting
  <1>2. CASE pickPasswordMethod
    <2>1. Pending' = Pending /\ dials' = dials
      BY <1>2, <1>0 DEF pickPasswordMethod, Asks, LoginFails, Pending
    <2> QED
      BY <2>1, Counting
  <1>3. CASE passwordLogin
    <2>1. Pending' = Pending /\ dials' = dials
      BY <1>3, <1>0 DEF passwordLogin, LoginFails, Pending
    <2> QED
      BY <2>1, Counting
  <1>4. CASE reportEnv
    <2>1. Pending' = Pending /\ dials' = dials
      BY <1>4, <1>0 DEF reportEnv, LoginFails, Pending
    <2> QED
      BY <2>1, Counting
  <1>5. CASE continueAuth
    <2>1. Pending' = Pending /\ dials' = dials
      BY <1>5, <1>0 DEF continueAuth, LoginFails, Pending
    <2> QED
      BY <2>1, Counting
  <1>6. CASE authCheck
    <2>1. Pending' = Pending /\ dials' = dials
      BY <1>6, <1>0 DEF authCheck, LoginFails, authStepFromData, Pending
    <2> QED
      BY <2>1, Counting
  <1>7. CASE Auth
    <2>1. Pending' = Pending /\ dials' = dials
      BY <1>7, <1>0 DEF Auth, Pending
    <2> QED
      BY <2>1, Counting
  <1>8. CASE submitSMS
    <2>1. Pending' = Pending /\ dials' = dials
      BY <1>8, <1>0 DEF submitSMS, authStepFromData, Pending
    <2> QED
      BY <2>1, Counting
  <1>9. CASE onlineInfo
    <2>1. Pending' = Pending /\ dials' = dials
      BY <1>9, <1>0 DEF onlineInfo, Asks, LoginFails, Pending
    <2> QED
      BY <2>1, Counting
  <1>10. CASE clientResource
    <2>1. Pending' = Pending /\ dials' = dials
      BY <1>10, <1>0 DEF clientResource, Asks, LoginFails, Pending
    <2> QED
      BY <2>1, Counting
  <1>11. CASE prepare
    <2>1. Pending' = Pending /\ dials' = dials
      BY <1>11, <1>0 DEF prepare, LoginFails, Pending
    <2> QED
      BY <2>1, Counting
  <1>12. CASE StartL3
    <2>1. \/ Pending' = Pending /\ dials' = dials
          \/ "l3" \notin Pending /\ Pending' = Pending \cup {"l3"} /\ dials' = dials + 1
          \/ "l3" \in Pending /\ Pending' = Pending \ {"l3"} /\ dials' = dials - 1
      BY <1>12, <1>0 DEF StartL3, Pending
    <2> QED
      BY <2>1, Counting
  <1>13. CASE L3Dial
    <2>1. \/ Pending' = Pending /\ dials' = dials
          \/ "l3" \notin Pending /\ Pending' = Pending \cup {"l3"} /\ dials' = dials + 1
          \/ "l3" \in Pending /\ Pending' = Pending \ {"l3"} /\ dials' = dials - 1
      BY <1>13, <1>0 DEF L3Dial, invalidate, NoOwner, Pending
    <2> QED
      BY <2>1, Counting
  <1>14. CASE L3Kill
    <2>1. \/ Pending' = Pending /\ dials' = dials
          \/ "l3" \notin Pending /\ Pending' = Pending \cup {"l3"} /\ dials' = dials + 1
          \/ "l3" \in Pending /\ Pending' = Pending \ {"l3"} /\ dials' = dials - 1
      BY <1>14, <1>0 DEF L3Kill, CloseListed, NoKill, NoOwner, Pending
    <2> QED
      BY <2>1, Counting
  <1>15. CASE L3Publish
    <2>1. \/ Pending' = Pending /\ dials' = dials
          \/ "l3" \notin Pending /\ Pending' = Pending \cup {"l3"} /\ dials' = dials + 1
          \/ "l3" \in Pending /\ Pending' = Pending \ {"l3"} /\ dials' = dials - 1
      BY <1>15, <1>0 DEF L3Publish, NoOwner, Pending
    <2> QED
      BY <2>1, Counting
  <1>16. CASE RunTunnel
    <2>1. \/ Pending' = Pending /\ dials' = dials
          \/ "l3" \notin Pending /\ Pending' = Pending \cup {"l3"} /\ dials' = dials + 1
          \/ "l3" \in Pending /\ Pending' = Pending \ {"l3"} /\ dials' = dials - 1
      BY <1>16, <1>0 DEF RunTunnel, NoRun, Pending
    <2> QED
      BY <2>1, Counting
  <1>17. CASE CancelRun
    <2>1. \/ Pending' = Pending /\ dials' = dials
          \/ "l3" \notin Pending /\ Pending' = Pending \cup {"l3"} /\ dials' = dials + 1
          \/ "l3" \in Pending /\ Pending' = Pending \ {"l3"} /\ dials' = dials - 1
      BY <1>17, <1>0 DEF CancelRun, Pending
    <2> QED
      BY <2>1, Counting
  <1>18. CASE JoinRun
    <2>1. \/ Pending' = Pending /\ dials' = dials
          \/ "l3" \notin Pending /\ Pending' = Pending \cup {"l3"} /\ dials' = dials + 1
          \/ "l3" \in Pending /\ Pending' = Pending \ {"l3"} /\ dials' = dials - 1
      BY <1>18, <1>0 DEF JoinRun, NoRun, Pending
    <2> QED
      BY <2>1, Counting
  <1>19. CASE StopL3
    <2>1. \/ Pending' = Pending /\ dials' = dials
          \/ "l3" \notin Pending /\ Pending' = Pending \cup {"l3"} /\ dials' = dials + 1
          \/ "l3" \in Pending /\ Pending' = Pending \ {"l3"} /\ dials' = dials - 1
      BY <1>19, <1>0 DEF StopL3, Pending
    <2> QED
      BY <2>1, Counting
  <1>20. CASE StopL3Close
    <2>1. \/ Pending' = Pending /\ dials' = dials
          \/ "l3" \notin Pending /\ Pending' = Pending \cup {"l3"} /\ dials' = dials + 1
          \/ "l3" \in Pending /\ Pending' = Pending \ {"l3"} /\ dials' = dials - 1
      BY <1>20, <1>0 DEF StopL3Close, NoOwner, Pending
    <2> QED
      BY <2>1, Counting
  <1>21. CASE RunStart
    <2>1. Pending' = Pending /\ dials' = dials
      BY <1>21, <1>0 DEF RunStart, Return, NoRun, Pending
    <2> QED
      BY <2>1, Counting
  <1>22. CASE RunLoad
    <2>1. Pending' = Pending /\ dials' = dials
      BY <1>22, <1>0 DEF RunLoad, Return, NoRun, Pending
    <2> QED
      BY <2>1, Counting
  <1>23. CASE RunWait
    <2>1. Pending' = Pending /\ dials' = dials
      BY <1>23, <1>0 DEF RunWait, Return, NoRun, invalidate, runOver, Pending
    <2> QED
      BY <2>1, Counting
  <1>24. CASE RunKill
    <2>1. Pending' = Pending /\ dials' = dials
      BY <1>24, <1>0 DEF RunKill, Return, NoRun, CloseListed, NoKill, Pending
    <2> QED
      BY <2>1, Counting
  <1>25. CASE RunDial
    <2>1. Pending' = Pending /\ dials' = dials
      BY <1>25, <1>0 DEF RunDial, Return, NoRun, invalidate, runOver, Pending
    <2> QED
      BY <2>1, Counting
  <1>26. CASE RunPublish
    <2>1. Pending' = Pending /\ dials' = dials
      BY <1>26, <1>0 DEF RunPublish, Return, NoRun, runOver, Pending
    <2> QED
      BY <2>1, Counting
  <1>27. CASE CloseCalled
    <2>1. Pending' = Pending /\ dials' = dials
      BY <1>27, <1>0 DEF CloseCalled, GoOn, Pending
    <2> QED
      BY <2>1, Counting
  <1>28. CASE CloseMark
    <2>1. Pending' = Pending /\ dials' = dials
      BY <1>28, <1>0 DEF CloseMark, Pending
    <2> QED
      BY <2>1, Counting
  <1>29. CASE CloseStreams
    <2>1. Pending' = Pending /\ dials' = dials
      BY <1>29, <1>0 DEF CloseStreams, Pending
    <2> QED
      BY <2>1, Counting
  <1>30. CASE CloseDials
    <2>1. Pending' = Pending /\ dials' = dials
      BY <1>30, <1>0 DEF CloseDials, GoOn, Pending
    <2> QED
      BY <2>1, Counting
  <1>31. CASE CloseTunnel
    <2>1. Pending' = Pending /\ dials' = dials
      BY <1>31, <1>0 DEF CloseTunnel, Pending
    <2> QED
      BY <2>1, Counting
  <1>32. CASE CloseRun
    <2>1. Pending' = Pending /\ dials' = dials
      BY <1>32, <1>0 DEF CloseRun, GoOn, Pending
    <2> QED
      BY <2>1, Counting
  <1>33. CASE logout
    <2>1. Pending' = Pending /\ dials' = dials
      BY <1>33, <1>0 DEF logout, GoOn, Pending
    <2> QED
      BY <2>1, Counting
  <1>34. ASSUME NEW d \in Dialers, DialTCP(d) PROVE DialsInv'
    <2>1. \/ Pending' = Pending /\ dials' = dials
          \/ d \notin Pending /\ Pending' = Pending \cup {d} /\ dials' = dials + 1
          \/ d \in Pending /\ Pending' = Pending \ {d} /\ dials' = dials - 1
      BY <1>34, <1>0 DEF DialTCP, Pending
    <2> QED
      BY <2>1, Counting
  <1>35. ASSUME NEW d \in Dialers, dialTCPNode(d) PROVE DialsInv'
    <2>1. \/ Pending' = Pending /\ dials' = dials
          \/ d \notin Pending /\ Pending' = Pending \cup {d} /\ dials' = dials + 1
          \/ d \in Pending /\ Pending' = Pending \ {d} /\ dials' = dials - 1
      <3>1. dialer[d].pc = "dial" /\ owner' = owner
        BY <1>35 DEF dialTCPNode, DialFrame
      <3>2. \/ /\ \/ dialer' = [dialer EXCEPT ![d] = At("publish")]
                  \/ dialer' = [dialer EXCEPT ![d] = At("kill")]
                  \/ dialer' = [dialer EXCEPT ![d].tries = @ + 1]
               /\ dials' = dials
            \/ dialer' = [dialer EXCEPT ![d] = At("over")] /\ dials' = dials - 1
        BY <1>35 DEF dialTCPNode
      <3>3. CASE dialer' = [dialer EXCEPT ![d] = At("publish")] /\ dials' = dials
        BY <3>1, <3>3, <1>0 DEF At, Pending
      <3>4. CASE dialer' = [dialer EXCEPT ![d] = At("kill")] /\ dials' = dials
        BY <3>1, <3>4, <1>0 DEF At, Pending
      <3>5. CASE dialer' = [dialer EXCEPT ![d].tries = @ + 1] /\ dials' = dials
        BY <3>1, <3>5, <1>0 DEF At, Pending
      <3>6. CASE dialer' = [dialer EXCEPT ![d] = At("over")] /\ dials' = dials - 1
        BY <3>1, <3>6, <1>0 DEF At, Pending
      <3> QED
        BY <3>2, <3>3, <3>4, <3>5, <3>6
    <2> QED
      BY <2>1, Counting
  <1>36. ASSUME NEW d \in Dialers, DialKill(d) PROVE DialsInv'
    <2>1. \/ Pending' = Pending /\ dials' = dials
          \/ d \notin Pending /\ Pending' = Pending \cup {d} /\ dials' = dials + 1
          \/ d \in Pending /\ Pending' = Pending \ {d} /\ dials' = dials - 1
      BY <1>36, <1>0 DEF DialKill, CloseListed, NoKill, Pending
    <2> QED
      BY <2>1, Counting
  <1>37. ASSUME NEW d \in Dialers, DialPublish(d) PROVE DialsInv'
    <2>1. \/ Pending' = Pending /\ dials' = dials
          \/ d \notin Pending /\ Pending' = Pending \cup {d} /\ dials' = dials + 1
          \/ d \in Pending /\ Pending' = Pending \ {d} /\ dials' = dials - 1
      BY <1>37, <1>0 DEF DialPublish, Pending
    <2> QED
      BY <2>1, Counting
  <1>38. ASSUME NEW d \in Dialers, DialDiscard(d) PROVE DialsInv'
    <2>1. \/ Pending' = Pending /\ dials' = dials
          \/ d \notin Pending /\ Pending' = Pending \cup {d} /\ dials' = dials + 1
          \/ d \in Pending /\ Pending' = Pending \ {d} /\ dials' = dials - 1
      BY <1>38, <1>0 DEF DialDiscard, Pending
    <2> QED
      BY <2>1, Counting
  <1>39. ASSUME NEW d \in Dialers, StreamClose(d) PROVE DialsInv'
    <2>1. \/ Pending' = Pending /\ dials' = dials
          \/ d \notin Pending /\ Pending' = Pending \cup {d} /\ dials' = dials + 1
          \/ d \in Pending /\ Pending' = Pending \ {d} /\ dials' = dials - 1
      BY <1>39, <1>0 DEF StreamClose, Pending
    <2> QED
      BY <2>1, Counting
  <1>40. ASSUME NEW d \in Dialers, StreamForget(d) PROVE DialsInv'
    <2>1. \/ Pending' = Pending /\ dials' = dials
          \/ d \notin Pending /\ Pending' = Pending \cup {d} /\ dials' = dials + 1
          \/ d \in Pending /\ Pending' = Pending \ {d} /\ dials' = dials - 1
      BY <1>40, <1>0 DEF StreamForget, Pending
    <2> QED
      BY <2>1, Counting
  <1>41. ASSUME NEW c \in 1..MaxConns, LinkDies(c) PROVE DialsInv'
    <2>1. Pending' = Pending /\ dials' = dials
      BY <1>41, <1>0 DEF LinkDies, Pending
    <2> QED
      BY <2>1, Counting
  <1>42. CASE UNCHANGED vars
    <2>1. Pending' = Pending /\ dials' = dials
      BY <1>42 DEF vars, Pending
    <2> QED
      BY <2>1, Counting
  <1> HIDE DEF chain, life, tunnel, tcp, LoginFrame, OwnerFrame, RunFrame, DialFrame, CloseFrame, nil
  <1> QED
    BY <1>1, <1>2, <1>3, <1>4, <1>5, <1>6, <1>7, <1>8, <1>9, <1>10, <1>11, <1>12, <1>13, <1>14, <1>15,
        <1>16, <1>17, <1>18, <1>19, <1>20, <1>21, <1>22, <1>23, <1>24, <1>25, <1>26, <1>27, <1>28, <1>29,
        <1>30, <1>31, <1>32, <1>33, <1>34, <1>35, <1>36, <1>37, <1>38, <1>39, <1>40, <1>41, <1>42 DEF
        Next, LoginSteps, OwnerSteps, RunSteps, CloseSteps, DialSteps

\* DialTCP, its streams and Close go to places that exist.
LEMMA TCPTypeNext == TypeOK /\ DialsInv /\ [Next]_vars => TypeTCP'
  <1> SUFFICES ASSUME TypeOK, DialsInv, [Next]_vars PROVE TypeTCP'
    OBVIOUS
  <1> USE DEF TypeTCP, chain, life, tunnel, tcp, LoginFrame, OwnerFrame, RunFrame, DialFrame,
      CloseFrame, nil
  <1>0. /\ TypeTCP /\ active \in Nat /\ dials' \in Nat /\ \A d \in Dialers : d \in Callers
        /\ "l3" \in Callers /\ "run" \in Callers
        /\ NoKill \in [conn : Nat, streams : SUBSET Dialers]
    <2>1. DialsInv' /\ TypeTCP /\ active \in Nat
      BY DialsNext DEF TypeOK, TypeTunnel
    <2>2. dials' \in Nat
      BY <2>1, CountingNext
    <2>3. \A d \in Dialers : d \in Callers
      BY DEF Callers
    <2>4. "l3" \in Callers /\ "run" \in Callers
      BY DEF Callers
    <2>5. NoKill \in [conn : Nat, streams : SUBSET Dialers]
      BY DEF NoKill
    <2> QED
      BY <2>1, <2>2, <2>3, <2>4, <2>5
  <1>1. CASE authConfig
    BY <1>1, <1>0 DEF authConfig, Asks, LoginFails
  <1>2. CASE pickPasswordMethod
    BY <1>2, <1>0 DEF pickPasswordMethod, Asks, LoginFails
  <1>3. CASE passwordLogin
    BY <1>3, <1>0 DEF passwordLogin, LoginFails
  <1>4. CASE reportEnv
    BY <1>4, <1>0 DEF reportEnv, LoginFails
  <1>5. CASE continueAuth
    BY <1>5, <1>0 DEF continueAuth, LoginFails
  <1>6. CASE authCheck
    BY <1>6, <1>0 DEF authCheck, LoginFails, authStepFromData
  <1>7. CASE Auth
    BY <1>7, <1>0 DEF Auth
  <1>8. CASE submitSMS
    BY <1>8, <1>0 DEF submitSMS, authStepFromData
  <1>9. CASE onlineInfo
    BY <1>9, <1>0 DEF onlineInfo, Asks, LoginFails
  <1>10. CASE clientResource
    BY <1>10, <1>0 DEF clientResource, Asks, LoginFails
  <1>11. CASE prepare
    BY <1>11, <1>0 DEF prepare, LoginFails
  <1>12. CASE StartL3
    BY <1>12, <1>0 DEF StartL3
  <1>13. CASE L3Dial
    BY <1>13, <1>0 DEF L3Dial, invalidate, NoOwner
  <1>14. CASE L3Kill
    BY <1>14, <1>0 DEF L3Kill, CloseListed, NoKill, NoOwner
  <1>15. CASE L3Publish
    BY <1>15, <1>0 DEF L3Publish, NoOwner
  <1>16. CASE RunTunnel
    BY <1>16, <1>0 DEF RunTunnel, NoRun
  <1>17. CASE CancelRun
    BY <1>17, <1>0 DEF CancelRun
  <1>18. CASE JoinRun
    BY <1>18, <1>0 DEF JoinRun, NoRun
  <1>19. CASE StopL3
    BY <1>19, <1>0 DEF StopL3
  <1>20. CASE StopL3Close
    BY <1>20, <1>0 DEF StopL3Close, NoOwner
  <1>21. CASE RunStart
    BY <1>21, <1>0 DEF RunStart, Return, NoRun
  <1>22. CASE RunLoad
    BY <1>22, <1>0 DEF RunLoad, Return, NoRun
  <1>23. CASE RunWait
    BY <1>23, <1>0 DEF RunWait, Return, NoRun, invalidate, runOver
  <1>24. CASE RunKill
    BY <1>24, <1>0 DEF RunKill, Return, NoRun, CloseListed, NoKill
  <1>25. CASE RunDial
    BY <1>25, <1>0 DEF RunDial, Return, NoRun, invalidate, runOver
  <1>26. CASE RunPublish
    BY <1>26, <1>0 DEF RunPublish, Return, NoRun, runOver
  <1>27. CASE CloseCalled
    BY <1>27, <1>0 DEF CloseCalled, GoOn
  <1>28. CASE CloseMark
    BY <1>28, <1>0 DEF CloseMark
  <1>29. CASE CloseStreams
    BY <1>29, <1>0 DEF CloseStreams
  <1>30. CASE CloseDials
    BY <1>30, <1>0 DEF CloseDials, GoOn
  <1>31. CASE CloseTunnel
    BY <1>31, <1>0 DEF CloseTunnel
  <1>32. CASE CloseRun
    BY <1>32, <1>0 DEF CloseRun, GoOn
  <1>33. CASE logout
    BY <1>33, <1>0 DEF logout, GoOn
  <1>34. ASSUME NEW d \in Dialers, DialTCP(d) PROVE TypeTCP'
    BY <1>34, <1>0 DEF DialTCP
  <1>35. ASSUME NEW d \in Dialers, dialTCPNode(d) PROVE TypeTCP'
    BY <1>35, <1>0 DEF dialTCPNode, At, invalidate
  <1>36. ASSUME NEW d \in Dialers, DialKill(d) PROVE TypeTCP'
    BY <1>36, <1>0 DEF DialKill, CloseListed, NoKill
  <1>37. ASSUME NEW d \in Dialers, DialPublish(d) PROVE TypeTCP'
    BY <1>37, <1>0 DEF DialPublish
  <1>38. ASSUME NEW d \in Dialers, DialDiscard(d) PROVE TypeTCP'
    BY <1>38, <1>0 DEF DialDiscard
  <1>39. ASSUME NEW d \in Dialers, StreamClose(d) PROVE TypeTCP'
    BY <1>39, <1>0 DEF StreamClose
  <1>40. ASSUME NEW d \in Dialers, StreamForget(d) PROVE TypeTCP'
    BY <1>40, <1>0 DEF StreamForget
  <1>41. ASSUME NEW c \in 1..MaxConns, LinkDies(c) PROVE TypeTCP'
    BY <1>41, <1>0 DEF LinkDies
  <1>42. CASE UNCHANGED vars
    BY <1>42, <1>0 DEF vars, chain, life, tunnel, tcp
  <1> HIDE DEF TypeTCP, chain, life, tunnel, tcp, LoginFrame, OwnerFrame, RunFrame, DialFrame,
      CloseFrame, nil
  <1> QED
    BY <1>1, <1>2, <1>3, <1>4, <1>5, <1>6, <1>7, <1>8, <1>9, <1>10, <1>11, <1>12, <1>13, <1>14, <1>15,
        <1>16, <1>17, <1>18, <1>19, <1>20, <1>21, <1>22, <1>23, <1>24, <1>25, <1>26, <1>27, <1>28, <1>29,
        <1>30, <1>31, <1>32, <1>33, <1>34, <1>35, <1>36, <1>37, <1>38, <1>39, <1>40, <1>41, <1>42 DEF
        Next, LoginSteps, OwnerSteps, RunSteps, CloseSteps, DialSteps

\* LoginInv is inductive: what newSession has not handed out yet nobody else uses or
\* closes, and passwordLogin is what makes the server count the login.
LEMMA LoginNext == TypeOK /\ LoginInv /\ CloseInv /\ [Next]_vars => LoginInv'
  <1> SUFFICES ASSUME TypeOK, LoginInv, CloseInv, [Next]_vars PROVE LoginInv'
    OBVIOUS
  <1> USE DEF LoginInv, chain, life, tunnel, tcp, LoginFrame, OwnerFrame, RunFrame, DialFrame,
      CloseFrame, nil
  <1>0. TypeLogin /\ TypeTunnel /\ TypeTCP /\ "l3" \in Callers /\ "run" \in Callers /\ \A d \in Dialers : d \in Callers
    BY DEF TypeOK, Callers
  <1> USE DEF TypeLogin, TypeTunnel, TypeTCP
  <1>1. CASE authConfig
    BY <1>1, <1>0 DEF authConfig, Asks, LoginFails
  <1>2. CASE pickPasswordMethod
    BY <1>2, <1>0 DEF pickPasswordMethod, Asks, LoginFails
  <1>3. CASE passwordLogin
    BY <1>3, <1>0 DEF passwordLogin, LoginFails
  <1>4. CASE reportEnv
    BY <1>4, <1>0 DEF reportEnv, LoginFails
  <1>5. CASE continueAuth
    <2>1. CASE LoginFails
      BY <1>5, <1>0, <2>1 DEF continueAuth, LoginFails
    <2>2. CASE closer' = closer /\ login'.pc \in {"check", "sms", "ready", "info"}
      <3>1. login'.out = login.out \/ login'.out = TRUE
        BY <1>5, <1>0, <2>2 DEF continueAuth, LoginFails
      <3> QED
        BY <1>5, <1>0, <2>2, <3>1 DEF continueAuth
    <2> QED
      BY <1>5, <1>0, <2>1, <2>2 DEF continueAuth
  <1>6. CASE authCheck
    BY <1>6, <1>0 DEF authCheck, LoginFails, authStepFromData
  <1>7. CASE Auth
    BY <1>7, <1>0 DEF Auth
  <1>8. CASE submitSMS
    BY <1>8, <1>0 DEF submitSMS, authStepFromData
  <1>9. CASE onlineInfo
    BY <1>9, <1>0 DEF onlineInfo, Asks, LoginFails
  <1>10. CASE clientResource
    BY <1>10, <1>0 DEF clientResource, Asks, LoginFails
  <1>11. CASE prepare
    <2>1. CASE LoginFails /\ table' = table
      BY <1>11, <1>0, <2>1 DEF prepare, LoginFails
    <2>2. CASE closer' = closer /\ login' = [login EXCEPT !.pc = "ready", !.out = TRUE]
      <3>1. login'.out = TRUE /\ login'.pc = "ready"
        BY <1>0, <2>2
      <3> QED
        BY <1>11, <1>0, <2>2, <3>1 DEF prepare
    <2> QED
      BY <1>11, <2>1, <2>2 DEF prepare
  <1>12. CASE StartL3
    BY <1>12, <1>0 DEF StartL3
  <1>13. CASE L3Dial
    BY <1>13, <1>0 DEF L3Dial, invalidate, NoOwner
  <1>14. CASE L3Kill
    BY <1>14, <1>0 DEF L3Kill, CloseListed, NoKill, NoOwner
  <1>15. CASE L3Publish
    BY <1>15, <1>0 DEF L3Publish, NoOwner
  <1>16. CASE RunTunnel
    BY <1>16, <1>0 DEF RunTunnel, NoRun
  <1>17. CASE CancelRun
    BY <1>17, <1>0 DEF CancelRun
  <1>18. CASE JoinRun
    BY <1>18, <1>0 DEF JoinRun, NoRun
  <1>19. CASE StopL3
    BY <1>19, <1>0 DEF StopL3
  <1>20. CASE StopL3Close
    BY <1>20, <1>0 DEF StopL3Close, NoOwner
  <1>21. CASE RunStart
    BY <1>21, <1>0 DEF RunStart, Return, NoRun
  <1>22. CASE RunLoad
    BY <1>22, <1>0 DEF RunLoad, Return, NoRun
  <1>23. CASE RunWait
    BY <1>23, <1>0 DEF RunWait, Return, NoRun, invalidate, runOver
  <1>24. CASE RunKill
    BY <1>24, <1>0 DEF RunKill, Return, NoRun, CloseListed, NoKill
  <1>25. CASE RunDial
    BY <1>25, <1>0 DEF RunDial, Return, NoRun, invalidate, runOver
  <1>26. CASE RunPublish
    BY <1>26, <1>0 DEF RunPublish, Return, NoRun, runOver
  <1>27. CASE CloseCalled
    BY <1>27, <1>0 DEF CloseCalled, GoOn
  <1>28. CASE CloseMark
    BY <1>28, <1>0 DEF CloseMark
  <1>29. CASE CloseStreams
    BY <1>29, <1>0 DEF CloseStreams
  <1>30. CASE CloseDials
    BY <1>30, <1>0 DEF CloseDials, GoOn
  <1>31. CASE CloseTunnel
    BY <1>31, <1>0 DEF CloseTunnel
  <1>32. CASE CloseRun
    BY <1>32, <1>0 DEF CloseRun, GoOn
  <1>33. CASE logout
    BY <1>33, <1>0 DEF logout, GoOn
  <1>34. ASSUME NEW d \in Dialers, DialTCP(d) PROVE LoginInv'
    BY <1>34, <1>0 DEF DialTCP
  <1>35. ASSUME NEW d \in Dialers, dialTCPNode(d) PROVE LoginInv'
    BY <1>35, <1>0 DEF dialTCPNode, At, invalidate
  <1>36. ASSUME NEW d \in Dialers, DialKill(d) PROVE LoginInv'
    BY <1>36, <1>0 DEF DialKill, CloseListed, NoKill
  <1>37. ASSUME NEW d \in Dialers, DialPublish(d) PROVE LoginInv'
    BY <1>37, <1>0 DEF DialPublish
  <1>38. ASSUME NEW d \in Dialers, DialDiscard(d) PROVE LoginInv'
    BY <1>38, <1>0 DEF DialDiscard
  <1>39. ASSUME NEW d \in Dialers, StreamClose(d) PROVE LoginInv'
    BY <1>39, <1>0 DEF StreamClose
  <1>40. ASSUME NEW d \in Dialers, StreamForget(d) PROVE LoginInv'
    BY <1>40, <1>0 DEF StreamForget
  <1>41. ASSUME NEW c \in 1..MaxConns, LinkDies(c) PROVE LoginInv'
    BY <1>41, <1>0 DEF LinkDies
  <1>42. CASE UNCHANGED vars
    BY <1>42, <1>0 DEF vars, chain, life, tunnel, tcp
  <1> HIDE DEF LoginInv, chain, life, tunnel, tcp, LoginFrame, OwnerFrame, RunFrame, DialFrame,
      CloseFrame, nil
  <1> QED
    BY <1>1, <1>2, <1>3, <1>4, <1>5, <1>6, <1>7, <1>8, <1>9, <1>10, <1>11, <1>12, <1>13, <1>14, <1>15,
        <1>16, <1>17, <1>18, <1>19, <1>20, <1>21, <1>22, <1>23, <1>24, <1>25, <1>26, <1>27, <1>28, <1>29,
        <1>30, <1>31, <1>32, <1>33, <1>34, <1>35, <1>36, <1>37, <1>38, <1>39, <1>40, <1>41, <1>42 DEF
        Next, LoginSteps, OwnerSteps, RunSteps, CloseSteps, DialSteps

\* HandsInv is inductive: a tunnel connection is closed by whoever has it, or published.
LEMMA HandsNext == TypeOK /\ LoginInv /\ HandsInv /\ CloseInv /\ [Next]_vars => HandsInv'
  <1> SUFFICES ASSUME TypeOK, LoginInv, HandsInv, CloseInv, [Next]_vars PROVE HandsInv'
    OBVIOUS
  <1> USE DEF HandsInv, Connections, chain, life, tunnel, tcp, LoginFrame, OwnerFrame, RunFrame,
      DialFrame, CloseFrame, nil
  <1>0. TypeLogin /\ TypeTunnel /\ TypeTCP /\ "l3" \in Callers /\ "run" \in Callers /\ \A d \in Dialers : d \in Callers
    BY DEF TypeOK, Callers
  <1> USE DEF TypeLogin, TypeTunnel, TypeTCP
  <1>1. CASE authConfig
    <2>1. UNCHANGED <<active, runDone, made, open, lost, owner, run>> /\ closer'.conn = closer.conn
      BY <1>1, <1>0 DEF authConfig, Asks, LoginFails
    <2> QED
      BY <2>1
  <1>2. CASE pickPasswordMethod
    <2>1. UNCHANGED <<active, runDone, made, open, lost, owner, run>> /\ closer'.conn = closer.conn
      BY <1>2, <1>0 DEF pickPasswordMethod, Asks, LoginFails
    <2> QED
      BY <2>1
  <1>3. CASE passwordLogin
    <2>1. UNCHANGED <<active, runDone, made, open, lost, owner, run>> /\ closer'.conn = closer.conn
      BY <1>3, <1>0 DEF passwordLogin, LoginFails
    <2> QED
      BY <2>1
  <1>4. CASE reportEnv
    <2>1. UNCHANGED <<active, runDone, made, open, lost, owner, run>> /\ closer'.conn = closer.conn
      BY <1>4, <1>0 DEF reportEnv, LoginFails
    <2> QED
      BY <2>1
  <1>5. CASE continueAuth
    <2>1. UNCHANGED <<active, runDone, made, open, lost, owner, run>> /\ closer'.conn = closer.conn
      BY <1>5, <1>0 DEF continueAuth, LoginFails
    <2> QED
      BY <2>1
  <1>6. CASE authCheck
    <2>1. UNCHANGED <<active, runDone, made, open, lost, owner, run>> /\ closer'.conn = closer.conn
      BY <1>6, <1>0 DEF authCheck, LoginFails, authStepFromData
    <2> QED
      BY <2>1
  <1>7. CASE Auth
    <2>1. UNCHANGED <<active, runDone, made, open, lost, owner, run>> /\ closer'.conn = closer.conn
      BY <1>7, <1>0 DEF Auth
    <2> QED
      BY <2>1
  <1>8. CASE submitSMS
    <2>1. UNCHANGED <<active, runDone, made, open, lost, owner, run>> /\ closer'.conn = closer.conn
      BY <1>8, <1>0 DEF submitSMS, authStepFromData
    <2> QED
      BY <2>1
  <1>9. CASE onlineInfo
    <2>1. UNCHANGED <<active, runDone, made, open, lost, owner, run>> /\ closer'.conn = closer.conn
      BY <1>9, <1>0 DEF onlineInfo, Asks, LoginFails
    <2> QED
      BY <2>1
  <1>10. CASE clientResource
    <2>1. UNCHANGED <<active, runDone, made, open, lost, owner, run>> /\ closer'.conn = closer.conn
      BY <1>10, <1>0 DEF clientResource, Asks, LoginFails
    <2> QED
      BY <2>1
  <1>11. CASE prepare
    <2>1. UNCHANGED <<active, runDone, made, open, lost, owner, run>> /\ closer'.conn = closer.conn
      BY <1>11, <1>0 DEF prepare, LoginFails
    <2> QED
      BY <2>1
  <1>12. CASE StartL3
    BY <1>12, <1>0 DEF StartL3
  <1>13. CASE L3Dial
    BY <1>13, <1>0 DEF L3Dial, invalidate, NoOwner
  <1>14. CASE L3Kill
    BY <1>14, <1>0 DEF L3Kill, CloseListed, NoKill, NoOwner
  <1>15. CASE L3Publish
    <2>0. owner.pc = "publish" /\ runDone = "none" /\ active = nil /\ run.pc = "off" /\ run.conn = nil
          /\ UNCHANGED <<runDone, made, run, closer>>
      BY <1>15 DEF L3Publish
    <2>1. CASE owner' = NoOwner /\ open' = open \ {owner.conn} /\ UNCHANGED active
      <3>1. \A c \in open' : c \in Connections'
        BY <1>0, <2>0, <2>1 DEF NoOwner
      <3> QED
        BY <1>0, <2>0, <2>1, <3>1 DEF NoOwner
    <2>2. CASE active' = owner.conn /\ owner' = [pc |-> "attach", conn |-> nil] /\ UNCHANGED open
      <3>1. \A c \in open' : c \in Connections'
        BY <1>0, <2>0, <2>2
      <3> QED
        BY <1>0, <2>0, <2>2, <3>1
    <2> QED
      BY <1>15, <2>1, <2>2 DEF L3Publish
  <1>16. CASE RunTunnel
    BY <1>16, <1>0 DEF RunTunnel, NoRun
  <1>17. CASE CancelRun
    BY <1>17, <1>0 DEF CancelRun
  <1>18. CASE JoinRun
    BY <1>18, <1>0 DEF JoinRun, NoRun
  <1>19. CASE StopL3
    BY <1>19, <1>0 DEF StopL3
  <1>20. CASE StopL3Close
    BY <1>20, <1>0 DEF StopL3Close, NoOwner
  <1>21. CASE RunStart
    BY <1>21, <1>0 DEF RunStart, Return, NoRun
  <1>22. CASE RunLoad
    BY <1>22, <1>0 DEF RunLoad, Return, NoRun
  <1>23. CASE RunWait
    BY <1>23, <1>0 DEF RunWait, Return, NoRun, invalidate, runOver
  <1>24. CASE RunKill
    BY <1>24, <1>0 DEF RunKill, Return, NoRun, CloseListed, NoKill
  <1>25. CASE RunDial
    <2>0. run.pc = "redial" /\ run.conn = nil /\ active \notin open /\ runDone = "open"
          /\ owner.pc \in {"running", "join"} /\ UNCHANGED <<owner, closer>>
      BY <1>25 DEF RunDial
    <2>1. CASE Return /\ runDone' = "closed" /\ UNCHANGED <<active, made, open>>
      BY <1>0, <2>0, <2>1 DEF Return, NoRun
    <2>2. CASE made' = made + 1 /\ open' = open \cup {made + 1} /\ UNCHANGED <<active, runDone>>
               /\ run' = [run EXCEPT !.pc = "publish", !.conn = made + 1]
      <3>1. run'.pc = "publish" /\ run'.conn = made + 1 /\ made + 1 # nil /\ active # made + 1
        BY <1>0, <2>2
      <3>2. \A c \in open' : c \in Connections'
        BY <1>0, <2>0, <2>2, <3>1
      <3> QED
        BY <1>0, <2>0, <2>2, <3>1, <3>2
    <2>3. CASE run' = [run EXCEPT !.pc = "kill"] /\ UNCHANGED <<active, runDone, made, open>>
      BY <1>0, <2>0, <2>3
    <2>4. CASE run' = [run EXCEPT !.failures = @ + 1] /\ UNCHANGED <<active, runDone, made, open>>
      BY <1>0, <2>0, <2>4
    <2>5. CASE active' = nil /\ Return /\ runDone' = "closed" /\ UNCHANGED <<made, open>>
      BY <1>0, <2>0, <2>5 DEF Return, NoRun
    <2> QED
      BY <1>25, <2>1, <2>2, <2>3, <2>4, <2>5 DEF RunDial
  <1>26. CASE RunPublish
    BY <1>26, <1>0 DEF RunPublish, Return, NoRun, runOver
  <1>27. CASE CloseCalled
    BY <1>27, <1>0 DEF CloseCalled, GoOn
  <1>28. CASE CloseMark
    <2>1. closer'.conn = active /\ active' = nil /\ UNCHANGED <<runDone, made, open, owner, run>>
          /\ closer.conn = nil
      BY <1>28 DEF CloseMark, CloseInv
    <2>2. \A c \in open' : c \in Connections'
      BY <1>0, <2>1
    <2>3. nil \notin open
      OBVIOUS
    <2> QED
      BY <1>0, <2>1, <2>2, <2>3
  <1>29. CASE CloseStreams
    BY <1>29, <1>0 DEF CloseStreams
  <1>30. CASE CloseDials
    BY <1>30, <1>0 DEF CloseDials, GoOn
  <1>31. CASE CloseTunnel
    BY <1>31, <1>0 DEF CloseTunnel
  <1>32. CASE CloseRun
    BY <1>32, <1>0 DEF CloseRun, GoOn
  <1>33. CASE logout
    BY <1>33, <1>0 DEF logout, GoOn
  <1>34. ASSUME NEW d \in Dialers, DialTCP(d) PROVE HandsInv'
    BY <1>34, <1>0 DEF DialTCP
  <1>35. ASSUME NEW d \in Dialers, dialTCPNode(d) PROVE HandsInv'
    BY <1>35, <1>0 DEF dialTCPNode, At, invalidate
  <1>36. ASSUME NEW d \in Dialers, DialKill(d) PROVE HandsInv'
    BY <1>36, <1>0 DEF DialKill, CloseListed, NoKill
  <1>37. ASSUME NEW d \in Dialers, DialPublish(d) PROVE HandsInv'
    BY <1>37, <1>0 DEF DialPublish
  <1>38. ASSUME NEW d \in Dialers, DialDiscard(d) PROVE HandsInv'
    BY <1>38, <1>0 DEF DialDiscard
  <1>39. ASSUME NEW d \in Dialers, StreamClose(d) PROVE HandsInv'
    BY <1>39, <1>0 DEF StreamClose
  <1>40. ASSUME NEW d \in Dialers, StreamForget(d) PROVE HandsInv'
    BY <1>40, <1>0 DEF StreamForget
  <1>41. ASSUME NEW c \in 1..MaxConns, LinkDies(c) PROVE HandsInv'
    BY <1>41, <1>0 DEF LinkDies
  <1>42. CASE UNCHANGED vars
    BY <1>42, <1>0 DEF vars, chain, life, tunnel, tcp
  <1> HIDE DEF HandsInv, Connections, chain, life, tunnel, tcp, LoginFrame, OwnerFrame, RunFrame,
      DialFrame, CloseFrame, nil
  <1> QED
    BY <1>1, <1>2, <1>3, <1>4, <1>5, <1>6, <1>7, <1>8, <1>9, <1>10, <1>11, <1>12, <1>13, <1>14, <1>15,
        <1>16, <1>17, <1>18, <1>19, <1>20, <1>21, <1>22, <1>23, <1>24, <1>25, <1>26, <1>27, <1>28, <1>29,
        <1>30, <1>31, <1>32, <1>33, <1>34, <1>35, <1>36, <1>37, <1>38, <1>39, <1>40, <1>41, <1>42 DEF
        Next, LoginSteps, OwnerSteps, RunSteps, CloseSteps, DialSteps

\* StreamsInv is inductive: a stream is registered, or on its way to be, or closed.
LEMMA StreamsNext == TypeOK /\ StreamsInv /\ [Next]_vars => StreamsInv'
  <1> SUFFICES ASSUME TypeOK, StreamsInv, [Next]_vars PROVE StreamsInv'
    OBVIOUS
  <1> USE DEF StreamsInv, chain, life, tunnel, tcp, LoginFrame, OwnerFrame, RunFrame, DialFrame,
      CloseFrame, nil
  <1>0. TypeLogin /\ TypeTunnel /\ TypeTCP /\ "l3" \in Callers /\ "run" \in Callers /\ \A d \in Dialers : d \in Callers
    BY DEF TypeOK, Callers
  <1> USE DEF TypeLogin, TypeTunnel, TypeTCP
  <1>1. CASE authConfig
    BY <1>1, <1>0 DEF authConfig, Asks, LoginFails
  <1>2. CASE pickPasswordMethod
    BY <1>2, <1>0 DEF pickPasswordMethod, Asks, LoginFails
  <1>3. CASE passwordLogin
    BY <1>3, <1>0 DEF passwordLogin, LoginFails
  <1>4. CASE reportEnv
    BY <1>4, <1>0 DEF reportEnv, LoginFails
  <1>5. CASE continueAuth
    BY <1>5, <1>0 DEF continueAuth, LoginFails
  <1>6. CASE authCheck
    BY <1>6, <1>0 DEF authCheck, LoginFails, authStepFromData
  <1>7. CASE Auth
    BY <1>7, <1>0 DEF Auth
  <1>8. CASE submitSMS
    BY <1>8, <1>0 DEF submitSMS, authStepFromData
  <1>9. CASE onlineInfo
    BY <1>9, <1>0 DEF onlineInfo, Asks, LoginFails
  <1>10. CASE clientResource
    BY <1>10, <1>0 DEF clientResource, Asks, LoginFails
  <1>11. CASE prepare
    BY <1>11, <1>0 DEF prepare, LoginFails
  <1>12. CASE StartL3
    BY <1>12, <1>0 DEF StartL3
  <1>13. CASE L3Dial
    BY <1>13, <1>0 DEF L3Dial, invalidate, NoOwner
  <1>14. CASE L3Kill
    BY <1>14, <1>0 DEF L3Kill, CloseListed, NoKill, NoOwner
  <1>15. CASE L3Publish
    BY <1>15, <1>0 DEF L3Publish, NoOwner
  <1>16. CASE RunTunnel
    BY <1>16, <1>0 DEF RunTunnel, NoRun
  <1>17. CASE CancelRun
    BY <1>17, <1>0 DEF CancelRun
  <1>18. CASE JoinRun
    BY <1>18, <1>0 DEF JoinRun, NoRun
  <1>19. CASE StopL3
    BY <1>19, <1>0 DEF StopL3
  <1>20. CASE StopL3Close
    BY <1>20, <1>0 DEF StopL3Close, NoOwner
  <1>21. CASE RunStart
    BY <1>21, <1>0 DEF RunStart, Return, NoRun
  <1>22. CASE RunLoad
    BY <1>22, <1>0 DEF RunLoad, Return, NoRun
  <1>23. CASE RunWait
    BY <1>23, <1>0 DEF RunWait, Return, NoRun, invalidate, runOver
  <1>24. CASE RunKill
    BY <1>24, <1>0 DEF RunKill, Return, NoRun, CloseListed, NoKill
  <1>25. CASE RunDial
    BY <1>25, <1>0 DEF RunDial, Return, NoRun, invalidate, runOver
  <1>26. CASE RunPublish
    BY <1>26, <1>0 DEF RunPublish, Return, NoRun, runOver
  <1>27. CASE CloseCalled
    BY <1>27, <1>0 DEF CloseCalled, GoOn
  <1>28. CASE CloseMark
    BY <1>28, <1>0 DEF CloseMark
  <1>29. CASE CloseStreams
    BY <1>29, <1>0 DEF CloseStreams
  <1>30. CASE CloseDials
    BY <1>30, <1>0 DEF CloseDials, GoOn
  <1>31. CASE CloseTunnel
    BY <1>31, <1>0 DEF CloseTunnel
  <1>32. CASE CloseRun
    BY <1>32, <1>0 DEF CloseRun, GoOn
  <1>33. CASE logout
    BY <1>33, <1>0 DEF logout, GoOn
  <1>34. ASSUME NEW d \in Dialers, DialTCP(d) PROVE StreamsInv'
    BY <1>34, <1>0 DEF DialTCP
  <1>35. ASSUME NEW d \in Dialers, dialTCPNode(d) PROVE StreamsInv'
    <2>1. \A e \in Dialers : e # d => dialer'[e] = dialer[e]
      BY <1>35, <1>0 DEF dialTCPNode, At, invalidate
    <2>2. \A e \in sockets' : e # d => e \in sockets /\ (e \in registered => e \in registered')
      BY <1>35, <1>0 DEF dialTCPNode, At, invalidate
    <2>3. d \in sockets' => (d \in registered' \/ dialer'[d].pc \in {"publish", "discard"}) /\ dialer'[d].pc # "forget"
      BY <1>35, <1>0 DEF dialTCPNode, At, invalidate
    <2> QED
      BY <1>0, <2>1, <2>2, <2>3
  <1>36. ASSUME NEW d \in Dialers, DialKill(d) PROVE StreamsInv'
    BY <1>36, <1>0 DEF DialKill, CloseListed, NoKill
  <1>37. ASSUME NEW d \in Dialers, DialPublish(d) PROVE StreamsInv'
    <2>1. \A e \in Dialers : e # d => dialer'[e] = dialer[e]
      BY <1>37, <1>0 DEF DialPublish
    <2>2. \A e \in sockets' : e # d => e \in sockets /\ (e \in registered => e \in registered')
      BY <1>37, <1>0 DEF DialPublish
    <2>3. d \in sockets' => (d \in registered' \/ dialer'[d].pc \in {"publish", "discard"}) /\ dialer'[d].pc # "forget"
      BY <1>37, <1>0 DEF DialPublish
    <2> QED
      BY <1>0, <2>1, <2>2, <2>3
  <1>38. ASSUME NEW d \in Dialers, DialDiscard(d) PROVE StreamsInv'
    BY <1>38, <1>0 DEF DialDiscard
  <1>39. ASSUME NEW d \in Dialers, StreamClose(d) PROVE StreamsInv'
    BY <1>39, <1>0 DEF StreamClose
  <1>40. ASSUME NEW d \in Dialers, StreamForget(d) PROVE StreamsInv'
    BY <1>40, <1>0 DEF StreamForget
  <1>41. ASSUME NEW c \in 1..MaxConns, LinkDies(c) PROVE StreamsInv'
    BY <1>41, <1>0 DEF LinkDies
  <1>42. CASE UNCHANGED vars
    BY <1>42, <1>0 DEF vars, chain, life, tunnel, tcp
  <1> HIDE DEF StreamsInv, chain, life, tunnel, tcp, LoginFrame, OwnerFrame, RunFrame, DialFrame,
      CloseFrame, nil
  <1> QED
    BY <1>1, <1>2, <1>3, <1>4, <1>5, <1>6, <1>7, <1>8, <1>9, <1>10, <1>11, <1>12, <1>13, <1>14, <1>15,
        <1>16, <1>17, <1>18, <1>19, <1>20, <1>21, <1>22, <1>23, <1>24, <1>25, <1>26, <1>27, <1>28, <1>29,
        <1>30, <1>31, <1>32, <1>33, <1>34, <1>35, <1>36, <1>37, <1>38, <1>39, <1>40, <1>41, <1>42 DEF
        Next, LoginSteps, OwnerSteps, RunSteps, CloseSteps, DialSteps

\* CloseInv is inductive: once the session is closed nothing is registered or published
\* any more, so what Close has waited for and closed stays so.
LEMMA CloseNext == TypeOK /\ DialsInv /\ LoginInv /\ HandsInv /\ CloseInv /\ [Next]_vars => CloseInv'
  <1> SUFFICES ASSUME TypeOK, DialsInv, LoginInv, HandsInv, CloseInv, [Next]_vars PROVE CloseInv'
    OBVIOUS
  <1> USE DEF CloseInv, chain, life, tunnel, tcp, LoginFrame, OwnerFrame, RunFrame, DialFrame,
      CloseFrame, nil
  <1>0. TypeLogin /\ TypeTunnel /\ TypeTCP /\ "l3" \in Callers /\ "run" \in Callers /\ \A d \in Dialers : d \in Callers
    BY DEF TypeOK, Callers
  <1> USE DEF TypeLogin, TypeTunnel, TypeTCP
  <1>p. dials = 0 => /\ owner.pc \notin {"dial", "kill", "publish"}
                     /\ \A d \in Dialers : dialer[d].pc \notin {"dial", "kill", "publish", "discard"}
    <2>1. dials = 0 => Pending = {}
      BY Counting, FS_EmptySet DEF DialsInv
    <2> QED
      BY <2>1 DEF Pending
  <1>1. CASE authConfig
    <2>1. UNCHANGED <<closed, active, registered, dials, runDone, owner>>
      BY <1>1 DEF authConfig, Asks, LoginFails
    <2>2. closer' = closer \/ (~login.out /\ login.pc # "failed" /\ closer' = [closer EXCEPT !.pc = "mark"])
      BY <1>1 DEF authConfig, Asks, LoginFails
    <2>3. CASE closer' = closer
      BY <1>0, <2>1, <2>3
    <2>4. CASE ~login.out /\ login.pc # "failed" /\ closer' = [closer EXCEPT !.pc = "mark"]
      <3>1. closer.pc = "idle" /\ owner.pc = "idle"
        BY <2>4 DEF LoginInv
      <3>2. closer'.pc = "mark" /\ closer'.conn = closer.conn /\ closer'.streams = closer.streams
        BY <1>0, <2>4
      <3> QED
        BY <2>1, <3>1, <3>2
    <2> QED
      BY <2>2, <2>3, <2>4
  <1>2. CASE pickPasswordMethod
    <2>1. UNCHANGED <<closed, active, registered, dials, runDone, owner>>
      BY <1>2 DEF pickPasswordMethod, Asks, LoginFails
    <2>2. closer' = closer \/ (~login.out /\ login.pc # "failed" /\ closer' = [closer EXCEPT !.pc = "mark"])
      BY <1>2 DEF pickPasswordMethod, Asks, LoginFails
    <2>3. CASE closer' = closer
      BY <1>0, <2>1, <2>3
    <2>4. CASE ~login.out /\ login.pc # "failed" /\ closer' = [closer EXCEPT !.pc = "mark"]
      <3>1. closer.pc = "idle" /\ owner.pc = "idle"
        BY <2>4 DEF LoginInv
      <3>2. closer'.pc = "mark" /\ closer'.conn = closer.conn /\ closer'.streams = closer.streams
        BY <1>0, <2>4
      <3> QED
        BY <2>1, <3>1, <3>2
    <2> QED
      BY <2>2, <2>3, <2>4
  <1>3. CASE passwordLogin
    <2>1. UNCHANGED <<closed, active, registered, dials, runDone, owner>>
      BY <1>3 DEF passwordLogin, LoginFails
    <2>2. closer' = closer \/ (~login.out /\ login.pc # "failed" /\ closer' = [closer EXCEPT !.pc = "mark"])
      BY <1>3 DEF passwordLogin, LoginFails
    <2>3. CASE closer' = closer
      BY <1>0, <2>1, <2>3
    <2>4. CASE ~login.out /\ login.pc # "failed" /\ closer' = [closer EXCEPT !.pc = "mark"]
      <3>1. closer.pc = "idle" /\ owner.pc = "idle"
        BY <2>4 DEF LoginInv
      <3>2. closer'.pc = "mark" /\ closer'.conn = closer.conn /\ closer'.streams = closer.streams
        BY <1>0, <2>4
      <3> QED
        BY <2>1, <3>1, <3>2
    <2> QED
      BY <2>2, <2>3, <2>4
  <1>4. CASE reportEnv
    <2>1. UNCHANGED <<closed, active, registered, dials, runDone, owner>>
      BY <1>4 DEF reportEnv, LoginFails
    <2>2. closer' = closer \/ (~login.out /\ login.pc # "failed" /\ closer' = [closer EXCEPT !.pc = "mark"])
      BY <1>4 DEF reportEnv, LoginFails
    <2>3. CASE closer' = closer
      BY <1>0, <2>1, <2>3
    <2>4. CASE ~login.out /\ login.pc # "failed" /\ closer' = [closer EXCEPT !.pc = "mark"]
      <3>1. closer.pc = "idle" /\ owner.pc = "idle"
        BY <2>4 DEF LoginInv
      <3>2. closer'.pc = "mark" /\ closer'.conn = closer.conn /\ closer'.streams = closer.streams
        BY <1>0, <2>4
      <3> QED
        BY <2>1, <3>1, <3>2
    <2> QED
      BY <2>2, <2>3, <2>4
  <1>5. CASE continueAuth
    <2>1. UNCHANGED <<closed, active, registered, dials, runDone, owner>>
      BY <1>5 DEF continueAuth, LoginFails
    <2>2. closer' = closer \/ (~login.out /\ login.pc # "failed" /\ closer' = [closer EXCEPT !.pc = "mark"])
      BY <1>5 DEF continueAuth, LoginFails
    <2>3. CASE closer' = closer
      BY <1>0, <2>1, <2>3
    <2>4. CASE ~login.out /\ login.pc # "failed" /\ closer' = [closer EXCEPT !.pc = "mark"]
      <3>1. closer.pc = "idle" /\ owner.pc = "idle"
        BY <2>4 DEF LoginInv
      <3>2. closer'.pc = "mark" /\ closer'.conn = closer.conn /\ closer'.streams = closer.streams
        BY <1>0, <2>4
      <3> QED
        BY <2>1, <3>1, <3>2
    <2> QED
      BY <2>2, <2>3, <2>4
  <1>6. CASE authCheck
    <2>1. UNCHANGED <<closed, active, registered, dials, runDone, owner>>
      BY <1>6 DEF authCheck, LoginFails, authStepFromData
    <2>2. closer' = closer \/ (~login.out /\ login.pc # "failed" /\ closer' = [closer EXCEPT !.pc = "mark"])
      BY <1>6 DEF authCheck, LoginFails, authStepFromData
    <2>3. CASE closer' = closer
      BY <1>0, <2>1, <2>3
    <2>4. CASE ~login.out /\ login.pc # "failed" /\ closer' = [closer EXCEPT !.pc = "mark"]
      <3>1. closer.pc = "idle" /\ owner.pc = "idle"
        BY <2>4 DEF LoginInv
      <3>2. closer'.pc = "mark" /\ closer'.conn = closer.conn /\ closer'.streams = closer.streams
        BY <1>0, <2>4
      <3> QED
        BY <2>1, <3>1, <3>2
    <2> QED
      BY <2>2, <2>3, <2>4
  <1>7. CASE Auth
    <2>1. UNCHANGED <<closed, active, registered, dials, runDone, owner>>
      BY <1>7 DEF Auth
    <2>2. closer' = closer \/ (~login.out /\ login.pc # "failed" /\ closer' = [closer EXCEPT !.pc = "mark"])
      BY <1>7 DEF Auth
    <2>3. CASE closer' = closer
      BY <1>0, <2>1, <2>3
    <2>4. CASE ~login.out /\ login.pc # "failed" /\ closer' = [closer EXCEPT !.pc = "mark"]
      <3>1. closer.pc = "idle" /\ owner.pc = "idle"
        BY <2>4 DEF LoginInv
      <3>2. closer'.pc = "mark" /\ closer'.conn = closer.conn /\ closer'.streams = closer.streams
        BY <1>0, <2>4
      <3> QED
        BY <2>1, <3>1, <3>2
    <2> QED
      BY <2>2, <2>3, <2>4
  <1>8. CASE submitSMS
    <2>1. UNCHANGED <<closed, active, registered, dials, runDone, owner>>
      BY <1>8 DEF submitSMS, authStepFromData
    <2>2. closer' = closer \/ (~login.out /\ login.pc # "failed" /\ closer' = [closer EXCEPT !.pc = "mark"])
      BY <1>8 DEF submitSMS, authStepFromData
    <2>3. CASE closer' = closer
      BY <1>0, <2>1, <2>3
    <2>4. CASE ~login.out /\ login.pc # "failed" /\ closer' = [closer EXCEPT !.pc = "mark"]
      <3>1. closer.pc = "idle" /\ owner.pc = "idle"
        BY <2>4 DEF LoginInv
      <3>2. closer'.pc = "mark" /\ closer'.conn = closer.conn /\ closer'.streams = closer.streams
        BY <1>0, <2>4
      <3> QED
        BY <2>1, <3>1, <3>2
    <2> QED
      BY <2>2, <2>3, <2>4
  <1>9. CASE onlineInfo
    <2>1. UNCHANGED <<closed, active, registered, dials, runDone, owner>>
      BY <1>9 DEF onlineInfo, Asks, LoginFails
    <2>2. closer' = closer \/ (~login.out /\ login.pc # "failed" /\ closer' = [closer EXCEPT !.pc = "mark"])
      BY <1>9 DEF onlineInfo, Asks, LoginFails
    <2>3. CASE closer' = closer
      BY <1>0, <2>1, <2>3
    <2>4. CASE ~login.out /\ login.pc # "failed" /\ closer' = [closer EXCEPT !.pc = "mark"]
      <3>1. closer.pc = "idle" /\ owner.pc = "idle"
        BY <2>4 DEF LoginInv
      <3>2. closer'.pc = "mark" /\ closer'.conn = closer.conn /\ closer'.streams = closer.streams
        BY <1>0, <2>4
      <3> QED
        BY <2>1, <3>1, <3>2
    <2> QED
      BY <2>2, <2>3, <2>4
  <1>10. CASE clientResource
    <2>1. UNCHANGED <<closed, active, registered, dials, runDone, owner>>
      BY <1>10 DEF clientResource, Asks, LoginFails
    <2>2. closer' = closer \/ (~login.out /\ login.pc # "failed" /\ closer' = [closer EXCEPT !.pc = "mark"])
      BY <1>10 DEF clientResource, Asks, LoginFails
    <2>3. CASE closer' = closer
      BY <1>0, <2>1, <2>3
    <2>4. CASE ~login.out /\ login.pc # "failed" /\ closer' = [closer EXCEPT !.pc = "mark"]
      <3>1. closer.pc = "idle" /\ owner.pc = "idle"
        BY <2>4 DEF LoginInv
      <3>2. closer'.pc = "mark" /\ closer'.conn = closer.conn /\ closer'.streams = closer.streams
        BY <1>0, <2>4
      <3> QED
        BY <2>1, <3>1, <3>2
    <2> QED
      BY <2>2, <2>3, <2>4
  <1>11. CASE prepare
    <2>1. UNCHANGED <<closed, active, registered, dials, runDone, owner>>
      BY <1>11 DEF prepare, LoginFails
    <2>2. closer' = closer \/ (~login.out /\ login.pc # "failed" /\ closer' = [closer EXCEPT !.pc = "mark"])
      BY <1>11 DEF prepare, LoginFails
    <2>3. CASE closer' = closer
      BY <1>0, <2>1, <2>3
    <2>4. CASE ~login.out /\ login.pc # "failed" /\ closer' = [closer EXCEPT !.pc = "mark"]
      <3>1. closer.pc = "idle" /\ owner.pc = "idle"
        BY <2>4 DEF LoginInv
      <3>2. closer'.pc = "mark" /\ closer'.conn = closer.conn /\ closer'.streams = closer.streams
        BY <1>0, <2>4
      <3> QED
        BY <2>1, <3>1, <3>2
    <2> QED
      BY <2>2, <2>3, <2>4
  <1>12. CASE StartL3
    BY <1>12, <1>0 DEF StartL3
  <1>13. CASE L3Dial
    <2>1. closer.pc \notin {"conn", "run", "logout", "done"}
      BY <1>13, <1>p DEF L3Dial, invalidate, NoOwner
    <2> QED
      BY <1>13, <1>0, <2>1 DEF L3Dial, invalidate, NoOwner
  <1>14. CASE L3Kill
    <2>1. closer.pc \notin {"conn", "run", "logout", "done"}
      BY <1>14, <1>p DEF L3Kill, CloseListed, NoKill, NoOwner
    <2> QED
      BY <1>14, <1>0, <2>1 DEF L3Kill, CloseListed, NoKill, NoOwner
  <1>15. CASE L3Publish
    <2>1. closer.pc \notin {"conn", "run", "logout", "done"}
      BY <1>15, <1>p DEF L3Publish, NoOwner
    <2> QED
      BY <1>15, <1>0, <2>1 DEF L3Publish, NoOwner
  <1>16. CASE RunTunnel
    BY <1>16, <1>0 DEF RunTunnel, NoRun
  <1>17. CASE CancelRun
    BY <1>17, <1>0 DEF CancelRun
  <1>18. CASE JoinRun
    BY <1>18, <1>0 DEF JoinRun, NoRun
  <1>19. CASE StopL3
    BY <1>19, <1>0 DEF StopL3
  <1>20. CASE StopL3Close
    BY <1>20, <1>0 DEF StopL3Close, NoOwner
  <1>21. CASE RunStart
    BY <1>21, <1>0 DEF RunStart, Return, NoRun
  <1>22. CASE RunLoad
    BY <1>22, <1>0 DEF RunLoad, Return, NoRun
  <1>23. CASE RunWait
    BY <1>23, <1>0 DEF RunWait, Return, NoRun, invalidate, runOver
  <1>24. CASE RunKill
    BY <1>24, <1>0 DEF RunKill, Return, NoRun, CloseListed, NoKill
  <1>25. CASE RunDial
    BY <1>25, <1>0 DEF RunDial, Return, NoRun, invalidate, runOver
  <1>26. CASE RunPublish
    BY <1>26, <1>0 DEF RunPublish, Return, NoRun, runOver
  <1>27. CASE CloseCalled
    BY <1>27, <1>0 DEF CloseCalled, GoOn
  <1>28. CASE CloseMark
    BY <1>28, <1>0 DEF CloseMark
  <1>29. CASE CloseStreams
    BY <1>29, <1>0 DEF CloseStreams
  <1>30. CASE CloseDials
    BY <1>30, <1>0 DEF CloseDials, GoOn
  <1>31. CASE CloseTunnel
    BY <1>31, <1>0 DEF CloseTunnel
  <1>32. CASE CloseRun
    BY <1>32, <1>0 DEF CloseRun, GoOn
  <1>33. CASE logout
    <2>1. closer'.pc = "done" /\ closer'.conn = closer.conn
      BY <1>33, <1>0 DEF logout
    <2> QED
      BY <1>33, <1>0, <2>1 DEF logout
  <1>34. ASSUME NEW d \in Dialers, DialTCP(d) PROVE CloseInv'
    BY <1>34, <1>0 DEF DialTCP
  <1>35. ASSUME NEW d \in Dialers, dialTCPNode(d) PROVE CloseInv'
    <2>1. closer.pc \notin {"conn", "run", "logout", "done"}
      BY <1>35, <1>p DEF dialTCPNode, At, invalidate
    <2> QED
      BY <1>35, <1>0, <2>1 DEF dialTCPNode, At, invalidate
  <1>36. ASSUME NEW d \in Dialers, DialKill(d) PROVE CloseInv'
    <2>1. closer.pc \notin {"conn", "run", "logout", "done"}
      BY <1>36, <1>p DEF DialKill, CloseListed, NoKill
    <2> QED
      BY <1>36, <1>0, <2>1 DEF DialKill, CloseListed, NoKill
  <1>37. ASSUME NEW d \in Dialers, DialPublish(d) PROVE CloseInv'
    <2>1. closer.pc \notin {"conn", "run", "logout", "done"}
      BY <1>37, <1>p DEF DialPublish
    <2> QED
      BY <1>37, <1>0, <2>1 DEF DialPublish
  <1>38. ASSUME NEW d \in Dialers, DialDiscard(d) PROVE CloseInv'
    <2>1. closer.pc \notin {"conn", "run", "logout", "done"}
      BY <1>38, <1>p DEF DialDiscard
    <2> QED
      BY <1>38, <1>0, <2>1 DEF DialDiscard
  <1>39. ASSUME NEW d \in Dialers, StreamClose(d) PROVE CloseInv'
    BY <1>39, <1>0 DEF StreamClose
  <1>40. ASSUME NEW d \in Dialers, StreamForget(d) PROVE CloseInv'
    BY <1>40, <1>0 DEF StreamForget
  <1>41. ASSUME NEW c \in 1..MaxConns, LinkDies(c) PROVE CloseInv'
    BY <1>41, <1>0 DEF LinkDies
  <1>42. CASE UNCHANGED vars
    BY <1>42, <1>0 DEF vars, chain, life, tunnel, tcp
  <1> HIDE DEF CloseInv, chain, life, tunnel, tcp, LoginFrame, OwnerFrame, RunFrame, DialFrame,
      CloseFrame, nil
  <1> QED
    BY <1>1, <1>2, <1>3, <1>4, <1>5, <1>6, <1>7, <1>8, <1>9, <1>10, <1>11, <1>12, <1>13, <1>14, <1>15,
        <1>16, <1>17, <1>18, <1>19, <1>20, <1>21, <1>22, <1>23, <1>24, <1>25, <1>26, <1>27, <1>28, <1>29,
        <1>30, <1>31, <1>32, <1>33, <1>34, <1>35, <1>36, <1>37, <1>38, <1>39, <1>40, <1>41, <1>42 DEF
        Next, LoginSteps, OwnerSteps, RunSteps, CloseSteps, DialSteps

\* LogoutInv is inductive: only logout makes Close return, and it leaves a login it has a
\* ticket for only with an error; the login chain has ended by then, as nobody else has
\* the session while it runs.
LEMMA LogoutNext == TypeTCP /\ LoginInv /\ LogoutInv /\ [Next]_vars => LogoutInv'
  <1> SUFFICES ASSUME TypeTCP, LoginInv, LogoutInv, [Next]_vars PROVE LogoutInv'
    OBVIOUS
  <1> USE DEF LogoutInv, LoggedOut, chain, LoginFrame, OwnerFrame, RunFrame, DialFrame, CloseFrame
  <1>1. CASE LoginSteps
    <2>1. closer' = closer \/ closer' = [closer EXCEPT !.pc = "mark"]
      BY <1>1 DEF LoginSteps, authConfig, pickPasswordMethod, passwordLogin, reportEnv, continueAuth,
          authCheck, Auth, submitSMS, onlineInfo, clientResource, prepare, Asks, LoginFails
    <2>2. UNCHANGED <<slot, ticket>> \/ closer.pc = "idle"
      BY <1>1 DEF LoginSteps, authConfig, pickPasswordMethod, passwordLogin, reportEnv, continueAuth,
          authCheck, Auth, submitSMS, onlineInfo, clientResource, prepare, Asks, LoginInv
    <2>3. CASE closer' = closer
      BY <2>2, <2>3
    <2>4. CASE closer' = [closer EXCEPT !.pc = "mark"]
      BY <2>4 DEF TypeTCP
    <2> QED
      BY <2>1, <2>3, <2>4
  <1>2. CASE logout
    <2>1. \/ ~ticket /\ ticket' = ticket
          \/ ~slot'
          \/ closer' = [closer EXCEPT !.pc = "done", !.err = TRUE]
      BY <1>2 DEF logout
    <2> QED
      BY <2>1 DEF TypeTCP
  <1>3. CASE CloseCalled \/ CloseMark \/ CloseStreams \/ CloseDials \/ CloseTunnel \/ CloseRun
    <2>1. closer'.pc # "done"
      BY <1>3 DEF CloseCalled, CloseMark, CloseStreams, CloseDials, CloseTunnel, CloseRun, GoOn, TypeTCP
    <2> QED
      BY <2>1
  <1>4. CASE OwnerSteps \/ RunSteps
    <2>1. UNCHANGED <<slot, ticket, closer>>
      BY <1>4 DEF OwnerSteps, StartL3, L3Dial, L3Kill, L3Publish, RunTunnel, CancelRun, JoinRun, StopL3,
          StopL3Close, RunSteps, RunStart, RunLoad, RunWait, RunKill, RunDial, RunPublish
    <2> QED
      BY <2>1
  <1>5. ASSUME NEW d \in Dialers, DialSteps(d) PROVE LogoutInv'
    <2>1. UNCHANGED <<slot, ticket, closer>>
      BY <1>5 DEF DialSteps, DialTCP, dialTCPNode, DialKill, DialPublish, DialDiscard, StreamClose,
          StreamForget
    <2> QED
      BY <2>1
  <1>6. ASSUME NEW c \in 1 .. MaxConns, LinkDies(c) PROVE LogoutInv'
    BY <1>6 DEF LinkDies
  <1>7. CASE UNCHANGED vars
    BY <1>7 DEF vars
  <1> QED
    BY <1>1, <1>2, <1>3, <1>4, <1>5, <1>6, <1>7 DEF Next, CloseSteps

\* The session newSession begins with.
LEMMA InitInv == Init => TypeOK /\ DialsInv /\ LoginInv /\ HandsInv /\ StreamsInv /\ CloseInv /\ LogoutInv
  <1> SUFFICES ASSUME Init PROVE TypeOK /\ DialsInv /\ LoginInv /\ HandsInv /\ StreamsInv /\ CloseInv /\ LogoutInv
    OBVIOUS
  <1>0. MaxHops \in Nat
    BY SessionAssumption
  <1>1. TypeLogin
    <2>1. 0 \in 0..MaxHops
      BY <1>0
    <2> QED
      BY <2>1 DEF Init, TypeLogin, Services
  <1>2. TypeFlags
    BY Zenon DEF Init, TypeFlags
  <1>3. TypeTunnel
    BY DEF Init, TypeTunnel, NoOwner, NoRun, nil
  <1>4. TypeTCP
    <2>1. inv \in [Callers -> [conn : Nat, streams : SUBSET Dialers]]
      BY DEF Init, NoKill, nil
    <2> QED
      BY <2>1 DEF Init, TypeTCP, nil
  <1>5. DialsInv
    <2>1. Pending = {}
      BY DEF Init, Pending, NoOwner
    <2> QED
      BY <2>1, FS_EmptySet DEF Init, DialsInv
  <1>6. LoginInv /\ HandsInv /\ StreamsInv
    <2>1. LoginInv
      BY Zenon DEF Init, LoginInv, NoOwner
    <2>2. HandsInv
      <3>1. /\ open = {} /\ active = 0 /\ made = 0 /\ runDone = "none" /\ owner.conn = 0 /\ owner.pc = "idle"
            /\ run.conn = 0 /\ run.pc = "off"
        BY DEF Init, NoOwner, NoRun, nil
      <3> QED
        BY <3>1 DEF HandsInv, nil
    <2>3. StreamsInv
      BY DEF Init, StreamsInv
    <2> QED
      BY <2>1, <2>2, <2>3
  <1>7. CloseInv /\ LogoutInv
    BY DEF Init, CloseInv, LogoutInv, NoOwner, nil
  <1> QED
    BY <1>1, <1>2, <1>3, <1>4, <1>5, <1>6, <1>7 DEF TypeOK

\* The whole invariant.
LEMMA Inductive == Spec => [](TypeOK /\ DialsInv /\ LoginInv /\ HandsInv /\ StreamsInv /\ CloseInv /\ LogoutInv)
  <1> DEFINE IInv == TypeOK /\ DialsInv /\ LoginInv /\ HandsInv /\ StreamsInv /\ CloseInv /\ LogoutInv
  <1>1. IInv /\ [Next]_vars => IInv'
    BY LoginTypeNext, FlagsNext, TunnelTypeNext, TCPTypeNext, DialsNext, LoginNext, HandsNext,
        StreamsNext,
       CloseNext, LogoutNext DEF TypeOK
  <1> QED
    BY <1>1, InitInv, PTL DEF Spec

\* Every field of Session stays in its type; the wait group s.dials, whose Done is called on
\* every path out of StartL3 and DialTCP, does not go below zero.
THEOREM TypeCorrect == Spec => []TypeOK
  BY Inductive, PTL

\* Close leaves nothing: whatever StartL3, Run, DialTCP or invalidate was doing when Close
\* came, no tunnel connection, stream, dial or Run is left when it returns, and no login on the
\* server that it had a ticket for, unless the logout failed and Close returns its error.
THEOREM CloseLeavesNothing == Spec => []ClosedIsClean
  <1>1. TypeOK /\ DialsInv /\ HandsInv /\ StreamsInv /\ CloseInv /\ LogoutInv => ClosedIsClean
    <2> SUFFICES ASSUME TypeOK, DialsInv, HandsInv, StreamsInv, CloseInv, LogoutInv PROVE ClosedIsClean
      OBVIOUS
    <2>1. \A c \in open : c \in Connections
      BY DEF HandsInv
    <2>2. ASSUME closer.pc = "done" PROVE dials = 0 /\ registered = {} /\ runDone # "open" /\ LoggedOut
                                          /\ active = nil /\ closer.conn = nil
      BY <2>2 DEF CloseInv, LogoutInv
    <2>3. ASSUME closer.pc = "done" PROVE open = {}
      <3>1. run.conn = nil
        BY <2>2, <2>3 DEF HandsInv
      <3>2. owner.conn = nil
        <4>1. Pending = {}
          BY <2>2, <2>3, Counting, FS_EmptySet DEF DialsInv
        <4>2. owner.pc # "publish" /\ owner.pc # "drop"
          BY <2>3, <4>1 DEF Pending, CloseInv
        <4> QED
          BY <4>2 DEF HandsInv
      <3> QED
        BY <2>1, <2>2, <2>3, <3>1, <3>2 DEF Connections
    <2>4. ASSUME closer.pc = "done" PROVE sockets = {}
      <3>1. Pending = {}
        BY <2>2, <2>4, Counting, FS_EmptySet DEF DialsInv
      <3>2. \A d \in Dialers : dialer[d].pc \notin {"publish", "discard"}
        BY <3>1 DEF Pending
      <3> QED
        BY <2>2, <2>4, <3>2 DEF StreamsInv, TypeOK, TypeTCP
    <2>5. \A d \in sockets : d \in registered \/ dialer[d].pc \in {"publish", "discard"}
      BY DEF StreamsInv
    <2> QED
      BY <2>1, <2>2, <2>3, <2>4, <2>5 DEF ClosedIsClean, Connections
  <1> QED
    BY <1>1, Inductive, PTL

\* A stopped L3 endpoint can be started again: StartL3 finds neither a published tunnel
\* connection nor the channel of an earlier Run.
THEOREM L3Restarts == Spec => []L3CanRestart
  <1>1. HandsInv => L3CanRestart
    BY DEF HandsInv, L3CanRestart
  <1> QED
    BY <1>1, Inductive, PTL
=============================================================================
