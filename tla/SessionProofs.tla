--------------------------- MODULE SessionProofs ----------------------------
(***************************************************************************)
(* Proofs about TunnelsViewModel and SocksVpnService, for any number of    *)
(* sessions and teardowns, however hastily the user starts and stops and   *)
(* however slowly Android binds. What a stop leaves behind is proved in    *)
(* SessionStopProofs.                                                      *)
(***************************************************************************)
EXTENDS TunnelsViewModel, TLAPS

\* Zenon proves a leaf unless it names another prover.
USE Zenon

\* The types are no inductive invariant: that isRunning and speed name instances rests on
\* a start being inside startTun2Socks() of an instance, not of null.
Called == \A s \in Sessions : startPc[s] \in InTun2Socks \cup {"lock"} => callee[s] # 0

IInv == TypeOK /\ Called /\ OneTun

\* The type of what the UI shows.
LEMMA ShownTyped ==
  ASSUME NEW state \in ActiveStates \cup {"Idle", "Error"}, NEW s \in 0 .. MaxStarts
  PROVE  Shown(state, s) \in [state : ActiveStates \cup {"Idle", "Error"}, session : 0 .. MaxStarts]
  BY DEF Shown

-----------------------------------------------------------------------------
\* The service's steps, taken by whichever thread calls them.
LEMMA StopHelpersTyped ==
  ASSUME ServiceTypeOK, NEW i, StopHelpers(i)
  PROVE  /\ speed' \subseteq Sessions /\ pidFile' \in 0 .. MaxStarts /\ sockPath' \in 0 .. MaxStarts
         /\ helpers' \in [Sessions -> {"none", "waiting", "running", "dead"}]
  BY SMT, BoundsAssumption DEF ServiceTypeOK, StopHelpers, StopSpeedUpdates, KillHelpers

\* The second half of stopping keeps the types, and closes no interface but its instance's.
LEMMA StopRestTyped ==
  ASSUME ServiceTypeOK, NEW i, StopRest(i)
  PROVE  /\ transport' \in [Sessions -> {"off", "starting", "ready"}]
         /\ iface' \subseteq Sessions /\ isRunning' \subseteq Sessions /\ started' \in BOOLEAN
         /\ iface' = iface \ {i}
  BY DEF ServiceTypeOK, StopRest, SupervisorStop, CloseTun

\* The steps of the service on its own keep its types.
LEMMA ServiceStepTyped ==
  ASSUME ServiceTypeOK, ServiceStep
  PROVE  ServiceTypeOK'
<1>0. 0 \in 0 .. MaxStarts
  BY SMT, BoundsAssumption
<1>1. CASE OnStartCommand
  <2>1. inst \in Sessions
    BY SMT, <1>1, BoundsAssumption DEF OnStartCommand, ServiceTypeOK, Sessions
  <2> QED
    BY <1>1, <2>1 DEF OnStartCommand, Configure, ServiceTypeOK, openflux, files
<1>2. CASE OnDestroy
  BY <1>0, <1>2, StopHelpersTyped, StopRestTyped DEF OnDestroy, StopEverything, ServiceTypeOK
<1>3. CASE OnRevoke
  BY <1>3, StopHelpersTyped, StopRestTyped DEF OnRevoke, StopEverything, ServiceTypeOK
<1>4. CASE \E i \in Sessions : OnUnexpectedExit(i)
  BY <1>4, StopHelpersTyped, StopRestTyped DEF OnUnexpectedExit, StopEverything, ServiceTypeOK
<1>5. CASE \E i \in Sessions : OpenFluxUp(i)
  BY <1>5 DEF OpenFluxUp, ServiceTypeOK, android, tun, files
<1>6. CASE \E i \in Sessions : OpenFluxFails(i)
  BY <1>6 DEF OpenFluxFails, ServiceTypeOK, android, tun, files
<1> QED
  BY <1>1, <1>2, <1>3, <1>4, <1>5, <1>6 DEF ServiceStep

-----------------------------------------------------------------------------
\* LaunchTeardown() and Teardown(): a new teardown, named by teardownJob.
LEMMA LaunchTyped ==
  ASSUME TypeOK, NEW k \in Teardowns, NEW prev \in 0 .. MaxTeardowns, NEW final \in {"Idle", "Error"},
         LaunchTeardown(k, prev, final)
  PROVE  /\ teardownJob' \in 0 .. MaxTeardowns
         /\ teardownPc' \in [Teardowns -> TeardownPcs] /\ previous' \in [Teardowns -> 0 .. MaxTeardowns]
         /\ finalState' \in [Teardowns -> {"Idle", "Error"}] /\ binding' \in [Teardowns -> 0 .. MaxStarts]
<1>1. teardownPc' \in [Teardowns -> TeardownPcs]
  BY DEF TypeOK, LaunchTeardown, TeardownPcs
<1>2. teardownJob' \in 0 .. MaxTeardowns
  BY SMT, BoundsAssumption DEF LaunchTeardown, Teardowns
<1> QED
  BY <1>1, <1>2 DEF TypeOK, LaunchTeardown

\* teardown() keeps the types of what it sets up.
LEMMA TeardownTyped ==
  ASSUME TypeOK, NEW final \in {"Idle", "Error"}, Teardown(final)
  PROVE  /\ teardownJob' \in 0 .. MaxTeardowns /\ cancelled' \subseteq Sessions
         /\ teardownPc' \in [Teardowns -> TeardownPcs] /\ previous' \in [Teardowns -> 0 .. MaxTeardowns]
         /\ finalState' \in [Teardowns -> {"Idle", "Error"}] /\ binding' \in [Teardowns -> 0 .. MaxStarts]
<1>1. cancelled' \subseteq Sessions
  BY SMT, BoundsAssumption DEF TypeOK, Teardown, Cancel, Sessions
<1> QED
  BY SMT, <1>1, LaunchTyped DEF TypeOK, Teardown

-----------------------------------------------------------------------------
\* The handlers of the main thread.
LEMMA StartTunnelTyped ==
  ASSUME TypeOK, NEW s \in Sessions, StartTunnel(s)
  PROVE  TypeOK'
<1>1. startPc' \in [Sessions -> StartPcs]
  BY DEF TypeOK, StartTunnel, StartPcs
<1>2. active' \in [state : ActiveStates \cup {"Idle", "Error"}, session : 0 .. MaxStarts]
  BY SMT, BoundsAssumption, ShownTyped DEF StartTunnel, ActiveStates, Sessions
<1>3. /\ teardownJob' \in 0 .. MaxTeardowns /\ cancelled' \subseteq Sessions
      /\ teardownPc' \in [Teardowns -> TeardownPcs] /\ previous' \in [Teardowns -> 0 .. MaxTeardowns]
      /\ finalState' \in [Teardowns -> {"Idle", "Error"}] /\ binding' \in [Teardowns -> 0 .. MaxStarts]
  BY TeardownTyped DEF TypeOK, StartTunnel, teardowns
<1>4. pending' \in [Sessions -> 0 .. MaxTeardowns] /\ startJob' \in 0 .. MaxStarts
  BY SMT, <1>3, BoundsAssumption DEF TypeOK, StartTunnel, Sessions
<1>5. ServiceTypeOK'
  BY DEF TypeOK, ServiceTypeOK, StartTunnel, serviceVars, android, tun, openflux, files
<1> QED
  BY <1>1, <1>2, <1>3, <1>4, <1>5 DEF TypeOK, StartTunnel

\* stop() keeps the types.
LEMMA StopTyped ==
  ASSUME TypeOK, Stop
  PROVE  TypeOK'
<1>1. /\ teardownJob' \in 0 .. MaxTeardowns /\ cancelled' \subseteq Sessions
      /\ teardownPc' \in [Teardowns -> TeardownPcs] /\ previous' \in [Teardowns -> 0 .. MaxTeardowns]
      /\ finalState' \in [Teardowns -> {"Idle", "Error"}] /\ binding' \in [Teardowns -> 0 .. MaxStarts]
  BY TeardownTyped DEF Stop
<1>2. ServiceTypeOK'
  BY DEF TypeOK, ServiceTypeOK, Stop, serviceVars, android, tun, openflux, files
<1> QED
  BY SMT, <1>1, <1>2, BoundsAssumption DEF TypeOK, Stop, starts

\* onNativeProcessExited() keeps the types.
LEMMA OnNativeProcessExitedTyped ==
  ASSUME TypeOK, NEW i \in Sessions, OnNativeProcessExited(i)
  PROVE  TypeOK'
<1>1. /\ teardownJob' \in 0 .. MaxTeardowns /\ cancelled' \subseteq Sessions
      /\ startJob' \in 0 .. MaxStarts
      /\ teardownPc' \in [Teardowns -> TeardownPcs] /\ previous' \in [Teardowns -> 0 .. MaxTeardowns]
      /\ finalState' \in [Teardowns -> {"Idle", "Error"}] /\ binding' \in [Teardowns -> 0 .. MaxStarts]
  BY SMT, TeardownTyped, BoundsAssumption DEF TypeOK, OnNativeProcessExited, jobs, teardowns
<1>2. ServiceTypeOK'
  BY DEF TypeOK, ServiceTypeOK, OnNativeProcessExited, android, tun, openflux, files
<1> QED
  BY <1>1, <1>2 DEF TypeOK, OnNativeProcessExited, starts

\* onServiceConnected() keeps the types.
LEMMA OnServiceConnectedTyped ==
  ASSUME TypeOK, OnServiceConnected
  PROVE  TypeOK'
<1>1. ServiceTypeOK'
  BY DEF TypeOK, ServiceTypeOK, OnServiceConnected, tun, openflux, files
<1>2. service' \in 0 .. MaxStarts
  BY DEF TypeOK, ServiceTypeOK, OnServiceConnected
<1> QED
  BY <1>1, <1>2 DEF TypeOK, OnServiceConnected, jobs, starts, teardowns

-----------------------------------------------------------------------------
\* The start coroutine.  Most of its steps change nothing but where it is, what the UI
\* shows, and whom it calls.
AllShown == [state : ActiveStates \cup {"Idle", "Error"}, session : 0 .. MaxStarts]

\* A start that only moves on, and may change what is shown, keeps the types.
LEMMA MovedTyped ==
  ASSUME TypeOK, UNCHANGED <<serviceVars, jobs, bindRequested, service, pending, teardowns>>,
         NEW s \in Sessions, NEW to \in StartPcs, startPc' = [startPc EXCEPT ![s] = to],
         active' \in AllShown, callee' \in [Sessions -> 0 .. MaxStarts]
  PROVE  TypeOK'
<1>1. startPc' \in [Sessions -> StartPcs]
  BY DEF TypeOK
<1>2. ServiceTypeOK'
  BY DEF TypeOK, ServiceTypeOK, serviceVars, android, tun, openflux, files
<1> QED
  BY <1>1, <1>2 DEF TypeOK, AllShown, jobs, teardowns

\* What a round of awaitService() may lead to.
LEMMA PolledTyped ==
  ASSUME NEW S, NEW yes \in StartPcs, NEW no \in StartPcs
  PROVE  Polled(S, yes, no) \in StartPcs /\ Polled(S, yes, no) \in {"fail", yes, no}
  BY DEF Polled, StartPcs

\* The steps of a start that call no service keep the types.
LEMMA StartMovesTyped ==
  ASSUME TypeOK, NEW s \in Sessions,
         \/ StartJoin(s) \/ StartAwait(s) \/ StartPollTransport(s) \/ StartPollVpn(s)
         \/ StartDelays(s) \/ StartTimeout(s) \/ StartTun2Socks(s) \/ Tun2SocksLock(s)
         \/ Tun2SocksThrow(s) \/ Tun2SocksGiveUp(s) \/ StartFail(s)
  PROVE  TypeOK'
<1> USE DEF StartGoto
<1>1. s \in 0 .. MaxStarts /\ active \in AllShown /\ callee \in [Sessions -> 0 .. MaxStarts]
  BY SMT, BoundsAssumption DEF TypeOK, AllShown, Sessions
<1>2. \A state \in ActiveStates : Shown(state, s) \in AllShown
  BY <1>1, ShownTyped DEF AllShown
<1>3. /\ {"Connecting", "StartingTransport", "StartingTun2Socks", "Running"} \subseteq ActiveStates
      /\ {"done", "service", "native", "await", "awaitDelay", "tun", "delayT", "pollT", "delayV",
          "pollV", "fail", "lock", "exec", "kill", "cancel"} \subseteq StartPcs
  BY DEF ActiveStates, StartPcs, InTun2Socks
<1>4. CASE StartJoin(s)
  BY <1>1, <1>2, <1>3, <1>4, MovedTyped DEF StartJoin
<1>5. CASE StartAwait(s)
  <2>1. active' \in AllShown
    BY <1>1, <1>2, <1>3, <1>5 DEF StartAwait
  <2> QED
    BY <1>1, <1>3, <1>5, <2>1, MovedTyped DEF StartAwait
<1>6. CASE StartPollTransport(s)
  <2>1. active' \in AllShown
    BY <1>1, <1>2, <1>3, <1>6 DEF StartPollTransport
  <2> QED
    BY <1>1, <1>3, <1>6, <2>1, PolledTyped, MovedTyped DEF StartPollTransport
<1>7. CASE StartPollVpn(s)
  <2>1. active' \in AllShown
    BY <1>1, <1>2, <1>3, <1>7 DEF StartPollVpn
  <2> QED
    BY <1>1, <1>3, <1>7, <2>1, PolledTyped, MovedTyped DEF StartPollVpn
<1>8. CASE StartDelays(s)
  BY <1>1, <1>3, <1>8, MovedTyped DEF StartDelays, StartDelay
<1>9. CASE StartTimeout(s)
  BY <1>1, <1>3, <1>9, MovedTyped DEF StartTimeout
<1>10. CASE StartTun2Socks(s)
  <2>1. callee' \in [Sessions -> 0 .. MaxStarts]
    BY <1>10 DEF StartTun2Socks, TypeOK
  <2> QED
    BY <1>1, <1>3, <1>10, <2>1, MovedTyped DEF StartTun2Socks
<1>11. CASE Tun2SocksLock(s)
  BY <1>1, <1>3, <1>11, MovedTyped DEF Tun2SocksLock
<1>12. CASE Tun2SocksThrow(s)
  BY <1>1, <1>3, <1>12, MovedTyped DEF Tun2SocksThrow
<1>13. CASE Tun2SocksGiveUp(s)
  BY <1>1, <1>3, <1>13, MovedTyped DEF Tun2SocksGiveUp
<1>14. CASE StartFail(s)
  BY <1>1, <1>3, <1>14, MovedTyped DEF StartFail
<1> QED
  BY <1>4, <1>5, <1>6, <1>7, <1>8, <1>9, <1>10, <1>11, <1>12, <1>13, <1>14

\* The steps that call the service: nothing but the service and the coroutine's place
\* changes.
LEMMA CalledTyped ==
  ASSUME TypeOK, ServiceTypeOK', NEW s \in Sessions, NEW to \in StartPcs,
         startPc' = [startPc EXCEPT ![s] = to],
         UNCHANGED <<active, jobs, service, pending, callee, teardowns>>, bindRequested' \in BOOLEAN
  PROVE  TypeOK'
<1>1. startPc' \in [Sessions -> StartPcs]
  BY DEF TypeOK
<1> QED
  BY <1>1 DEF TypeOK, jobs, teardowns

\* The steps of a start that call the service keep the types.
LEMMA StartCallsTyped ==
  ASSUME TypeOK, Called, NEW s \in Sessions,
         \/ StartService(s) \/ StartBind(s) \/ StartOpenFluxNative(s) \/ Tun2SocksExec(s)
         \/ Tun2SocksSend(s) \/ Tun2SocksOk(s) \/ Tun2SocksKill(s) \/ Tun2SocksStop(s)
  PROVE  TypeOK'
<1> USE DEF StartGoto
<1>1. /\ s \in 0 .. MaxStarts /\ callee[s] \in 0 .. MaxStarts /\ ServiceTypeOK
      /\ service \in 0 .. MaxStarts /\ bindRequested \in BOOLEAN
  BY SMT, BoundsAssumption DEF TypeOK, Sessions
<1>2. {"bind", "await", "pollT", "send", "ok", "pollV", "stop"} \subseteq StartPcs
  BY DEF StartPcs, InTun2Socks
<1>3. CASE StartService(s)
  <2>1. ServiceTypeOK'
    BY <1>1, <1>3 DEF StartService, StartForegroundService, ServiceTypeOK, tun, openflux, files
  <2> QED
    BY <1>1, <1>2, <1>3, <2>1, CalledTyped DEF StartService
<1>4. CASE StartBind(s)
  <2>1. ServiceTypeOK'
    BY <1>1, <1>4 DEF StartBind, BindService, ServiceTypeOK, tun, openflux, files
  <2> QED
    BY <1>1, <1>2, <1>4, <2>1, CalledTyped DEF StartBind
<1>5. CASE StartOpenFluxNative(s)
  <2>1. /\ transport' \in [Sessions -> {"off", "starting", "ready"}]
        /\ nativeError' \subseteq Sessions /\ exitPosted' \subseteq Sessions
        /\ helpers' \in [Sessions -> {"none", "waiting", "running", "dead"}]
        /\ UNCHANGED <<pidFile, sockPath>>
    BY <1>1, <1>5 DEF StartOpenFluxNative, SupervisorStart, ServiceTypeOK, openflux, files
  <2>2. ServiceTypeOK'
    BY <1>1, <1>5, <2>1 DEF StartOpenFluxNative, ServiceTypeOK, android, tun
  <2> QED
    BY <1>1, <1>2, <1>5, <2>2, CalledTyped DEF StartOpenFluxNative
<1>6. CASE Tun2SocksExec(s)
  <2>1. ServiceTypeOK'
    BY <1>1, <1>6 DEF Tun2SocksExec, ExecHelpers, ServiceTypeOK, android, tun, openflux
  <2> QED
    BY <1>1, <1>2, <1>6, <2>1, CalledTyped DEF Tun2SocksExec
<1>7. CASE Tun2SocksSend(s)
  <2>1. ServiceTypeOK'
    BY <1>1, <1>7 DEF Tun2SocksSend, SendFd, ServiceTypeOK, android, tun, openflux
  <2> QED
    BY <1>1, <1>2, <1>7, <2>1, CalledTyped DEF Tun2SocksSend
<1>8. CASE Tun2SocksOk(s)
  <2>1. callee[s] \in Sessions
    BY SMT, <1>1, <1>8 DEF Tun2SocksOk, Called, InTun2Socks, Sessions
  <2>2. ServiceTypeOK'
    BY <1>1, <1>8, <2>1 DEF Tun2SocksOk, StartSpeedUpdates, ServiceTypeOK, android, openflux, files
  <2> QED
    BY <1>1, <1>2, <1>8, <2>2, CalledTyped DEF Tun2SocksOk
<1>9. CASE Tun2SocksKill(s)
  <2>1. ServiceTypeOK'
    BY <1>1, <1>9, StopHelpersTyped DEF Tun2SocksKill, ServiceTypeOK, android, openflux
  <2> QED
    BY <1>1, <1>2, <1>9, <2>1, CalledTyped DEF Tun2SocksKill
<1>10. CASE Tun2SocksStop(s)
  <2>1. ServiceTypeOK'
    BY <1>1, <1>10, StopRestTyped DEF Tun2SocksStop, ServiceTypeOK, files
  <2> QED
    BY <1>1, <1>2, <1>10, <2>1, CalledTyped DEF Tun2SocksStop
<1> QED
  BY <1>3, <1>4, <1>5, <1>6, <1>7, <1>8, <1>9, <1>10

\* The steps of a start that ends in a teardown keep the types.
LEMMA StartFailsTyped ==
  ASSUME TypeOK, NEW s \in Sessions, StartFailCancel(s) \/ StartFailLaunch(s)
  PROVE  TypeOK'
<1> USE DEF StartGoto
<1>1. {"launch", "done"} \subseteq StartPcs /\ ServiceTypeOK'
  BY DEF StartPcs, TypeOK, ServiceTypeOK, StartFailCancel, StartFailLaunch, serviceVars, android,
         tun, openflux, files
<1>2. startPc' \in [Sessions -> StartPcs]
  BY <1>1 DEF TypeOK, StartFailCancel, StartFailLaunch
<1>3. CASE StartFailCancel(s)
  <2>1. cancelled' \subseteq Sessions /\ startJob' \in 0 .. MaxStarts
    BY SMT, <1>3, BoundsAssumption DEF TypeOK, StartFailCancel, Cancel, Sessions
  <2>2. pending' \in [Sessions -> 0 .. MaxTeardowns]
    BY <1>3 DEF TypeOK, StartFailCancel
  <2> QED
    BY <1>1, <1>2, <1>3, <2>1, <2>2 DEF TypeOK, StartFailCancel, teardowns
<1>4. CASE StartFailLaunch(s)
  <2>1. pending[s] \in 0 .. MaxTeardowns
    BY DEF TypeOK
  <2>2. /\ teardownJob' \in 0 .. MaxTeardowns
        /\ teardownPc' \in [Teardowns -> TeardownPcs] /\ previous' \in [Teardowns -> 0 .. MaxTeardowns]
        /\ finalState' \in [Teardowns -> {"Idle", "Error"}] /\ binding' \in [Teardowns -> 0 .. MaxStarts]
    BY <1>4, <2>1, LaunchTyped DEF StartFailLaunch
  <2> QED
    BY <1>1, <1>2, <1>4, <2>2 DEF TypeOK, StartFailLaunch
<1> QED
  BY <1>3, <1>4

-----------------------------------------------------------------------------
\* The teardown coroutine.
LEMMA TornTyped ==
  ASSUME TypeOK, ServiceTypeOK', NEW k \in Teardowns, NEW to \in TeardownPcs,
         teardownPc' = [teardownPc EXCEPT ![k] = to],
         UNCHANGED <<jobs, starts, previous, finalState>>, active' \in AllShown,
         bindRequested' \in BOOLEAN, service' \in 0 .. MaxStarts,
         binding' \in [Teardowns -> 0 .. MaxStarts]
  PROVE  TypeOK'
<1>1. teardownPc' \in [Teardowns -> TeardownPcs]
  BY DEF TypeOK
<1> QED
  BY <1>1 DEF TypeOK, AllShown, jobs, starts

\* The steps of a teardown keep the types.
LEMMA TeardownStepTyped ==
  ASSUME TypeOK, NEW k \in Teardowns, TeardownStep(k)
  PROVE  TypeOK'
<1> USE DEF TeardownGoto
<1>1. /\ ServiceTypeOK /\ active \in AllShown /\ bindRequested \in BOOLEAN /\ service \in 0 .. MaxStarts
      /\ binding \in [Teardowns -> 0 .. MaxStarts] /\ 0 \in 0 .. MaxStarts
  BY SMT, BoundsAssumption DEF TypeOK, AllShown
<1>2. {"begin", "await", "native", "kill", "stop", "unbind", "final", "done"} \subseteq TeardownPcs
  BY DEF TeardownPcs
<1>3. ASSUME TeardownJoin(k) \/ TeardownBegin(k) \/ TeardownTimeout(k)
      PROVE  TypeOK'
  <2>1. ServiceTypeOK'
    BY <1>1, <1>3 DEF TeardownJoin, TeardownBegin, TeardownTimeout, ServiceTypeOK, serviceVars,
                      android, tun, openflux, files
  <2> QED
    BY <1>1, <1>2, <1>3, <2>1, TornTyped DEF TeardownJoin, TeardownBegin, TeardownTimeout
<1>4. CASE TeardownBound(k)
  <2>1. ServiceTypeOK'
    BY <1>1, <1>4 DEF TeardownBound, ServiceTypeOK, serviceVars, android, tun, openflux, files
  <2>2. binding' \in [Teardowns -> 0 .. MaxStarts]
    BY <1>1, <1>4 DEF TeardownBound
  <2> QED
    BY <1>1, <1>2, <1>4, <2>1, <2>2, TornTyped DEF TeardownBound
<1>5. CASE TeardownStopNative(k)
  <2>1. ServiceTypeOK'
    BY <1>1, <1>5 DEF TeardownStopNative, SupervisorStop, ServiceTypeOK, android, tun, files
  <2> QED
    BY <1>1, <1>2, <1>5, <2>1, TornTyped DEF TeardownStopNative
<1>6. CASE TeardownKill(k)
  <2>1. ServiceTypeOK'
    BY <1>1, <1>6, StopHelpersTyped DEF TeardownKill, ServiceTypeOK, android, openflux
  <2> QED
    BY <1>1, <1>2, <1>6, <2>1, TornTyped DEF TeardownKill
<1>7. CASE TeardownStop(k)
  <2>1. ServiceTypeOK'
    BY <1>1, <1>7, StopRestTyped DEF TeardownStop, ServiceTypeOK, files
  <2> QED
    BY <1>1, <1>2, <1>7, <2>1, TornTyped DEF TeardownStop
<1>8. CASE TeardownUnbind(k)
  <2>1. ServiceTypeOK'
    BY <1>1, <1>8 DEF TeardownUnbind, UnbindService, ServiceTypeOK, tun, openflux, files
  <2> QED
    BY <1>1, <1>2, <1>8, <2>1, TornTyped DEF TeardownUnbind
<1>9. CASE TeardownFinal(k)
  <2>1. ServiceTypeOK'
    BY <1>1, <1>9 DEF TeardownFinal, ServiceTypeOK, serviceVars, android, tun, openflux, files
  <2>2. active' \in AllShown
    BY <1>1, <1>9, ShownTyped DEF TeardownFinal, TypeOK, AllShown
  <2> QED
    BY <1>1, <1>2, <1>9, <2>1, <2>2, TornTyped DEF TeardownFinal
<1> QED
  BY <1>3, <1>4, <1>5, <1>6, <1>7, <1>8, <1>9 DEF TeardownStep

-----------------------------------------------------------------------------
\* Every step of the session keeps the types.
LEMMA StepTyped ==
  ASSUME TypeOK, Called, [Next]_vars
  PROVE  TypeOK'
<1>1. CASE \E s \in Sessions : StartTunnel(s)
  BY <1>1, StartTunnelTyped
<1>2. CASE \E s \in Sessions : StartStep(s)
  BY <1>2, StartMovesTyped, StartCallsTyped, StartFailsTyped DEF StartStep
<1>3. CASE \E s \in Sessions : OnNativeProcessExited(s)
  BY <1>3, OnNativeProcessExitedTyped
<1>4. CASE Stop
  BY <1>4, StopTyped
<1>5. CASE OnServiceConnected
  BY <1>5, OnServiceConnectedTyped
<1>6. CASE \E k \in Teardowns : TeardownStep(k)
  BY <1>6, TeardownStepTyped
<1>7. CASE ServiceAlone
  <2>1. ServiceTypeOK'
    BY <1>7, ServiceStepTyped DEF ServiceAlone, TypeOK
  <2> QED
    BY <1>7, <2>1 DEF ServiceAlone, TypeOK, viewModel, jobs, starts, teardowns
<1>8. CASE UNCHANGED vars
  BY <1>8 DEF vars, serviceVars, android, tun, openflux, files, viewModel, jobs, starts, teardowns,
              TypeOK, ServiceTypeOK
<1> QED
  BY <1>1, <1>2, <1>3, <1>4, <1>5, <1>6, <1>7, <1>8 DEF Next

\* startTun2Socks() is entered on what `service` holds then, unless that is null.
LEMMA StepCalled ==
  ASSUME TypeOK, Called, [Next]_vars
  PROVE  Called'
<1> USE DEF Called, InTun2Socks, StartGoto
<1>1. startPc \in [Sessions -> StartPcs] /\ callee \in [Sessions -> 0 .. MaxStarts]
  BY DEF TypeOK
<1>2. ASSUME NEW s \in Sessions, NEW to, startPc' = [startPc EXCEPT ![s] = to], callee' = callee,
             to \in InTun2Socks \cup {"lock"} => startPc[s] \in InTun2Socks \cup {"lock"}
      PROVE  Called'
  BY <1>1, <1>2
<1>3. CASE \E s \in Sessions : StartTunnel(s)
  BY <1>2, <1>3 DEF StartTunnel
<1>4. ASSUME NEW s \in Sessions, StartStep(s)
      PROVE  Called'
  <2>1. CASE StartTun2Socks(s)
    BY <1>1, <2>1 DEF StartTun2Socks
  <2>2. CASE StartPollTransport(s) \/ StartPollVpn(s)
    <3>1. \A S : \A yes, no \in StartPcs : Polled(S, yes, no) \in {"fail", yes, no}
      BY PolledTyped
    <3>2. {"tun", "delayT", "done", "delayV"} \subseteq StartPcs
      BY DEF StartPcs
    <3> QED
      BY <1>2, <2>2, <3>1, <3>2 DEF StartPollTransport, StartPollVpn
  <2>3. CASE StartJoin(s) \/ StartService(s) \/ StartBind(s) \/ StartAwait(s)
             \/ StartOpenFluxNative(s) \/ StartDelays(s) \/ StartTimeout(s)
    BY <1>2, <2>3 DEF StartJoin, StartService, StartBind, StartAwait, StartOpenFluxNative,
                      StartDelays, StartDelay, StartTimeout
  <2>4. CASE Tun2SocksLock(s) \/ Tun2SocksExec(s) \/ Tun2SocksThrow(s) \/ Tun2SocksSend(s)
             \/ Tun2SocksGiveUp(s) \/ Tun2SocksOk(s) \/ Tun2SocksKill(s) \/ Tun2SocksStop(s)
    BY <1>2, <2>4 DEF Tun2SocksLock, Tun2SocksExec, Tun2SocksThrow, Tun2SocksSend, Tun2SocksGiveUp,
                      Tun2SocksOk, Tun2SocksKill, Tun2SocksStop
  <2>5. CASE StartFail(s) \/ StartFailCancel(s) \/ StartFailLaunch(s)
    BY <1>2, <2>5 DEF StartFail, StartFailCancel, StartFailLaunch
  <2> QED
    BY <1>4, <2>1, <2>2, <2>3, <2>4, <2>5 DEF StartStep
<1>5. ASSUME UNCHANGED <<startPc, callee>>
      PROVE  Called'
  BY <1>5
<1>6. CASE (\E s \in Sessions : OnNativeProcessExited(s)) \/ Stop \/ OnServiceConnected
  BY <1>5, <1>6 DEF OnNativeProcessExited, Stop, OnServiceConnected, starts
<1>7. CASE \E k \in Teardowns : TeardownStep(k)
  BY <1>5, <1>7 DEF TeardownStep, TeardownJoin, TeardownBegin, TeardownBound, TeardownTimeout,
                    TeardownStopNative, TeardownKill, TeardownStop, TeardownUnbind, TeardownFinal,
                    starts
<1>8. CASE ServiceAlone \/ UNCHANGED vars
  BY <1>5, <1>8 DEF ServiceAlone, viewModel, starts, vars
<1> QED
  BY <1>3, <1>4, <1>6, <1>7, <1>8 DEF Next

\* Only onStartCommand() opens an interface, that of the instance Android keeps; an
\* instance that goes has closed its own in onDestroy(), and a new one comes only when
\* there is none.
LEMMA StepOneTun ==
  ASSUME TypeOK, OneTun, [Next]_vars
  PROVE  OneTun'
<1> USE DEF OneTun
<1>1. iface \subseteq Sessions /\ 0 \notin Sessions
  BY SMT DEF TypeOK, ServiceTypeOK, Sessions
<1>2. ASSUME inst' = inst, iface' \subseteq iface
      PROVE  OneTun'
  BY <1>2
<1>4. CASE \E s \in Sessions : StartTunnel(s) \/ OnNativeProcessExited(s)
  BY <1>2, <1>4 DEF StartTunnel, OnNativeProcessExited, serviceVars, android, tun
<1>5. ASSUME NEW s \in Sessions, StartStep(s)
      PROVE  OneTun'
  <2>1. CASE StartService(s) \/ StartBind(s)
    BY SMT, <1>1, <2>1 DEF StartService, StartForegroundService, StartBind, BindService, tun
  <2>2. CASE Tun2SocksStop(s)
    BY <1>2, <2>2 DEF Tun2SocksStop, StopRest, CloseTun
  <2>3. CASE StartJoin(s) \/ StartAwait(s) \/ StartOpenFluxNative(s) \/ StartPollTransport(s)
             \/ StartPollVpn(s) \/ StartDelays(s) \/ StartTimeout(s) \/ StartTun2Socks(s)
    BY <1>2, <2>3 DEF StartJoin, StartAwait, StartOpenFluxNative, StartPollTransport, StartPollVpn,
                      StartDelays, StartDelay, StartTimeout, StartTun2Socks, serviceVars, android, tun
  <2>4. CASE Tun2SocksLock(s) \/ Tun2SocksExec(s) \/ Tun2SocksThrow(s) \/ Tun2SocksSend(s)
             \/ Tun2SocksGiveUp(s) \/ Tun2SocksOk(s) \/ Tun2SocksKill(s)
    BY <1>2, <2>4 DEF Tun2SocksLock, Tun2SocksExec, Tun2SocksThrow, Tun2SocksSend, Tun2SocksGiveUp,
                      Tun2SocksOk, Tun2SocksKill, serviceVars, android, tun
  <2>5. CASE StartFail(s) \/ StartFailCancel(s) \/ StartFailLaunch(s)
    BY <1>2, <2>5 DEF StartFail, StartFailCancel, StartFailLaunch, serviceVars, android, tun
  <2> QED
    BY <1>5, <2>1, <2>2, <2>3, <2>4, <2>5 DEF StartStep
<1>6. CASE Stop \/ OnServiceConnected
  BY <1>2, <1>6 DEF Stop, OnServiceConnected, serviceVars, android, tun
<1>7. CASE \E k \in Teardowns : TeardownStep(k)
  BY <1>2, <1>7 DEF TeardownStep, TeardownJoin, TeardownBegin, TeardownBound, TeardownTimeout,
                    TeardownStopNative, TeardownKill, TeardownStop, TeardownUnbind, TeardownFinal,
                    StopRest, CloseTun, UnbindService, serviceVars, android, tun
<1>8. CASE ServiceStep
  <2>1. CASE OnStartCommand
    BY <2>1 DEF OnStartCommand, Configure
  <2>2. CASE OnDestroy
    BY <2>2 DEF OnDestroy, StopEverything, StopRest, CloseTun
  <2>3. CASE OnRevoke \/ \E i \in Sessions : OnUnexpectedExit(i) \/ OpenFluxUp(i) \/ OpenFluxFails(i)
    BY <1>2, <2>3 DEF OnRevoke, OnUnexpectedExit, OpenFluxUp, OpenFluxFails, StopEverything, StopRest,
                      CloseTun, android, tun
  <2> QED
    BY <1>8, <2>1, <2>2, <2>3 DEF ServiceStep
<1>9. CASE UNCHANGED vars
  BY <1>2, <1>9 DEF vars, serviceVars, android, tun
<1> QED
  BY <1>4, <1>5, <1>6, <1>7, <1>8, <1>9 DEF Next, ServiceAlone

\* IInv holds of every user.
LEMMA InvariantIsInductive == Spec => []IInv
<1>1. Init => IInv
  <2> SUFFICES ASSUME Init PROVE IInv
    OBVIOUS
  <2>1. 0 \in 0 .. MaxStarts /\ 0 \in 0 .. MaxTeardowns
    BY SMT, BoundsAssumption
  <2>2. ServiceTypeOK
    BY <2>1 DEF Init, ServiceInit, ServiceTypeOK
  <2>3. active \in AllShown
    BY <2>1, ShownTyped DEF Init, AllShown
  <2>4. TypeOK
    BY <2>1, <2>2, <2>3 DEF Init, TypeOK, AllShown, StartPcs, TeardownPcs
  <2> QED
    BY <2>4 DEF Init, ServiceInit, IInv, Called, OneTun, InTun2Socks
<1>2. IInv /\ [Next]_vars => IInv'
  BY StepTyped, StepCalled, StepOneTun DEF IInv
<1> QED
  BY <1>1, <1>2, PTL DEF Spec

\* Whatever is called in whatever order, every field of the view model and of the service
\* keeps to the values the code gives it.
THEOREM WellTyped == Spec => []TypeOK
<1>1. IInv => TypeOK
  BY DEF IInv
<1> QED
  BY <1>1, InvariantIsInductive, PTL

\* However hastily the user starts and stops, and however slowly Android binds, an
\* instance that onDestroy() has left behind holds no TUN interface.
THEOREM OnlyOneTun == Spec => []OneTun
<1>1. IInv => OneTun
  BY DEF IInv
<1> QED
  BY <1>1, InvariantIsInductive, PTL

-----------------------------------------------------------------------------
(***************************************************************************)
(* The patient user, who starts a session only from rest and stops only a  *)
(* running one.  What the UI shows then rests on who may still change it:  *)
(* a start that is neither done nor cancelled, or a teardown.              *)
(***************************************************************************)
Patient == ~QuickStart /\ ~QuickStop

Progress == {"Connecting", "StartingTransport", "StartingTun2Socks"}
\* Before OpenFlux is started.
Early == {"join", "service", "bind", "await", "awaitDelay", "native"}

Busy(s) == startPc[s] \notin {"none", "done"}
Tearing == \E k \in Teardowns : teardownPc[k] \notin {"none", "done"}
NoTransport == \A i \in Sessions : transport[i] = "off"
NoExit == exitPosted = {} /\ exited = {}

\* One start at a time.
Alone == \A s, t \in Sessions : Busy(s) /\ Busy(t) => s = t

\* Only sessions that were started are cancelled, and teardownJob was launched.
Known ==
  /\ \A s \in Sessions : startPc[s] = "none" => s \notin cancelled /\ startJob # s
  /\ teardownJob # 0 => teardownPc[teardownJob] # "none"

\* A start has the app to itself until it starts OpenFlux: nothing is left that could end
\* it from outside.
Begins ==
  \A s \in Sessions : startPc[s] \in Early =>
    /\ ~Tearing /\ NoExit /\ NoTransport /\ s \notin cancelled /\ isActive
    /\ startPc[s] \in {"join", "service", "bind"} => service = 0
    /\ startPc[s] \in {"await", "awaitDelay", "native"} => bindRequested

\* While onServiceConnected() is on its way the start waits for it or has given up.
Binds ==
  connecting =>
    /\ NoTransport /\ NoExit /\ bindRequested /\ service = 0
    /\ \A s \in Sessions : Busy(s) =>
         /\ startPc[s] \in {"await", "awaitDelay", "fail", "cancel", "launch"}
         /\ s \notin cancelled \/ startPc[s] = "launch"

Rests == ~isActive => service = 0 /\ ~connecting

\* OpenFlux runs only in the instance that the view model can reach and stop...
Serves ==
  \A i \in Sessions : transport[i] # "off" => i = service /\ bindRequested /\ isActive

\* ...and a teardown that is past stopNative(), or had nothing to stop, leaves none.
Stops ==
  \A k \in Teardowns :
    /\ teardownPc[k] \in {"kill", "stop", "unbind", "final"} => NoTransport
    /\ teardownPc[k] = "final" => ~connecting
    /\ teardownPc[k] = "native" => \A i \in Sessions : transport[i] # "off" => i = binding[k]

\* A cancelled start that outlives the teardown finds no service: it fails, and shows
\* nothing any more.
Cancelled ==
  \A s \in Sessions : Busy(s) /\ s \in cancelled /\ startPc[s] # "launch" /\ ~Tearing =>
    service = 0 /\ ~connecting

\* A progress state is on the screen only while somebody is going to replace it.
Shows ==
  active.state \in Progress /\ ~Tearing =>
    \E s \in Sessions : Busy(s) /\ (s \notin cancelled \/ startPc[s] = "launch")

UInv == Alone /\ Known /\ Begins /\ Binds /\ Rests /\ Serves /\ Stops /\ Cancelled /\ Shows

\* The types these proofs need.
Types ==
  /\ startPc \in [Sessions -> StartPcs] /\ transport \in [Sessions -> {"off", "starting",
      "ready"}]
  /\ teardownPc \in [Teardowns -> TeardownPcs] /\ binding \in [Teardowns -> 0 .. MaxStarts]
  /\ helpers \in [Sessions -> {"none", "waiting", "running", "dead"}]
  /\ callee \in [Sessions -> 0 .. MaxStarts]
  /\ finalState \in [Teardowns -> {"Idle", "Error"}]
  /\ teardownJob # 0 => teardownJob \in Teardowns
  /\ service # 0 => service \in Sessions
  /\ pidFile # 0 => pidFile \in Sessions
  /\ inst # 0 => inst \in Sessions
  /\ 0 \notin Sessions /\ 0 \notin Teardowns
  /\ iface \subseteq {inst} /\ iface \subseteq Sessions

\* IInv gives the types in the form the next layers use.
LEMMA TypesHold == IInv => Types
  BY SMT DEF IInv, TypeOK, ServiceTypeOK, Teardowns, Sessions, OneTun, Types

\* What a round of awaitService() that goes on has found.
LEMMA PolledYes ==
  ASSUME NEW S \in SUBSET Sessions, NEW yes, NEW no, yes # "fail", yes # no
  PROVE  Polled(S, yes, no) = yes => service # 0 /\ service \in S /\ service \notin nativeError
<1>1. CASE service = 0 \/ service \in nativeError
  BY SMT, <1>1 DEF Polled, Sessions
<1>2. CASE ~(service = 0 \/ service \in nativeError) /\ service \notin S \ nativeError
  BY <1>2 DEF Polled
<1> QED
  BY <1>1, <1>2

\* What one poll of the transport's state does.
LEMMA TransportPolled ==
  ASSUME IInv, NEW s \in Sessions, StartPollTransport(s)
  PROVE  /\ UNCHANGED <<serviceVars, jobs, bindRequested, service, callee, teardowns>>
         /\ startPc[s] = "pollT"
         /\ \/ /\ startPc' = [startPc EXCEPT ![s] = "tun"] /\ active'.state = "StartingTun2Socks"
               /\ service # 0 /\ transport[service] = "ready"
            \/ startPc' = [startPc EXCEPT ![s] = "fail"] /\ active' = active
            \/ startPc' = [startPc EXCEPT ![s] = "delayT"] /\ active' = active
<1> DEFINE to == Polled({i \in Sessions : transport[i] = "ready"}, "tun", "delayT")
<1>1. startPc' = [startPc EXCEPT ![s] = to] /\ startPc'[s] = to
  BY DEF StartPollTransport, StartGoto, IInv, TypeOK
<1>2. to \in {"fail", "tun", "delayT"}
  BY PolledTyped DEF StartPcs
<1>3. to = "tun" => service # 0 /\ transport[service] = "ready"
  BY SMT, PolledYes
<1>4. active' = IF to = "tun" THEN Shown("StartingTun2Socks", s) ELSE active
  BY <1>1 DEF StartPollTransport
<1> HIDE DEF to
<1>5. /\ UNCHANGED <<serviceVars, jobs, bindRequested, service, callee, teardowns>>
      /\ startPc[s] = "pollT"
  BY DEF StartPollTransport, StartGoto
<1>6. CASE to = "tun"
  BY <1>1, <1>3, <1>4, <1>5, <1>6 DEF Shown
<1>7. CASE to # "tun"
  BY <1>1, <1>2, <1>4, <1>5, <1>7
<1> QED
  BY <1>6, <1>7

\* What one poll of the VPN's state does.
LEMMA VpnPolled ==
  ASSUME IInv, NEW s \in Sessions, StartPollVpn(s)
  PROVE  /\ UNCHANGED <<serviceVars, jobs, bindRequested, service, callee, teardowns>>
         /\ startPc[s] = "pollV"
         /\ \/ startPc' = [startPc EXCEPT ![s] = "done"] /\ active'.state = "Running" /\ service # 0
            \/ startPc' = [startPc EXCEPT ![s] = "fail"] /\ active' = active
            \/ startPc' = [startPc EXCEPT ![s] = "delayV"] /\ active' = active
<1> DEFINE to == Polled(isRunning, "done", "delayV")
<1>1. startPc' = [startPc EXCEPT ![s] = to] /\ startPc'[s] = to
  BY DEF StartPollVpn, StartGoto, IInv, TypeOK
<1>2. to \in {"fail", "done", "delayV"}
  BY PolledTyped DEF StartPcs
<1>3. to = "done" => service # 0
  BY SMT, PolledYes DEF IInv, TypeOK, ServiceTypeOK
<1>4. active' = IF to = "done" THEN Shown("Running", s) ELSE active
  BY <1>1 DEF StartPollVpn
<1> HIDE DEF to
<1>5. /\ UNCHANGED <<serviceVars, jobs, bindRequested, service, callee, teardowns>>
      /\ startPc[s] = "pollV"
  BY DEF StartPollVpn, StartGoto
<1>6. CASE to = "done"
  BY <1>1, <1>3, <1>4, <1>5, <1>6 DEF Shown
<1>7. CASE to # "done"
  BY <1>1, <1>2, <1>4, <1>5, <1>7
<1> QED
  BY <1>6, <1>7

\* teardown() on the main thread: a new teardown, in its join(), and a cancelled start.
LEMMA TeardownLaunched ==
  ASSUME NEW final, Teardown(final)
  PROVE  /\ cancelled' = cancelled \cup ({startJob} \ {0}) /\ binding' = binding
         /\ \E k \in Teardowns : /\ teardownPc[k] = "none" /\ teardownJob' = k
                                 /\ teardownPc' = [teardownPc EXCEPT ![k] = "join"]
  BY DEF Teardown, Cancel, LaunchTeardown

\* Every step of the coroutines, the handlers, Android and OpenFlux preserves this.
LEMMA StepShows ==
  ASSUME IInv, UInv, Patient, [Next]_vars
  PROVE  UInv'
<1> USE DEF Types, StartGoto, TeardownGoto, serviceVars, android, tun, openflux, files, jobs,
            starts, teardowns, UInv, Alone, Known, Begins, Binds, Rests, Serves, Stops,
            Cancelled, Shows, Busy, Early, Tearing, NoTransport, NoExit, Progress, isActive,
            ActiveStates
<1>1. Types
  BY TypesHold
<1>2. ASSUME NEW s \in Sessions, StartTunnel(s)
      PROVE  UInv'
  <2>1. Quiet /\ ~isActive
    BY <1>2 DEF StartTunnel, Patient
  <2>2. /\ UNCHANGED <<serviceVars, bindRequested, service, callee, cancelled, teardownJob, teardowns>>
        /\ startPc[s] = "none" /\ startPc' = [startPc EXCEPT ![s] = "join"]
        /\ startJob' = s /\ active'.state = "Connecting"
    BY <1>2, <2>1 DEF StartTunnel, Shown
  <2> QED
    BY SMT, <1>1, <2>1, <2>2 DEF Quiet
<1>3. ASSUME NEW s \in Sessions, StartStep(s)
      PROVE  UInv'
  <2>1. CASE StartJoin(s)
    BY SMT, <1>1, <2>1 DEF StartJoin, Shown
  <2>2. CASE StartService(s)
    BY SMT, <1>1, <2>2 DEF StartService, StartForegroundService
  <2>3. CASE StartBind(s)
    BY SMT, <1>1, <2>3 DEF StartBind, BindService
  <2>4. CASE StartAwait(s)
    BY SMT, <1>1, <2>4 DEF StartAwait, Shown
  <2>5. CASE StartOpenFluxNative(s)
    BY SMT, <1>1, <2>5 DEF StartOpenFluxNative, SupervisorStart
  <2>6. CASE StartPollTransport(s)
    BY SMT, <1>1, <2>6, TransportPolled
  <2>7. CASE StartPollVpn(s)
    BY SMTT(60), <1>1, <2>7, VpnPolled
  <2>8. CASE StartDelays(s) \/ StartTimeout(s)
    BY SMTT(60), <1>1, <2>8 DEF StartDelays, StartDelay, StartTimeout, BindTimeout
  <2>9. CASE StartTun2Socks(s) \/ Tun2SocksLock(s) \/ Tun2SocksExec(s) \/ Tun2SocksThrow(s)
             \/ Tun2SocksSend(s)
    BY SMT, <1>1, <2>9 DEF StartTun2Socks, Tun2SocksLock, Tun2SocksExec, Tun2SocksThrow,
                      Tun2SocksSend
  <2>10. CASE Tun2SocksGiveUp(s) \/ Tun2SocksOk(s) \/ Tun2SocksKill(s) \/ Tun2SocksStop(s)
    BY SMT, <1>1, <2>10 DEF Tun2SocksGiveUp, Tun2SocksOk, Tun2SocksKill, Tun2SocksStop, StopRest,
                       SupervisorStop
  <2>11. CASE StartFail(s)
    BY SMT, <1>1, <2>11 DEF StartFail, AlreadyFailing, TeardownActive, Joined
  <2>12. CASE StartFailCancel(s) \/ StartFailLaunch(s)
    BY SMT, <1>1, <2>12 DEF StartFailCancel, Cancel, StartFailLaunch, LaunchTeardown
  <2> QED
    BY <1>3, <2>1, <2>2, <2>3, <2>4, <2>5, <2>6, <2>7, <2>8, <2>9, <2>10, <2>11, <2>12
       DEF StartStep
<1>4. ASSUME NEW k \in Teardowns, TeardownStep(k)
      PROVE  UInv'
  <2>1. CASE TeardownJoin(k) \/ TeardownBegin(k) \/ TeardownBound(k) \/ TeardownTimeout(k)
    BY SMTT(60), <1>1, <2>1 DEF TeardownJoin, TeardownBegin, TeardownBound, TeardownTimeout, BindTimeout
  <2>2. CASE TeardownStopNative(k)
    BY SMT, <1>1, <2>2 DEF TeardownStopNative, SupervisorStop
  <2>3. CASE TeardownKill(k) \/ TeardownStop(k)
    BY SMT, <1>1, <2>3 DEF TeardownKill, TeardownStop, StopRest, SupervisorStop
  <2>4. CASE TeardownUnbind(k)
    BY SMT, <1>1, <2>4 DEF TeardownUnbind, UnbindService
  <2>5. CASE TeardownFinal(k)
    BY SMTT(60), <1>1, <2>5 DEF TeardownFinal, Shown
  <2> QED
    BY <1>4, <2>1, <2>2, <2>3, <2>4, <2>5 DEF TeardownStep
<1>5. CASE Stop
  <2>1. /\ Quiet /\ UNCHANGED <<serviceVars, active, bindRequested, service, starts>>
        /\ startJob' = 0 /\ Teardown("Idle")
    BY <1>5 DEF Stop, Patient
  <2> QED
    BY SMT, <1>1, <2>1, TeardownLaunched DEF Quiet
<1>6. CASE \E s \in Sessions : OnNativeProcessExited(s)
  <2>1. PICK s \in Sessions : OnNativeProcessExited(s)
    BY <1>6
  <2>2. /\ s \in exited /\ exited' = exited \ {s}
        /\ UNCHANGED <<android, tun, openflux, files, active, bindRequested, service, starts>>
        /\ (Teardown("Error") /\ startJob' = 0) \/ UNCHANGED <<jobs, teardowns>>
    BY <2>1 DEF OnNativeProcessExited
  <2> QED
    BY SMT, <1>1, <2>2, TeardownLaunched
<1>7. CASE OnServiceConnected
  BY <1>1, <1>7 DEF OnServiceConnected
<1>8. ASSUME ServiceStep, UNCHANGED viewModel
      PROVE  UInv'
  <2> USE DEF viewModel
  <2>1. CASE OnStartCommand
    BY <1>1, <1>8, <2>1 DEF OnStartCommand
  <2>2. CASE OnDestroy
    BY SMT, <1>1, <1>8, <2>2 DEF OnDestroy, StopEverything, StopRest, SupervisorStop
  <2>3. CASE OnRevoke
    BY SMT, <1>1, <1>8, <2>3 DEF OnRevoke, StopEverything, StopRest, SupervisorStop
  <2>4. CASE \E i \in Sessions : OnUnexpectedExit(i)
    BY SMT, <1>1, <1>8, <2>4 DEF OnUnexpectedExit, StopEverything, StopRest, SupervisorStop
  <2>5. CASE \E i \in Sessions : OpenFluxUp(i)
    BY SMT, <1>1, <1>8, <2>5 DEF OpenFluxUp
  <2>6. CASE \E i \in Sessions : OpenFluxFails(i)
    BY SMT, <1>1, <1>8, <2>6 DEF OpenFluxFails
  <2> QED
    BY <1>8, <2>1, <2>2, <2>3, <2>4, <2>5, <2>6 DEF ServiceStep
<1>9. CASE UNCHANGED vars
  BY <1>1, <1>9 DEF vars, viewModel
<1> QED
  BY <1>2, <1>3, <1>4, <1>5, <1>6, <1>7, <1>8, <1>9 DEF Next, ServiceAlone

\* The patient user: every path through startTunnel(), fail() and teardown() ends on Idle,
\* Error or Running, for any number of sessions, and even if Android binds late.
THEOREM UiIsSettled ==
  ASSUME Patient
  PROVE  Spec => []UiSettles
<1>1. Init => UInv
  <2> SUFFICES ASSUME Init PROVE UInv
    OBVIOUS
  <2>1. ~isActive /\ active.state \notin Progress
    BY DEF Init, isActive, ActiveStates, Shown, Progress
  <2>2. 0 \notin Sessions
    BY SMT DEF Sessions
  <2> QED
    BY <2>1, <2>2 DEF Init, ServiceInit, UInv, Alone, Known, Begins, Binds, Rests, Serves,
                      Stops,
                      Cancelled, Shows, Busy, Early, NoTransport
<1>2. IInv /\ UInv /\ [Next]_vars => UInv'
  BY StepShows
<1>3. IInv /\ UInv => UiSettles
  BY DEF IInv, TypeOK, UInv, Shows, UiSettles, Quiet, Busy, Tearing, Progress, ActiveStates
<1> QED
  BY <1>1, <1>2, <1>3, InvariantIsInductive, PTL DEF Spec
=============================================================================
