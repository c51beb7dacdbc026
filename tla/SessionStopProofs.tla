------------------------- MODULE SessionStopProofs --------------------------
(***************************************************************************)
(* CleanStop and NoBlackhole of TunnelsViewModel, for the patient user     *)
(* whose binding is in time, and any number of sessions and teardowns.     *)
(* What a session leaves behind, and what an open TUN interface rests on,  *)
(* is a matter of every step of a teardown meeting the instance that       *)
(* Android keeps, and of the pid file naming every helper that lives.      *)
(***************************************************************************)
EXTENDS SessionProofs

\* Zenon proves a leaf unless it names another prover.
USE Zenon

Rest == ~connecting /\ ~bound /\ ~started /\ ~commanded /\ iface = {}
Down == Rest /\ service = 0 /\ ~bindRequested

At(pcs) == \E s \in Sessions : startPc[s] \in pcs
BusyPcs == StartPcs \ {"none", "done"}
Alive(h) == helpers[h] \in {"waiting", "running"}

\* The UI is off only when all has been taken down.
Idles == ~isActive => Down

\* What a start has done so far, and what it shows meanwhile.
Waits ==
  \A s \in Sessions :
    /\ startPc[s] \in {"join", "service"} => Down
    /\ startPc[s] = "bind" => ~bound /\ ~bindRequested /\ ~connecting /\ service = 0
    /\ startPc[s] \in {"await", "awaitDelay"} => connecting \/ service # 0
    /\ startPc[s] \in Early => active.state \in {"Connecting", "StartingTransport"}
    /\ startPc[s] \in InTun2Socks \cup {"tun", "lock", "pollV", "delayV"} =>
         active.state \notin {"Connecting", "StartingTransport"}

\* A teardown that finds nothing bound finds nothing else either.
Released == ~At({"bind"}) /\ ((service = 0 /\ ~connecting) \/ ~bindRequested) => Rest

Finals ==
  \A k \in Teardowns :
    /\ teardownPc[k] = "unbind" => ~started /\ ~commanded /\ iface = {}
    /\ teardownPc[k] = "final" => Rest /\ ~bindRequested

\* onStartCommand(), which opens the interface, comes before onServiceConnected().
Commands == commanded => At({"bind", "await", "awaitDelay"}) /\ service = 0

\* Everybody who stops an instance stops the one Android keeps, if it keeps one.
Instance ==
  /\ service # 0 => service = inst \/ inst = 0
  /\ inst = 0 => ~started /\ ~bound /\ ~commanded
  /\ connecting => bound

Calls ==
  inst # 0 =>
    /\ \A k \in Teardowns : teardownPc[k] \in {"native", "kill", "stop"} => binding[k] = inst
    /\ \A s \in Sessions : startPc[s] \in InTun2Socks \cup {"lock"} => callee[s] = inst
    /\ exitPosted \subseteq {inst}

\* A teardown meets a start that is under way only after OpenFlux has died, and then
\* onUnexpectedExit() has closed the interface: startTun2Socks() cannot hand it on.
Exits ==
  /\ exited # {} => iface = {}
  /\ Tearing /\ At(BusyPcs) => iface = {}

\* The instance Android keeps, and who still needs it.
BInv == Idles /\ Waits /\ Released /\ Finals /\ Commands /\ Instance /\ Calls /\ Exits

\* A helper that lives is named by the pid file, and somebody will kill it: the interface
\* is open, or its own start is about to.
Killable ==
  /\ sockPath = pidFile
  /\ \A h \in Sessions : Alive(h) =>
       /\ pidFile = h
       /\ startPc[h] \in {"send", "kill"} \/ iface # {}
       /\ ~At(Early \cup {"pollT", "delayT", "tun", "lock", "exec", "stop"})
       /\ (\E k \in Teardowns : teardownPc[k] \in {"stop", "unbind", "final"}) =>
            startPc[h] \in {"send", "kill"}

Runs == active.state = "Running" => ~At(BusyPcs)

\* Behind an open interface OpenFlux is ready, or its death is being reported...
Carries ==
  active.state \in {"StartingTun2Socks", "Running"} /\ iface # {} =>
    \/ transport[inst] = "ready" \/ inst \in exitPosted
    \/ \E k \in Teardowns : teardownPc[k] \in {"kill", "stop"}

\* ...and tun2socks serves it once startTun2Socks() has returned.
Relays ==
  (active.state = "Running" \/ At({"ok", "pollV", "delayV"})) /\ iface # {} =>
    \/ pidFile # 0 /\ helpers[pidFile] = "running"
    \/ \E k \in Teardowns : teardownPc[k] = "stop"

\* The interface and what is behind it.
TInv == Killable /\ Runs /\ Carries /\ Relays

SInv == BInv /\ TInv

\* The second half of stopEverything() closes the only interface there is...
LEMMA Closes ==
  ASSUME IInv, BInv, NEW i, StopRest(i), inst # 0 => i = inst
  PROVE  iface' = {} /\ started' = FALSE
<1>1. iface \subseteq {inst} /\ 0 \notin iface
  BY SMT DEF IInv, OneTun, TypeOK, ServiceTypeOK, Sessions
<1>2. inst = 0 => ~started
  BY DEF BInv, Instance
<1>3. started \in BOOLEAN
  BY DEF IInv, TypeOK, ServiceTypeOK
<1> QED
  BY <1>1, <1>2, <1>3 DEF StopRest, CloseTun

\* ...and the first half kills all the helpers there are.
LEMMA Kills ==
  ASSUME IInv, TInv, NEW i, StopHelpers(i)
  PROVE  /\ pidFile' = 0 /\ sockPath' = 0 /\ \A h \in Sessions : ~Alive(h)'
<1>1. \A h \in Sessions : Alive(h) => pidFile = h
  BY DEF TInv, Killable
<1>2. helpers' = [s \in Sessions |-> IF s = pidFile THEN "dead" ELSE helpers[s]]
  BY DEF StopHelpers, KillHelpers
<1> QED
  BY <1>1, <1>2 DEF Alive, StopHelpers, KillHelpers

\* Every step preserves what is about the instance...
LEMMA StepBinds ==
  ASSUME IInv, UInv, BInv, Patient, ~SlowBind, [Next]_vars
  PROVE  BInv'
<1> USE DEF Types, StartGoto, TeardownGoto, serviceVars, android, tun, openflux, files, jobs,
            starts, teardowns, UInv, BInv, Idles, Waits, Released, Finals, Commands, Instance,
            Calls, Exits, Alone, Begins, Binds, Serves, Busy, BusyPcs, Early, InTun2Socks,
            Tearing, NoExit, NoTransport, Rest, Down, At, isActive, ActiveStates
<1>1. Types
  BY TypesHold
<1>2. ASSUME NEW s \in Sessions, StartTunnel(s)
      PROVE  BInv'
  <2>1. Quiet /\ ~isActive
    BY <1>2 DEF StartTunnel, Patient
  <2>2. /\ UNCHANGED <<serviceVars, bindRequested, service, callee, cancelled, teardownJob, teardowns>>
        /\ startPc[s] = "none" /\ startPc' = [startPc EXCEPT ![s] = "join"]
        /\ startJob' = s /\ active'.state = "Connecting"
    BY <1>2, <2>1 DEF StartTunnel, Shown
  <2> QED
    BY SMT, <1>1, <2>1, <2>2 DEF Quiet
<1>3. ASSUME NEW s \in Sessions, StartStep(s)
      PROVE  BInv'
  <2>1. CASE StartJoin(s)
    BY SMT, <1>1, <2>1 DEF StartJoin, Shown
  <2>2. CASE StartService(s)
    BY SMT, <1>1, <2>2 DEF StartService, StartForegroundService
  <2>3. CASE StartBind(s)
    <3>1. /\ startPc[s] = "bind" /\ startPc' = [startPc EXCEPT ![s] = "await"]
          /\ bound' /\ connecting' /\ bindRequested'
          /\ inst' = IF inst = 0 THEN s ELSE inst
          /\ UNCHANGED <<started, commanded, tun, openflux, exited, files, active, service, callee, teardowns>>
      BY <2>3 DEF StartBind, BindService
    <3> QED
      BY SMT, <1>1, <3>1
  <2>4. CASE StartAwait(s)
    BY SMT, <1>1, <2>4 DEF StartAwait, Shown
  <2>5. CASE StartOpenFluxNative(s)
    BY SMT, <1>1, <2>5 DEF StartOpenFluxNative, SupervisorStart
  <2>6. CASE StartPollTransport(s)
    BY SMT, <1>1, <2>6, TransportPolled
  <2>7. CASE StartPollVpn(s)
    BY SMT, <1>1, <2>7, VpnPolled
  <2>8. CASE StartDelays(s) \/ StartTimeout(s)
    BY SMT, <1>1, <2>8 DEF StartDelays, StartDelay, StartTimeout, BindTimeout
  <2>9. CASE StartTun2Socks(s)
    BY SMT, <1>1, <2>9 DEF StartTun2Socks
  <2>10. CASE Tun2SocksLock(s)
    BY SMT, <1>1, <2>10 DEF Tun2SocksLock
  <2>11. CASE Tun2SocksExec(s)
    BY SMTT(60), <1>1, <2>11 DEF Tun2SocksExec, ExecHelpers
  <2>12. CASE Tun2SocksThrow(s) \/ Tun2SocksGiveUp(s) \/ Tun2SocksOk(s)
    BY SMT, <1>1, <2>12 DEF Tun2SocksThrow, Tun2SocksGiveUp, Tun2SocksOk
  <2>13. CASE Tun2SocksSend(s)
    BY SMT, <1>1, <2>13 DEF Tun2SocksSend, CanSendFd, SendFd
  <2>14. CASE Tun2SocksKill(s)
    BY SMT, <1>1, <2>14 DEF Tun2SocksKill, StopHelpers, KillHelpers
  <2>15. CASE Tun2SocksStop(s)
    <3>1. iface' = {} /\ started' = FALSE
      BY <1>1, <2>15, Closes DEF Tun2SocksStop
    <3> QED
      BY SMT, <1>1, <2>15, <3>1 DEF Tun2SocksStop
  <2>16. CASE StartFail(s) \/ StartFailCancel(s) \/ StartFailLaunch(s)
    BY SMT, <1>1, <2>16 DEF StartFail, AlreadyFailing, TeardownActive, Joined, StartFailCancel,
                       Cancel, StartFailLaunch, LaunchTeardown
  <2> QED
    BY <1>3, <2>1, <2>2, <2>3, <2>4, <2>5, <2>6, <2>7, <2>8, <2>9, <2>10, <2>11, <2>12, <2>13,
       <2>14, <2>15, <2>16
       DEF StartStep
<1>4. ASSUME NEW k \in Teardowns, TeardownStep(k)
      PROVE  BInv'
  <2>1. CASE TeardownJoin(k) \/ TeardownBegin(k) \/ TeardownBound(k) \/ TeardownTimeout(k)
    BY SMT, <1>1, <2>1 DEF TeardownJoin, TeardownBegin, TeardownBound, TeardownTimeout, BindTimeout
  <2>2. CASE TeardownStopNative(k)
    BY SMT, <1>1, <2>2 DEF TeardownStopNative, SupervisorStop
  <2>3. CASE TeardownKill(k)
    BY SMT, <1>1, <2>3 DEF TeardownKill, StopHelpers, KillHelpers
  <2>4. CASE TeardownStop(k)
    <3>1. iface' = {} /\ started' = FALSE
      BY <1>1, <2>4, Closes DEF TeardownStop
    <3> QED
      BY SMT, <1>1, <2>4, <3>1 DEF TeardownStop
  <2>5. CASE TeardownUnbind(k)
    BY SMT, <1>1, <2>5 DEF TeardownUnbind, UnbindService
  <2>6. CASE TeardownFinal(k)
    BY SMT, <1>1, <2>6 DEF TeardownFinal, Shown
  <2> QED
    BY <1>4, <2>1, <2>2, <2>3, <2>4, <2>5, <2>6 DEF TeardownStep
<1>5. CASE Stop
  <2>1. /\ Quiet /\ UNCHANGED <<serviceVars, active, bindRequested, service, starts>>
        /\ startJob' = 0 /\ Teardown("Idle")
    BY <1>5 DEF Stop, Patient
  <2> QED
    BY SMT, <1>1, <2>1, TeardownLaunched DEF Quiet
<1>6. CASE \E s \in Sessions : OnNativeProcessExited(s)
  <2>1. PICK s \in Sessions : OnNativeProcessExited(s)
    BY <1>6
  <2>2. /\ s \in exited /\ exited' = exited \ {s}
        /\ UNCHANGED <<android, tun, openflux, files, active, bindRequested, service, starts>>
        /\ (Teardown("Error") /\ startJob' = 0) \/ UNCHANGED <<jobs, teardowns>>
    BY <2>1 DEF OnNativeProcessExited
  <2> QED
    BY SMT, <1>1, <2>2, TeardownLaunched
<1>7. CASE OnServiceConnected
  BY SMT, <1>1, <1>7 DEF OnServiceConnected
<1>8. ASSUME ServiceStep, UNCHANGED viewModel
      PROVE  BInv'
  <2> USE DEF viewModel
  <2>1. CASE OnStartCommand
    BY SMT, <1>1, <1>8, <2>1 DEF OnStartCommand, Configure
  <2>2. CASE OnDestroy
    <3>1. iface' = {} /\ started' = FALSE
      BY <1>1, <2>2, Closes DEF OnDestroy, StopEverything
    <3> QED
      BY <1>1, <1>8, <2>2, <3>1 DEF OnDestroy
  <2>3. CASE OnRevoke
    <3>1. iface' = {} /\ started' = FALSE
      BY <1>1, <2>3, Closes DEF OnRevoke, StopEverything
    <3> QED
      BY SMT, <1>1, <1>8, <2>3, <3>1 DEF OnRevoke
  <2>4. CASE \E i \in Sessions : OnUnexpectedExit(i)
    <3>1. iface' = {} /\ started' = FALSE
      BY <1>1, <2>4, Closes DEF OnUnexpectedExit, StopEverything
    <3> QED
      BY SMT, <1>1, <1>8, <2>4, <3>1 DEF OnUnexpectedExit
  <2>5. CASE \E i \in Sessions : OpenFluxUp(i)
    BY SMT, <1>1, <1>8, <2>5 DEF OpenFluxUp
  <2>6. CASE \E i \in Sessions : OpenFluxFails(i)
    BY SMT, <1>1, <1>8, <2>6 DEF OpenFluxFails
  <2> QED
    BY <1>8, <2>1, <2>2, <2>3, <2>4, <2>5, <2>6 DEF ServiceStep
<1>9. CASE UNCHANGED vars
  BY SMT, <1>1, <1>9 DEF vars, viewModel
<1> QED
  BY <1>2, <1>3, <1>4, <1>5, <1>6, <1>7, <1>8, <1>9 DEF Next, ServiceAlone

\* ...and then what is about the interface.
LEMMA StepRelays ==
  ASSUME IInv, UInv, BInv, TInv, Patient, ~SlowBind, [Next]_vars
  PROVE  TInv'
<1> USE DEF Types, StartGoto, TeardownGoto, serviceVars, android, tun, openflux, files, jobs,
            starts, teardowns, UInv, BInv, TInv, Instance, Calls, Exits, Killable, Runs,
            Carries, Relays, Alone, Busy, BusyPcs, Early, InTun2Socks, Tearing, At, Alive
<1>1. Types
  BY TypesHold
<1>2. ASSUME NEW s \in Sessions, StartTunnel(s)
      PROVE  TInv'
  <2>1. Quiet /\ ~isActive
    BY <1>2 DEF StartTunnel, Patient
  <2>2. /\ UNCHANGED <<serviceVars, bindRequested, service, callee, cancelled, teardownJob, teardowns>>
        /\ startPc[s] = "none" /\ startPc' = [startPc EXCEPT ![s] = "join"]
        /\ startJob' = s /\ active'.state = "Connecting"
    BY <1>2, <2>1 DEF StartTunnel, Shown
  <2>3. \A h \in Sessions : ~Alive(h)
    BY <2>1 DEF Quiet, Idles, Down, Rest
  <2>4. \A h \in Sessions : ~Alive(h)'
    BY <2>2, <2>3
  <2> HIDE DEF Alive
  <2> QED
    BY SMT, <1>1, <2>1, <2>2, <2>3, <2>4 DEF Quiet
<1>3. ASSUME NEW s \in Sessions, StartStep(s)
      PROVE  TInv'
  <2>1. CASE StartJoin(s)
    BY SMT, <1>1, <2>1 DEF StartJoin, Shown
  <2>2. CASE StartService(s)
    BY SMT, <1>1, <2>2 DEF StartService, StartForegroundService
  <2>3. CASE StartBind(s)
    <3>1. /\ startPc[s] = "bind" /\ startPc' = [startPc EXCEPT ![s] = "await"]
          /\ bound' /\ connecting' /\ bindRequested'
          /\ inst' = IF inst = 0 THEN s ELSE inst
          /\ UNCHANGED <<started, commanded, tun, openflux, exited, files, active, service, callee, teardowns>>
      BY <2>3 DEF StartBind, BindService, Waits
    <3> QED
      BY SMT, <1>1, <3>1
  <2>4. CASE StartAwait(s)
    BY SMT, <1>1, <2>4 DEF StartAwait, Shown
  <2>5. CASE StartOpenFluxNative(s)
    BY SMT, <1>1, <2>5 DEF StartOpenFluxNative, SupervisorStart
  <2>6. CASE StartPollTransport(s)
    BY SMT, <1>1, <2>6, TransportPolled
  <2>7. CASE StartPollVpn(s)
    BY SMT, <1>1, <2>7, VpnPolled DEF Waits, Idles, Down, Rest, isActive, ActiveStates
  <2>8. CASE StartDelays(s) \/ StartTimeout(s)
    BY SMT, <1>1, <2>8 DEF StartDelays, StartDelay, StartTimeout, BindTimeout
  <2>9. CASE StartTun2Socks(s)
    BY SMT, <1>1, <2>9 DEF StartTun2Socks, Released, Rest, Binds
  <2>10. CASE Tun2SocksLock(s)
    BY SMT, <1>1, <2>10 DEF Tun2SocksLock
  <2>11. CASE Tun2SocksExec(s)
    BY SMTT(60), <1>1, <2>11 DEF Tun2SocksExec, ExecHelpers
  <2>12. CASE Tun2SocksThrow(s) \/ Tun2SocksGiveUp(s) \/ Tun2SocksOk(s)
    BY SMT, <1>1, <2>12 DEF Tun2SocksThrow, Tun2SocksGiveUp, Tun2SocksOk
  <2>13. CASE Tun2SocksSend(s)
    BY SMT, <1>1, <2>13 DEF Tun2SocksSend, CanSendFd, SendFd
  <2>14. CASE Tun2SocksKill(s)
    <3>1. pidFile' = 0 /\ sockPath' = 0 /\ \A h \in Sessions : ~Alive(h)'
      BY <2>14, Kills DEF Tun2SocksKill
    <3> HIDE DEF Alive
    <3> QED
      BY SMT, <1>1, <2>14, <3>1 DEF Tun2SocksKill
  <2>15. CASE Tun2SocksStop(s)
    <3>1. iface' = {} /\ started' = FALSE
      BY <1>1, <2>15, Closes DEF Tun2SocksStop
    <3> QED
      BY SMT, <1>1, <2>15, <3>1 DEF Tun2SocksStop
  <2>16. CASE StartFail(s) \/ StartFailCancel(s) \/ StartFailLaunch(s)
    BY SMT, <1>1, <2>16 DEF StartFail, AlreadyFailing, TeardownActive, Joined, StartFailCancel,
                       Cancel, StartFailLaunch, LaunchTeardown
  <2> QED
    BY <1>3, <2>1, <2>2, <2>3, <2>4, <2>5, <2>6, <2>7, <2>8, <2>9, <2>10, <2>11, <2>12, <2>13,
       <2>14, <2>15, <2>16
       DEF StartStep
<1>4. ASSUME NEW k \in Teardowns, TeardownStep(k)
      PROVE  TInv'
  <2>1. CASE TeardownJoin(k) \/ TeardownBegin(k) \/ TeardownBound(k) \/ TeardownTimeout(k)
    BY SMT, <1>1, <2>1 DEF TeardownJoin, TeardownBegin, TeardownBound, TeardownTimeout, BindTimeout,
                          Released, Rest, Binds, Begins
  <2>2. CASE TeardownStopNative(k)
    BY SMT, <1>1, <2>2 DEF TeardownStopNative, SupervisorStop
  <2>3. CASE TeardownKill(k)
    <3>1. pidFile' = 0 /\ sockPath' = 0 /\ \A h \in Sessions : ~Alive(h)'
      BY <2>3, Kills DEF TeardownKill
    <3> HIDE DEF Alive
    <3> QED
      BY SMT, <1>1, <2>3, <3>1 DEF TeardownKill
  <2>4. CASE TeardownStop(k)
    <3>1. iface' = {} /\ started' = FALSE
      BY <1>1, <2>4, Closes DEF TeardownStop
    <3> QED
      BY SMT, <1>1, <2>4, <3>1 DEF TeardownStop
  <2>5. CASE TeardownUnbind(k)
    BY SMT, <1>1, <2>5 DEF TeardownUnbind, UnbindService
  <2>6. CASE TeardownFinal(k)
    BY SMT, <1>1, <2>6 DEF TeardownFinal, Shown
  <2> QED
    BY <1>4, <2>1, <2>2, <2>3, <2>4, <2>5, <2>6 DEF TeardownStep
<1>5. CASE Stop
  <2>1. /\ Quiet /\ UNCHANGED <<serviceVars, active, bindRequested, service, starts>>
        /\ startJob' = 0 /\ Teardown("Idle")
    BY <1>5 DEF Stop, Patient
  <2> QED
    BY SMT, <1>1, <2>1, TeardownLaunched DEF Quiet
<1>6. CASE \E s \in Sessions : OnNativeProcessExited(s)
  <2>1. PICK s \in Sessions : OnNativeProcessExited(s)
    BY <1>6
  <2>2. /\ s \in exited /\ exited' = exited \ {s}
        /\ UNCHANGED <<android, tun, openflux, files, active, bindRequested, service, starts>>
        /\ (Teardown("Error") /\ startJob' = 0) \/ UNCHANGED <<jobs, teardowns>>
    BY <2>1 DEF OnNativeProcessExited
  <2> QED
    BY SMT, <1>1, <2>2, TeardownLaunched
<1>7. CASE OnServiceConnected
  BY SMT, <1>1, <1>7 DEF OnServiceConnected
<1>8. ASSUME ServiceStep, UNCHANGED viewModel
      PROVE  TInv'
  <2> USE DEF viewModel
  <2>1. CASE OnStartCommand
    BY SMT, <1>1, <1>8, <2>1 DEF OnStartCommand, Configure, Waits, Commands
  <2>2. CASE OnDestroy
    <3>1. iface' = {} /\ started' = FALSE
      BY <1>1, <2>2, Closes DEF OnDestroy, StopEverything
    <3>2. pidFile' = 0 /\ sockPath' = 0 /\ \A h \in Sessions : ~Alive(h)'
      BY <2>2, Kills DEF OnDestroy, StopEverything
    <3> HIDE DEF Alive
    <3> QED
      BY <1>1, <1>8, <2>2, <3>1, <3>2 DEF OnDestroy
  <2>3. CASE OnRevoke
    <3>1. iface' = {} /\ started' = FALSE
      BY <1>1, <2>3, Closes DEF OnRevoke, StopEverything
    <3>2. pidFile' = 0 /\ sockPath' = 0 /\ \A h \in Sessions : ~Alive(h)'
      BY <2>3, Kills DEF OnRevoke, StopEverything
    <3> HIDE DEF Alive
    <3> QED
      BY SMT, <1>1, <1>8, <2>3, <3>1, <3>2 DEF OnRevoke
  <2>4. CASE \E i \in Sessions : OnUnexpectedExit(i)
    <3>1. iface' = {} /\ started' = FALSE
      BY <1>1, <2>4, Closes DEF OnUnexpectedExit, StopEverything
    <3>2. pidFile' = 0 /\ sockPath' = 0 /\ \A h \in Sessions : ~Alive(h)'
      BY <2>4, Kills DEF OnUnexpectedExit, StopEverything
    <3> HIDE DEF Alive
    <3> QED
      BY SMT, <1>1, <1>8, <2>4, <3>1, <3>2 DEF OnUnexpectedExit
  <2>5. CASE \E i \in Sessions : OpenFluxUp(i)
    BY SMT, <1>1, <1>8, <2>5 DEF OpenFluxUp
  <2>6. CASE \E i \in Sessions : OpenFluxFails(i)
    BY SMT, <1>1, <1>8, <2>6 DEF OpenFluxFails
  <2> QED
    BY <1>8, <2>1, <2>2, <2>3, <2>4, <2>5, <2>6 DEF ServiceStep
<1>9. CASE UNCHANGED vars
  BY SMT, <1>1, <1>9 DEF vars, viewModel
<1> QED
  BY <1>2, <1>3, <1>4, <1>5, <1>6, <1>7, <1>8, <1>9 DEF Next, ServiceAlone

\* The three layers together, for the patient user whose binding is in time.
LEMMA SessionSettles ==
  ASSUME Patient, ~SlowBind
  PROVE  Spec => [](IInv /\ UInv /\ SInv)
<1>1. Init => UInv /\ SInv
  <2> SUFFICES ASSUME Init PROVE UInv /\ SInv
    OBVIOUS
  <2>1. ~isActive /\ active.state = "Idle"
    BY DEF Init, isActive, ActiveStates, Shown
  <2>2. 0 \notin Sessions
    BY SMT DEF Sessions
  <2>3. UInv
    BY <2>1, <2>2 DEF Init, ServiceInit, UInv, Alone, Known, Begins, Binds, Rests, Serves,
                      Stops,
                      Cancelled, Shows, Busy, Early, NoTransport, Progress
  <2>4. SInv
    BY <2>1, <2>2 DEF Init, ServiceInit, SInv, BInv, TInv, Idles, Waits, Released, Finals, Commands,
                      Instance,
                      Calls, Exits, Killable, Runs, Carries, Relays, Rest, Down, At, Alive,
                          Tearing,
                      Early, InTun2Socks
  <2> QED
    BY <2>3, <2>4
<1>2. IInv /\ UInv /\ [Next]_vars => UInv'
  BY StepShows
<1>3. IInv /\ UInv /\ SInv /\ [Next]_vars => SInv'
  BY StepBinds, StepRelays DEF SInv
<1> QED
  BY <1>1, <1>2, <1>3, InvariantIsInductive, PTL DEF Spec

\* The patient user: once things have settled with the UI on Idle or Error, teardown() and
\* stopEverything() have left no instance, TUN interface, OpenFlux or helper behind, in any
\* number of sessions and whichever step of a start has failed.
THEOREM StopIsClean ==
  ASSUME Patient, ~SlowBind
  PROVE  Spec => []CleanStop
<1>1. ASSUME IInv, UInv, SInv, Quiet, ~isActive, ~Doomed
      PROVE  /\ inst = 0 /\ iface = {}
             /\ \A i \in Sessions : transport[i] = "off" /\ helpers[i] \in {"none", "dead"}
  <2>1. Down
    BY <1>1 DEF SInv, BInv, Idles
  <2>2. inst = 0 /\ iface = {}
    BY <1>1, <2>1 DEF Down, Rest, Doomed
  <2>3. \A i \in Sessions : transport[i] = "off"
    BY <1>1 DEF UInv, Serves
  <2>4. \A i \in Sessions : ~Alive(i)
    BY <1>1, <2>2 DEF SInv, TInv, Killable, Quiet
  <2> QED
    BY <1>1, <2>2, <2>3, <2>4 DEF Alive, IInv, TypeOK, ServiceTypeOK
<1>2. IInv /\ UInv /\ SInv => CleanStop
  BY <1>1 DEF CleanStop
<1> QED
  BY <1>2, SessionSettles, PTL

\* The patient user: once things have settled, a TUN interface that is open is served by a
\* tun2socks that the pid file names and by an OpenFlux that is up, and the UI says so.
THEOREM NothingIsBlackholed ==
  ASSUME Patient, ~SlowBind
  PROVE  Spec => []NoBlackhole
<1>1. ASSUME IInv, UInv, SInv, Quiet, iface # {}
      PROVE  /\ active.state = "Running" /\ transport[inst] = "ready"
             /\ pidFile # 0 /\ helpers[pidFile] = "running"
  <2>1. isActive
    BY <1>1 DEF SInv, BInv, Idles, Down, Rest
  <2>2. active.state \notin Progress
    BY <1>1 DEF UInv, Shows, Quiet, Busy, Tearing
  <2>3. active.state = "Running"
    BY <2>1, <2>2 DEF isActive, ActiveStates, Progress
  <2> QED
    BY <1>1, <2>3 DEF SInv, TInv, Carries, Relays, Quiet
<1>2. IInv /\ UInv /\ SInv => NoBlackhole
  BY <1>1 DEF NoBlackhole
<1> QED
  BY <1>2, SessionSettles, PTL
=============================================================================
