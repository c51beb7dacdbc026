-------------------------- MODULE TunnelsViewModel --------------------------
(***************************************************************************)
(* ui/TunnelsViewModel.kt driving the service: the start coroutine of each *)
(* session, the chain of teardown coroutines, the state the UI shows, and  *)
(* the taps and callbacks of the main thread.                              *)
(*                                                                         *)
(* Binder calls are in-process: startTun2Socks() blocks the thread of the  *)
(* start coroutine.  Cancellation is cooperative: a cancelled start notices*)
(* only in join() and delay().  Handlers on the main thread are one step;  *)
(* a coroutine's step ends where it suspends, blocks, or has read a field  *)
(* that another thread writes.                                             *)
(***************************************************************************)
EXTENDS SocksVpnService

CONSTANTS
  MaxTeardowns,   \* bound on the number of teardowns
  MaxStops,       \* the user does not tap stop after this many teardowns
  QuickStart,     \* TRUE: the user may start a session while something is in progress
  QuickStop,      \* TRUE: the user may stop a session while something is in progress
  SlowBind        \* TRUE: Android may take longer than BIND_TIMEOUT_MS to connect

ASSUME BoundsAssumption == MaxStarts \in Nat /\ MaxTeardowns \in Nat /\ MaxStops \in Nat
ASSUME EnvironmentAssumption ==
  QuickStart \in BOOLEAN /\ QuickStop \in BOOLEAN /\ SlowBind \in BOOLEAN

Teardowns == 1 .. MaxTeardowns

VARIABLES
  active,         \* _active: what the UI shows, and the session it shows
  startJob,       \* the session of startJob, or 0
  teardownJob,    \* the newest teardown in teardownJob, or 0
  bindRequested,
  service,        \* the instance behind the binder in `service`, or 0
  cancelled,      \* sessions whose start coroutine has been cancelled
  startPc,        \* where each start coroutine is
  pending,        \* pendingTeardown of each start, `previous` of a fail() in progress
  callee,         \* the instance whose startTun2Socks() a start is inside of, or 0
  teardownPc,     \* where each teardown coroutine is
  previous,       \* the teardown each teardown joins first, or 0
  finalState,     \* the state each teardown leaves behind
  binding         \* what awaitBinding() gave each teardown, or 0

jobs == <<startJob, teardownJob, cancelled>>
starts == <<startPc, pending, callee>>
teardowns == <<teardownPc, previous, finalState, binding>>
viewModel == <<active, jobs, bindRequested, service, starts, teardowns>>
vars == <<serviceVars, viewModel>>

Shown(state, s) == [state |-> state, session |-> s]
ActiveStates == {"Connecting", "StartingTransport", "StartingTun2Socks", "Running"}

\* Mutant: a running tunnel does not count.
isActiveUntilRunning == active.state \in ActiveStates \ {"Running"}

isActive == active.state \in ActiveStates

InTun2Socks == {"exec", "send", "ok", "kill", "stop"}   \* holding the service's monitor
StartPcs == {"none", "join", "service", "bind", "await", "awaitDelay", "native", "pollT",
             "delayT", "tun", "lock", "pollV", "delayV", "fail", "cancel", "launch", "done"}
              \cup InTun2Socks
TeardownPcs == {"none", "join", "begin", "await", "native", "kill", "stop", "unbind", "final", "done"}

TypeOK ==
  /\ ServiceTypeOK
  /\ active \in [state : ActiveStates \cup {"Idle", "Error"}, session : 0 .. MaxStarts]
  /\ startJob \in 0 .. MaxStarts /\ teardownJob \in 0 .. MaxTeardowns
  /\ bindRequested \in BOOLEAN /\ service \in 0 .. MaxStarts /\ cancelled \subseteq Sessions
  /\ startPc \in [Sessions -> StartPcs] /\ pending \in [Sessions -> 0 .. MaxTeardowns]
  /\ callee \in [Sessions -> 0 .. MaxStarts]
  /\ teardownPc \in [Teardowns -> TeardownPcs] /\ previous \in [Teardowns -> 0 .. MaxTeardowns]
  /\ finalState \in [Teardowns -> {"Idle", "Error"}] /\ binding \in [Teardowns -> 0 .. MaxStarts]

Init ==
  /\ ServiceInit
  /\ active = Shown("Idle", 0)
  /\ startJob = 0 /\ teardownJob = 0 /\ bindRequested = FALSE /\ service = 0 /\ cancelled = {}
  /\ startPc = [s \in Sessions |-> "none"] /\ pending = [s \in Sessions |-> 0]
  /\ callee = [s \in Sessions |-> 0]
  /\ teardownPc = [k \in Teardowns |-> "none"] /\ previous = [k \in Teardowns |-> 0]
  /\ finalState = [k \in Teardowns |-> "Idle"] /\ binding = [k \in Teardowns |-> 0]

StartGoto(s, from, to) == startPc[s] = from /\ startPc' = [startPc EXCEPT ![s] = to]
TeardownGoto(k, from, to) == teardownPc[k] = from /\ teardownPc' = [teardownPc EXCEPT ![k] = to]

Joined(k) == k # 0 => teardownPc[k] = "done"
TeardownActive == ~Joined(teardownJob)

\* Nothing is in progress: whatever comes next is a tap, OpenFlux or Android.
Quiet ==
  /\ \A s \in Sessions : startPc[s] \in {"none", "done"}
  /\ \A k \in Teardowns : teardownPc[k] \in {"none", "done"}
  /\ ~commanded /\ ~connecting /\ exitPosted = {} /\ exited = {}

\* Android is about to destroy the instance.
Doomed == inst # 0 /\ ~started /\ ~bound /\ ~commanded

\* awaitBinding() gives up: the connection takes too long, or none is on its way.
BindTimeout == service = 0 /\ (SlowBind \/ ~connecting)

-----------------------------------------------------------------------------
\* Mutant: the job joins what teardownJob holds when it runs: itself.
LaunchTeardownSelf(k, prev, final) ==
  /\ teardownPc[k] = "none" /\ \A j \in Teardowns : j < k => teardownPc[j] # "none"
  /\ teardownPc' = [teardownPc EXCEPT ![k] = "join"]
  /\ previous' = [previous EXCEPT ![k] = k]
  /\ finalState' = [finalState EXCEPT ![k] = final]
  /\ teardownJob' = k
  /\ UNCHANGED binding

\* teardownJob = launch { previous?.join() ... }
LaunchTeardown(k, prev, final) ==
  /\ teardownPc[k] = "none" /\ \A j \in Teardowns : j < k => teardownPc[j] # "none"
  /\ teardownPc' = [teardownPc EXCEPT ![k] = "join"]
  /\ previous' = [previous EXCEPT ![k] = prev]
  /\ finalState' = [finalState EXCEPT ![k] = final]
  /\ teardownJob' = k
  /\ UNCHANGED binding

\* startJob?.cancel()
Cancel == cancelled' = cancelled \cup ({startJob} \ {0})

\* teardown(), called on the main thread.
Teardown(final) ==
  /\ Cancel
  /\ \E k \in Teardowns : LaunchTeardown(k, teardownJob, final)

\* startTunnel(s): an active session is stopped first; the new start remembers the
\* teardown it has to wait for.
StartTunnel(s) ==
  /\ QuickStart \/ (Quiet /\ ~isActive)
  /\ startPc[s] = "none" /\ \A j \in Sessions : j < s => startPc[j] # "none"
  /\ IF isActive THEN Teardown("Idle") ELSE UNCHANGED <<teardownJob, cancelled, teardowns>>
  /\ startPc' = [startPc EXCEPT ![s] = "join"]
  /\ pending' = [pending EXCEPT ![s] = teardownJob']
  /\ startJob' = s
  /\ active' = Shown("Connecting", s)
  /\ UNCHANGED <<serviceVars, bindRequested, service, callee>>

\* stop(), from the connect button or because the tunnel was reselected, edited or removed.
Stop ==
  /\ isActive /\ (QuickStop \/ Quiet)
  /\ teardownJob < MaxStops
  /\ Teardown("Idle")
  /\ startJob' = 0
  /\ UNCHANGED <<serviceVars, active, bindRequested, service, starts>>

\* fail() returns early if a teardown already handles the failure.
AlreadyFailing == startJob = 0 /\ TeardownActive

\* The collector of NativeProcessExited.
OnNativeProcessExited(i) ==
  /\ i \in exited
  /\ exited' = exited \ {i}
  /\ IF isActive /\ ~AlreadyFailing
       THEN Teardown("Error") /\ startJob' = 0
       ELSE UNCHANGED <<jobs, teardowns>>
  /\ UNCHANGED <<android, tun, openflux, files, active, bindRequested, service, starts>>

\* onServiceConnected(); Android delivers it after the onStartCommand() sent before it.
OnServiceConnected ==
  /\ connecting /\ ~commanded
  /\ connecting' = FALSE
  /\ service' = inst
  /\ UNCHANGED <<inst, started, bound, commanded, tun, openflux, exited, files, active, jobs,
                 bindRequested, starts, teardowns>>

-----------------------------------------------------------------------------
\* The start coroutine.  join() and the dispatch of the coroutine notice a cancellation.
StartJoin(s) ==
  /\ startPc[s] = "join"
  /\ \/ /\ s \in cancelled
        /\ startPc' = [startPc EXCEPT ![s] = "done"]
        /\ UNCHANGED active
     \/ /\ s \notin cancelled
        /\ Joined(pending[s])
        /\ startPc' = [startPc EXCEPT ![s] = "service"]
        /\ active' = Shown("Connecting", s)
  /\ UNCHANGED <<serviceVars, jobs, bindRequested, service, pending, callee, teardowns>>

StartService(s) ==
  /\ StartGoto(s, "service", "bind")
  /\ StartForegroundService(s)
  /\ UNCHANGED <<tun, openflux, exited, files, active, jobs, bindRequested, service, pending,
                 callee, teardowns>>

StartBind(s) ==
  /\ StartGoto(s, "bind", "await")
  /\ BindService(s)
  /\ bindRequested' = TRUE
  /\ UNCHANGED <<tun, openflux, exited, files, active, jobs, service, pending, callee, teardowns>>

\* awaitBinding(): no cancellation is noticed if the service is already there.
StartAwait(s) ==
  /\ StartGoto(s, "await", IF service # 0 THEN "native" ELSE "awaitDelay")
  /\ active' = IF service # 0 THEN Shown("StartingTransport", s) ELSE active
  /\ UNCHANGED <<serviceVars, jobs, bindRequested, service, pending, callee, teardowns>>

StartOpenFluxNative(s) ==
  /\ StartGoto(s, "native", "pollT")
  /\ IF service = 0 THEN UNCHANGED <<openflux, files>> ELSE SupervisorStart(service)
  /\ UNCHANGED <<android, tun, exited, active, jobs, bindRequested, service, pending, callee,
                 teardowns>>

\* One round of awaitService(): where the start goes from here.
Polled(isReady, yes, no) ==
  CASE service = 0 \/ service \in nativeError -> "fail"
    [] service \in isReady \ nativeError -> yes
    [] OTHER -> no

\* awaitService { isFServiceRunning() }
StartPollTransport(s) ==
  /\ StartGoto(s, "pollT", Polled({i \in Sessions : transport[i] = "ready"}, "tun", "delayT"))
  /\ active' = IF startPc'[s] = "tun" THEN Shown("StartingTun2Socks", s) ELSE active
  /\ UNCHANGED <<serviceVars, jobs, bindRequested, service, pending, callee, teardowns>>

\* awaitService { isVpnRunning() }
StartPollVpn(s) ==
  /\ StartGoto(s, "pollV", Polled(isRunning, "done", "delayV"))
  /\ active' = IF startPc'[s] = "done" THEN Shown("Running", s) ELSE active
  /\ UNCHANGED <<serviceVars, jobs, bindRequested, service, pending, callee, teardowns>>

\* delay() in one of the polling loops: a cancellation ends the coroutine, otherwise the
\* loop goes on or its timeout has passed.
StartDelay(s, from, back) ==
  /\ startPc[s] = from
  /\ startPc' = [startPc EXCEPT ![s] = IF s \in cancelled THEN "done" ELSE back]
  /\ UNCHANGED <<serviceVars, active, jobs, bindRequested, service, pending, callee, teardowns>>

\* Mutant: the timeout ends the start without a word.
StartTimeoutSilent(s) ==
  /\ startPc[s] \in {"awaitDelay", "delayT", "delayV"}
  /\ s \notin cancelled
  /\ startPc[s] = "awaitDelay" => BindTimeout
  /\ startPc' = [startPc EXCEPT ![s] = "done"]
  /\ UNCHANGED <<serviceVars, active, jobs, bindRequested, service, pending, callee, teardowns>>

StartTimeout(s) ==
  /\ startPc[s] \in {"awaitDelay", "delayT", "delayV"}
  /\ s \notin cancelled
  /\ startPc[s] = "awaitDelay" => BindTimeout
  /\ startPc' = [startPc EXCEPT ![s] = "fail"]
  /\ UNCHANGED <<serviceVars, active, jobs, bindRequested, service, pending, callee, teardowns>>

-----------------------------------------------------------------------------
\* service?.startTun2Socks() on the coroutine's thread, deaf to cancellation.
StartTun2Socks(s) ==
  /\ StartGoto(s, "tun", IF service = 0 THEN "pollV" ELSE "lock")
  /\ callee' = [callee EXCEPT ![s] = service]
  /\ UNCHANGED <<serviceVars, active, jobs, bindRequested, service, pending, teardowns>>

\* synchronized(service); without a TUN fd the call returns at once.
Tun2SocksLock(s) ==
  /\ \A j \in Sessions \ {s} : callee[j] = callee[s] => startPc[j] \notin InTun2Socks
  /\ StartGoto(s, "lock", IF callee[s] \in iface THEN "exec" ELSE "pollV")
  /\ UNCHANGED <<serviceVars, active, jobs, bindRequested, service, pending, callee, teardowns>>

Tun2SocksExec(s) ==
  /\ StartGoto(s, "exec", "send")
  /\ ExecHelpers(s)
  /\ UNCHANGED <<android, tun, openflux, exited, active, jobs, bindRequested, service, pending,
                 callee, teardowns>>

\* The relay or a file of the helpers cannot be created: the call throws.
Tun2SocksThrow(s) ==
  /\ StartGoto(s, "exec", "fail")
  /\ UNCHANGED <<serviceVars, active, jobs, bindRequested, service, pending, callee, teardowns>>

\* One of the SEND_FD_ATTEMPTS succeeds...
Tun2SocksSend(s) ==
  /\ CanSendFd(callee[s])
  /\ StartGoto(s, "send", "ok")
  /\ SendFd
  /\ UNCHANGED <<android, tun, openflux, exited, active, jobs, bindRequested, service, pending,
                 callee, teardowns>>

\* ...or all of them fail, and startTun2Socks() goes on into stopEverything().
Tun2SocksGiveUp(s) ==
  /\ ~CanSendFd(callee[s])
  /\ StartGoto(s, "send", "kill")
  /\ UNCHANGED <<serviceVars, active, jobs, bindRequested, service, pending, callee, teardowns>>

\* Mutant: the flags are set on whatever `service` is by now.
Tun2SocksOkCurrent(s) ==
  /\ StartGoto(s, "ok", "pollV")
  /\ isRunning' = isRunning \cup {service} /\ speed' = speed \cup {service}
  /\ UNCHANGED <<android, iface, openflux, exited, files, active, jobs, bindRequested, service,
                 pending, callee, teardowns>>

Tun2SocksOk(s) ==
  /\ StartGoto(s, "ok", "pollV")
  /\ isRunning' = isRunning \cup {callee[s]} /\ StartSpeedUpdates(callee[s])
  /\ UNCHANGED <<android, iface, openflux, exited, files, active, jobs, bindRequested, service,
                 pending, callee, teardowns>>

Tun2SocksKill(s) ==
  /\ StartGoto(s, "kill", "stop")
  /\ StopHelpers(callee[s])
  /\ UNCHANGED <<android, iface, isRunning, openflux, exited, active, jobs, bindRequested, service,
                 pending, callee, teardowns>>

Tun2SocksStop(s) ==
  /\ StartGoto(s, "stop", "pollV")
  /\ StopRest(callee[s])
  /\ UNCHANGED <<inst, bound, commanded, connecting, speed, nativeError, exitPosted, exited, files,
                 active, jobs, bindRequested, service, pending, callee, teardowns>>

-----------------------------------------------------------------------------
\* fail() on the coroutine's thread, unsynchronized with the main thread: the early
\* return, then teardown() up to the read of teardownJob, then its launch.
StartFail(s) ==
  /\ StartGoto(s, "fail", IF AlreadyFailing THEN "done" ELSE "cancel")
  /\ UNCHANGED <<serviceVars, active, jobs, bindRequested, service, pending, callee, teardowns>>

StartFailCancel(s) ==
  /\ StartGoto(s, "cancel", "launch")
  /\ Cancel
  /\ startJob' = 0
  /\ pending' = [pending EXCEPT ![s] = teardownJob]
  /\ UNCHANGED <<serviceVars, active, teardownJob, bindRequested, service, callee, teardowns>>

StartFailLaunch(s) ==
  /\ StartGoto(s, "launch", "done")
  /\ \E k \in Teardowns : LaunchTeardown(k, pending[s], "Error")
  /\ UNCHANGED <<serviceVars, active, startJob, cancelled, bindRequested, service, pending, callee>>

-----------------------------------------------------------------------------
\* The teardown coroutine.
TeardownJoin(k) ==
  /\ Joined(previous[k])
  /\ TeardownGoto(k, "join", "begin")
  /\ UNCHANGED <<serviceVars, active, jobs, bindRequested, service, starts, previous, finalState,
                 binding>>

TeardownBegin(k) ==
  /\ TeardownGoto(k, "begin", IF bindRequested THEN "await" ELSE "final")
  /\ UNCHANGED <<serviceVars, active, jobs, bindRequested, service, starts, previous, finalState,
                 binding>>

TeardownBound(k) ==
  /\ service # 0
  /\ TeardownGoto(k, "await", "native")
  /\ binding' = [binding EXCEPT ![k] = service]
  /\ UNCHANGED <<serviceVars, active, jobs, bindRequested, service, starts, previous, finalState>>

\* BIND_TIMEOUT_MS passes: the service is not told anything.
TeardownTimeout(k) ==
  /\ BindTimeout
  /\ TeardownGoto(k, "await", "unbind")
  /\ UNCHANGED <<serviceVars, active, jobs, bindRequested, service, starts, previous, finalState,
                 binding>>

TeardownStopNative(k) ==
  /\ TeardownGoto(k, "native", "kill")
  /\ SupervisorStop(binding[k])
  /\ UNCHANGED <<android, tun, nativeError, exitPosted, exited, files, active, jobs, bindRequested,
                 service, starts, previous, finalState, binding>>

TeardownKill(k) ==
  /\ TeardownGoto(k, "kill", "stop")
  /\ StopHelpers(binding[k])
  /\ UNCHANGED <<android, iface, isRunning, openflux, exited, active, jobs, bindRequested, service,
                 starts, previous, finalState, binding>>

\* Mutant: stopVpn() is not called.
TeardownStopNot(k) ==
  /\ TeardownGoto(k, "stop", "unbind")
  /\ UNCHANGED <<serviceVars, active, jobs, bindRequested, service, starts, previous, finalState,
                 binding>>

TeardownStop(k) ==
  /\ TeardownGoto(k, "stop", "unbind")
  /\ StopRest(binding[k])
  /\ UNCHANGED <<inst, bound, commanded, connecting, speed, nativeError, exitPosted, exited, files,
                 active, jobs, bindRequested, service, starts, previous, finalState, binding>>

\* Mutant: the connection stays bound.
TeardownUnbindNot(k) ==
  /\ TeardownGoto(k, "unbind", "final")
  /\ bindRequested' = FALSE
  /\ UNCHANGED <<serviceVars, active, jobs, service, starts, previous, finalState, binding>>

TeardownUnbind(k) ==
  /\ TeardownGoto(k, "unbind", "final")
  /\ UnbindService
  /\ bindRequested' = FALSE
  /\ UNCHANGED <<tun, openflux, exited, files, active, jobs, service, starts, previous, finalState,
                 binding>>

TeardownFinal(k) ==
  /\ TeardownGoto(k, "final", "done")
  /\ service' = 0
  /\ active' = Shown(finalState[k], 0)
  /\ UNCHANGED <<serviceVars, jobs, bindRequested, starts, previous, finalState, binding>>

-----------------------------------------------------------------------------
StartDelays(s) ==
  StartDelay(s, "awaitDelay", "await") \/ StartDelay(s, "delayT", "pollT") \/ StartDelay(s, "delayV", "pollV")

StartStep(s) ==
  \/ StartJoin(s) \/ StartService(s) \/ StartBind(s) \/ StartAwait(s) \/ StartOpenFluxNative(s)
  \/ StartPollTransport(s) \/ StartPollVpn(s) \/ StartDelays(s) \/ StartTimeout(s)
  \/ StartTun2Socks(s) \/ Tun2SocksLock(s) \/ Tun2SocksExec(s) \/ Tun2SocksThrow(s)
  \/ Tun2SocksSend(s) \/ Tun2SocksGiveUp(s) \/ Tun2SocksOk(s) \/ Tun2SocksKill(s) \/ Tun2SocksStop(s)
  \/ StartFail(s) \/ StartFailCancel(s) \/ StartFailLaunch(s)

TeardownStep(k) ==
  \/ TeardownJoin(k) \/ TeardownBegin(k) \/ TeardownBound(k) \/ TeardownTimeout(k)
  \/ TeardownStopNative(k) \/ TeardownKill(k) \/ TeardownStop(k) \/ TeardownUnbind(k)
  \/ TeardownFinal(k)

ServiceAlone == ServiceStep /\ UNCHANGED viewModel

Next ==
  \/ \E s \in Sessions : StartTunnel(s) \/ StartStep(s) \/ OnNativeProcessExited(s)
  \/ Stop \/ OnServiceConnected
  \/ \E k \in Teardowns : TeardownStep(k)
  \/ ServiceAlone

Spec == Init /\ [][Next]_vars

\* Coroutines and the main thread keep running, a polling loop that does not end reaches
\* its timeout, and a lock that becomes free again and again is obtained.  No tap, no
\* verdict of OpenFlux and no revocation has to come.
Fairness ==
  /\ \A s \in Sessions : WF_vars(StartStep(s)) /\ SF_vars(StartTimeout(s)) /\ SF_vars(Tun2SocksLock(s))
  /\ \A k \in Teardowns : WF_vars(TeardownStep(k))
  /\ WF_vars(OnServiceConnected)
  /\ WF_vars(OnStartCommand /\ UNCHANGED viewModel)
  /\ \A i \in Sessions : WF_vars(OnUnexpectedExit(i) /\ UNCHANGED viewModel)
  /\ \A i \in Sessions : WF_vars(OnNativeProcessExited(i))

FairSpec == Spec /\ Fairness

-----------------------------------------------------------------------------
(***************************************************************************)
(* Properties                                                              *)
(***************************************************************************)

\* "Without OpenFlux the VPN would silently blackhole all traffic": once things have
\* settled, a TUN interface is open only if the UI shows Running, OpenFlux is up, and a
\* tun2socks that the pid file still names serves the interface.
NoBlackhole ==
  Quiet /\ iface # {} =>
    /\ active.state = "Running" /\ transport[inst] = "ready"
    /\ pidFile # 0 /\ helpers[pidFile] = "running"

\* Once things have settled with the UI on Idle or Error, teardown() and stopEverything()
\* have left nothing behind: no instance (but one about to be destroyed), no TUN, no
\* OpenFlux and no helper, whichever step of the start had failed.
CleanStop ==
  Quiet /\ ~isActive /\ ~Doomed =>
    /\ inst = 0 /\ iface = {}
    /\ \A i \in Sessions : transport[i] = "off" /\ helpers[i] \in {"none", "dead"}

\* The UI does not get stuck on a progress state: every path through startTunnel(),
\* fail() and teardown() ends on Idle, Error or Running.
UiSettles == Quiet => active.state \in {"Idle", "Error", "Running"}

\* A failure of OpenFlux that reached the main thread's queue takes the UI off Running and
\* every progress state in the end, through the event or through the start's own polling.
DeathReachesUi == exitPosted # {} ~> active.state \in {"Idle", "Error"}

\* Only the instance that Android keeps has a TUN interface open, however hastily the
\* user starts and stops: an instance closes its interface before it goes.
OneTun == iface \subseteq {inst}

\* Every start coroutine ends, whatever OpenFlux, Android and the user do meanwhile: none
\* of its polling loops, joins and locks holds it forever.  Every teardown ends too, so
\* that the next startTunnel(), which joins it, is never blocked forever by the chain of
\* previous?.join().
CoroutinesEnd ==
  /\ \A s \in Sessions : startPc[s] # "none" ~> startPc[s] = "done"
  /\ \A k \in Teardowns : teardownPc[k] # "none" ~> teardownPc[k] = "done"

\* What the comment on startJob says: "Starts and teardowns run one after another".  At
\* most one teardown is past its join().
TeardownsAreSerial ==
  \A j, k \in Teardowns :
    {teardownPc[j], teardownPc[k]} \cap {"none", "join", "done"} = {} => j = k

\* What the same comment concludes: "a quick stop/start cannot unbind or stop the session
\* that was just started".  The helpers that the stopEverything() of a start's failed
\* startTun2Socks() is about to kill are not those of a later session.
NewSessionIsSafe == \A s \in Sessions : startPc[s] = "kill" => pidFile <= s

\* What the comment in teardown() says of a cancelled start: "the service must be stopped
\* anyway".  Once things have settled after a cancellation, no TUN interface is open.
CancelledStartIsStopped == Quiet /\ ~isActive /\ cancelled # {} => iface = {}
=============================================================================
