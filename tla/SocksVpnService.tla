--------------------------- MODULE SocksVpnService ---------------------------
(***************************************************************************)
(* service/SocksVpnService.kt with the objects it owns: the TUN interface  *)
(* (VpnServiceController), the tun2socks and pdnsd helper processes        *)
(* (Tun2SocksLauncher), the speed notification and OpenFlux, the latter    *)
(* reduced to what its binder methods show (NativeProcessSupervisor models *)
(* the rest).  The module gives the service's methods as steps that the    *)
(* threads calling them take; TunnelsViewModel composes them.              *)
(*                                                                         *)
(* A service instance and a helper group carry the number of the session   *)
(* that created them.  pid files and the socket path belong to the app,    *)
(* not to an instance: instances share them.  0 is null.                   *)
(***************************************************************************)
EXTENDS Naturals

CONSTANT MaxStarts   \* bound on the number of sessions the user starts

Sessions == 1 .. MaxStarts

VARIABLES
  inst,        \* the service instance Android keeps, or 0
  started,     \* it was started and has not stopped itself
  bound,       \* the view model's connection is bound
  commanded,   \* an onStartCommand() is queued on the main thread
  connecting,  \* an onServiceConnected() is queued on the main thread
  iface,       \* instances whose TUN interface is open
  isRunning,   \* instances whose vpn.isRunning is set
  speed,       \* instances whose speed updater keeps reposting itself
  transport,   \* supervisor of each instance: "off", "starting" or "ready"
  nativeError, \* instances whose supervisor.error is set
  exitPosted,  \* instances with an onUnexpectedExit() in the looper
  exited,      \* NativeProcessExited events on their way to the view model
  helpers,     \* helper group of each session: "none", "waiting" (for the fd), "running", "dead"
  pidFile,     \* the group named by tun2socks.pid and pdnsd.pid, or 0
  sockPath     \* the group that listens on sock_path, or 0

android == <<inst, started, bound, commanded, connecting>>
tun == <<iface, isRunning, speed>>
openflux == <<transport, nativeError, exitPosted>>
files == <<helpers, pidFile, sockPath>>
serviceVars == <<android, tun, openflux, exited, files>>

ServiceTypeOK ==
  /\ inst \in 0 .. MaxStarts
  /\ started \in BOOLEAN /\ bound \in BOOLEAN /\ commanded \in BOOLEAN /\ connecting \in BOOLEAN
  /\ iface \subseteq Sessions /\ isRunning \subseteq Sessions /\ speed \subseteq Sessions
  /\ transport \in [Sessions -> {"off", "starting", "ready"}]
  /\ nativeError \subseteq Sessions /\ exitPosted \subseteq Sessions /\ exited \subseteq Sessions
  /\ helpers \in [Sessions -> {"none", "waiting", "running", "dead"}]
  /\ pidFile \in 0 .. MaxStarts /\ sockPath \in 0 .. MaxStarts

ServiceInit ==
  /\ inst = 0 /\ started = FALSE /\ bound = FALSE /\ commanded = FALSE /\ connecting = FALSE
  /\ iface = {} /\ isRunning = {} /\ speed = {}
  /\ transport = [i \in Sessions |-> "off"] /\ nativeError = {} /\ exitPosted = {} /\ exited = {}
  /\ helpers = [s \in Sessions |-> "none"] /\ pidFile = 0 /\ sockPath = 0

-----------------------------------------------------------------------------
\* External: startForegroundService() creates the instance if there is none.
StartForegroundService(s) ==
  /\ inst' = IF inst = 0 THEN s ELSE inst
  /\ started' = TRUE /\ commanded' = TRUE
  /\ UNCHANGED <<bound, connecting>>

\* External: bindService() with BIND_AUTO_CREATE.  A connection that is still bound is
\* not told a second time that it is connected.
BindService(s) ==
  /\ inst' = IF inst = 0 THEN s ELSE inst
  /\ bound' = TRUE /\ connecting' = (connecting \/ ~bound)
  /\ UNCHANGED <<started, commanded>>

\* External: unbindService(); no onServiceConnected() is delivered after it.
UnbindService ==
  /\ bound' = FALSE /\ connecting' = FALSE
  /\ UNCHANGED <<inst, started, commanded>>

\* tun2socks.stop(): whatever the shared pid files name is killed.
KillHelpers ==
  /\ helpers' = [s \in Sessions |-> IF s = pidFile THEN "dead" ELSE helpers[s]]
  /\ pidFile' = 0 /\ sockPath' = 0

\* vpn.configure(): an open interface is kept; establish() may return null.
Configure(i) == iface' \in {iface, iface \cup {i}}

\* vpn.stop()
CloseTun(i) == iface' = iface \ {i} /\ isRunning' = isRunning \ {i}

StartSpeedUpdates(i) == speed' = speed \cup {i}
StopSpeedUpdates(i) == speed' = speed \ {i}

SupervisorStop(i) == transport' = [transport EXCEPT ![i] = "off"]

\* stopEverything() is not synchronized.  Its first half waits for `kill`...
StopHelpers(i) ==
  /\ StopSpeedUpdates(i)
  /\ KillHelpers

\* ...its second half stops OpenFlux, closes the TUN interface and calls stopSelf(),
\* which does nothing for an instance that Android no longer keeps.
StopRest(i) ==
  /\ SupervisorStop(i)
  /\ CloseTun(i)
  /\ started' = (started /\ i # inst)

StopEverything(i) == StopHelpers(i) /\ StopRest(i)

-----------------------------------------------------------------------------
\* supervisor.start(): ignored while running; leftovers of every session are killed.
SupervisorStart(i) ==
  IF transport[i] # "off"
    THEN UNCHANGED <<openflux, files>>
    ELSE /\ transport' = [transport EXCEPT ![i] = "starting"]
         /\ nativeError' = nativeError \ {i}
         /\ helpers' = [s \in Sessions |-> IF helpers[s] = "none" THEN "none" ELSE "dead"]
         /\ UNCHANGED <<exitPosted, pidFile, sockPath>>

\* tun2socks.start(): pdnsd and tun2socks are executed for session s; tun2socks leaves
\* its pid and listens on the socket path, unless it dies at once.
ExecHelpers(s) ==
  \/ /\ helpers' = [helpers EXCEPT ![s] = "waiting"]
     /\ pidFile' = s /\ sockPath' = s
  \/ /\ helpers' = [helpers EXCEPT ![s] = "dead"]
     /\ UNCHANGED <<pidFile, sockPath>>

\* NativeBridge.sendfd() needs a listening tun2socks, anybody's, and an open TUN fd.
CanSendFd(i) == i \in iface /\ sockPath # 0 /\ helpers[sockPath] = "waiting"

SendFd == helpers' = [helpers EXCEPT ![sockPath] = "running"] /\ UNCHANGED <<pidFile, sockPath>>

-----------------------------------------------------------------------------
\* onStartCommand(), with the intent that startForegroundService() sent.
OnStartCommand ==
  /\ commanded /\ inst # 0
  /\ commanded' = FALSE
  /\ Configure(inst)
  /\ UNCHANGED <<inst, started, bound, connecting, isRunning, speed, openflux, exited, files>>

\* Mutant: onDestroy() leaves everything as it is.
OnDestroyLeaving ==
  /\ inst # 0 /\ ~started /\ ~bound /\ ~commanded
  /\ inst' = 0
  /\ UNCHANGED <<started, bound, commanded, connecting, tun, openflux, exited, files>>

\* onDestroy(), once nothing keeps the instance.
OnDestroy ==
  /\ inst # 0 /\ ~started /\ ~bound /\ ~commanded
  /\ inst' = 0
  /\ StopEverything(inst)
  /\ UNCHANGED <<bound, commanded, connecting, nativeError, exitPosted, exited>>

\* onRevoke(): another VPN took over, or the user withdrew the permission.
OnRevoke ==
  /\ inst \in iface
  /\ StopEverything(inst)
  /\ UNCHANGED <<inst, bound, commanded, connecting, nativeError, exitPosted, exited>>

\* The supervisor's callback: stop, then tell the view model.
OnUnexpectedExit(i) ==
  /\ i \in exitPosted
  /\ exitPosted' = exitPosted \ {i}
  /\ StopEverything(i)
  /\ exited' = exited \cup {i}
  /\ UNCHANGED <<inst, bound, commanded, connecting, nativeError>>

OpenFluxUp(i) ==
  /\ transport[i] = "starting"
  /\ transport' = [transport EXCEPT ![i] = "ready"]
  /\ UNCHANGED <<android, tun, nativeError, exitPosted, exited, files>>

\* OpenFlux dies, or does not come up in time: fail().
OpenFluxFails(i) ==
  /\ transport[i] # "off"
  /\ transport' = [transport EXCEPT ![i] = "off"]
  /\ nativeError' = nativeError \cup {i}
  /\ exitPosted' = exitPosted \cup {i}
  /\ UNCHANGED <<android, tun, exited, files>>

ServiceStep ==
  \/ OnStartCommand \/ OnDestroy \/ OnRevoke
  \/ \E i \in Sessions : OnUnexpectedExit(i) \/ OpenFluxUp(i) \/ OpenFluxFails(i)
=============================================================================
