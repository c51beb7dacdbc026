----------------------- MODULE NativeProcessSupervisor -----------------------
(***************************************************************************)
(* service/NativeProcessSupervisor.kt: the object that runs the OpenFlux   *)
(* client binary.  start() and stop() are called from several threads      *)
(* without a lock, every run has a watcher thread of its own, and failures *)
(* come back to the main looper as posted callbacks.                       *)
(*                                                                         *)
(* A run is a number, in the order in which start() passed its gate.  It   *)
(* stands for all that the run owns: its Process, its free TCP port, its   *)
(* key and its error message.  0 is null.  A step is one access to the     *)
(* shared fields, or adjacent writes that no other thread can tell apart   *)
(* from one.                                                               *)
(***************************************************************************)
EXTENDS Naturals

CONSTANTS
  Threads,   \* the threads that call start() and stop()
  Main,      \* the main thread, which also runs the looper's callbacks
  Starter,   \* the thread that calls start(): sessions are started one at a time
  MaxRuns    \* bound on the number of starts

Runs == 1 .. MaxRuns
NoRun == 0

ASSUME MaxRunsAssumption == MaxRuns \in Nat
ASSUME ThreadsAssumption == Main \in Threads /\ Starter \in Threads /\ Threads \cap Runs = {}

VARIABLES
  running, ready, shuttingDown,  \* the three AtomicBooleans
  process,     \* the run held in the field `process`
  socksPort,   \* the run whose port is in `socksPort`
  error,       \* the run whose failure is in `error`
  keyFile,     \* the run whose key is in openflux-encryption.key
  pc,          \* where each calling thread, and the watcher of each run, is
  proc,        \* the operating system's process of each run
  killPosted,  \* runs with a delayed destroyForcibly() in the looper
  posted,      \* runs with an onUnexpectedExit() in the looper
  why,         \* what each run's fail() was called for: its message
  cur,         \* the newest run
  raced,       \* history: runs whose start() overlapped some stop() in time
  released     \* history: runs still alive when stop() dropped their handle

flags == <<running, ready, shuttingDown>>
fields == <<process, socksPort, error, keyFile>>
os == <<proc, killPosted>>
log == <<posted, why>>
hist == <<cur, raced, released>>
vars == <<flags, fields, os, log, hist, pc>>

InStart == {"reset", "prepare", "spawn"}
InStop == {"destroy", "clear"}
InFail == {"fail", "flags", "report"}
InWatch == {"check", "probe", "up", "key", "wait"}

Alive(r) == proc[r] \in {"booting", "listening"}

TypeOK ==
  /\ running \in BOOLEAN /\ ready \in BOOLEAN /\ shuttingDown \in BOOLEAN
  /\ cur \in 0 .. MaxRuns
  /\ process \in 0 .. cur /\ socksPort \in 0 .. cur
  /\ error \in 0 .. cur /\ keyFile \in 0 .. cur
  /\ pc \in [Threads \cup Runs -> {"idle", "stop"} \cup InStart \cup InStop \cup InFail \cup InWatch]
  /\ proc \in [Runs -> {"none", "booting", "listening", "dead"}]
  /\ why \in [Runs -> {"none", "spawn", "timeout", "exit"}]
  /\ killPosted \subseteq Runs /\ posted \subseteq Runs
  /\ raced \subseteq Runs /\ released \subseteq Runs

Init ==
  /\ running = FALSE /\ ready = FALSE /\ shuttingDown = FALSE
  /\ process = NoRun /\ socksPort = NoRun /\ error = NoRun /\ keyFile = NoRun
  /\ pc = [a \in Threads \cup Runs |-> "idle"]
  /\ proc = [r \in Runs |-> "none"]
  /\ why = [r \in Runs |-> "none"]
  /\ killPosted = {} /\ posted = {}
  /\ cur = 0 /\ raced = {} /\ released = {}

Goto(a, from, to) == pc[a] = from /\ pc' = [pc EXCEPT ![a] = to]

-----------------------------------------------------------------------------
\* start(): running.getAndSet(true) lets one caller in and turns the others away.
StartGate ==
  /\ Goto(Starter, "idle", "reset")
  /\ ~running
  /\ cur < MaxRuns
  /\ running' = TRUE
  /\ cur' = cur + 1
  /\ raced' = IF \E t \in Threads : pc[t] \in InStop THEN raced \cup {cur + 1} ELSE raced
  /\ UNCHANGED <<ready, shuttingDown, fields, os, log, released>>

StartReset ==
  /\ Goto(Starter, "reset", "prepare")
  /\ shuttingDown' = FALSE /\ ready' = FALSE /\ error' = NoRun
  /\ UNCHANGED <<running, process, socksPort, keyFile, os, log, hist>>

\* Mutant: leftovers survive.
KillStaleNot == UNCHANGED proc

\* StaleProcesses.kill() SIGKILLs whatever runs one of the app's native binaries.
KillStale == proc' = [r \in Runs |-> IF Alive(r) THEN "dead" ELSE proc[r]]

\* Mutant: the port of the run after this one.
StartPrepareOffByOne ==
  /\ Goto(Starter, "prepare", "spawn")
  /\ KillStale
  /\ socksPort' = cur + 1
  /\ keyFile' \in {keyFile, cur}
  /\ UNCHANGED <<flags, process, error, killPosted, log, hist>>

\* Leftovers are killed, a port is chosen, and the key is written if the tunnel has one.
StartPrepare ==
  /\ Goto(Starter, "prepare", "spawn")
  /\ KillStale
  /\ socksPort' = cur
  /\ keyFile' \in {keyFile, cur}
  /\ UNCHANGED <<flags, process, error, killPosted, log, hist>>

StartSpawn ==
  /\ pc[Starter] = "spawn"
  /\ pc' = [pc EXCEPT ![Starter] = "idle", ![cur] = "check"]
  /\ proc' = [proc EXCEPT ![cur] = "booting"]
  /\ process' = cur
  /\ UNCHANGED <<flags, socksPort, error, keyFile, killPosted, log, hist>>

\* The try block throws, before a port was found or later: fail() on the starting thread.
StartNoPort ==
  /\ Goto(Starter, "prepare", "fail")
  /\ KillStale
  /\ why' = [why EXCEPT ![cur] = "spawn"]
  /\ UNCHANGED <<flags, fields, killPosted, posted, hist>>

StartThrow ==
  /\ Goto(Starter, "spawn", "fail")
  /\ why' = [why EXCEPT ![cur] = "spawn"]
  /\ UNCHANGED <<flags, fields, os, posted, hist>>

-----------------------------------------------------------------------------
\* Mutant: SIGTERM only.
DestroyGently(r) == UNCHANGED killPosted

\* destroy(p): SIGTERM now, destroyForcibly() from the looper after STOP_GRACE_MS.
Destroy(r) == killPosted' = killPosted \cup {s \in Runs : s = r /\ Alive(s)}

\* stop(): any thread, at any time.
StopFlags(t) ==
  /\ pc[t] \in {"idle", "stop"}
  /\ pc' = [pc EXCEPT ![t] = "destroy"]
  /\ shuttingDown' = TRUE /\ ready' = FALSE /\ running' = FALSE
  /\ raced' = IF pc[Starter] \in InStart THEN raced \cup {cur} ELSE raced
  /\ UNCHANGED <<fields, os, log, cur, released>>

StopDestroy(t) ==
  /\ Goto(t, "destroy", "clear")
  /\ Destroy(process)
  /\ UNCHANGED <<flags, fields, proc, log, hist>>

StopClear(t) ==
  /\ Goto(t, "clear", "idle")
  /\ process' = NoRun
  /\ keyFile' = NoRun
  /\ released' = released \cup {r \in Runs : r = process /\ Alive(r)}
  /\ UNCHANGED <<flags, socksPort, error, os, log, cur, raced>>

-----------------------------------------------------------------------------
\* watch(p, output): while (!shuttingDown.get() && p.isAlive)
WatchCheck(r) ==
  /\ Goto(r, "check", IF ~shuttingDown /\ Alive(r) THEN "probe" ELSE "wait")
  /\ UNCHANGED <<flags, fields, os, log, hist>>

\* canConnect(socksPort) reads the shared field: a watcher that outlives its run
\* probes the port of the newest one.
PortOpen == socksPort \in Runs /\ proc[socksPort] = "listening"

WatchProbe(r) ==
  /\ Goto(r, "probe", IF PortOpen THEN "up" ELSE "check")
  /\ UNCHANGED <<flags, fields, os, log, hist>>

\* Mutant: no deadline.
WatchExpireNever(r) == FALSE

\* elapsedRealtime() > deadline after a failed probe.
WatchExpire(r) ==
  /\ ~PortOpen
  /\ Goto(r, "probe", "fail")
  /\ why' = [why EXCEPT ![r] = "timeout"]
  /\ UNCHANGED <<flags, fields, os, posted, hist>>

WatchReady(r) ==
  /\ Goto(r, "up", "key")
  /\ ready' = TRUE
  /\ UNCHANGED <<running, shuttingDown, fields, os, log, hist>>

\* Mutant: the key is left on disk.
WatchDeleteKeyNot(r) ==
  /\ Goto(r, "key", "wait")
  /\ UNCHANGED <<flags, fields, os, log, hist>>

WatchDeleteKey(r) ==
  /\ Goto(r, "key", "wait")
  /\ keyFile' = NoRun
  /\ UNCHANGED <<flags, process, socksPort, error, os, log, hist>>

\* Mutant: the check of the process is dropped.
ExitIsExpectedAnyProcess(r) == shuttingDown

\* if (shuttingDown.get() || process !== p) return
ExitIsExpected(r) == shuttingDown \/ process # r

\* p.waitFor() returns; an unexpected exit waits for the output reader, then fails.
WatchExit(r) ==
  /\ proc[r] = "dead"
  /\ Goto(r, "wait", IF ExitIsExpected(r) THEN "idle" ELSE "fail")
  /\ why' = IF ExitIsExpected(r) THEN why ELSE [why EXCEPT ![r] = "exit"]
  /\ UNCHANGED <<flags, fields, os, posted, hist>>

-----------------------------------------------------------------------------
\* fail(message) on the watcher of a run, or on the starter for the newest run.
RunOf(a) == IF a \in Runs THEN a ELSE cur

FailError(a) ==
  /\ Goto(a, "fail", "flags")
  /\ error' = RunOf(a)
  /\ UNCHANGED <<flags, process, socksPort, keyFile, os, log, hist>>

FailFlags(a) ==
  /\ Goto(a, "flags", "report")
  /\ ready' = FALSE /\ running' = FALSE
  /\ UNCHANGED <<shuttingDown, fields, os, log, hist>>

\* Mutant: the callback is posted only while `running` is still set.
FailReportIfRunning(a) ==
  /\ Goto(a, "report", "idle")
  /\ keyFile' = NoRun
  /\ posted' = IF running THEN posted \cup {RunOf(a)} ELSE posted
  /\ Destroy(a)
  /\ UNCHANGED <<flags, process, socksPort, error, proc, why, hist>>

\* deleteKey(); the callback is posted unless a stop() is under way; a watcher that
\* gave up waiting also destroys its process.
FailReport(a) ==
  /\ Goto(a, "report", "idle")
  /\ keyFile' = NoRun
  /\ posted' = IF shuttingDown THEN posted ELSE posted \cup {RunOf(a)}
  /\ Destroy(a)
  /\ UNCHANGED <<flags, process, socksPort, error, proc, why, hist>>

-----------------------------------------------------------------------------
\* The looper runs onUnexpectedExit(): the service answers it with stopEverything(),
\* so the main thread goes on into stop().
OnUnexpectedExit(r) ==
  /\ r \in posted
  /\ Goto(Main, "idle", "stop")
  /\ posted' = posted \ {r}
  /\ UNCHANGED <<flags, fields, os, why, hist>>

ForceKill(r) ==
  /\ pc[Main] = "idle"
  /\ r \in killPosted
  /\ killPosted' = killPosted \ {r}
  /\ proc' = [proc EXCEPT ![r] = "dead"]
  /\ UNCHANGED <<flags, fields, log, hist, pc>>

\* External: the binary opens its SOCKS5 port.
Listen(r) ==
  /\ proc[r] = "booting"
  /\ proc' = [proc EXCEPT ![r] = "listening"]
  /\ UNCHANGED <<flags, fields, killPosted, log, hist, pc>>

\* External: the binary exits, by itself or on SIGTERM.
Exit(r) ==
  /\ Alive(r)
  /\ proc' = [proc EXCEPT ![r] = "dead"]
  /\ UNCHANGED <<flags, fields, killPosted, log, hist, pc>>

-----------------------------------------------------------------------------
StartStep == StartReset \/ StartPrepare \/ StartNoPort \/ StartSpawn \/ StartThrow
StopStep(t) == StopFlags(t) \/ StopDestroy(t) \/ StopClear(t)
WatchStep(r) ==
  \/ WatchCheck(r) \/ WatchProbe(r) \/ WatchExpire(r)
  \/ WatchReady(r) \/ WatchDeleteKey(r) \/ WatchExit(r)
FailStep(a) == FailError(a) \/ FailFlags(a) \/ FailReport(a)
LooperStep(r) == OnUnexpectedExit(r) \/ ForceKill(r)

Next ==
  \/ StartGate
  \/ StartStep
  \/ \E t \in Threads : StopStep(t)
  \/ \E a \in Runs \cup {Starter} : FailStep(a)
  \/ \E r \in Runs : WatchStep(r) \/ LooperStep(r) \/ Listen(r) \/ Exit(r)

\* A thread inside a method keeps running, the looper delivers what was posted, and
\* the clock reaches a watcher's deadline.  Nobody has to call start() or stop(), and
\* OpenFlux has to neither come up nor exit.
Fairness ==
  /\ WF_vars(StartStep)
  /\ \A t \in Threads : WF_vars(pc[t] # "idle" /\ StopStep(t))
  /\ \A a \in Runs \cup {Starter} : WF_vars(FailStep(a))
  /\ \A r \in Runs : WF_vars(WatchStep(r)) /\ SF_vars(WatchExpire(r))
  /\ \A r \in Runs : SF_vars(OnUnexpectedExit(r)) /\ SF_vars(ForceKill(r))

Spec == Init /\ [][Next]_vars

FairSpec == Spec /\ Fairness

-----------------------------------------------------------------------------
(***************************************************************************)
(* Properties                                                              *)
(***************************************************************************)

\* At most one OpenFlux process lives at any time, even if an earlier stop() lost the
\* handle of its process to a racing start(): StaleProcesses.kill() in start() makes
\* up for it.
AtMostOneOpenFlux ==
  \A r, s \in Runs : Alive(r) /\ Alive(s) => r = s

\* A live process whose start() overlapped no stop() is never forgotten: the field
\* `process` still holds it, or its forcible kill is queued in the looper.
NoOrphan ==
  \A r \in Runs \ raced : Alive(r) => process = r \/ r \in killPosted

\* A run that stop() let go of alive never raises the "OpenFlux exited" alarm, not even
\* when it dies after a later start() has cleared shuttingDown again.
SilentAfterRelease ==
  \A r \in released : why[r] # "exit"

\* The key is on disk only while someone who deletes it is on the way: a fail() or a
\* stop(), start() itself, or the watcher of the newest run before it has seen the port
\* open or while it is about to see an unexpected exit.
KeyIsGuarded ==
  keyFile \in Runs \ raced =>
    \/ \E a \in Threads \cup Runs : pc[a] \in InStop \cup InFail
    \/ pc[Starter] \in InStart
    \/ pc[cur] \in {"check", "probe", "up", "key"}
    \/ pc[cur] = "wait" /\ proc[cur] = "dead" /\ ~ExitIsExpected(cur)

\* The key does not stay on disk: whether OpenFlux comes up, hangs or dies, the key of a
\* run that no stop() raced is deleted in the end.
KeyIsDeleted ==
  \A r \in Runs : (keyFile = r /\ r \notin raced) ~> (keyFile # r)

\* "The service gives OpenFlux 45 s to open its SOCKS5 port and reports failures itself":
\* a spawned run comes up, is reported as failed or is stopped.
StartHasVerdict ==
  \A r \in Runs : (process = r /\ r \notin raced) ~> (ready \/ error = r \/ process # r)

\* When the current OpenFlux process dies, its handle is given up: some stop() takes
\* place, through the callback if nobody else asks for it ("Without OpenFlux the VPN
\* would silently blackhole all traffic").  Runs that a stop() raced are excepted.
DeathIsHandled ==
  \A r \in Runs : (process = r /\ proc[r] = "dead" /\ r \notin raced) ~> (process # r)

lives == [r \in Runs |-> IF Alive(r) THEN "alive" ELSE proc[r]]
Lives == INSTANCE ProcessLives WITH life <- lives

\* The processes live one at a time and in order: start() launches a run only after all
\* earlier ones are dead, launches none twice, and the single SIGKILL sweep of
\* StaleProcesses.kill() never has to end more than one.
ImplementsLives == Lives!LivesSpec

\* What the doc comment of `error` says, once start() is past its reset: an error is
\* that of the last run.
ErrorIsOfLastRun ==
  error # NoRun /\ pc[Starter] # "reset" => error = cur
=============================================================================
