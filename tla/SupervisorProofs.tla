-------------------------- MODULE SupervisorProofs --------------------------
(***************************************************************************)
(* The safety invariants of NativeProcessSupervisor, for any set of        *)
(* calling threads and any number of starts.                               *)
(***************************************************************************)
EXTENDS NativeProcessSupervisor, TLAPS

Starting == pc[Starter] \in InStart
Stopping == \E t \in Threads : pc[t] \in InStop

\* Which methods each kind of thread can be inside of.
Roles ==
  /\ \A t \in Threads \ {Starter} : pc[t] \in {"idle", "stop"} \cup InStop
  /\ pc[Starter] \in {"idle", "stop"} \cup InStart \cup InStop \cup InFail
  /\ \A r \in Runs : pc[r] \in {"idle"} \cup InFail \cup InWatch

\* A run that start() has not spawned has no process, no watcher and no history.
Unspawned ==
  /\ \A r \in Runs : r > cur \/ (r = cur /\ pc[Starter] \in InStart \cup InFail)
                       => proc[r] = "none" /\ pc[r] = "idle"
  /\ pc[Starter] \in InStart \cup InFail => cur \in Runs
  /\ process # NoRun => proc[process] # "none"
  /\ \A r \in killPosted \cup released : proc[r] # "none"

\* Between StaleProcesses.kill() and the spawn nothing is alive.
CleanSlate == pc[Starter] = "spawn" => \A r \in Runs : ~Alive(r)

\* A stop() that is under way during a start() has marked the run as raced.
RacesAreMarked ==
  /\ Starting /\ Stopping => cur \in raced
  /\ pc[Starter] \in {"prepare", "spawn"} /\ shuttingDown => cur \in raced

\* A stop() about to clear the handle of a live run has queued its kill.
ClearAfterKill ==
  \A t \in Threads : pc[t] = "clear" =>
    \A r \in Runs \ raced : process = r /\ Alive(r) => r \in killPosted

\* A released run does not get its handle back; an exit alarm is for a dead process.
Released ==
  /\ \A r \in released : process # r
  /\ \A r \in Runs : why[r] = "exit" => proc[r] = "dead"

\* While a key is on disk, a completed stop() cannot have come after it, and the newest
\* run still has its handle.
KeyIsFresh ==
  keyFile \in Runs =>
    /\ keyFile \notin raced /\ shuttingDown => Stopping
    /\ cur \in Runs /\ pc[cur] \in InWatch /\ ~Starting => process = cur

IInv ==
  /\ TypeOK /\ Roles /\ Unspawned /\ CleanSlate /\ RacesAreMarked /\ ClearAfterKill
  /\ Released /\ KeyIsFresh
  /\ AtMostOneOpenFlux /\ NoOrphan /\ SilentAfterRelease /\ KeyIsGuarded

-----------------------------------------------------------------------------
\* The invariant holds initially: no thread is inside a method and there is no run.
LEMMA InitIInv == Init => IInv
<1> SUFFICES ASSUME Init PROVE IInv
  OBVIOUS
<1> USE MaxRunsAssumption, ThreadsAssumption
    DEF Init, Runs, NoRun, Alive, InStart, InStop, InFail, InWatch, Starting, Stopping
<1>1. running \in BOOLEAN /\ ready \in BOOLEAN /\ shuttingDown \in BOOLEAN
  BY Zenon
<1>2. TypeOK
  BY <1>1 DEF TypeOK
<1>3. Roles /\ Unspawned /\ CleanSlate /\ RacesAreMarked /\ ClearAfterKill
  BY DEF Roles, Unspawned, CleanSlate, RacesAreMarked, ClearAfterKill
<1>4. Released /\ KeyIsFresh
  BY DEF Released, KeyIsFresh
<1>5. AtMostOneOpenFlux /\ NoOrphan /\ SilentAfterRelease /\ KeyIsGuarded
  BY DEF AtMostOneOpenFlux, NoOrphan, SilentAfterRelease, KeyIsGuarded
<1> QED
  BY <1>2, <1>3, <1>4, <1>5 DEF IInv

\* Every step of start(), stop(), watch(), fail(), the looper and OpenFlux preserves it.
LEMMA NextIInv == IInv /\ [Next]_vars => IInv'
<1> SUFFICES ASSUME IInv, [Next]_vars PROVE IInv'
  OBVIOUS
<1> USE MaxRunsAssumption, ThreadsAssumption
    DEF IInv, flags, fields, os, log, hist, Goto, Runs, NoRun, Alive, InStart, InStop, InFail,
        InWatch, Starting, Stopping, ExitIsExpected
<1>1. ASSUME StartGate PROVE IInv'
  <2>1. TypeOK'
    BY <1>1 DEF StartGate, TypeOK, Unspawned
  <2>2. Roles' /\ Unspawned'
    BY <1>1 DEF StartGate, TypeOK, Roles, Unspawned
  <2>3. CleanSlate' /\ RacesAreMarked' /\ ClearAfterKill'
    BY <1>1 DEF StartGate, TypeOK, CleanSlate, RacesAreMarked, ClearAfterKill
  <2>4. Released' /\ KeyIsFresh'
    BY <1>1 DEF StartGate, TypeOK, Released, KeyIsFresh
  <2>5. AtMostOneOpenFlux' /\ NoOrphan' /\ SilentAfterRelease' /\ KeyIsGuarded'
    BY <1>1 DEF StartGate, TypeOK, AtMostOneOpenFlux, NoOrphan,
        SilentAfterRelease, KeyIsGuarded
  <2> QED
    BY <2>1, <2>2, <2>3, <2>4, <2>5
<1>2. ASSUME StartReset PROVE IInv'
  <2>1. (running \in BOOLEAN /\ ready \in BOOLEAN /\ shuttingDown \in BOOLEAN)'
    BY <1>2, Zenon DEF StartReset, TypeOK
  <2>2. TypeOK'
    BY <1>2, <2>1 DEF StartReset, TypeOK
  <2>3. Roles'
    BY <1>2 DEF StartReset, TypeOK, Roles
  <2>4. Unspawned' /\ CleanSlate' /\ RacesAreMarked' /\ ClearAfterKill' /\ Released' /\ KeyIsFresh'
    BY <1>2 DEF StartReset, Unspawned, CleanSlate, RacesAreMarked, ClearAfterKill, Released,
        KeyIsFresh
  <2>5. AtMostOneOpenFlux' /\ NoOrphan' /\ SilentAfterRelease' /\ KeyIsGuarded'
    BY <1>2 DEF StartReset, AtMostOneOpenFlux, NoOrphan, SilentAfterRelease, KeyIsGuarded
  <2> QED
    BY <2>1, <2>2, <2>3, <2>4, <2>5
<1>3. ASSUME StartPrepare PROVE IInv'
  <2>1. TypeOK'
    BY <1>3 DEF StartPrepare, KillStale, TypeOK, Unspawned
  <2>2. Roles' /\ Unspawned'
    BY <1>3 DEF StartPrepare, KillStale, TypeOK, Roles, Unspawned
  <2>3. CleanSlate' /\ RacesAreMarked' /\ ClearAfterKill'
    BY <1>3 DEF StartPrepare, KillStale, TypeOK, CleanSlate, RacesAreMarked, ClearAfterKill
  <2>4. Released' /\ KeyIsFresh'
    BY <1>3 DEF StartPrepare, KillStale, TypeOK, Unspawned, RacesAreMarked, Released, KeyIsFresh
  <2>5. AtMostOneOpenFlux' /\ NoOrphan' /\ SilentAfterRelease' /\ KeyIsGuarded'
    BY <1>3 DEF StartPrepare, KillStale, TypeOK, AtMostOneOpenFlux, NoOrphan,
        SilentAfterRelease, KeyIsGuarded
  <2> QED
    BY <2>1, <2>2, <2>3, <2>4, <2>5
<1>4. ASSUME StartNoPort PROVE IInv'
  <2>1. TypeOK'
    BY <1>4 DEF StartNoPort, KillStale, TypeOK, Unspawned
  <2>2. Roles' /\ Unspawned'
    BY <1>4 DEF StartNoPort, KillStale, TypeOK, Roles, Unspawned
  <2>3. CleanSlate' /\ RacesAreMarked' /\ ClearAfterKill'
    BY <1>4 DEF StartNoPort, KillStale, TypeOK, CleanSlate, RacesAreMarked, ClearAfterKill
  <2>4. Released' /\ KeyIsFresh'
    BY <1>4 DEF StartNoPort, KillStale, TypeOK, Unspawned, RacesAreMarked, Released, KeyIsFresh
  <2>5. AtMostOneOpenFlux' /\ NoOrphan' /\ SilentAfterRelease' /\ KeyIsGuarded'
    BY <1>4 DEF StartNoPort, KillStale, TypeOK, AtMostOneOpenFlux, NoOrphan,
        SilentAfterRelease, KeyIsGuarded
  <2> QED
    BY <2>1, <2>2, <2>3, <2>4, <2>5
<1>5. ASSUME StartSpawn PROVE IInv'
  <2>1. TypeOK'
    BY <1>5 DEF StartSpawn, TypeOK, Unspawned
  <2>2. Roles'
    <3>1. Starter \notin Runs /\ cur \in Runs /\ cur # Starter
      BY <1>5 DEF StartSpawn, Unspawned
    <3>2. \A a \in Threads \cup Runs : pc'[a] =
            IF a = Starter THEN "idle" ELSE IF a = cur THEN "check" ELSE pc[a]
      BY <1>5, <3>1 DEF StartSpawn, TypeOK
    <3> QED
      BY <3>1, <3>2 DEF Roles
  <2>3. Unspawned'
    BY <1>5, SMTT(30) DEF StartSpawn, TypeOK, Unspawned, Released
  <2>4. CleanSlate' /\ RacesAreMarked' /\ ClearAfterKill' /\ Released'
    BY <1>5 DEF StartSpawn, TypeOK, Unspawned, CleanSlate, RacesAreMarked, ClearAfterKill,
        Released
  <2>5. KeyIsFresh'
    BY <1>5 DEF StartSpawn, TypeOK, KeyIsFresh
  <2>6. AtMostOneOpenFlux' /\ NoOrphan' /\ SilentAfterRelease'
    BY <1>5 DEF StartSpawn, CleanSlate, AtMostOneOpenFlux, NoOrphan, SilentAfterRelease
  <2>7. KeyIsGuarded'
    BY <1>5 DEF StartSpawn, TypeOK, KeyIsGuarded
  <2> QED
    BY <2>1, <2>2, <2>3, <2>4, <2>5, <2>6, <2>7
<1>6. ASSUME StartThrow PROVE IInv'
  <2>1. TypeOK'
    BY <1>6 DEF StartThrow, TypeOK, Unspawned
  <2>2. Roles' /\ Unspawned'
    BY <1>6 DEF StartThrow, TypeOK, Roles, Unspawned
  <2>3. CleanSlate' /\ RacesAreMarked' /\ ClearAfterKill'
    BY <1>6 DEF StartThrow, TypeOK, CleanSlate, RacesAreMarked, ClearAfterKill
  <2>4. Released' /\ KeyIsFresh'
    BY <1>6 DEF StartThrow, TypeOK, Unspawned, RacesAreMarked, Released, KeyIsFresh
  <2>5. AtMostOneOpenFlux' /\ NoOrphan' /\ SilentAfterRelease' /\ KeyIsGuarded'
    BY <1>6 DEF StartThrow, TypeOK, AtMostOneOpenFlux, NoOrphan,
        SilentAfterRelease, KeyIsGuarded
  <2> QED
    BY <2>1, <2>2, <2>3, <2>4, <2>5
<1>7. ASSUME NEW t \in Threads, StopFlags(t) PROVE IInv'
  <2>1. (running \in BOOLEAN /\ ready \in BOOLEAN /\ shuttingDown \in BOOLEAN)'
    BY <1>7, Zenon DEF StopFlags, TypeOK
  <2>2. TypeOK'
    BY <1>7, <2>1 DEF StopFlags, TypeOK, Unspawned
  <2>3. Roles' /\ Unspawned'
    BY <1>7 DEF StopFlags, TypeOK, Roles, Unspawned
  <2>4. CleanSlate' /\ RacesAreMarked' /\ ClearAfterKill' /\ Released'
    BY <1>7 DEF StopFlags, CleanSlate, RacesAreMarked, ClearAfterKill, Released
  <2>5. KeyIsFresh'
    BY <1>7 DEF StopFlags, TypeOK, KeyIsFresh
  <2>6. AtMostOneOpenFlux' /\ NoOrphan' /\ SilentAfterRelease'
    BY <1>7 DEF StopFlags, AtMostOneOpenFlux, NoOrphan, SilentAfterRelease
  <2>7. KeyIsGuarded'
    BY <1>7 DEF StopFlags, TypeOK, KeyIsGuarded
  <2> QED
    BY <2>1, <2>2, <2>3, <2>4, <2>5, <2>6, <2>7
<1>8. ASSUME NEW t \in Threads, StopDestroy(t) PROVE IInv'
  <2>1. TypeOK' /\ Roles' /\ Unspawned'
    BY <1>8, Zenon DEF StopDestroy, Destroy, TypeOK, Roles, Unspawned
  <2>2. CleanSlate' /\ RacesAreMarked' /\ ClearAfterKill' /\ Released'
    BY <1>8 DEF StopDestroy, Destroy, CleanSlate, RacesAreMarked, ClearAfterKill, Released
  <2>3. KeyIsFresh'
    BY <1>8 DEF StopDestroy, Destroy, KeyIsFresh
  <2>4. AtMostOneOpenFlux' /\ NoOrphan' /\ SilentAfterRelease'
    BY <1>8 DEF StopDestroy, Destroy, AtMostOneOpenFlux, NoOrphan, SilentAfterRelease
  <2>5. KeyIsGuarded'
    BY <1>8 DEF StopDestroy, Destroy, KeyIsGuarded
  <2> QED
    BY <2>1, <2>2, <2>3, <2>4, <2>5
<1>9. ASSUME NEW t \in Threads, StopClear(t) PROVE IInv'
  <2>1. (running \in BOOLEAN /\ ready \in BOOLEAN /\ shuttingDown \in BOOLEAN)'
    BY <1>9, Zenon DEF StopClear, TypeOK
  <2>2. (pc \in [Threads \cup Runs -> {"idle", "stop"} \cup InStart \cup InStop \cup InFail \cup InWatch])'
    BY <1>9 DEF StopClear, TypeOK
  <2>3. (released \subseteq Runs)'
    BY <1>9, Zenon DEF StopClear, TypeOK
  <2>4. TypeOK'
    BY <1>9, <2>1, <2>2, <2>3 DEF StopClear, TypeOK
  <2>5. Roles' /\ Unspawned'
    BY <1>9 DEF StopClear, TypeOK, Roles, Unspawned
  <2>6. CleanSlate' /\ RacesAreMarked' /\ ClearAfterKill' /\ Released'
    BY <1>9 DEF StopClear, TypeOK, CleanSlate, RacesAreMarked, ClearAfterKill, Released
  <2>7. KeyIsFresh'
    BY <1>9 DEF StopClear, KeyIsFresh
  <2>8. AtMostOneOpenFlux' /\ NoOrphan' /\ SilentAfterRelease'
    BY <1>9 DEF StopClear, ClearAfterKill, Released, AtMostOneOpenFlux, NoOrphan,
        SilentAfterRelease
  <2>9. KeyIsGuarded'
    BY <1>9 DEF StopClear, KeyIsGuarded
  <2> QED
    BY <2>1, <2>2, <2>3, <2>4, <2>5, <2>6, <2>7, <2>8, <2>9
<1>10. ASSUME NEW r \in Runs, WatchCheck(r) PROVE IInv'
  <2>1. TypeOK'
    BY <1>10 DEF WatchCheck, TypeOK, Unspawned
  <2>2. Roles' /\ Unspawned'
    BY <1>10 DEF WatchCheck, TypeOK, Roles, Unspawned
  <2>3. CleanSlate' /\ RacesAreMarked' /\ ClearAfterKill'
    BY <1>10 DEF WatchCheck, TypeOK, CleanSlate, RacesAreMarked, ClearAfterKill
  <2>4. Released' /\ KeyIsFresh'
    BY <1>10 DEF WatchCheck, TypeOK, Released, KeyIsFresh
  <2>5. AtMostOneOpenFlux' /\ NoOrphan' /\ SilentAfterRelease'
    BY <1>10 DEF WatchCheck, TypeOK, AtMostOneOpenFlux, NoOrphan, SilentAfterRelease
  <2>6. KeyIsGuarded'
    BY <1>10 DEF WatchCheck, TypeOK, Unspawned, KeyIsFresh, KeyIsGuarded
  <2> QED
    BY <2>1, <2>2, <2>3, <2>4, <2>5, <2>6
<1>11. ASSUME NEW r \in Runs, WatchProbe(r) PROVE IInv'
  <2>1. TypeOK'
    BY <1>11 DEF WatchProbe, PortOpen, TypeOK, Unspawned
  <2>2. Roles' /\ Unspawned'
    BY <1>11 DEF WatchProbe, PortOpen, TypeOK, Roles, Unspawned
  <2>3. CleanSlate' /\ RacesAreMarked' /\ ClearAfterKill'
    BY <1>11 DEF WatchProbe, PortOpen, TypeOK, CleanSlate, RacesAreMarked, ClearAfterKill
  <2>4. Released' /\ KeyIsFresh'
    BY <1>11 DEF WatchProbe, PortOpen, TypeOK, Released, KeyIsFresh
  <2>5. AtMostOneOpenFlux' /\ NoOrphan' /\ SilentAfterRelease' /\ KeyIsGuarded'
    BY <1>11 DEF WatchProbe, PortOpen, TypeOK, AtMostOneOpenFlux, NoOrphan,
        SilentAfterRelease, KeyIsGuarded
  <2> QED
    BY <2>1, <2>2, <2>3, <2>4, <2>5
<1>12. ASSUME NEW r \in Runs, WatchExpire(r) PROVE IInv'
  <2>1. TypeOK'
    BY <1>12 DEF WatchExpire, PortOpen, TypeOK, Unspawned
  <2>2. Roles' /\ Unspawned'
    BY <1>12 DEF WatchExpire, PortOpen, TypeOK, Roles, Unspawned
  <2>3. CleanSlate' /\ RacesAreMarked' /\ ClearAfterKill'
    BY <1>12 DEF WatchExpire, PortOpen, TypeOK, CleanSlate, RacesAreMarked, ClearAfterKill
  <2>4. Released' /\ KeyIsFresh'
    BY <1>12 DEF WatchExpire, PortOpen, TypeOK, Released, KeyIsFresh
  <2>5. AtMostOneOpenFlux' /\ NoOrphan' /\ SilentAfterRelease' /\ KeyIsGuarded'
    BY <1>12 DEF WatchExpire, PortOpen, TypeOK, AtMostOneOpenFlux, NoOrphan,
        SilentAfterRelease, KeyIsGuarded
  <2> QED
    BY <2>1, <2>2, <2>3, <2>4, <2>5
<1>13. ASSUME NEW r \in Runs, WatchReady(r) PROVE IInv'
  <2>1. TypeOK'
    BY <1>13 DEF WatchReady, TypeOK, Unspawned
  <2>2. Roles' /\ Unspawned'
    BY <1>13 DEF WatchReady, TypeOK, Roles, Unspawned
  <2>3. CleanSlate' /\ RacesAreMarked' /\ ClearAfterKill'
    BY <1>13 DEF WatchReady, TypeOK, CleanSlate, RacesAreMarked, ClearAfterKill
  <2>4. Released' /\ KeyIsFresh'
    BY <1>13 DEF WatchReady, TypeOK, Released, KeyIsFresh
  <2>5. AtMostOneOpenFlux' /\ NoOrphan' /\ SilentAfterRelease' /\ KeyIsGuarded'
    BY <1>13 DEF WatchReady, TypeOK, AtMostOneOpenFlux, NoOrphan,
        SilentAfterRelease, KeyIsGuarded
  <2> QED
    BY <2>1, <2>2, <2>3, <2>4, <2>5
<1>14. ASSUME NEW r \in Runs, WatchDeleteKey(r) PROVE IInv'
  <2>1. TypeOK'
    BY <1>14 DEF WatchDeleteKey, TypeOK, Unspawned
  <2>2. Roles' /\ Unspawned'
    BY <1>14 DEF WatchDeleteKey, TypeOK, Roles, Unspawned
  <2>3. CleanSlate' /\ RacesAreMarked' /\ ClearAfterKill'
    BY <1>14 DEF WatchDeleteKey, TypeOK, CleanSlate, RacesAreMarked, ClearAfterKill
  <2>4. Released' /\ KeyIsFresh'
    BY <1>14 DEF WatchDeleteKey, TypeOK, Released, KeyIsFresh
  <2>5. AtMostOneOpenFlux' /\ NoOrphan' /\ SilentAfterRelease' /\ KeyIsGuarded'
    BY <1>14 DEF WatchDeleteKey, TypeOK, AtMostOneOpenFlux, NoOrphan,
        SilentAfterRelease, KeyIsGuarded
  <2> QED
    BY <2>1, <2>2, <2>3, <2>4, <2>5
<1>15. ASSUME NEW r \in Runs, WatchExit(r) PROVE IInv'
  <2>1. TypeOK'
    BY <1>15 DEF WatchExit, TypeOK, Unspawned
  <2>2. Roles' /\ Unspawned'
    BY <1>15 DEF WatchExit, TypeOK, Roles, Unspawned
  <2>3. CleanSlate' /\ RacesAreMarked' /\ ClearAfterKill'
    BY <1>15 DEF WatchExit, TypeOK, CleanSlate, RacesAreMarked, ClearAfterKill
  <2>4. Released' /\ KeyIsFresh'
    BY <1>15 DEF WatchExit, TypeOK, Released, KeyIsFresh
  <2>5. AtMostOneOpenFlux' /\ NoOrphan' /\ SilentAfterRelease' /\ KeyIsGuarded'
    BY <1>15 DEF WatchExit, TypeOK, KeyIsFresh, Released, AtMostOneOpenFlux, NoOrphan,
        SilentAfterRelease, KeyIsGuarded
  <2> QED
    BY <2>1, <2>2, <2>3, <2>4, <2>5
<1>16. ASSUME NEW a \in Runs \cup {Starter}, FailError(a) PROVE IInv'
  <2>1. TypeOK'
    BY <1>16 DEF FailError, RunOf, TypeOK, Unspawned
  <2>2. Roles' /\ Unspawned'
    BY <1>16 DEF FailError, RunOf, TypeOK, Roles, Unspawned
  <2>3. CleanSlate' /\ RacesAreMarked' /\ ClearAfterKill'
    BY <1>16 DEF FailError, RunOf, TypeOK, CleanSlate, RacesAreMarked, ClearAfterKill
  <2>4. Released' /\ KeyIsFresh'
    BY <1>16 DEF FailError, RunOf, TypeOK, Released, KeyIsFresh
  <2>5. AtMostOneOpenFlux' /\ NoOrphan' /\ SilentAfterRelease' /\ KeyIsGuarded'
    BY <1>16 DEF FailError, RunOf, TypeOK, AtMostOneOpenFlux, NoOrphan,
        SilentAfterRelease, KeyIsGuarded
  <2> QED
    BY <2>1, <2>2, <2>3, <2>4, <2>5
<1>17. ASSUME NEW a \in Runs \cup {Starter}, FailFlags(a) PROVE IInv'
  <2>1. TypeOK' /\ Roles' /\ Unspawned'
    BY <1>17, Zenon DEF FailFlags, TypeOK, Roles, Unspawned
  <2>2. CleanSlate' /\ RacesAreMarked' /\ ClearAfterKill' /\ Released'
    BY <1>17 DEF FailFlags, CleanSlate, RacesAreMarked, ClearAfterKill, Released
  <2>3. KeyIsFresh'
    BY <1>17 DEF FailFlags, KeyIsFresh
  <2>4. AtMostOneOpenFlux' /\ NoOrphan' /\ SilentAfterRelease'
    BY <1>17 DEF FailFlags, AtMostOneOpenFlux, NoOrphan, SilentAfterRelease
  <2>5. KeyIsGuarded'
    BY <1>17 DEF FailFlags, KeyIsGuarded
  <2> QED
    BY <2>1, <2>2, <2>3, <2>4, <2>5
<1>18. ASSUME NEW a \in Runs \cup {Starter}, FailReport(a) PROVE IInv'
  <2>1. (running \in BOOLEAN /\ ready \in BOOLEAN /\ shuttingDown \in BOOLEAN)'
    BY <1>18, Zenon DEF FailReport, RunOf, Destroy, TypeOK
  <2>2. (pc \in [Threads \cup Runs -> {"idle", "stop"} \cup InStart \cup InStop \cup InFail \cup InWatch])'
    BY <1>18 DEF FailReport, RunOf, Destroy, TypeOK
  <2>3. (posted \subseteq Runs /\ killPosted \subseteq Runs)'
    BY <1>18, Zenon DEF FailReport, RunOf, Destroy, TypeOK, Unspawned
  <2>4. TypeOK'
    BY <1>18, <2>1, <2>2, <2>3 DEF FailReport, RunOf, Destroy, TypeOK
  <2>5. Roles' /\ Unspawned'
    BY <1>18 DEF FailReport, RunOf, Destroy, TypeOK, Roles, Unspawned
  <2>6. CleanSlate' /\ RacesAreMarked' /\ ClearAfterKill' /\ Released'
    BY <1>18 DEF FailReport, RunOf, Destroy, CleanSlate, RacesAreMarked, ClearAfterKill, Released
  <2>7. KeyIsFresh'
    BY <1>18 DEF FailReport, RunOf, Destroy, KeyIsFresh
  <2>8. AtMostOneOpenFlux' /\ NoOrphan' /\ SilentAfterRelease'
    BY <1>18 DEF FailReport, RunOf, Destroy, AtMostOneOpenFlux, NoOrphan, SilentAfterRelease
  <2>9. KeyIsGuarded'
    BY <1>18 DEF FailReport, RunOf, Destroy, KeyIsGuarded
  <2> QED
    BY <2>1, <2>2, <2>3, <2>4, <2>5, <2>6, <2>7, <2>8, <2>9
<1>19. ASSUME NEW r \in Runs, OnUnexpectedExit(r) PROVE IInv'
  <2>1. TypeOK'
    BY <1>19 DEF OnUnexpectedExit, TypeOK, Unspawned
  <2>2. Roles' /\ Unspawned'
    BY <1>19 DEF OnUnexpectedExit, TypeOK, Roles, Unspawned
  <2>3. CleanSlate' /\ RacesAreMarked' /\ ClearAfterKill'
    BY <1>19 DEF OnUnexpectedExit, TypeOK, CleanSlate, RacesAreMarked, ClearAfterKill
  <2>4. Released' /\ KeyIsFresh'
    BY <1>19 DEF OnUnexpectedExit, TypeOK, Released, KeyIsFresh
  <2>5. AtMostOneOpenFlux' /\ NoOrphan' /\ SilentAfterRelease' /\ KeyIsGuarded'
    BY <1>19 DEF OnUnexpectedExit, TypeOK, AtMostOneOpenFlux, NoOrphan,
        SilentAfterRelease, KeyIsGuarded
  <2> QED
    BY <2>1, <2>2, <2>3, <2>4, <2>5
<1>20. ASSUME NEW r \in Runs, ForceKill(r) PROVE IInv'
  <2>1. TypeOK'
    BY <1>20 DEF ForceKill, TypeOK, Unspawned
  <2>2. Roles' /\ Unspawned'
    BY <1>20 DEF ForceKill, TypeOK, Roles, Unspawned
  <2>3. CleanSlate' /\ RacesAreMarked' /\ ClearAfterKill'
    BY <1>20 DEF ForceKill, TypeOK, CleanSlate, RacesAreMarked, ClearAfterKill
  <2>4. Released' /\ KeyIsFresh'
    BY <1>20 DEF ForceKill, TypeOK, Released, KeyIsFresh
  <2>5. AtMostOneOpenFlux' /\ NoOrphan' /\ SilentAfterRelease' /\ KeyIsGuarded'
    BY <1>20 DEF ForceKill, TypeOK, AtMostOneOpenFlux, NoOrphan,
        SilentAfterRelease, KeyIsGuarded
  <2> QED
    BY <2>1, <2>2, <2>3, <2>4, <2>5
<1>21. ASSUME NEW r \in Runs, Listen(r) PROVE IInv'
  <2>1. TypeOK'
    BY <1>21 DEF Listen, TypeOK, Unspawned
  <2>2. Roles' /\ Unspawned'
    BY <1>21 DEF Listen, TypeOK, Roles, Unspawned
  <2>3. CleanSlate' /\ RacesAreMarked' /\ ClearAfterKill'
    BY <1>21 DEF Listen, TypeOK, CleanSlate, RacesAreMarked, ClearAfterKill
  <2>4. Released' /\ KeyIsFresh'
    BY <1>21 DEF Listen, TypeOK, Released, KeyIsFresh
  <2>5. AtMostOneOpenFlux' /\ NoOrphan' /\ SilentAfterRelease' /\ KeyIsGuarded'
    BY <1>21 DEF Listen, TypeOK, AtMostOneOpenFlux, NoOrphan,
        SilentAfterRelease, KeyIsGuarded
  <2> QED
    BY <2>1, <2>2, <2>3, <2>4, <2>5
<1>22. ASSUME NEW r \in Runs, Exit(r) PROVE IInv'
  <2>1. TypeOK'
    BY <1>22 DEF Exit, TypeOK, Unspawned
  <2>2. Roles' /\ Unspawned'
    BY <1>22 DEF Exit, TypeOK, Roles, Unspawned
  <2>3. CleanSlate' /\ RacesAreMarked' /\ ClearAfterKill'
    BY <1>22 DEF Exit, TypeOK, CleanSlate, RacesAreMarked, ClearAfterKill
  <2>4. Released' /\ KeyIsFresh'
    BY <1>22 DEF Exit, TypeOK, Released, KeyIsFresh
  <2>5. AtMostOneOpenFlux' /\ NoOrphan' /\ SilentAfterRelease' /\ KeyIsGuarded'
    BY <1>22, SMTT(30) DEF Exit, TypeOK, AtMostOneOpenFlux, NoOrphan,
        SilentAfterRelease, KeyIsGuarded
  <2> QED
    BY <2>1, <2>2, <2>3, <2>4, <2>5
<1>23. CASE UNCHANGED vars
  BY <1>23 DEF vars, TypeOK, Roles, Unspawned, CleanSlate, RacesAreMarked, ClearAfterKill,
      Released, KeyIsFresh, AtMostOneOpenFlux, NoOrphan, SilentAfterRelease, KeyIsGuarded
<1> QED
  BY <1>1, <1>2, <1>3, <1>4, <1>5, <1>6, <1>7, <1>8, <1>9, <1>10, <1>11, <1>12,
     <1>13, <1>14, <1>15, <1>16, <1>17, <1>18, <1>19, <1>20, <1>21, <1>22, <1>23
  DEF Next, StartStep, StopStep, WatchStep, FailStep, LooperStep

\* The inductive invariant is an invariant.
THEOREM Invariance == Spec => []IInv
BY InitIInv, NextIInv, PTL DEF Spec

\* Type correctness: every field, counter and history set of the supervisor keeps its type.
THEOREM TypeCorrect == Spec => []TypeOK
BY Invariance, PTL DEF IInv

\* However start(), stop() and the watchers interleave, two OpenFlux processes are never
\* alive at once.
THEOREM OneOpenFlux == Spec => []AtMostOneOpenFlux
BY Invariance, PTL DEF IInv

\* A live process whose start() overlapped no stop() is held in `process` or queued for
\* a forcible kill.
THEOREM NothingForgotten == Spec => []NoOrphan
BY Invariance, PTL DEF IInv

\* A run that stop() let go of alive never raises the exit alarm, whatever restarts follow.
THEOREM NoFalseAlarm == Spec => []SilentAfterRelease
BY Invariance, PTL DEF IInv

\* The key file always has somebody on the way to delete it, unless a stop() raced the
\* start() that wrote it.
THEOREM KeyHasGuard == Spec => []KeyIsGuarded
BY Invariance, PTL DEF IInv
-----------------------------------------------------------------------------
\* A step of the supervisor launches the next process, ends the only live one, or
\* leaves the lives of all processes as they are.
LEMMA StepImplements == IInv /\ [Next]_vars => [Lives!LivesNext]_lives
<1> SUFFICES ASSUME IInv, [Next]_vars PROVE Lives!LivesNext \/ UNCHANGED lives
  OBVIOUS
<1> USE MaxRunsAssumption, ThreadsAssumption
    DEF os, fields, flags, log, hist, Runs, Alive
<1>0. /\ proc \in [Runs -> {"none", "booting", "listening", "dead"}]
      /\ lives = [r \in Runs |-> lives[r]] /\ lives' = [r \in Runs |-> lives'[r]]
      /\ \A r \in Runs : lives[r] = IF Alive(r) THEN "alive" ELSE proc[r]
      /\ \A r \in Runs : lives'[r] = IF Alive(r)' THEN "alive" ELSE proc'[r]
  BY DEF IInv, TypeOK, lives
<1>1. ASSUME proc' = proc PROVE UNCHANGED lives
  BY <1>1 DEF lives
<1>2. ASSUME NEW r \in Runs, Alive(r), proc' = [proc EXCEPT ![r] = "dead"] PROVE Lives!LivesNext
  <2>1. lives[r] = "alive"
    BY <1>0, <1>2
  <2>2. \A s \in Runs : lives'[s] = IF s = r THEN "dead" ELSE lives[s]
    BY <1>0, <1>2
  <2>3. lives' = [lives EXCEPT ![r] = "dead"]
    BY <1>0, <2>2
  <2> QED
    BY <2>1, <2>3, Zenon DEF Lives!LivesNext, Lives!End, Lives!Launch
<1>3. ASSUME KillStale PROVE Lives!LivesNext \/ UNCHANGED lives
  <2>1. CASE \A r \in Runs : ~Alive(r)
    <3>1. proc' = proc
      BY <2>1, <1>3, <1>0 DEF KillStale
    <3> QED
      BY <3>1, <1>1
  <2>2. CASE \E r \in Runs : Alive(r)
    <3>1. PICK r \in Runs : Alive(r)
      BY <2>2
    <3>2. \A s \in Runs : Alive(s) => s = r
      BY <3>1 DEF IInv, AtMostOneOpenFlux
    <3>3. \A s \in Runs : proc'[s] = IF s = r THEN "dead" ELSE proc[s]
      BY <3>1, <3>2, <1>3, <1>0 DEF KillStale
    <3>4. proc' = [s \in Runs |-> proc'[s]]
      BY <1>3 DEF KillStale
    <3>5. proc' = [proc EXCEPT ![r] = "dead"]
      BY <3>3, <3>4, <1>0
    <3> QED
      BY <1>2, <3>1, <3>5, Zenon
  <2> QED
    BY <2>1, <2>2
<1>4. ASSUME StartSpawn PROVE Lives!LivesNext
  <2>1. cur \in Runs /\ \A s \in Runs : ~Alive(s) /\ (s >= cur => proc[s] = "none")
    BY <1>4 DEF StartSpawn, IInv, TypeOK, Unspawned, CleanSlate, InStart
  <2>2. \A s \in Runs : lives[s] # "alive" /\ (s >= cur => lives[s] = "none")
    BY <1>0, <2>1
  <2>3. \A s \in Runs : lives'[s] = IF s = cur THEN "alive" ELSE lives[s]
    BY <1>0, <1>4, <2>1 DEF StartSpawn
  <2>4. lives' = [lives EXCEPT ![cur] = "alive"]
    BY <1>0, <2>1, <2>3
  <2> QED
    BY <2>1, <2>2, <2>4, Zenon DEF Lives!LivesNext, Lives!Launch
<1>5. ASSUME NEW r \in Runs, ForceKill(r) PROVE Lives!LivesNext \/ UNCHANGED lives
  <2>1. CASE Alive(r)
    BY <2>1, <1>2, <1>5, Zenon DEF ForceKill
  <2>2. CASE ~Alive(r)
    <3>1. proc[r] = "dead"
      BY <2>2, <1>5 DEF ForceKill, IInv, TypeOK, Unspawned
    <3>2. proc' = proc
      BY <3>1, <1>5, <1>0 DEF ForceKill
    <3> QED
      BY <3>2, <1>1
  <2> QED
    BY <2>1, <2>2
<1>6. ASSUME NEW r \in Runs, Listen(r) PROVE UNCHANGED lives
  <2>1. \A s \in Runs : lives'[s] = lives[s]
    BY <1>0, <1>6, SMTT(30) DEF Listen
  <2> QED
    BY <1>0, <2>1
<1>7. ASSUME NEW r \in Runs, Exit(r) PROVE Lives!LivesNext
  BY <1>2, <1>7, Zenon DEF Exit
<1>8. ASSUME \/ StartGate \/ StartReset \/ StartThrow
             \/ \E t \in Threads : StopStep(t)
             \/ \E a \in Runs \cup {Starter} : FailStep(a)
             \/ \E r \in Runs : WatchStep(r) \/ OnUnexpectedExit(r)
             \/ UNCHANGED vars
      PROVE  proc' = proc
  BY <1>8 DEF vars, StartGate, StartReset, StartThrow, StopStep, StopFlags, StopDestroy, StopClear,
     FailStep, FailError, FailFlags, FailReport, WatchStep, WatchCheck, WatchProbe, WatchExpire,
     WatchReady, WatchDeleteKey, WatchExit, OnUnexpectedExit
<1> QED
  BY <1>1, <1>3, <1>4, <1>5, <1>6, <1>7, <1>8
  DEF Next, StartStep, StartPrepare, StartNoPort, LooperStep

\* The supervisor implements ProcessLives: OpenFlux processes are launched in order, one
\* at a time, and the dead stay dead.
THEOREM LivesRefinement == Spec => ImplementsLives
<1>1. Init => Lives!LivesInit
  BY DEF Init, Lives!LivesInit, lives, Alive, Runs
<1> QED
  BY <1>1, StepImplements, Invariance, PTL DEF Spec, ImplementsLives, Lives!LivesSpec
=============================================================================
