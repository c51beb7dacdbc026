---------------------------- MODULE ProcessLives ----------------------------
(* What NativeProcessSupervisor promises of the OpenFlux processes it starts: *)
(* they are launched in order, each only once and only when none is left      *)
(* alive, and a dead one never comes back.                                    *)
EXTENDS Naturals

CONSTANT MaxRuns

VARIABLE life

LivesInit == life = [r \in 1 .. MaxRuns |-> "none"]

Launch(r) ==
  /\ \A s \in 1 .. MaxRuns : life[s] # "alive" /\ (s >= r => life[s] = "none")
  /\ life' = [life EXCEPT ![r] = "alive"]

End(r) ==
  /\ life[r] = "alive"
  /\ life' = [life EXCEPT ![r] = "dead"]

LivesNext == \E r \in 1 .. MaxRuns : Launch(r) \/ End(r)

LivesSpec == LivesInit /\ [][LivesNext]_life
=============================================================================
