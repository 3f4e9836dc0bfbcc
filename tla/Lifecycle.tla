----------------------------- MODULE Lifecycle ------------------------------
(***************************************************************************)
(* What lumid promises about its services, without lumid's event loop,     *)
(* signals, pids and requests: a service has one process at a time, which  *)
(* is forked only while everything the service requires is up, and which   *)
(* is gone for good once it has been waited for or killed.                 *)
(***************************************************************************)
CONSTANTS Services, Requires

VARIABLES
  phase,     \* where each service is in its life
  process,   \* its processes: one that runs, one that died, or none
  loaded     \* the services lumid knows

Phases    == {"down", "up", "ending", "waiting", "failed"}
Processes == {"none", "runs", "died"}

Init ==
  /\ phase = [s \in Services |-> "down"]
  /\ process = [s \in Services |-> "none"]
  /\ loaded \subseteq Services

Becomes(s, ph, pr) ==
  /\ phase' = [phase EXCEPT ![s] = ph]
  /\ process' = [process EXCEPT ![s] = pr]
  /\ UNCHANGED loaded

\* A reload only adds services.
Load(found) ==
  /\ found \subseteq Services
  /\ loaded' = loaded \cup found /\ UNCHANGED <<phase, process>>

Idle(s) == phase[s] \in {"down", "waiting", "failed"} /\ process[s] = "none"

Fork(s) ==
  /\ Idle(s) /\ \A d \in Requires[s] \cap loaded : phase[d] = "up"
  /\ Becomes(s, "up", "runs")

\* A start that gets no process: a required service is not up, or no fork.
Fail(s) == Idle(s) /\ Becomes(s, "failed", "none")

Exits(s) ==
  /\ phase[s] \in {"up", "ending"} /\ process[s] = "runs"
  /\ Becomes(s, phase[s], "died")

\* lumid hears of the exit: the service stays down, or is to be restarted,
\* or has no retries left.
Reaped(s) ==
  /\ phase[s] = "up" /\ process[s] = "died"
  /\ \E ph \in {"down", "waiting", "failed"} : Becomes(s, ph, "none")

AskToEnd(s) == phase[s] = "up" /\ Becomes(s, "ending", process[s])

\* By itself or by SIGKILL.
Ended(s) == phase[s] = "ending" /\ Becomes(s, "down", "none")

Next ==
  \/ \E found \in SUBSET Services : Load(found)
  \/ \E s \in Services : Fork(s) \/ Fail(s) \/ Exits(s) \/ Reaped(s) \/ AskToEnd(s) \/ Ended(s)

Spec == Init /\ [][Next]_<<phase, process, loaded>>
=============================================================================
