---------------------------- MODULE LumidHistory ----------------------------
(***************************************************************************)
(* Lumid with history variables: what an administrator was told and asked  *)
(* for, and how often the supervisor restarted a service by itself.  They  *)
(* record steps of Lumid and constrain none.                               *)
(***************************************************************************)
EXTENDS Lumid

VARIABLES
  autoRestarts,  \* [s]: sweeps that forked s since the last request to start it
  toldStopped    \* services whose last start/stop/restart answer is "stopped"

histVars == <<autoRestarts, toldStopped>>
hvars    == <<vars, histVars>>

\* Bound: counting further than one past the limit tells nothing more.
CountUpTo(s) == MaxRetries[s] + 1

Served(cmd)       == Serving(cmd) /\ events' # events
AskedToStart(s)   == (Served("START") \/ Served("RESTART")) /\ Target = s
SweepForked(s)    == pc = "sweep" /\ walk # <<>> /\ Head(walk) = s /\ pid'[s] # pid[s]
AnsweredStopped   == pc \in {"stop", "stopping"} /\ pc' = "dispatch"

NoteRestarts ==
  autoRestarts' = [s \in Services |->
    IF AskedToStart(s) THEN 0
    ELSE IF SweepForked(s) /\ autoRestarts[s] < CountUpTo(s) THEN autoRestarts[s] + 1
    ELSE autoRestarts[s]]

NoteAnswers ==
  toldStopped' = (toldStopped \ {s \in Services : AskedToStart(s)})
                   \cup (IF AnsweredStopped THEN {cur} ELSE {})

HInit == Init /\ autoRestarts = [s \in Services |-> 0] /\ toldStopped = {}
HNext == Next /\ NoteRestarts /\ NoteAnswers
HSpec == HInit /\ [][HNext]_hvars

-----------------------------------------------------------------------------
\* max_retries: the supervisor restarts a service at most that many times
\* before an administrator starts it again.
RetryLimitHolds == \A s \in Services : autoRestarts[s] <= MaxRetries[s]

\* After "lumictl stop" was answered "stopped" the service is down until
\* somebody asks for it to be started.
StoppedMeansStopped == \A s \in toldStopped : state[s] \notin {"RUNNING", "STARTING"}
=============================================================================
