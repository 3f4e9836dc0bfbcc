----------------------------- MODULE Container -----------------------------
(***************************************************************************)
(* android-container, the launcher of the Android runtime: main.c (the     *)
(* start command, its pid file and its signal handler) and container.c     *)
(* (container_start, _wait and _stop), with the processes they clone.      *)
(*                                                                         *)
(* Every start command is a process of its own ("manager") that stays to   *)
(* wait for its container.  The signal handler runs on top of whatever the *)
(* manager is doing, calls container_stop and exits, so its steps replace  *)
(* the manager's from then on.  The stop command only sends SIGTERM to the *)
(* pid in the pid file; a container that reacts to it is a ChildExits.     *)
(***************************************************************************)
EXTENDS Naturals, FiniteSets

CONSTANTS
  Managers,   \* invocations of "android-container start"
  Pids,       \* pids for container inits and for unrelated processes
  NoPid,      \* init_pid = -1
  NoManager   \* owner of a free pid or of an unrelated process

ASSUME ContainerConstants ==
  NoPid \notin Pids /\ NoManager \notin Managers /\ IsFiniteSet(Pids)

VARIABLES
  managerPc, \* where each manager is
  ended,     \* how it ended
  state,     \* g_container.state of each manager's process
  initPid,   \* g_container.init_pid
  wrote,     \* "OK" is in the status pipe
  proc,      \* of each pid: free, fresh (cloned, "OK" not written), alive, zombie
  owner,     \* the manager whose child it is
  pidFile,   \* CONTAINER_PID_FILE: absent, empty or a pid
  crowd      \* history: managers whose run past the check overlapped another's

containerVars == <<managerPc, ended, state, initPid, wrote, proc, owner, pidFile, crowd>>
fields   == <<state, initPid>>
procVars == <<proc, owner>>
fileVars == <<pidFile, crowd>>

\* p is a child of m that was not waited for.
ChildOf(m, p) == p # NoPid /\ owner[p] = m /\ proc[p] # "free"
Dead(p)       == proc[p] = "zombie"

Goto(m, l)   == managerPc' = [managerPc EXCEPT ![m] = l] /\ UNCHANGED ended
Exit(m, how) == managerPc' = [managerPc EXCEPT ![m] = "done"] /\ ended' = [ended EXCEPT ![m] = how]

SetState(m, st) == state' = [state EXCEPT ![m] = st]

\* waitpid returned p.
Reaped(p) == proc' = [proc EXCEPT ![p] = "free"] /\ owner' = [owner EXCEPT ![p] = NoManager]

-----------------------------------------------------------------------------
(* The start command.                                                      *)

\* Managers that got past the check and have not ended.
Inside == {n \in Managers : managerPc[n] \notin {"idle", "done"}}
GetsIn(m) ==
  /\ Goto(m, "begin")
  /\ crowd' = IF Inside = {} THEN crowd ELSE crowd \cup Inside \cup {m}

\* Mutant: the pid file is not looked at.
CheckSkipped(m) ==
  /\ managerPc[m] = "idle" /\ GetsIn(m)
  /\ UNCHANGED <<fields, wrote, procVars, pidFile>>
\* access(CONTAINER_PID_FILE), then container_init.
Check(m) ==
  /\ managerPc[m] = "idle"
  /\ IF pidFile = "absent" THEN GetsIn(m) ELSE Exit(m, "refused") /\ UNCHANGED crowd
  /\ UNCHANGED <<fields, wrote, procVars, pidFile>>

\* pipe2, malloc or clone fails.
StartFails(m) ==
  /\ managerPc[m] = "begin"
  /\ SetState(m, "FAILED") /\ Exit(m, "failed")
  /\ UNCHANGED <<initPid, wrote, procVars, fileVars>>

Clone(m) ==
  /\ managerPc[m] = "begin"
  /\ \E p \in Pids :
       /\ proc[p] = "free"
       /\ proc' = [proc EXCEPT ![p] = "fresh"] /\ owner' = [owner EXCEPT ![p] = m]
       /\ initPid' = [initPid EXCEPT ![m] = p]
  /\ SetState(m, "STARTING") /\ Goto(m, "handshake")
  /\ UNCHANGED <<wrote, fileVars>>

\* read() on the status pipe returns "OK", ...
ReadsOK(m) ==
  /\ managerPc[m] = "handshake" /\ wrote[m]
  /\ SetState(m, "RUNNING") /\ Goto(m, "ready")
  /\ UNCHANGED <<initPid, wrote, procVars, fileVars>>

\* Mutant: the parent keeps its own write end open.
PipeNeverClosed(m) == FALSE
\* ... or end of file: the parent closed its write end, the child is gone.
PipeClosed(m) == ~wrote[m] /\ Dead(initPid[m])
ReadsEof(m) ==
  /\ managerPc[m] = "handshake" /\ PipeClosed(m)
  /\ SetState(m, "FAILED") /\ Exit(m, "failed")
  /\ UNCHANGED <<initPid, wrote, procVars, fileVars>>

\* open() of the pid file; a failure is passed over, and the manager waits
\* with the file as it was.
CreateFile(m) ==
  /\ managerPc[m] = "ready"
  /\ \/ pidFile' = "empty" /\ Goto(m, "writing")
     \/ Goto(m, "wait") /\ UNCHANGED pidFile
  /\ UNCHANGED <<fields, wrote, procVars, crowd>>

\* Mutant: the pid is written before it is known.
FileContentUnset(m) == NoPid
FileContent(m) == initPid[m]
\* write(), whose result nobody looks at; an unlinked file takes the text with it.
WriteFile(m) ==
  /\ managerPc[m] = "writing"
  /\ pidFile' \in {pidFile, IF pidFile = "absent" THEN "absent" ELSE FileContent(m)}
  /\ Goto(m, "wait")
  /\ UNCHANGED <<fields, wrote, procVars, crowd>>

\* container_wait: waitpid returns first, the fields are cleared later.
WaitReturns(m) ==
  /\ managerPc[m] = "wait" /\ Dead(initPid[m])
  /\ Reaped(initPid[m]) /\ Goto(m, "waited")
  /\ UNCHANGED <<fields, wrote, fileVars>>

WaitDone(m) ==
  /\ managerPc[m] = "waited"
  /\ SetState(m, "STOPPED") /\ initPid' = [initPid EXCEPT ![m] = NoPid]
  /\ Exit(m, "waited")
  /\ UNCHANGED <<wrote, procVars, fileVars>>

-----------------------------------------------------------------------------
(* handle_signal: container_stop, then exit(0).                            *)

Working(m)  == managerPc[m] \in {"begin", "handshake", "ready", "writing", "wait", "waited"}
Handling(m) == managerPc[m] \in {"stopping", "grace", "cleanup"}

\* container_stop has nothing to do unless the state is RUNNING.
SignalIgnored(m) ==
  /\ Working(m) /\ (state[m] # "RUNNING" \/ initPid[m] = NoPid)
  /\ Exit(m, "signal")
  /\ UNCHANGED <<fields, wrote, procVars, fileVars>>

\* SIGTERM is sent to init_pid.
SignalStops(m) ==
  /\ Working(m) /\ state[m] = "RUNNING" /\ initPid[m] # NoPid
  /\ SetState(m, "STOPPING") /\ Goto(m, "stopping")
  /\ UNCHANGED <<initPid, wrote, procVars, fileVars>>

\* The other of SIGTERM and SIGINT interrupts the handler: STOPPING, so exit.
SecondSignal(m) ==
  /\ Handling(m)
  /\ Exit(m, "signal")
  /\ UNCHANGED <<fields, wrote, procVars, fileVars>>

\* Mutant: the result of the first waitpid is not looked at.
StillThereAlways(m) == TRUE
\* waitpid(WNOHANG) returns 0: a child of m that has not exited.
StillThere(m) == ChildOf(m, initPid[m]) /\ ~Dead(initPid[m])

FirstWait(m) ==
  /\ managerPc[m] = "stopping"
  /\ Goto(m, IF StillThere(m) THEN "grace" ELSE "cleanup")
  /\ IF ~StillThere(m) /\ ChildOf(m, initPid[m]) THEN Reaped(initPid[m])
     ELSE UNCHANGED procVars
  /\ UNCHANGED <<fields, wrote, fileVars>>

\* Mutants: the process is not killed but waited for; not even waited for.
GraceWaits(m) ==
  /\ managerPc[m] = "grace" /\ Dead(initPid[m])
  /\ Reaped(initPid[m]) /\ Goto(m, "cleanup")
  /\ UNCHANGED <<fields, wrote, fileVars>>
GraceForgets(m) ==
  /\ managerPc[m] = "grace"
  /\ Goto(m, "cleanup")
  /\ UNCHANGED <<fields, wrote, procVars, fileVars>>

\* After 3 s: waitpid, and for a process still there SIGKILL and waitpid.
GraceOver(m) ==
  /\ managerPc[m] = "grace"
  /\ Reaped(initPid[m]) /\ Goto(m, "cleanup")
  /\ UNCHANGED <<fields, wrote, fileVars>>

\* The pid file is removed, whosever it is.
CleanUp(m) ==
  /\ managerPc[m] = "cleanup"
  /\ SetState(m, "STOPPED") /\ initPid' = [initPid EXCEPT ![m] = NoPid]
  /\ pidFile' = "absent"
  /\ Exit(m, "stopped")
  /\ UNCHANGED <<wrote, procVars, crowd>>

-----------------------------------------------------------------------------
(* Children, unrelated processes, and managers killed from outside.        *)

\* The first thing the child does; the set-up that follows may still fail.
\* With the manager gone nobody has the pipe open: SIGPIPE, a ChildExits.
ChildWrites(p) ==
  /\ proc[p] = "fresh" /\ managerPc[owner[p]] # "done"
  /\ proc' = [proc EXCEPT ![p] = "alive"] /\ wrote' = [wrote EXCEPT ![owner[p]] = TRUE]
  /\ UNCHANGED <<managerPc, ended, fields, owner, fileVars>>

ChildExits(p) ==
  /\ proc[p] \in {"fresh", "alive"} /\ owner[p] # NoManager
  /\ proc' = [proc EXCEPT ![p] = "zombie"]
  /\ UNCHANGED <<managerPc, ended, fields, wrote, owner, fileVars>>

\* PID 1 reaps what a manager left behind.
OrphanReaped(p) ==
  /\ Dead(p) /\ managerPc[owner[p]] = "done"
  /\ Reaped(p)
  /\ UNCHANGED <<managerPc, ended, fields, wrote, fileVars>>

UnrelatedStarts(p) ==
  /\ proc[p] = "free"
  /\ proc' = [proc EXCEPT ![p] = "alive"]
  /\ UNCHANGED <<managerPc, ended, fields, wrote, owner, fileVars>>

UnrelatedEnds(p) ==
  /\ proc[p] = "alive" /\ owner[p] = NoManager
  /\ proc' = [proc EXCEPT ![p] = "free"]
  /\ UNCHANGED <<managerPc, ended, fields, wrote, owner, fileVars>>

Killed(m) ==
  /\ Working(m) \/ Handling(m)
  /\ Exit(m, "killed")
  /\ UNCHANGED <<fields, wrote, procVars, fileVars>>

ContainerInit ==
  /\ managerPc = [m \in Managers |-> "idle"] /\ ended = [m \in Managers |-> "no"]
  /\ state = [m \in Managers |-> "STOPPED"] /\ initPid = [m \in Managers |-> NoPid]
  /\ wrote = [m \in Managers |-> FALSE]
  /\ proc = [p \in Pids |-> "free"] /\ owner = [p \in Pids |-> NoManager]
  /\ pidFile = "absent" /\ crowd = {}

Start(m) == Check(m) \/ StartFails(m) \/ Clone(m) \/ ReadsOK(m) \/ ReadsEof(m)
              \/ CreateFile(m) \/ WriteFile(m) \/ WaitReturns(m) \/ WaitDone(m)
Handler(m) == FirstWait(m) \/ GraceOver(m) \/ CleanUp(m)
Interrupt(m) == SignalIgnored(m) \/ SignalStops(m) \/ SecondSignal(m) \/ Killed(m)
Process(p) == ChildWrites(p) \/ ChildExits(p) \/ OrphanReaped(p)
                \/ UnrelatedStarts(p) \/ UnrelatedEnds(p)

ContainerNext ==
  \/ \E m \in Managers : Start(m) \/ Handler(m) \/ Interrupt(m)
  \/ \E p \in Pids : Process(p)

ContainerSpec == ContainerInit /\ [][ContainerNext]_containerVars

\* A manager that can run does; a cloned child gets as far as its first write
\* or dies.  Nobody owes anyone a signal, and a container need never exit.
ContainerFairSpec ==
  /\ ContainerSpec
  /\ \A m \in Managers : WF_containerVars(Start(m) \/ Handler(m))
  /\ \A p \in Pids : WF_containerVars(ChildWrites(p))

-----------------------------------------------------------------------------
Locations == {"idle", "begin", "handshake", "ready", "writing", "wait", "waited",
              "stopping", "grace", "cleanup", "done"}

\* Every variable keeps its type; the pid file never holds a non-pid.
ContainerTypeOK ==
  /\ managerPc \in [Managers -> Locations]
  /\ ended \in [Managers -> {"no", "refused", "failed", "waited", "signal", "stopped", "killed"}]
  /\ state \in [Managers -> {"STOPPED", "STARTING", "RUNNING", "STOPPING", "FAILED"}]
  /\ initPid \in [Managers -> Pids \cup {NoPid}]
  /\ wrote \in [Managers -> BOOLEAN]
  /\ proc \in [Pids -> {"free", "fresh", "alive", "zombie"}]
  /\ owner \in [Pids -> Managers \cup {NoManager}]
  /\ pidFile \in Pids \cup {"absent", "empty"}
  /\ crowd \subseteq Managers

\* What a manager waits for, and what its handler kills with SIGKILL, is its
\* own child, not yet reaped: never a process that got the pid afterwards.
KillsItsOwn ==
  \A m \in Managers :
    managerPc[m] \in {"handshake", "ready", "writing", "wait", "grace"} => ChildOf(m, initPid[m])

\* A manager that saw its container end, or stopped it, leaves no process.
NothingLeft ==
  \A m \in Managers : ended[m] \in {"waited", "stopped"} =>
    \A p \in Pids : owner[p] # m

\* While a manager waits that shared its time past the pid file check with no
\* other, the stop command sends its SIGTERM to this container or to nobody,
\* whatever earlier managers left behind and whichever open() or write() of
\* the pid file fails.
NamesNoStranger ==
  \A m \in Managers \ crowd :
    managerPc[m] = "wait" => pidFile \in {"absent", "empty", initPid[m]}

\* The start command gets an answer from the child or from its death.
StartAnswered ==
  \A m \in Managers : managerPc[m] = "handshake" ~> managerPc[m] \in {"ready", "stopping", "done"}

\* Whatever the container does, the handler comes to an end.
HandlerEnds == \A m \in Managers : Handling(m) ~> managerPc[m] = "done"

\* After every start command has ended in order, the next one is not refused.
CanStartAgain ==
  (\A m \in Managers : ended[m] \in {"no", "refused", "failed", "waited", "stopped"}
                         /\ managerPc[m] \in {"idle", "done"}) => pidFile = "absent"
=============================================================================
