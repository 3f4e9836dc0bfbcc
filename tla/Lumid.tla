------------------------------- MODULE Lumid -------------------------------
(***************************************************************************)
(* lumid, the PID 1 service manager of LumiOS: service.c (start, stop,     *)
(* restart, boot and shutdown walks), supervisor.c (reaping and deferred   *)
(* restarts), main.c (signals, event loop, shutdown) and the server side   *)
(* of socket.c (IPC requests), together with the part of the kernel they   *)
(* drive: the process table, pid reuse, pending signals and the accept     *)
(* queue of the control socket.                                            *)
(*                                                                         *)
(* lumid is one thread, so its control state is a program counter and one  *)
(* return address.  Its steps are cut where it blocks or where another     *)
(* actor's step in between can make a difference: children exit, clients   *)
(* connect and signals arrive between any two of them.                     *)
(***************************************************************************)
EXTENDS Naturals, Sequences, StartOrder

CONSTANTS
  Services,     \* service names, loaded now or by a later reload
  Pids,         \* process ids the kernel hands out, lumid's own excluded
  NoPid,        \* svc->pid = -1
  NoService,    \* owner of a free pid; a request without a service name
  Requires,     \* Requires[s]: services named in "requires"
  After,        \* After[s]: services named in "after"
  Policy,       \* Policy[s]: restart_policy
  Type,         \* Type[s]: svc_type_t
  MaxRetries,   \* MaxRetries[s]: restart_max_retries
  Loads,        \* number of loads of the service directory: boot and SIGHUPs
  MaxServices,  \* LUMID_MAX_SERVICES: length of svc_array
  ServiceList,  \* ServiceList[g]: g_services after load g
  BootOrder,    \* BootOrder[g]: g_start_order after load g
  Resolved,     \* Resolved[g]: service_resolve_deps returned 0 at load g
  Requests,     \* the IPC requests clients may make
  Backlog,      \* bound: length of the accept queue (listen(fd, 8))
  RebootFlag,   \* g_reboot: lumid was started with --reboot
  ForkMayFail   \* fork() may fail although pids are free

States   == {"STOPPED", "STARTING", "RUNNING", "STOPPING", "FAILED", "RESTARTING"}
Policies == {"NEVER", "ALWAYS", "ON_FAILURE", "ON_ABNORMAL"}
Types    == {"SIMPLE", "FORKING", "ONESHOT", "NOTIFY"}
Commands == {"START", "STOP", "RESTART", "STATUS", "ENABLE", "DISABLE",
             "POWEROFF", "REBOOT", "SILENT"}
Request  == [cmd : Commands, svc : Services \cup {NoService}]

Deps     == [s \in Services |-> Requires[s] \cup After[s]]
Known(g) == Range(ServiceList[g])
\* svc_array: the services at the front of the list, as many as it holds.
\* Registration prepends, so a reload can push one out that runs.
InArray(g) == {ServiceList[g][i] : i \in {j \in DOMAIN ServiceList[g] : j <= MaxServices}}

ASSUME ConstantTypes ==
  /\ NoPid \notin Pids /\ NoService \notin Services
  /\ Requires \in [Services -> SUBSET Services]
  /\ After \in [Services -> SUBSET Services]
  /\ Policy \in [Services -> Policies]
  /\ Type \in [Services -> Types]
  /\ MaxRetries \in [Services -> Nat]
  /\ Loads \in Nat \ {0} /\ MaxServices \in Nat
  /\ ServiceList \in [1 .. Loads -> Seq(Services)]
  /\ BootOrder \in [1 .. Loads -> Seq(Services)]
  /\ Resolved \in [1 .. Loads -> BOOLEAN]
  /\ Requests \subseteq Request
  /\ Backlog \in Nat
  /\ RebootFlag \in BOOLEAN /\ ForkMayFail \in BOOLEAN

\* A reload keeps what is registered; the order is what LumidDeps computes,
\* of the services in svc_array and of no other.
ASSUME OrderContract ==
  \A g \in 1 .. Loads :
    /\ \A h \in 1 .. g : Known(h) \subseteq Known(g)
    /\ ResolvedAs(BootOrder[g], Resolved[g], Deps, InArray(g))

VARIABLES
  \* service.c: one record per service, and which load the lists are from
  state, pid, retries, enabled, gen,
  \* kernel: process table, who each pid was forked for, exit status of a
  \* zombie, signals pending on lumid's signalfd
  proc, owner, status, sig,
  \* lumid's thread: location, service being stopped or restarted, return
  \* address, services left to walk, epoll events left to dispatch
  pc, cur, ret, walk, events,
  \* g_running, and what reboot() was called with
  running, power,
  \* accept queue of /run/lumid.sock
  backlog

svcVars  == <<state, pid, retries>>
procVars == <<proc, owner, status>>
vars == <<state, pid, retries, enabled, gen, proc, owner, status, sig,
          pc, cur, ret, walk, events, running, power, backlog>>

Loaded   == Known(gen)
Free(p)  == proc[p] = "free"

-----------------------------------------------------------------------------
(* service_start: one call, from the state check to the fork.              *)

\* Mutant: anything but a failed one will do.
DepsUpUnlessFailed(s) == \A d \in Requires[s] \cap Loaded : state[d] # "FAILED"
\* Every loaded service named in "requires" must be RUNNING; s itself is
\* already STARTING here, and unknown names are ignored.
DepsUp(s) == \A d \in Requires[s] \cap Loaded : d # s /\ state[d] = "RUNNING"

AlreadyRunning(s) == state[s] = "RUNNING"

StartNothing(s) == AlreadyRunning(s) /\ UNCHANGED <<svcVars, procVars>>

StartFails(s) ==
  /\ ~AlreadyRunning(s)
  /\ ~DepsUp(s) \/ ForkMayFail \/ \A p \in Pids : ~Free(p)
  /\ state' = [state EXCEPT ![s] = "FAILED"]
  /\ UNCHANGED <<pid, retries, procVars>>

StateAfterFork(s) == IF Type[s] = "SIMPLE" THEN "RUNNING" ELSE "STARTING"

StartForks(s) ==
  /\ ~AlreadyRunning(s)
  /\ DepsUp(s)
  /\ \E p \in Pids :
       /\ Free(p)
       /\ pid' = [pid EXCEPT ![s] = p]
       /\ proc' = [proc EXCEPT ![p] = "run"]
       /\ owner' = [owner EXCEPT ![p] = s]
  /\ state' = [state EXCEPT ![s] = StateAfterFork(s)]
  /\ retries' = [retries EXCEPT ![s] = 0]
  /\ UNCHANGED status

ServiceStart(s) == StartNothing(s) \/ StartFails(s) \/ StartForks(s)

-----------------------------------------------------------------------------
(* service_stop(cur), a subroutine: entered with pc = "stop", it returns   *)
(* to ret.  "stopping" is the 500 ms sleep between SIGTERM and the poll.   *)

Stoppable(s) == state[s] \in {"RUNNING", "STARTING"}

StopNothing ==
  /\ pc = "stop" /\ ~Stoppable(cur)
  /\ pc' = ret
  /\ UNCHANGED <<svcVars, enabled, gen, procVars, sig, cur, ret, walk,
                 events, running, power, backlog>>

\* SIGTERM is sent; whether and when the process reacts is ChildExits.
StopTerm ==
  /\ pc = "stop" /\ Stoppable(cur)
  /\ state' = [state EXCEPT ![cur] = "STOPPING"]
  /\ pc' = "stopping"
  /\ UNCHANGED <<pid, retries, enabled, gen, procVars, sig, cur, ret, walk,
                 events, running, power, backlog>>

\* waitpid(pid): the slot becomes free; nothing happens for pid <= 0.
ReapOwn(p) ==
  IF p = NoPid THEN UNCHANGED procVars
  ELSE /\ proc' = [proc EXCEPT ![p] = "free"]
       /\ owner' = [owner EXCEPT ![p] = NoService]
       /\ status' = [status EXCEPT ![p] = "ok"]

\* A process still there after 500 ms is killed with SIGKILL and waited for;
\* its death also raises SIGCHLD.
StopFinish ==
  /\ pc = "stopping"
  /\ ReapOwn(pid[cur])
  /\ sig' = IF pid[cur] # NoPid /\ proc[pid[cur]] = "run"
            THEN sig \cup {"CHLD"} ELSE sig
  /\ state' = [state EXCEPT ![cur] = "STOPPED"]
  /\ pid' = [pid EXCEPT ![cur] = NoPid]
  /\ pc' = ret
  /\ UNCHANGED <<retries, enabled, gen, cur, ret, walk, events, running,
                 power, backlog>>

-----------------------------------------------------------------------------
(* load_and_start_services: service_start_all over the start order.        *)

\* service_start_all skips disabled services, but none is disabled yet: no
\* configuration key clears "enabled" and no client has been served.
BootStart(s) ==
  /\ pc = "boot" /\ walk # <<>> /\ s = Head(walk) /\ enabled[s]
  /\ ServiceStart(s)
  /\ walk' = Tail(walk)
  /\ UNCHANGED <<enabled, gen, sig, pc, cur, ret, events, running, power,
                 backlog>>

BootDone ==
  /\ pc = "boot" /\ walk = <<>>
  /\ pc' = "loop"
  /\ UNCHANGED <<svcVars, enabled, gen, procVars, sig, cur, ret, walk, events,
                 running, power, backlog>>

-----------------------------------------------------------------------------
(* event_loop: while (g_running) epoll_wait, dispatch, check services.     *)

ReadyFds == (IF sig # {} THEN {"signal"} ELSE {})
              \cup (IF backlog # <<>> THEN {"server"} ELSE {})

\* The ready descriptors in either order; none when the 5 s timeout expires.
ReadyOrders ==
  {o \in {<<>>, <<"signal">>, <<"server">>, <<"signal", "server">>, <<"server", "signal">>} :
     Range(o) = ReadyFds}

EpollWait ==
  /\ pc = "loop" /\ running
  /\ events' \in ReadyOrders
  /\ pc' = "dispatch"
  /\ UNCHANGED <<svcVars, enabled, gen, procVars, sig, cur, ret, walk,
                 running, power, backlog>>

DispatchSignal ==
  /\ pc = "dispatch" /\ events # <<>> /\ Head(events) = "signal"
  /\ pc' = "signals" /\ events' = Tail(events)
  /\ UNCHANGED <<svcVars, enabled, gen, procVars, sig, cur, ret, walk,
                 running, power, backlog>>

DispatchDone ==
  /\ pc = "dispatch" /\ events = <<>>
  /\ pc' = "check"
  /\ UNCHANGED <<svcVars, enabled, gen, procVars, sig, cur, ret, walk, events,
                 running, power, backlog>>

\* handle_signal reads signalfd until it is empty; the kernel delivers
\* pending signals lowest number first: HUP 1, TERM 15, CHLD 17.
SignalsDone ==
  /\ pc = "signals" /\ sig = {}
  /\ pc' = "dispatch"
  /\ UNCHANGED <<svcVars, enabled, gen, procVars, sig, cur, ret, walk, events,
                 running, power, backlog>>

\* service_load_all and service_resolve_deps, its result ignored; services
\* the reload adds are registered STOPPED and not started.
TakeHup ==
  /\ pc = "signals" /\ "HUP" \in sig
  /\ sig' = sig \ {"HUP"}
  /\ gen' = IF gen < Loads THEN gen + 1 ELSE gen
  /\ UNCHANGED <<svcVars, enabled, procVars, pc, cur, ret, walk, events,
                 running, power, backlog>>

\* Mutant: g_running is not cleared.
TakeTermLost ==
  /\ pc = "signals" /\ "HUP" \notin sig /\ "TERM" \in sig
  /\ sig' = sig \ {"TERM"}
  /\ UNCHANGED <<svcVars, enabled, gen, procVars, pc, cur, ret, walk, events,
                 running, power, backlog>>

TakeTerm ==
  /\ pc = "signals" /\ "HUP" \notin sig /\ "TERM" \in sig
  /\ sig' = sig \ {"TERM"}
  /\ running' = FALSE
  /\ UNCHANGED <<svcVars, enabled, gen, procVars, pc, cur, ret, walk, events,
                 power, backlog>>

TakeChld ==
  /\ pc = "signals" /\ sig = {"CHLD"}
  /\ sig' = {}
  /\ pc' = "reap"
  /\ UNCHANGED <<svcVars, enabled, gen, procVars, cur, ret, walk, events,
                 running, power, backlog>>

-----------------------------------------------------------------------------
(* supervisor_handle_sigchld: waitpid(-1, WNOHANG) until it returns 0.     *)

ShouldRestart(s, st) ==
  CASE Policy[s] = "ALWAYS"      -> TRUE
    [] Policy[s] = "ON_FAILURE"  -> st # "ok"
    [] Policy[s] = "ON_ABNORMAL" -> st = "signal"
    [] OTHER                     -> FALSE

\* Mutant: off by one.
RetriesLeftOneMore(s) == retries[s] <= MaxRetries[s]
RetriesLeft(s) == retries[s] < MaxRetries[s]

\* Mutant: the state of a service that is not restarted is left as it was.
StateAfterExitKept(s, st) ==
  IF ~ShouldRestart(s, st) THEN state[s]
  ELSE IF RetriesLeft(s) THEN "RESTARTING" ELSE "FAILED"

StateAfterExit(s, st) ==
  IF ~ShouldRestart(s, st) THEN "STOPPED"
  ELSE IF RetriesLeft(s) THEN "RESTARTING" ELSE "FAILED"

\* The services whose svc->pid is p; at most one (PidOwned).
Tracking(p) == {s \in Loaded : pid[s] = p}

\* Mutant: svc->pid is not reset.
ReapServiceKeepsPid(p) ==
  \E s \in Tracking(p) :
    LET next == StateAfterExit(s, status[p]) IN
    /\ state' = [state EXCEPT ![s] = next]
    /\ retries' = [retries EXCEPT ![s] = IF next = "RESTARTING" THEN @ + 1 ELSE @]
    /\ UNCHANGED pid

\* The exit of a service's process.
ReapService(p) ==
  \E s \in Tracking(p) :
    LET next == StateAfterExit(s, status[p]) IN
    /\ state' = [state EXCEPT ![s] = next]
    /\ pid' = [pid EXCEPT ![s] = NoPid]
    /\ retries' = [retries EXCEPT ![s] = IF next = "RESTARTING" THEN @ + 1 ELSE @]

\* A child no service has as its pid is reaped and forgotten.
ReapOrphan(p) == Tracking(p) = {} /\ UNCHANGED svcVars

Reap(p) ==
  /\ pc = "reap" /\ proc[p] = "zombie"
  /\ ReapService(p) \/ ReapOrphan(p)
  /\ ReapOwn(p)
  /\ UNCHANGED <<enabled, gen, sig, pc, cur, ret, walk, events, running,
                 power, backlog>>

\* Mutant: one waitpid per SIGCHLD.
ReapDoneEarly ==
  /\ pc = "reap"
  /\ pc' = "signals"
  /\ UNCHANGED <<svcVars, enabled, gen, procVars, sig, cur, ret, walk, events,
                 running, power, backlog>>

ReapDone ==
  /\ pc = "reap" /\ \A p \in Pids : proc[p] # "zombie"
  /\ pc' = "signals"
  /\ UNCHANGED <<svcVars, enabled, gen, procVars, sig, cur, ret, walk, events,
                 running, power, backlog>>

-----------------------------------------------------------------------------
(* supervisor_check_services: at most every 5 s, the list is swept for     *)
(* services whose restart delay is over.  Time is a nondeterministic       *)
(* choice; fairness says it passes.                                        *)

CheckNotDue ==
  /\ pc = "check"
  /\ pc' = "loop"
  /\ UNCHANGED <<svcVars, enabled, gen, procVars, sig, cur, ret, walk, events,
                 running, power, backlog>>

CheckDue ==
  /\ pc = "check"
  /\ pc' = "sweep" /\ walk' = ServiceList[gen]
  /\ UNCHANGED <<svcVars, enabled, gen, procVars, sig, cur, ret, events,
                 running, power, backlog>>

\* Mutants: everything that is not up is restarted; the retry limit is
\* checked a second time.
DueWhenDown(s)        == state[s] # "RUNNING"
DueWithRetriesLeft(s) == state[s] = "RESTARTING" /\ RetriesLeft(s)

DueForRestart(s) == state[s] = "RESTARTING"

\* Not RESTARTING, or the delay is not over yet.
SweepSkip ==
  /\ pc = "sweep" /\ walk # <<>>
  /\ walk' = Tail(walk)
  /\ UNCHANGED <<svcVars, enabled, gen, procVars, sig, pc, cur, ret, events,
                 running, power, backlog>>

SweepRestart(s) ==
  /\ pc = "sweep" /\ walk # <<>> /\ s = Head(walk)
  /\ DueForRestart(s)
  /\ ServiceStart(s)
  /\ walk' = Tail(walk)
  /\ UNCHANGED <<enabled, gen, sig, pc, cur, ret, events, running, power,
                 backlog>>

SweepDone ==
  /\ pc = "sweep" /\ walk = <<>>
  /\ pc' = "loop"
  /\ UNCHANGED <<svcVars, enabled, gen, procVars, sig, cur, ret, walk, events,
                 running, power, backlog>>

-----------------------------------------------------------------------------
(* socket_server_accept and socket_handle_request.                         *)

\* The request the server descriptor's event is about to be served.
Serving(cmd) ==
  /\ pc = "dispatch" /\ events # <<>> /\ Head(events) = "server"
  /\ backlog # <<>> /\ Head(backlog).cmd = cmd
Target == Head(backlog).svc
TargetFound == Target \in Loaded

Accept == backlog' = Tail(backlog) /\ events' = Tail(events)

HandleStart(s) ==
  /\ Serving("START") /\ TargetFound /\ s = Target
  /\ ServiceStart(s)
  /\ Accept
  /\ UNCHANGED <<enabled, gen, sig, pc, cur, ret, walk, running, power>>

HandleStop ==
  /\ Serving("STOP") /\ TargetFound
  /\ cur' = Target /\ ret' = "dispatch" /\ pc' = "stop"
  /\ Accept
  /\ UNCHANGED <<svcVars, enabled, gen, procVars, sig, walk, running, power>>

\* service_restart marks the service RESTARTING and then calls service_stop.
HandleRestart ==
  /\ Serving("RESTART") /\ TargetFound
  /\ state' = [state EXCEPT ![Target] = "RESTARTING"]
  /\ cur' = Target /\ ret' = "restart" /\ pc' = "stop"
  /\ Accept
  /\ UNCHANGED <<pid, retries, enabled, gen, procVars, sig, walk, running, power>>

\* After the restart delay: service_start, then the answer.
RestartStart(s) ==
  /\ pc = "restart" /\ s = cur
  /\ ServiceStart(s)
  /\ pc' = "dispatch"
  /\ UNCHANGED <<enabled, gen, sig, cur, ret, walk, events, running, power,
                 backlog>>

HandleEnable ==
  /\ Serving("ENABLE") \/ Serving("DISABLE")
  /\ TargetFound
  /\ enabled' = [enabled EXCEPT ![Target] = Head(backlog).cmd = "ENABLE"]
  /\ Accept
  /\ UNCHANGED <<svcVars, gen, procVars, sig, pc, cur, ret, walk, running, power>>

\* Both commands do the same: kill(getpid(), SIGTERM).
HandlePower ==
  /\ Serving("POWEROFF") \/ Serving("REBOOT")
  /\ sig' = sig \cup {"TERM"}
  /\ Accept
  /\ UNCHANGED <<svcVars, enabled, gen, procVars, pc, cur, ret, walk, running, power>>

\* Status queries, and commands for a service that is not loaded.
HandleOther ==
  /\ \/ Serving("STATUS")
     \/ /\ \E c \in {"START", "STOP", "RESTART", "ENABLE", "DISABLE"} : Serving(c)
        /\ ~TargetFound
  /\ Accept
  /\ UNCHANGED <<svcVars, enabled, gen, procVars, sig, pc, cur, ret, walk,
                 running, power>>

\* A client that connected and wrote nothing: read() blocks lumid ...
HandleSilent ==
  /\ Serving("SILENT")
  /\ pc' = "reading"
  /\ Accept
  /\ UNCHANGED <<svcVars, enabled, gen, procVars, sig, cur, ret, walk,
                 running, power>>

\* ... until that client closes its end (a short read: "invalid request").
ReadReturns ==
  /\ pc = "reading"
  /\ pc' = "dispatch"
  /\ UNCHANGED <<svcVars, enabled, gen, procVars, sig, cur, ret, walk, events,
                 running, power, backlog>>

-----------------------------------------------------------------------------
(* shutdown_system: service_stop_all, sync, reboot().                      *)

\* Mutants: start order instead of reverse order; the loop ends at i > 0.
StopOrderForward == BootOrder[gen]
StopOrderShort ==
  LET n == Len(BootOrder[gen]) IN
  [i \in 1 .. (IF n = 0 THEN 0 ELSE n - 1) |-> BootOrder[gen][n + 1 - i]]

\* g_start_order from its last entry to its first.
StopOrder ==
  LET n == Len(BootOrder[gen]) IN [i \in 1 .. n |-> BootOrder[gen][n + 1 - i]]

LoopExit ==
  /\ pc = "loop" /\ ~running
  /\ pc' = "shutdown" /\ walk' = StopOrder
  /\ UNCHANGED <<svcVars, enabled, gen, procVars, sig, cur, ret, events,
                 running, power, backlog>>

ShutdownStop ==
  /\ pc = "shutdown" /\ walk # <<>>
  /\ cur' = Head(walk) /\ walk' = Tail(walk)
  /\ ret' = "shutdown" /\ pc' = "stop"
  /\ UNCHANGED <<svcVars, enabled, gen, procVars, sig, events, running, power,
                 backlog>>

PowerDown ==
  /\ pc = "shutdown" /\ walk = <<>>
  /\ pc' = "off"
  /\ power' = IF RebootFlag THEN "restart" ELSE "poweroff"
  /\ UNCHANGED <<svcVars, enabled, gen, procVars, sig, cur, ret, walk, events,
                 running, backlog>>

-----------------------------------------------------------------------------
(* The environment: children, the administrator's signals, clients.        *)

\* A process exits by itself, or because it reacts to lumid's SIGTERM.
ChildExits(p) ==
  /\ pc # "off" /\ proc[p] \in {"run", "daemon"}
  /\ \E st \in {"ok", "error", "signal"} : status' = [status EXCEPT ![p] = st]
  /\ proc' = [proc EXCEPT ![p] = "zombie"]
  /\ sig' = sig \cup {"CHLD"}
  /\ UNCHANGED <<svcVars, enabled, gen, owner, pc, cur, ret, walk, events,
                 running, power, backlog>>

\* "Parent exits after fork": a FORKING service's process leaves a daemon
\* behind, which the kernel reparents to PID 1.
Daemonizes(p, q) ==
  /\ pc # "off" /\ proc[p] = "run" /\ Type[owner[p]] = "FORKING" /\ Free(q)
  /\ proc' = [proc EXCEPT ![p] = "zombie", ![q] = "daemon"]
  /\ owner' = [owner EXCEPT ![q] = owner[p]]
  /\ sig' = sig \cup {"CHLD"}
  /\ UNCHANGED <<svcVars, enabled, gen, status, pc, cur, ret, walk, events,
                 running, power, backlog>>

\* Bound: at most Loads - 1 reloads.
SendHup ==
  /\ pc # "off" /\ gen < Loads
  /\ sig' = sig \cup {"HUP"}
  /\ UNCHANGED <<svcVars, enabled, gen, procVars, pc, cur, ret, walk, events,
                 running, power, backlog>>

\* Bound: once g_running is 0 a further SIGTERM would change nothing.
SendTerm ==
  /\ pc # "off" /\ running
  /\ sig' = sig \cup {"TERM"}
  /\ UNCHANGED <<svcVars, enabled, gen, procVars, pc, cur, ret, walk, events,
                 running, power, backlog>>

ClientConnects(r) ==
  /\ pc # "off" /\ Len(backlog) < Backlog
  /\ backlog' = Append(backlog, r)
  /\ UNCHANGED <<svcVars, enabled, gen, procVars, sig, pc, cur, ret, walk,
                 events, running, power>>

PoweredOff == pc = "off" /\ UNCHANGED vars

-----------------------------------------------------------------------------
\* Mutant: the list is walked instead of the start order.
BootWalkUnordered == IF Resolved[1] THEN ServiceList[1] ELSE <<>>

\* Nothing is started when the dependencies cannot be resolved.
BootWalk == IF Resolved[1] THEN BootOrder[1] ELSE <<>>

Init ==
  /\ state = [s \in Services |-> "STOPPED"]
  /\ pid = [s \in Services |-> NoPid]
  /\ retries = [s \in Services |-> 0]
  /\ enabled = [s \in Services |-> TRUE]
  /\ gen = 1
  /\ proc = [p \in Pids |-> "free"]
  /\ owner = [p \in Pids |-> NoService]
  /\ status = [p \in Pids |-> "ok"]
  /\ sig = {}
  /\ pc = "boot" /\ cur = NoService /\ ret = "loop" /\ events = <<>>
  /\ walk = BootWalk
  /\ running = TRUE /\ power = "on"
  /\ backlog = <<>>

Stop     == StopNothing \/ StopTerm \/ StopFinish
Boot     == BootDone \/ \E s \in Services : BootStart(s)
Dispatch == EpollWait \/ DispatchSignal \/ DispatchDone
Signals  == SignalsDone \/ TakeHup \/ TakeTerm \/ TakeChld
                \/ ReapDone \/ \E p \in Pids : Reap(p)
Check    == CheckNotDue \/ CheckDue \/ SweepSkip \/ SweepDone
                \/ \E s \in Services : SweepRestart(s)
Handle   == HandleStop \/ HandleRestart \/ HandleEnable \/ HandlePower
                \/ HandleOther \/ HandleSilent
                \/ \E s \in Services : HandleStart(s) \/ RestartStart(s)
Shutdown == LoopExit \/ ShutdownStop \/ PowerDown

LumidStep == Stop \/ Boot \/ Dispatch \/ Signals \/ Check \/ Handle \/ Shutdown

Environment ==
  \/ \E p \in Pids : ChildExits(p)
  \/ \E p, q \in Pids : Daemonizes(p, q)
  \/ SendHup \/ SendTerm
  \/ \E r \in Requests : ClientConnects(r)
  \/ ReadReturns

Next == LumidStep \/ Environment \/ PoweredOff

Spec == Init /\ [][Next]_vars

\* lumid's thread keeps running unless it is blocked in read(), and time
\* passes: the 5 s between sweeps and every restart delay end sooner or later.
Fairness ==
  /\ WF_vars(LumidStep)
  /\ SF_vars(CheckDue)
  /\ \A s \in Services : SF_vars(SweepRestart(s))

FairSpec == Spec /\ Fairness

-----------------------------------------------------------------------------
(* Properties.                                                             *)

Locations == {"boot", "loop", "dispatch", "signals", "reap", "check", "sweep",
              "stop", "stopping", "restart", "reading", "shutdown", "off"}

\* Every variable keeps its type; the retry counter never exceeds the limit
\* and the accept queue its length.
TypeOK ==
  /\ state \in [Services -> States]
  /\ pid \in [Services -> Pids \cup {NoPid}]
  /\ retries \in [Services -> Nat]
  /\ \A s \in Services : retries[s] <= MaxRetries[s]
  /\ enabled \in [Services -> BOOLEAN]
  /\ gen \in 1 .. Loads
  /\ proc \in [Pids -> {"free", "run", "daemon", "zombie"}]
  /\ owner \in [Pids -> Services \cup {NoService}]
  /\ status \in [Pids -> {"ok", "error", "signal"}]
  /\ sig \subseteq {"HUP", "TERM", "CHLD"}
  /\ pc \in Locations
  /\ cur \in Services \cup {NoService}
  /\ ret \in {"loop", "dispatch", "restart", "shutdown"}
  /\ walk \in Seq(Services)
  /\ events \in Seq({"signal", "server"})
  /\ running \in BOOLEAN
  /\ power \in {"on", "poweroff", "restart"}
  /\ backlog \in Seq(Requests) /\ Len(backlog) <= Backlog

\* svc->pid, when set, is a child lumid forked for this very service and has
\* not waited for: kill() never hits a reused pid, and the waitpid(pid) of
\* service_stop never fails and leaves its status uninitialised.
PidOwned ==
  \A s \in Services : pid[s] # NoPid =>
    /\ pid[s] \in Pids
    /\ proc[pid[s]] \in {"run", "zombie"}
    /\ owner[pid[s]] = s

\* The recorded state agrees with the recorded pid: an up or stopping service
\* has one, a stopped one has none, and one waiting for its deferred restart
\* has none unless an administrator's restart is in progress on it.
StateMatchesPid ==
  \A s \in Services :
    /\ state[s] \in {"RUNNING", "STARTING", "STOPPING"} => pid[s] # NoPid
    /\ state[s] = "STOPPED" => pid[s] = NoPid
    /\ state[s] = "STOPPING" => pc = "stopping" /\ cur = s
    /\ state[s] = "RESTARTING" =>
         pid[s] = NoPid \/ (pc \in {"stop", "restart"} /\ cur = s /\ ret = "restart")

\* Boot starts a service only after an attempt on each of its dependencies
\* that are in svc_array.
BootRespectsOrder ==
  [][\A s \in Services :
       pc = "boot" /\ state[s] = "STOPPED" /\ state'[s] # "STOPPED" =>
         \A d \in Deps[s] \cap InArray(gen) : state[d] # "STOPPED"]_vars

\* Shutdown stops a service only when no service of svc_array that depends on
\* it is still up, if the last dependency resolution succeeded.
DependentsStopFirst ==
  \A s \in Services :
    state[s] = "STOPPING" /\ ret = "shutdown" /\ Resolved[gen] =>
      \A t \in InArray(gen) : s \in Deps[t] => ~Stoppable(t)

\* A stopped service comes up again only at boot or by an administrator's
\* request: no late SIGCHLD and no sweep revives it.
StoppedStaysStopped ==
  [][\A s \in Services :
       state[s] = "STOPPED" /\ state'[s] # "STOPPED" =>
         pc = "boot" \/ ((Serving("START") \/ Serving("RESTART")) /\ Target = s)]_vars

\* "Run directly, PID = service PID": every live process of a simple service
\* is the one in its svc->pid, so there is never a second instance.
OneProcess ==
  \A p \in Pids : proc[p] = "run" /\ Type[owner[p]] = "SIMPLE" => pid[owner[p]] = p

\* When the machine goes down, after a resolution that succeeded, no process
\* of a service of svc_array is left running, whenever it was started.
NothingListedLeft ==
  pc = "off" /\ Resolved[gen] =>
    \A p \in Pids : owner[p] \in InArray(gen) => proc[p] \in {"free", "zombie"}

\* When the machine goes down no service process is left running.
NothingLeftRunning == pc = "off" => \A p \in Pids : proc[p] \in {"free", "zombie"}

\* Every child that exits is reaped, however SIGCHLDs coalesce, unless the
\* machine goes down first.
ZombiesReaped == \A p \in Pids : proc[p] = "zombie" ~> proc[p] # "zombie" \/ pc = "off"

\* A shutdown signal ends in reboot().
ShutdownCompletes == "TERM" \in sig ~> pc = "off"

\* A deferred restart is attempted, unless the machine goes down first.
RestartAttempted ==
  \A s \in Services : state[s] = "RESTARTING" ~> state[s] # "RESTARTING" \/ pc = "off"

\* A policy = always service waiting for its restart runs again.
AlwaysRunsAgain ==
  \A s \in Services :
    Policy[s] = "ALWAYS" /\ state[s] = "RESTARTING" ~>
      state[s] = "RUNNING" \/ pc = "off" \/ ~running

-----------------------------------------------------------------------------
(* The promise of Lifecycle, kept.                                         *)

\* Service s is in this phase of its life when its recorded state is this.
PhaseOf ==
  [STOPPED |-> "down", STARTING |-> "up", RUNNING |-> "up", STOPPING |-> "ending",
   RESTARTING |-> "waiting", FAILED |-> "failed"]
Children(s) == {p \in Pids : proc[p] # "free" /\ owner[p] = s}

Phase   == [s \in Services |-> PhaseOf[state[s]]]
Process == [s \in Services |-> IF Children(s) = {} THEN "none"
                               ELSE IF \E p \in Children(s) : proc[p] = "run" THEN "runs"
                               ELSE "died"]

Life == INSTANCE Lifecycle WITH phase <- Phase, process <- Process, loaded <- Loaded

\* For simple services, and without administrator restarts: whatever lumid
\* does, each service goes through the life Lifecycle describes, all children
\* lumid forked for it counted and not only the one in svc->pid.
LifeGoesOn == Life!Spec
=============================================================================
