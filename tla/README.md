# LumiOS in TLA+

A formal model of LumiOS: `lumid`, the service manager that runs as PID 1, with
its boot, its service files and the launch of a service; `android-container`,
the launcher of the Android runtime; the daemons `telephonyd` and `sensord`; the
application sandbox; and how any daemon is stopped. TLC checks the model on
small instances; TLAPS proves every invariant that TLC checks, and all but the
liveness of the rest, for all values of the constants. Paths below are relative
to the repository; `service.c`, `supervisor.c`, `main.c`, `socket.c`, `config.c`
and `util.c` without a directory are those of `system/core/lumid/src`.

## 1. The system

### Components, their state, their operations

| component | state it keeps | operations | modelled by |
|---|---|---|---|
| lumid: services (`service.c`) | per service: state, pid, restart count, enabled; `g_services`, `g_start_order` | load, resolve dependencies, start, stop, restart, start all, stop all | `Lumid`, `LumidDeps`; `Lifecycle` is what it promises |
| lumid: supervisor (`supervisor.c`) | time of the last sweep, time of each exit | reap children, decide on a restart, sweep for due restarts | `Lumid` |
| lumid: event loop (`main.c`) | `g_running`, `g_reboot`, signalfd | boot, epoll loop, SIGHUP / SIGTERM / SIGCHLD, shutdown | `Lumid` |
| lumid: control socket (`socket.c`) | accept queue | one request per connection, read and answered synchronously | `Lumid` |
| lumictl (`lumictl.c`) | none | one request, one answer | `Lumid`'s clients |
| lumid: configuration (`config.c`, `service_load_all`) | the service list | parse a file, register, reload | `ServiceFile` |
| lumid: early boot (`main.c`, `mount.c`) | the kernel's mount table | mount, make nodes and directories | `EarlyBoot` over `MountTable` |
| lumid: launch of a service (`service.c`, `cgroup.c`, `util.c`) | control group, credentials | create, fill and join the group; drop privileges; exec | `ServiceLaunch` |
| lumid: log (`log.c`) | none | lines to a file and the console | no: nothing depends on it |
| Android container (`android-compat/container/src/{main,container}.c`) | container state, init pid, status pipe, pid file | start, handshake, wait, signal handler, stop | `Container` |
| container set-up (`namespace.c`, `mounts.c`, `properties.c`) | mount table, property table | private mounts, device nodes, binds; get/set property | `ContainerSetup` over `MountTable`, `AndroidProps` |
| telephonyd | call table, radio, data and SIM state, the serial line | calls, data, SIM, SMS, airplane mode; init, shutdown | `Telephonyd` |
| sensord | sensor table, last events | enumerate, enable, read, poll; init, shutdown | `Sensord` |
| audiod, bluetoothd, netd | tables nothing fills, placeholders | main loops | `DaemonStop` (the loops only) |
| sandbox (`system/core/sandbox`) | policy, filter program | policy by level or file, Landlock, seccomp, AppArmor, exec | `Sandbox` |
| compositor, shell, render, toolkit | | | no: stubs around libraries |

### How they interact

`lumid` mounts the virtual file systems and makes its directories
(`early_init`), loads the service files (`service_load_all`), computes a start
order (`service_resolve_deps`) and forks the services in that order. From then
on one thread waits in `epoll_wait` for two descriptors: a signalfd (SIGCHLD
from children, SIGTERM and SIGHUP from the administrator or from itself) and the
control socket. After each round it calls `supervisor_check_services`, which
restarts what is due. Everything it does it does synchronously: `service_stop`
sleeps 500 ms and then waits for the process, a request is read with a blocking
`read`. Shutdown leaves the loop, stops every service in reverse start order and
calls `reboot()`.

`android-container start` is a process of its own. It checks for a pid file,
clones the container's init, waits for the two bytes "OK" on a pipe, writes
the pid file and waits for the child. The child mounts, binds and fills the
property table in its own namespaces and executes Android's init.
`android-container stop` reads the pid file and sends SIGTERM to the pid in it.
SIGTERM or SIGINT to the *start* process runs `container_stop` inside the signal
handler.

The service daemons are children of lumid with no interface to it but SIGTERM.
telephonyd shares one serial line among all its parts. `lumi-sandbox` applies
three layers to itself and executes a command. The repository has no unit tests.

### What is hard about it

* children exit at any time, several exits share one SIGCHLD, and pids are
  reused, while `svc->pid` is read and used by stop, restart and the reaper;
* a request may arrive between the death of a service and its deferred restart;
* a SIGHUP replaces the service list and the start order under running services,
  and may do so halfway;
* boot and shutdown orders come from a recursive search over a graph that may
  be cyclic, self-referring, or larger than its arrays;
* lumid fills a service's control group while the service already runs, forks
  and drops its privileges in three calls that may each fail;
* the container's signal handler may interrupt any step of the start
  command, and itself; the check of the pid file and its writing are far apart;
* what is mounted later hides what was made before, on the host and in the
  container, and most failures are passed over;
* an answer of the modem that comes late is taken for the answer of a later
  command; the call table shifts under the loop that hangs up;
* the sandbox's layers come one after another and restrict each other; its
  filter is a program with computed jumps;
* sensors are found by type, not by identity, and are plugged and pulled.

`PROJECT.json` lists these hazards line by line with the properties that cover
them.

### What makes each component correct

* **Process tracking**: a recorded pid is always an unreaped child forked for
  that service (`PidOwned`); state and pid agree (`StateMatchesPid`); there is
  never a second instance (`OneProcess`); a stopped service stays stopped
  (`StoppedStaysStopped`); the life of each service is that of `Lifecycle`
  (`LifeGoesOn`).
* **Order**: boot follows the dependencies (`BootRespectsOrder`), shutdown the
  reverse (`DependentsStopFirst`), and nothing of it is left
  (`NothingListedLeft`): of the services in `svc_array`, the first 128.
* **Search**: the start order is sound, complete or justified by a cycle
  (`Promise`), its recursion is bounded (`DepthBounded`) and it ends
  (`WorkShrinks`).
* **Progress**: exited children are reaped, deferred restarts attempted, a
  shutdown ends in `reboot()`.
* **Service files**: a parsed service is what its file says (`ParsedAsWritten`),
  loads only add (`GrowsByNewNames`) and a bad file harms no good one
  (`EveryGoodFileServed`).
* **Boot**: nothing lumid made is buried (`NothingBuried`).
* **Launch**: privileges are dropped, all three kinds of them, or the failure was
  logged (`PrivilegesDroppedOrSaid`); limits are in force or their failure was
  logged, but for two kinds that lumid drops silently (`NoOtherSilentDrop`).
* **Container**: the manager only waits for and kills its own child
  (`KillsItsOwn`), an orderly end leaves no process (`NothingLeft`), the
  handshake and the handler end, the pid file of a manager that shared its time
  with no other names no stranger (`NamesNoStranger`), the host's mounts stay
  (`HostUntouched`), the device nodes made for Android are where it looks for
  them (`NodesInPlace`), properties are not lost (`GetIsLastSet`).
* **telephonyd**: what it believes of the modem is so (`BelievesWhatIs`),
  airplane mode gets through (`AirplaneSettles`), ids mean one call
  (`IdsArePlaces`), and a shutdown hangs up (`NoActiveCallLeft`, which fails).
* **sensord**: what is on is known to be on or was told to stop
  (`OnMeansActive`), events are the sensor's own (`EventsAreOwn`).
* **Sandbox**: the compiled filter means the policy (`FilterMeansPolicy`), a
  layer asked for is in force or reported (`AskedOrReported`).
* **Stopping**: a daemon that is stopped runs its shutdown code
  (`StopRunsCleanup`, which fails; `TermEndsTheLoop` is what holds).

## 2. The modules

```
StartOrder      what service_resolve_deps promises          (operators only)
  LumidDeps     the search, step by step                    MCUserland
    LumidDepsProofs   the search keeps its promise
  Lumid         the service manager, given such an order    MCLumid
    LumidHistory    Lumid + what the administrator was told MCLumidHistory
    LumidProofs     inductive invariant, NoRevival
      LumidLifeProofs     boot and shutdown order, one process, nothing left,
                          Lumid => Lifecycle
Lifecycle       the abstract service manager that Lumid implements
Container       start, signal handler, child, pid file      MCUserland, MCContainer
  ContainerProofs
MountTable      mounts that cover what was there            (operators only)
  EarlyBoot     lumid's early_init                          \
  ContainerSetup    the container's init before its exec     |
AndroidProps    the property table                           |
ServiceFile     service files, loads and reloads             |
ServiceLaunch   fork to exec, control group                  | Userland
Telephonyd      calls, data, SIM over one serial line        |   MCUserland
Sensord         the table of sensors                         |
Sandbox         policies, filter program, layers             |
DaemonStop      a daemon against whoever stops it           /
  SystemProofs      sandbox, property table, boot, container set-up
  ServiceProofs     service files, launch
    DaemonProofs    sensord, telephonyd, how daemons stop, all types at once
DataInduction   induction over numbers for recursive functions (lemmas only)
```

### StartOrder, LumidDeps

`StartOrder` states what an order must satisfy; its `ResolvedAs` is the
interface between the two models. `LumidDeps` checks, and `LumidDepsProofs`
proves, that the search delivers it; `Lumid` assumes it of the constants
`BootOrder[g]`, `Resolved[g]` of each load `g` (assumption `OrderContract`). So
`Lumid` needs no copy of the search, and the proofs about it hold for every
graph. The contract is about `svc_array` (`InArray(g)`), the first
`LUMID_MAX_SERVICES` services of the list, and about no other: what is proved of
boot and shutdown order and of what is left running is about these services.
Registration prepends, so a reload can push a service that runs out of
`svc_array`; `lumid_core` has such a reload.

In `LumidDeps` the C call stack is the variable `stack`: a frame is a service
and the set of dependencies still to be looked at (in any order: `requires`
and `after` lists and `readdir` order are arbitrary). `Visit` is the loop of
`service_resolve_deps`, `PassOver` / `Descend` / `FindCycle` the three answers
of a nested `topo_visit`, `Place` its end. A cycle unwinds the whole stack and
leaves the part of `g_start_order` written so far. `array` is `svc_array`.

### Lumid

One thread, so one program counter `pc`. A step ends where lumid blocks, calls
`service_stop`, or where something that happens in between can matter.

| variables | code |
|---|---|
| `state`, `pid`, `retries`, `enabled` | `service_t` fields `state`, `pid`, `restart_count`, `enabled` |
| `gen` | which of the successive `g_services` / `g_start_order` is in force |
| `proc`, `owner`, `status`, `sig` | kernel: process table, who a pid was forked for, exit status, pending signals |
| `walk` | the services the current loop (boot, sweep, shutdown) has yet to visit |
| `cur`, `ret` | argument and return address of `service_stop` / `service_restart` |
| `events` | the `epoll_event`s of this round still to be dispatched |
| `running`, `power` | `g_running`; what `reboot()` was called with |
| `backlog` | requests accepted by the kernel and not yet served |

| actions | code |
|---|---|
| `ServiceStart` = `StartNothing`, `StartFails`, `StartForks` | `service_start`, whole; used by `BootStart`, `SweepRestart`, `HandleStart`, `RestartStart` |
| `StopNothing`, `StopTerm`, `StopFinish` | `service_stop`: early return; SIGTERM; after 500 ms poll, SIGKILL, `waitpid` |
| `BootStart`, `BootDone` | `load_and_start_services`, `service_start_all` |
| `EpollWait`, `DispatchSignal`, `DispatchDone` | one round of `event_loop`; ready descriptors in either order |
| `TakeHup`, `TakeTerm`, `TakeChld`, `SignalsDone` | `handle_signal`: the signalfd delivers the lowest number first |
| `Reap`, `ReapDone` | `supervisor_handle_sigchld`: one `waitpid(-1, WNOHANG)` each |
| `CheckNotDue`, `CheckDue`, `SweepSkip`, `SweepRestart`, `SweepDone` | `supervisor_check_services` |
| `HandleStart` ... `HandleSilent`, `ReadReturns` | `socket_server_accept`, `socket_handle_request` by command |
| `LoopExit`, `ShutdownStop`, `PowerDown` | `shutdown_system` |
| `ChildExits`, `Daemonizes`, `SendHup`, `SendTerm`, `ClientConnects` | the environment |

Abstractions: time is a nondeterministic choice (`CheckDue` or not, `SweepSkip`
although RESTARTING); a process is a pid and an exit status of three kinds
(`ok`, `error`, `signal`), which is all `should_restart` distinguishes; a
process reacts to SIGTERM or not, at will. Log lines and arguments of the
processes are left out, and so is what happens between fork and exec, which
`ServiceLaunch` models.

`LumidHistory` adds two variables that only record: how often the sweep forked
a service since the last request for it, and who was told "stopped".

`Lifecycle` is the abstract specification: a service is down, up, ending,
waiting for a restart or failed, and has no process, a running one or one that
died. It has no pids, signals, requests, loop or order. The refinement mapping is
in `Lumid`: `Phase` renames the state (`PhaseOf`), `Process` looks at all the
children that were forked for the service and not yet reaped, `Loaded` is the
list in force. `LifeGoesOn` says that `Lumid` implements it. An administrator's
restart of a running service and a forking service break it (section 5), so the
run and the theorem are without them.

### Container

`Managers` are start commands that may overlap. The handler replaces whatever
the manager was doing (it ends in `exit(0)`), so it is a jump of `pc` from any
`Working` location to `"stopping"` or `"done"`. `proc` and `owner` are the
process table, with processes unrelated to the container taking free pids:
that is what makes a stale `init_pid` dangerous. Opening (`CreateFile`, which
truncates) and writing (`WriteFile`) the pid file are two steps, of which each
may fail without anybody noticing: the manager then waits with no file, an empty
one or, if `open` failed, one that another start wrote. So are the return of
`waitpid` and the clearing of `init_pid`. A manager or the machine may be killed
at any point (`Killed`). `crowd` records whose run past the check overlapped
another's. Its definitions are named `ContainerInit`, `ContainerNext`, ... (and
`DepsInit`, ... in `LumidDeps`), for `MCUserland` extends both.

### MountTable, EarlyBoot, ContainerSetup

A mount table is the sequence of mounts in the order they were made, and a file
knows which mount it was made on. A path is looked up on the last mount whose
place is a prefix of it (`On`): that is all it takes to say that a mount covers
what was there. `EarlyBoot` walks `early_mounts[]` (`MountNext`: no mount point,
mount fails, already there, mounted), then the device nodes and links (`MakeNodes`),
and the directories, control group and pid file of `early_init` (`MakeDirs`).
`ContainerSetup` has one action for each call of `container_child`, in the order
of the code; a mount also goes to the host's table unless propagation is off
(`Propagate`). `bind_mount` is `Bound`: it makes its target with `mkdir` and the
kernel refuses to bind a node onto a directory. `before` keeps the files that the
host had, an earlier set-up's leftovers below `ANDROID_ROOT` among them.

### AndroidProps

The array `g_props` as a sequence; `props_set`, `props_load_defaults` with any
property file. `asked` records what was ever asked for.

### ServiceFile

`LoadAll`, `OpenFile`, `ReadLine`, `EndOfFile`, `EndOfDir` are the loop over the
directory and the loop over the lines; `Store` is the dispatch on section and
key; between two loads the administrator edits files (`Edit`). A line is what
`trim` and `config_parse_value` make of it and a value is a record of what each
reader of it makes of it (text, tokens, number, unit), so `atoi`, `strtok` and
`util_parse_size` keep what they do: no number is 0, an unknown unit leaves the
old value, `strtoll` saturates. Where C leaves the outcome undefined, a product
that does not fit `int64_t` or an `atoi` beyond `int`, `ReadLine` takes any value
of the type (`NumbersRead`). A file may fail to open (`OpenFails`). A key of 128
characters and more overruns `key[128]`; what happens from there is undefined and
the model stops (`OverrunKey`). `Says`, which `ParsedAsWritten` compares with, looks
at the whole file at once, computes sizes as the integers they are, and claims
nothing of a number that does not fit.

### ServiceLaunch

Two threads of control: `lumid` after the fork (`CgroupCreate`, `CgroupApply`,
`CgroupAdd`, then `Stop` or `Reap`) and the child (`Chdir`, `DropPrivileges`,
`Exec`, `ForkKid`). `cred` maps each process to its uid, gid and supplementary
groups, `cgroup` is the directory with its files and members. Every call may
fail: `initgroups` is passed over, `setgid` and `setuid` end `util_drop_privileges`
(`DroppedIds`), whose result nobody looks at. `warned` and `said` record what was
logged.

### Telephonyd

`modem` is the serial line and the modem at its end: commands written and not
yet answered, answers not yet read, and the modem's own radio, data and SIM
state. `SendAt` gives the outcomes of `modem_send_at`: no modem, a failed write,
two silent seconds, or one read that returns everything that is there by then.
An operation of the daemon is an action that composes such outcomes (`Then`,
`AndThen`) the way the code does: it goes on or stops where the code looks at an
answer. `HangupLoop` is the loop of `telephonyd_shutdown`, with its index.
`Killed` is SIGKILL and the restart by lumid: the daemon forgets, the modem does
not.

### Sensord

`table` is `s->sensors`, `buffer` the devices whose buffer really runs.
`FindSensor` is the search by type every operation starts with. `Poll` and
`ShutdownLoop` are loops over the table whose every turn calls another function
by type. A device that is told to switch off may not obey (`SwitchOff`): the
sensor counts as inactive all the same. `left` records what was left on that way
or by a killed daemon.

### Sandbox

`Default` gives the policies by level, `Loaded` and `Saved` the policy file, whose
level is any number (`AnyLevel`: `sandbox.c` takes what `atoi` makes of it),
`Program` the filter that `seccomp.c` builds and `Verdict` the kernel's
interpreter on it. `Apply` to `Exec` are `sbx_apply` and `execvp`; each layer may
be missing, fail or enter into force, and what Landlock grants decides whether
the AppArmor switch and the exec succeed.

### DaemonStop

The main functions and work loops of the five daemons, which come in two kinds:
those that read their flag (telephonyd, sensord) and `while (1)` (audiod,
bluetoothd, netd); started by lumid, with SIGTERM blocked, or by hand.

### Userland and MCUserland

The parts around the service manager share no variables, so `Userland`
instantiates nine of them, says what their constants are (its assumptions), and
names their properties; its `Spec` is the conjunction of theirs. The proofs are
about these instances. `MCUserland` adds `Container` and `LumidDeps`, whose proofs
are about the modules themselves, and gives TLC a smaller state space: `focus` is chosen at the start and never changes, and says which part moves, and
with which of its operations. The state space is the sum of the parts' and not
their product; a part behaves in it as it does alone, so every behaviour of
`MCSpec` is one of `Spec` in which the other parts stutter.

## 3. What TLC checks

| run | expects | question |
|---|---|---|
| `lumid_core` | pass | three simple services, an `svc_array` of three, and a SIGHUP that finds a fourth and so pushes one out; three pids; start/stop requests, exits, reload, shutdown in every order: the orders of boot and shutdown, nothing in `svc_array` left, and the refinement of `Lifecycle` (994 069 distinct states) |
| `lumid_any` | pass | two services (one forking, found by a SIGHUP), two pids, fork may fail, **every** request: the invariants that survive even the known bugs |
| `lumid_live` | pass | progress of reaping, restarts and shutdown |
| `userland` | pass | the parts around the service manager, one at a time: 430 280 distinct states |
| `lumid_restart_leak` | violation | `OneProcess` under `lumictl restart` |
| `lumid_stop_ignored` | violation | `StoppedMeansStopped` |
| `lumid_retry_limit` | violation | `RetryLimitHolds` |
| `lumid_reload_cycle` | violation | `NothingLeftRunning` after a reload that meets a cycle |
| `lumid_always` | violation | `AlwaysRunsAgain` when a service and its dependency die together |
| `container_stale_file` | violation | `CanStartAgain` |
| `telephonyd_hangup` | violation | `NoActiveCallLeft` after the shutdown |
| `daemon_stop` | violation | `StopRunsCleanup` |

### Bounds, and why they are enough

* *Services*: `app` requires `net` and comes after it; `tel` only comes after
  `net`. That is each kind of edge, one service others depend on, and one that
  a later load brings: `log`, which takes the place of `tel` in an array of three.
* *Pids*: as many as services, in `lumid_restart_leak` and its like one more
  than the services there. A pid that was reaped is free for the next fork, of
  whatever service, and a second instance makes forks fail for want of pids.
* *Requests*: `Backlog = 1` instead of 8. lumid serves one request per round,
  so a longer queue only repeats what a client that connects later does.
* *Loads*: one reload after boot. Services are only ever added, so a second
  one brings the same situation with a larger list.
* *Retries*: limits 0 and 1, both sides of the comparison.

`userland`, by `focus`:

* `manager`: two start commands are what it takes to race on the pid file; two
  pids let an unrelated process take the one a manager has just released.
* `search`: all graphs over three services that fill the array (`Graphs`): every
  cycle length up to three, self-dependencies, chains; and a fourth one, which one
  of them may name, for a reload to find, so that one has no place in the array.
* `calls`: a table of three with a modem that may be silent but is never late;
  three calls are what it takes for one behind a hung-up one to be skipped and
  one behind that to be met. `data`, `sims`: one call, one answer that may come
  late, which already makes every later answer the wrong one.
* `policy`, `filter`, `launch`: two system calls, up to three rules, every
  action, so each jump distance from one to three; five path rules; a short, a
  long and an odd policy file, the last with a level that does not exist.
* `parse`: one file with a header and up to two lines of every kind in every
  section; lists of two, one environment line, and small numbers: `Kilo = 2`, an
  `int64_t` of five bits (`Half = 16`) and an `int` of four (`IntHalf = 8`), so that
  3M fits, 9G has no defined product, 99 saturates and 90 is beyond `int`. `load`: two files that change between two
  loads and may have the same name, no command, or a repeated key.
* `boot`: nothing mounted, an initramfs with devtmpfs, with devpts too, and one
  with a tmpfs on /dev, each with and without mount points.
* `setup`: a host without Android's root, one with it, and one with binder, a GPU
  and nodes that an earlier set-up left below Android's root; every failure.
* `props`: four keys for a table of three; two defaults; files of two lines.
* `exec`: two starts; a service with both limits, of which one is above 100 %, one
  with a CPU limit and a group of its own, one with a limit that makes no control
  group and a user who does not exist, and one with a group but no user.
* `sensors`: three devices, two of them of the same type, for a table of two.
* `stop`: needs no bounds.

### Fairness

`Lumid`: `WF(LumidStep)`: lumid's thread runs whenever it is not blocked; the only place
where it can block for ever is the `read` of a silent client, which is an
environment step (`ReadReturns`), and `lumid_live` has no silent clients. This
assumption is real, see section 5. `SF(CheckDue)` and
`SF(SweepRestart(s))`: the sweep interval and a restart delay are finite and
the loop returns at least every 5 s (`epoll_wait` timeout, `main.c:184`), so a
check that is made again and again is due at some time. Nothing is assumed of
children, clients or the administrator.

`Container`: `WF` of each manager's own steps (including the handler's grace
period of three seconds) and of a cloned child's first write; signals, exits
and crashes are free.

`DaemonStop`: `WF` of the daemon's own steps (a process that can run is
scheduled), of the delivery of a signal that is not blocked, and of the half
second and the kill of `service_stop`. Nobody need stop the daemon.

## 4. What is proved

TLAPS proves every invariant that the passing runs check, and all action
properties, for all constants that meet the assumptions their module states:
`ConstantTypes` and `OrderContract` (`Lumid`), `DepsConstants` (`LumidDeps`),
`ContainerConstants` (`Container`), and those of `Userland`. TLC evaluates each of
them in a passing run. Those of `Userland` say:

| assumption | why the code justifies it |
|---|---|
| `LimitsAreNat` | array sizes, and the bounds that cap counters |
| `FilesAreLines` | a service file is a sequence of lines; limits are numbers |
| `PresetsAreBlocked` | the two lists of `seccomp.c` are of system calls; the policy array holds the five paths of `sbx_policy_default` (`SBX_MAX_PATH_RULES` is far larger) |
| `PoliciesAreLines` | a policy file is lines; its level is what `atoi` makes of anything |
| `DefaultsAreSettings` | the default properties are a list |
| `DevicesHaveTypes` | sysfs lists finitely many devices, and a device has types `sensord` knows |
| `TablesHaveARoot` | the kernel mounts the root before it runs init |
| `HostFilesAreFiles` | one file per path and mount, on one of the host's two; nothing is assumed of what an earlier set-up left |

| theorem | states |
|---|---|
| *lumid* (`LumidProofs`, `LumidLifeProofs`) | |
| `TypeCorrect` | types; retry counters within their limit; queue within its length |
| `PidsAreOwned` | `PidOwned` |
| `StatesMatchPids` | `StateMatchesPid` |
| `NoRevival` | `StoppedStaysStopped` |
| `BootInOrder` | `BootRespectsOrder`, of the services in `svc_array`, however long the list |
| `ShutdownInOrder` | `DependentsStopFirst`, likewise |
| `OnlyOneProcess` | `OneProcess`, of simple services without administrator restarts |
| `LumidImplementsLifecycle` | `LifeGoesOn`, under the same two conditions |
| `NothingListedIsLeft` | `NothingListedLeft`, under the same two conditions |
| `NothingIsLeftRunning` | `NothingLeftRunning`, if in addition every load resolves and its list fits `svc_array` |
| *the search* (`LumidDepsProofs`) | |
| `SearchKeepsPromise` | `Promise` |
| `RecursionBounded` | `DepthBounded` |
| `SearchTerminates` | `WorkShrinks` |
| `SearchTypeCorrect` | types; neither `svc_array` nor `g_start_order` overflows |
| *container* (`ContainerProofs`) | |
| `KillsOnlyItsOwn`, `OrderlyEndsLeaveNothing`, `LonelyIsNotMistaken`, `ContainerTypeCorrect` | the container's invariants |
| *a service from its file to its process* (`ServiceProofs`) | |
| `ParserKeepsWhatIsWritten` | `ParsedAsWritten`, for files of any length that are read to their end, and numbers that fit |
| `GoodFilesAreServed` | `EveryGoodFileServed` |
| `ListGrowsByNewNames`, `NamesStayUnique` | `GrowsByNewNames`; no name twice in the service list |
| `PrivilegesDropOrAreMissed`, `OtherLimitsAreInForce` | `PrivilegesDroppedOrSaid`, `NoOtherSilentDrop` |
| `ServiceRecordsBounded`, `GroupHasLivingMembers` | types of both; sizes within `int64_t` |
| *start of an application, Android and the machine* (`SystemProofs`) | |
| `FilterDeniesTheDenied` | `FilterMeansPolicy`, for rule lists of every length |
| `LayersInForceOrReported` | `AskedOrReported` |
| `PropertyIsLastSet` | `GetIsLastSet`, for every table size |
| `BootBuriesNothing` | `NothingBuried`, for every table of mounts found at boot |
| `HostStaysUntouched`, `AndroidNodesAreInPlace` | `HostUntouched`, `NodesInPlace`, for every host |
| `PolicyFitsItsArrays`, `PropertiesFit`, `BootFilesAreApart`, `ContainerFilesAreApart` | types and array limits of the four |
| *daemons* (`DaemonProofs`) | |
| `BuffersAreActiveOnes`, `EventsAreTheSensors` | `OnMeansActive`, `EventsAreOwn`, for every set of devices |
| `BeliefsAreTrue`, `AirplaneReachesTheModem` | `BelievesWhatIs`, `AirplaneSettles`, for every queue of late answers |
| `IdsStayPlaces` | `IdsArePlaces`, for every length of the call table |
| `LoopSkipsSuccessors` | how far the shutdown loop misses its purpose: it leaves only calls right behind one it hung up, so never a call on its own |
| `NoCleanupUnderLumid` | `StopRunsCleanup` fails in every run under lumid and with every endless loop, not only in the run's counterexample |
| `SensorsFitTheTable`, `CallsFitTheTable` | types and array limits of both |
| `PartsKeepTheirTypes` | the nine parts of `Userland` together keep their types |

**lumid.** `PidOwned` is not inductive by itself: that no one else reaps a
recorded pid needs the state/pid agreement (a `STOPPING` service is the one
`service_stop` is working on) and the fact that the reaper, which searches
`g_services`, finds every service that has a process. Hence
`IInv == TypeOK /\ PidOwned /\ StateMatchesPid /\ WorksOnLoaded`, and one lemma
per group of actions that it is preserved. `NoRevival` needs in addition that an
administrator's restart is the only thing in flight on a service
(`RestartPending`). The boot theorem rests on `BootProgress`: what has been
walked is exactly a prefix of the order, and everything in it was tried. The
shutdown theorem rests on `ShutdownProgress`: what is behind in the reverse
walk is no longer stoppable, and nothing starts any more. Both use only
`Sound`, `NoRepeat` and `Complete` of `StartOrder`, the contract that
`SearchKeepsPromise` proves of the search.

**the life of a service.** The refinement needs more than `IInv`: `LifeInv` says
that every process is the one in its service's `svc->pid`, that a service with a
pid is up or being stopped, and that no restart is under way. It is inductive
only for simple services and without RESTART requests, the two assumptions of
the theorems (`SimpleOnly`, `NoRestarts`); `lumid_restart_leak` shows that it
fails without the second. Under it a service's `Process`, defined by
all its children, can be read off its pid alone (`ProcessIsFate`). `StepKinds`
sorts the steps of `Lumid` by what they do to services and processes, and
`LifeStep` maps each kind to a step of `Lifecycle` or to a stutter, by
`StepOfOne`: a step that touches one service only. `NothingIsLeftRunning`
follows from `ShutdownProgress` and `LifeInv`: when `pc` is `"off"`, the whole
order has been walked, it contains every service of `svc_array` (`OrderFacts`), and
none of them is stoppable any more (`NothingListedIsLeft`). Only if the whole list
fits is that every loaded service; the theorem says so.

**the search.** `Promise` speaks of the end of a search only. The invariant
`DInv` says what holds on the way: the active calls are for different services
and these are exactly the `VISIT_TEMP` ones (`Calls`, `OnlyCalls`); each was made
for a dependency of the one before, and a dependency a call is done with is
placed or is the call it waits for (`Path`); what is `VISIT_PERM` is in the
order, once, after its dependencies (`Placement`). So a call that has nothing
left to do may be placed, and a `VISIT_TEMP` dependency closes a knot: the calls
from it upwards each depend on another of them. That the calls are different
services bounds the depth, by the pigeonhole principle.

**container.** `IInv` adds to the properties: a manager has at most one child,
the one in `init_pid`, and none before the clone and after the reaping
(`OneChild`); only a manager's child is yet to write and a free pid has no owner
(`Owned`); managers that overlap past the check are in the crowd, so a manager
that is not was alone when it looked (`Lonely`), and from then on nobody but it
writes the file (`FileOfLonely`).

**service files.** The service list is a sequence of records; a load changes it
only at the end of a file, by a service that `Valid` and `Known` let through.
That names are unique follows by induction over the steps. So does
`ParsedAsWritten`, although it compares with the whole file: `Parsing` says that
in the middle of a file there is an `n` such that its first `n` lines are stored,
the section is that of line `n + 1`, and the rest is unread. `Stored` has a part
for each kind of field (texts, lists, numbers, environment) that says of the first
`n` lines what `Says` says of all; `StoreEffect` and `LineEffect` say what one line
changes, field by field, and one lemma per part carries it from `n` to `n + 1`.
`EveryGoodFileServed` needs `ParsedAsWritten` at the end of each file, that the
list loses nothing (`ListedStays`), and that all files read so far but the open
one are served (`Serving`).

**launch.** `PrivilegesDroppedOrSaid` needs that a process past the drop has what it
should have or is one of a start in `warned`, and that what it forks copies it and
belongs to the same start. `NoOtherSilentDrop` needs the invariant of the way there: as
long as nothing was logged, the group exists once it was created, holds all
limits once they were applied, and the main process is in it, if alive, once it
was added.

**induction over data.** The library's induction theorems take an operator, and no
installed prover can instantiate one. `DataInduction` gives the same rules for sets, which
any prover can: a set of numbers without a least member is empty
(`WFMin` of the library, on `<`), so a set that has 0 and the
successor of each of its numbers has them all (`NatInduct`, `UpTo`). From it
follows that a function defined by recursion exists, takes the values its
equation gives (`RecursionExists`), and that finite sets of numbers have a
greatest and a least member. That is what the proofs about `Verdict`, `Settings`,
`HangupLoop` and the loops of `sensord` need: a lemma says which equation the
recursive function solves (`Interprets`, `Reads`, `Turning`, `Polls`, `Ends`), a
second one follows the solution step by step.

**sandbox.** `Program` for `n` rules has `n + 5` instructions. `FlowOf` says what
each instruction does, given the value of all later ones: a denied rule jumps to
the last one, any other to its successor. `Interprets` has one solution from the
back, and by `Fate` its value at rule `i` is KILL exactly if a rule from `i` on
denies the call. For the layers, `LayersInv` says which layers the launch is
behind and that each of those is in force or reported.

**property table.** `TableOf(t, log)` relates the table to all that was ever asked
for: keys are unique, each has the value asked for last, and as long as there is
room nothing was turned away. One setting keeps it, hence (by `UpTo`) a whole
file does. `Wanted` counts the keys asked for before a key: with a full table
these are those in it, which is where `Cardinality` comes in.

**boot and set-up.** A mount can only hide what lies at or below its place.
`NothingBuried` is therefore not inductive by itself: it needs that everything
lumid made so far is the place of an entry of `early_mounts[]` that it has
tried, and that no entry lies at or above an earlier one (`BootInv`).
For the container, nodes for Android are made only past the last mount that
could cover them (`at > 5`): what `bind_mount` adds later is mounted at places
beside them (`SetupInv`, `BindsAreBeside`). Past the first step mounts are private,
as the failure of that step is the one that is not passed over.

**sensord.** Every operation looks a sensor up by type. `TableOK` says that no
device is twice in the table and that of a type only the first entry is ever
active; so the sensor an operation finds is the one it means. From this
`Covered`: what runs is active, but for what a killed daemon left or what did not
obey; the shutdown loop is followed with the set of devices it has told so far.

**telephonyd.** `Onward` and `RadioKept` describe what any exchange with the modem
may do to it, for any queue of late answers: what was late or lost stays so, and a
radio that will be off stays so unless power is switched on. All
operations compose exchanges (`Then`, `AndThen`), and `Prompt`, `Told` and
`Quiet` say what the composition may conclude if no answer was late. So
`ModemInv` (beliefs) and `Settles` (airplane) are kept by each. The hang-up loop
is followed turn by turn: `Turned` relates its table after `i` looks to the one it
started from, by the ids, which are places as long as calls are hung up newest first
(`CallsInv`). The statement on the loop is about tables of any length.

**Only model-checked.** Liveness under fairness and ENABLED are out of TLAPS's
reach: `ZombiesReaped`, `RestartAttempted` and `ShutdownCompletes` of
`lumid_live`, `StartAnswered`, `HandlerEnds` and `TermEndsTheLoop` of `userland`, and
the absence of deadlock in `lumid`. The properties of the eight runs that expect a
violation are not theorems.

**What the proofs changed in the model.** `OnMeansActive` now says that the daemon
is up too: without that a stopped daemon with an active entry would pass. A
policy file may name any level (`AnyLevel`): the type invariant was false
for a level that does not exist. `Half` replaces the number of bits, and
`SelectSeq`, which is RECURSIVE, a recursive function or an index set; and the
container's mounts of one step are tried one at a time (`Tried`).

## 5. Where the code disagrees with what is said of it

With a run each (section 3): a restart of a running service leaks a process
(`service.c:431`); a stop during a pending restart is answered "stopped" and
ignored (`service.c:380`); `restart_count` is reset by each restart so
the limit is never reached (`service.c:355`); a failed reload leaves services
out of the shutdown (`main.c:85`); `policy = always` gives up when the sweep
meets the dependent first (`supervisor.c:134`); the container's pid file is only
removed by the signal handler (`container.c:256`); telephonyd's shutdown, which
says "Hangup active calls", skips the call behind each one it hung up
(`telephonyd.c:65`); a daemon that is told to stop does not run its shutdown code,
because its loop never reads its flag or because lumid started it with SIGTERM
blocked (`audiod.c:35`, `main.c:51`, against `service.c:393`).

Visible in the model, without a run:

lumid
* POWEROFF and REBOOT do the same; which happens was fixed by `--reboot` at
  the start (`socket.c:198-213`, `main.c:224-242`).
* DISABLE has no effect: `enabled` is read only at boot and never stored
  (`service.c:451`, `socket.c:192`, against `lumictl.c:42`).
* `before` is parsed and ignored (`service.c:216`, against
  `docs/architecture.md:83`).
* The exit of a FORKING service's parent is taken for the death of the service
  (`supervisor.c:57`, against `lumid.h:70`); its daemon survives a stop.
* A client that connects and writes nothing blocks lumid (`socket.c:85`).
* A negative restart delay becomes a huge unsigned one and the restart never
  comes due (`supervisor.c:129`).
* `pids_max`, `memory_high` and the like alone make no control group, and a CPU
  limit above 100 is skipped, both without a word (`service.c:358`,
  `cgroup.c:108`). `NoOtherSilentDrop` names the two kinds and excludes them.
* A size is multiplied by its unit without an overflow check, and numbers beyond
  `int` go through `atoi` (`util.c:142`): undefined, so a limit may be any. The
  comment (`util.c:127`) and `lumid.h:77` say nothing of a largest size.
* A key of 128 characters and more overruns `key[128]`, because
  `config_parse_value` is given the size of `value` (`config.c:131`, `config.c:155`).
* Services beyond the 128th in the list are not in `svc_array` (`service.c:243`):
  they are not started at boot, and one that runs when a reload pushes it out is
  left running at shutdown. `service_register` has no such limit.
* The child is moved into its group after the clone (`service.c:358-362`): what
  it forked before is outside.
* The result of `util_drop_privileges` is ignored (`service.c:334`): a service
  whose user does not exist runs as root. `initgroups` may fail and leave root's
  supplementary groups to a process that is otherwise its user's (`util.c:230`).
  Both are logged. A group without a user is ignored without a word
  (`service.c:333`).

Container
* Two container starts can pass the pid file check together; the first handler
  to end unlinks the other's file (`container.c:245`). A signal during
  STARTING leaves the child behind (`container.c:222`). In the window between
  `waitpid` and the assignment after it, SIGTERM may go to a reused pid
  (`container.c:261-264`). "running" is reported before the container's set-up
  has succeeded (`container.c:51`).
* The tmpfs over `/dev` hides the host's binder and GPU nodes before they are
  looked at, and `bind_mount` makes a directory for a node: neither is ever bound,
  against `mounts.c:111` ("Bind mount binder device if available"), `mounts.c:154`
  ("Bind mount GPU device nodes") and `docs/architecture.md:255` ("GPU passthrough").
* `open` and `write` of the pid file may fail without a word
  (`container.c:207-208`); `stop` then finds no container that runs.
* "Pivot root" (`container.c:90`) is a `chdir`: Android's init is looked up in,
  and runs on, the host's root.
* The property table is filled in the child's memory just before `execve`, which
  discards it.

Daemons
* SIGTERM during initialisation is forgotten: telephonyd and sensord set
  `running` last.
* telephonyd: after an older call was hung up two calls may have the
  same id (`call.c`); the slot argument of SIM operations does not reach the modem
  (`sim.c`); "signal unknown" (99) shows as five bars (`network.c:31-33`).
* sensord: the second sensor of a type can never be enabled (`reader.c:12`); a
  device that cannot be told to switch off counts as off (`reader.c:72-76`).

Sandbox
* The program has one instruction more than `prog_len` counts: the last one is
  written past the allocation (`seccomp.c:107`, `seccomp.c:147`).
* `filter[idx++]` and `prog_len - idx - 1` are in one statement
  (`seccomp.c:119`): the value of `idx` in the second is unspecified, and with
  one of the two the jump for a foreign architecture leads to ALLOW.
* A saved policy lacks its system call rules and CPU limit (`sandbox.c`), so a
  policy that is loaded again filters nothing.
* UNTRUSTED grants EXECUTE nowhere: with Landlock in force the command exits with
  127. TRUSTED lacks `/dev/null`, which stricter levels have.
* The three layers that `sandbox.h:4` and `sandbox.c:4` announce are never in force
  together under a built-in level: with Landlock in force AppArmor can only be switched on if a path rule
  allows writing below /proc, which no level has (`sandbox.c:107-127`). The failed
  switch is reported.
* The net, IPC and hardware permissions and the limits of a policy are not
  enforced by `sbx_apply`.

## 6. Plan, and what is not modelled

Next, in this order:

1. an abstract specification for telephonyd (a modem that is told, and one that
   is believed) and the proof that `Telephonyd` implements it;
2. the launch composed with the service manager, so that a stop may meet a child
   that has not executed yet;
3. more of `Lifecycle`: a forking service with the daemon it leaves behind.

Not modelled, and why:

* *lumid's log*: lines to a file; nothing depends on them.
* *container cgroups*: single writes below cgroupfs that keep no state; the same
  mechanism is modelled for lumid.
* *bluetoothd's adapter, scan and pairing, audiod's devices and volumes, netd's
  links, wifi, DHCP and DNS*: placeholders and wrappers around other programs.
  Nothing in the daemons calls them, nothing fills their tables and they keep no
  protocol state. Only their main loops do something.
* *sensor fusion*: floating-point arithmetic, which TLC does not have.
* *lumictl's options and output, the text of AppArmor profiles and of modem
  answers*: formatting.
* *the graphical stack*: stubs around external libraries.
* *device support, build scripts, images*: not programs with a state.

## 7. Running it

```
tlc -config lumid_core.cfg MCLumid        # likewise lumid_any, lumid_live, ...
tlc -config lumid_retry_limit.cfg MCLumidHistory   # and lumid_stop_ignored
tlc -config container_stale_file.cfg MCContainer
tlc -config telephonyd_hangup.cfg Telephonyd
tlc -config daemon_stop.cfg DaemonStop
tlc -config userland.cfg MCUserland
tlapm LumidProofs.tla; tlapm LumidLifeProofs.tla; tlapm LumidDepsProofs.tla
tlapm ContainerProofs.tla; tlapm DataInduction.tla; tlapm ServiceProofs.tla
tlapm SystemProofs.tla; tlapm DaemonProofs.tla    # some ten minutes each
```

Definitions whose comment starts with "Mutant" are deliberately wrong variants
of the definition that follows them. Putting one in its place must break the
property it is paired with in `PROJECT.json`, which shows that the property is
not true by construction.
