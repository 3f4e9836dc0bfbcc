----------------------------- MODULE MCUserland -----------------------------
(***************************************************************************)
(* The parts of LumiOS around the service manager, on small instances,     *)
(* with the container's launcher and lumid's dependency search.            *)
(* They share no state, so one behaviour moves one of them: focus says     *)
(* which one and with which of its operations, and never changes.  The     *)
(* others stay in one initial state.  The state space is the sum, not the  *)
(* product, of theirs.                                                     *)
(***************************************************************************)
EXTENDS Userland, Container, LumidDeps

VARIABLE focus

Foci == {"calls", "data", "sims", "policy", "filter", "launch", "parse", "load",
         "boot", "setup", "props", "exec", "sensors", "stop", "manager", "search"}

-----------------------------------------------------------------------------
(* The sandbox: policy files with unknown and repeated keys.               *)

SetLine(key, value) == [key |-> key, val |-> value]
Path(path, rights)  == [path |-> path, rights |-> rights]
MCPolicyFiles ==
  {<<>>,
   <<SetLine("level", "STRICT"), SetLine("pathless", 0),
     SetLine("path", Path("/proc", {"WRITE"})),
     SetLine("max_pids", 4), SetLine("max_pids", 2), SetLine("apparmor", TRUE)>>,
   <<SetLine("path", Path("/usr", {"READ"})), SetLine("path", Path("/etc", {"READ"})),
     SetLine("level", "other"), SetLine("colour", 1)>>}
OneBlocked     == <<"mount">>
AnotherBlocked == <<"socket">>

-----------------------------------------------------------------------------
(* Service files: one file of every shape, loaded once, with numbers that   *)
(* fit and numbers that do not; two files that change between two loads.    *)

Item(kind, name, text, int, unit) ==
  [kind |-> kind, name |-> name,
   value |-> [text |-> text, items |-> IF text = "" THEN <<>> ELSE <<text>>,
              int |-> int, unit |-> unit]]
Section(name)    == Item("header", name, "", 0, "none")
Line1(key, text) == Item("pair", key, text, 0, "none")
Number(key, text, int, unit) == Item("pair", key, text, int, unit)

Opening == <<Section("service"), Line1("name", "app"), Line1("exec", "/bin/app")>>
Others == {Item("open header", "x", "", 0, "none"), Item("blank", "", "", 0, "none"),
           Item("no equals", "", "", 0, "none"), Item("long key", "", "", 0, "none"),
           Section("restart"), Section("service")}
Bodies ==
  [service      |-> {Line1("name", "net"), Line1("exec", ""), Line1("type", "oneshot"),
                     Line1("requires", "a")},
   dependencies |-> {[Line1("requires", "a b c") EXCEPT !.value.items = <<"a", "b", "c">>],
                     Line1("after", "a"), Line1("name", "net")},
   restart      |-> {Line1("policy", "always"), Number("delay", "-5", -5, "end"),
                     Number("max_retries", "lots", 0, "none"), Line1("name", "net")},
   cgroup       |-> {Number("memory_max", "3M", 3, "M"), Number("memory_max", "9G", 9, "G"),
                     Number("memory_max", "99", 99, "end"),
                     Number("memory_max", "lots", 0, "none"), Number("cpu_max", "5", 5, "end"),
                     Number("cpu_max", "90", 90, "end")},
   environment  |-> {Line1("name", "net"), Line1("PATH", "/bin")}]
ManyFiles ==
  {SubSeq(Opening, 1, n) : n \in 0 .. 2} \cup
  UNION {{Opening \o <<Section(s)>> \o body :
            body \in UNION {[1 .. n -> Bodies[s] \cup Others] : n \in 0 .. 2}} :
            s \in DOMAIN Bodies}

Serves(name) == <<Section("service"), Line1("name", name), Line1("exec", name)>>
FewFiles == {Serves("a"), Serves("b"), SubSeq(Serves("a"), 1, 2),
             Serves("a") \o <<Line1("exec", "x")>>,
             Serves("b") \o <<Section("environment"), Line1("exec", "x")>>}

MCContents == ManyFiles \cup FewFiles

-----------------------------------------------------------------------------
(* Booting, with nothing mounted, with an initramfs that mounted devtmpfs  *)
(* and perhaps devpts, and with a tmpfs on /dev; and an Android container. *)

Fs(where, fs) == [at |-> where, fs |-> fs]
AFile(path, on, kind) == [path |-> path, on |-> on, kind |-> kind]
RootFs == Fs(<<>>, "rootfs")
DevFs  == Fs(<<"dev">>, "devtmpfs")
MCTables  == {<<RootFs>>, <<RootFs, DevFs>>, <<RootFs, DevFs, Fs(<<"dev", "pts">>, "devpts")>>,
              <<RootFs, Fs(<<"proc">>, "proc"), Fs(<<"dev">>, "tmpfs")>>}
MCPresent == {{}, {<<"proc">>, <<"dev">>, <<"sys">>, <<"tmp">>}}

Init1   == AFile(<<"system", "bin", "init">>, 1, "node")
Rootfs  == {AFile(<<"android">>, 1, "dir"), Init1}
MCHostFiles ==
  {Rootfs, {Init1},
   Rootfs \cup {AFile(<<"dev", "binder">>, 2, "node"), AFile(<<"dev", "dri", "card0">>, 2, "node"),
                AFile(<<"data", "shared">>, 1, "dir"), AFile(<<"android", "dev">>, 1, "dir"),
                AFile(<<"android", "dev", "null">>, 1, "node"),
                AFile(<<"android", "dev", "binder">>, 1, "node")}}

-----------------------------------------------------------------------------
(* Android's properties: four keys for a table of three, of which two are  *)
(* there by default.                                                       *)

Setting(k, v) == [key |-> k, val |-> v]
MCDefaults  == <<Setting("a", "1"), Setting("b", "1")>>
MCPropLines == {Setting("", ""), Setting("b", "2"), Setting("c", "1"), Setting("d", "2")}

-----------------------------------------------------------------------------
(* Starting a service: with both limits, of which one is too large to be    *)
(* written, with one, with one that alone makes no group, and with a group  *)
(* but no user.                                                            *)

NoLimit == [memory_max |-> -1, memory_high |-> -1, cpu_weight |-> 100, cpu_max |-> -1,
            io_weight |-> 100, pids_max |-> -1]
MCConfigs ==
  {[limits |-> [NoLimit EXCEPT !["memory_max"] = 64, !["cpu_max"] = 150],
    user |-> "app", group |-> ""],
   [limits |-> [NoLimit EXCEPT !["cpu_max"] = 50], user |-> "app", group |-> "audio"],
   [limits |-> [NoLimit EXCEPT !["pids_max"] = 5], user |-> "unknown", group |-> "audio"],
   [limits |-> NoLimit, user |-> "", group |-> "audio"]}

-----------------------------------------------------------------------------
(* sensord: two accelerometers, of which one is found by its name, and a   *)
(* light sensor, for a table of two.                                       *)

MCRaw  == [d \in Devices |->
             CASE d = "imu" -> {"accel", "gyro"} [] d = "lux" -> {"light"} [] OTHER -> {}]
MCHint == [d \in Devices |-> IF d = "acc" THEN "accel" ELSE "none"]

-----------------------------------------------------------------------------
(* The dependency search: every graph over three services, which fill       *)
(* svc_array, and a fourth that one of them may name, for a reload to find. *)

Graphs == /\ loaded = Services \ {"s4"}
          /\ deps["s4"] = {} /\ {s \in Services : "s4" \in deps[s]} \subseteq {"s1"}

-----------------------------------------------------------------------------
\* The states in which a part starts that focus does not move
Init ==
  /\ focus \in Foci
  /\ Tel!Init /\ (focus = "sims" \/ modem.lock = "READY")
  /\ Box!Init /\ (focus \in {"policy", "filter", "launch"} \/ (policyFile = <<>> /\ kernel = {}))
  /\ dir \in CASE focus = "parse" -> {[f \in FileNames |-> c] : c \in ManyFiles}
               [] focus = "load"  -> [FileNames -> FewFiles]
               [] OTHER           -> [FileNames -> {<<>>}]
  /\ Conf!Init
  /\ Boot!Init /\ (focus = "boot" \/ (mounts = <<RootFs>> /\ made = {}))
  /\ Setup!Init /\ (focus = "setup" \/ (files = Rootfs /\ ~gpu))
  /\ Props!Init
  /\ Exec!Init /\ (focus = "exec" \/ config.group = "")
  /\ Sense!Init /\ (focus = "sensors" \/ plugged = {})
  /\ Stop!Init /\ (focus = "stop" \/ (~byLumid /\ loop = "reads"))
  /\ ContainerInit
  /\ IF focus = "search" THEN DepsInit /\ Graphs
     ELSE /\ deps = [s \in Services |-> {}] /\ loaded = {} /\ array = {}
          /\ visit = Unvisited /\ stack = <<>> /\ order = <<>> /\ result = "busy"

\* A step of one part
Telephony(A)   == A /\ UNCHANGED <<focus, box, conf, boot, setup, propVars, exec, sense, daemon,
                                  containerVars, depsVars>>
Sandboxing(A)  == A /\ UNCHANGED <<focus, tel, conf, boot, setup, propVars, exec, sense, daemon,
                                  containerVars, depsVars>>
Configuring(A) == A /\ UNCHANGED <<focus, tel, box, boot, setup, propVars, exec, sense, daemon,
                                  containerVars, depsVars>>
Booting(A)     == A /\ UNCHANGED <<focus, tel, box, conf, setup, propVars, exec, sense, daemon,
                                  containerVars, depsVars>>
SettingUp(A)   == A /\ UNCHANGED <<focus, tel, box, conf, boot, propVars, exec, sense, daemon,
                                  containerVars, depsVars>>
Property(A)    == A /\ UNCHANGED <<focus, tel, box, conf, boot, setup, exec, sense, daemon,
                                  containerVars, depsVars>>
Launching(A)   == A /\ UNCHANGED <<focus, tel, box, conf, boot, setup, propVars, sense, daemon,
                                  containerVars, depsVars>>
Sensing(A)     == A /\ UNCHANGED <<focus, tel, box, conf, boot, setup, propVars, exec, daemon,
                                  containerVars, depsVars>>
Stopping(A)    == focus = "stop" /\ A
                    /\ UNCHANGED <<focus, tel, box, conf, boot, setup, propVars, exec, sense,
                                   containerVars, depsVars>>
Managing(A)    == focus = "manager" /\ A
                    /\ UNCHANGED <<focus, tel, box, conf, boot, setup, propVars, exec, sense, daemon,
                                   depsVars>>
Searching(A)   == A /\ UNCHANGED <<focus, tel, box, conf, boot, setup, propVars, exec, sense, daemon,
                                  containerVars>>

Common == Tel!Start \/ Tel!Term \/ Tel!Shutdown \/ Tel!Killed \/ Tel!ModemAnswers
\* One load of one file of every shape
ParseNext == Conf!Read \/ Conf!OpenFile("f") \/ (loads = 0 /\ Conf!LoadAll)
\* Two files that change between two loads
LoadNext  == \/ Conf!LoadAll \/ Conf!Read \/ Conf!EndOfDir
             \/ \E f \in FileNames : Conf!OpenFile(f) \/ \E c \in FewFiles : Conf!Edit(f, c)

\* The call table with a modem that answers at once or never; data and SIM
\* operations with one answer that may come late.
Next ==
  \/ focus = "calls"   /\ Telephony(Tel!Voice \/ Tel!SendSms \/ Tel!Ask \/ Common) /\ ~modem'.late
  \/ focus = "data"    /\ Telephony(Tel!Data \/ Common)
  \/ focus = "sims"    /\ Telephony(Tel!Sims \/ Common)
  \/ focus = "policy"  /\ Sandboxing(Box!Compose \/ Box!SavePolicy)
  \/ focus = "filter"  /\ Sandboxing(Box!Filter)
  \/ focus = "launch"  /\ Sandboxing(Box!Compose \/ Box!Launch)
  \/ focus = "parse"   /\ Configuring(ParseNext)
  \/ focus = "load"    /\ Configuring(LoadNext)
  \/ focus = "boot"    /\ Booting(Boot!Next)
  \/ focus = "setup"   /\ SettingUp(Setup!Next)
  \/ focus = "props"   /\ Property(Props!Next)
  \/ focus = "exec"    /\ Launching(Exec!Next)
  \/ focus = "sensors" /\ Sensing(Sense!Next)
  \/ focus = "search"  /\ Searching(DepsNext)
  \/ Stopping(Stop!Next)
  \/ Managing(ContainerNext)

vars == <<focus, tel, box, conf, boot, setup, propVars, exec, sense, daemon, containerVars, depsVars>>
\* The fairness of DaemonStop and of Container
Fairness == /\ WF_vars(Stopping(Stop!Daemon)) /\ WF_vars(Stopping(Stop!Deliver))
            /\ WF_vars(Stopping(Stop!HalfASecond)) /\ WF_vars(Stopping(Stop!Kill))
            /\ \A m \in Managers : WF_vars(Managing(Start(m) \/ Handler(m)))
            /\ \A p \in Pids : WF_vars(Managing(ChildWrites(p)))
MCSpec == Init /\ [][Next]_vars /\ Fairness

=============================================================================
