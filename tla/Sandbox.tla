------------------------------ MODULE Sandbox ------------------------------
(***************************************************************************)
(* The application sandbox: policies and their files (sandbox.c), the      *)
(* seccomp filter program (seccomp.c), Landlock rules (landlock.c), the    *)
(* AppArmor switch (apparmor.c), and lumi-sandbox, which applies the three *)
(* layers one after another and then executes a command (main.c).          *)
(***************************************************************************)
EXTENDS Naturals, Sequences, SequencesExt

CONSTANTS
  Syscalls,       \* Blocked(...) of the presets, and any other
  BlockedNormal,  \* blocked_normal[]
  BlockedStrict,  \* blocked_strict[]
  MaxRules,       \* SBX_MAX_SYSCALL_RULES (128)
  MaxPaths,       \* SBX_MAX_PATH_RULES (64)
  Files           \* policy files that may be there at the start

VARIABLES
  pc,        \* "build" and then where sbx_apply and main are
  policy,    \* the caller's sbx_policy_t
  file,      \* lines of the policy file
  host,      \* which layers the kernel supports
  inForce,   \* layers in force
  granted,   \* Landlock rules the kernel took
  reported   \* layers reported as unsupported or failed

vars == <<pc, policy, file, host, inForce, granted, reported>>

Levels  == {"NONE", "TRUSTED", "NORMAL", "STRICT", "UNTRUSTED"}
AnyLevel == Levels \cup {"other"}   \* atoi of what a policy file says
Layers  == {"landlock", "seccomp", "apparmor"}
Actions == {"ALLOW", "DENY", "LOG"}
Rights  == {"READ", "WRITE", "EXECUTE", "CREATE", "DELETE", "TRUNCATE"}
Paths   == {"/usr", "/usr/lib", "/etc", "/tmp", "/dev/null", "/dev/urandom",
            "/proc", "/usr/bin"}
Net     == {"CONNECT", "BIND", "UDP", "DNS"}
Ipc     == {"PIPE", "SOCKET", "SHM", "DBUS"}
Hw      == {"CAMERA", "MIC", "GPS", "BLUETOOTH", "SENSORS", "USB"}

PathRule(p, r) == [path |-> p, rights |-> r]
Rule(nr, a)    == [nr |-> nr, action |-> a]

-----------------------------------------------------------------------------
(* sandbox.c: the policies by level.                                       *)

Empty == [level |-> "NONE", paths |-> <<>>, rules |-> <<>>, net |-> {}, ipc |-> {},
          hw |-> {}, profile |-> FALSE, pids |-> 0, fds |-> 0, memory |-> 0, cpu |-> 0]

\* seccomp_add_rule in a loop: what does not fit is dropped.
AddRules(rules, deny) ==
  LET all == rules \o [i \in 1 .. Len(deny) |-> Rule(deny[i], "DENY")]
  IN  SubSeq(all, 1, IF Len(all) <= MaxRules THEN Len(all) ELSE MaxRules)

PresetNormal == AddRules(<<>>, BlockedNormal)
PresetStrict == AddRules(PresetNormal, BlockedStrict)

System  == <<PathRule("/usr", {"READ", "EXECUTE"}), PathRule("/etc", {"READ"})>>
DevicePaths == <<PathRule("/dev/null", {"READ", "WRITE"}), PathRule("/dev/urandom", {"READ"})>>
Temp    == <<PathRule("/tmp", {"READ", "WRITE", "CREATE"})>>

Default(level) ==
  CASE level = "NONE" ->
         [Empty EXCEPT !.net = Net, !.ipc = Ipc, !.hw = Hw]
    [] level = "TRUSTED" ->
         [Empty EXCEPT !.level = level, !.paths = System \o Temp, !.net = Net,
                       !.ipc = {"PIPE", "SOCKET", "DBUS"}, !.hw = Hw]
    [] level = "NORMAL" ->
         [Empty EXCEPT !.level = level, !.paths = System \o Temp \o DevicePaths,
                       !.rules = PresetNormal, !.net = {"CONNECT", "DNS"},
                       !.ipc = {"PIPE", "DBUS"}, !.fds = 256, !.pids = 16]
    [] level = "STRICT" ->
         [Empty EXCEPT !.level = level, !.paths = System \o DevicePaths,
                       !.rules = PresetStrict, !.ipc = {"PIPE"}, !.fds = 64, !.pids = 4]
    [] level = "UNTRUSTED" ->
         [Empty EXCEPT !.level = level, !.rules = PresetStrict,
                       !.paths = <<PathRule("/usr/lib", {"READ"}),
                                   PathRule("/dev/null", {"READ", "WRITE"})>>,
                       !.memory = 256, !.fds = 32, !.pids = 2, !.cpu = 50]

-----------------------------------------------------------------------------
(* sandbox.c: policy files.  A file is a sequence of key/value lines.      *)

Line(k, v) == [key |-> k, val |-> v]
LineIf(b, k, v) == IF b THEN <<Line(k, v)>> ELSE <<>>

\* Syscall rules and the CPU limit have no line.
Saved(p) ==
  <<Line("level", p.level), Line("net", p.net), Line("ipc", p.ipc), Line("hw", p.hw)>>
    \o LineIf(p.profile, "apparmor", TRUE)
    \o LineIf(p.memory # 0, "max_memory", p.memory)
    \o LineIf(p.pids # 0, "max_pids", p.pids) \o LineIf(p.fds # 0, "max_fds", p.fds)
    \o [i \in 1 .. Len(p.paths) |-> Line("path", p.paths[i])]

\* Later lines win, and paths beyond MaxPaths are dropped; a line of an unknown
\* key changes nothing, nor does a path without a colon, which is given an
\* unknown key here.
LastOf(lines, key, default) ==
  LET I == {i \in 1 .. Len(lines) : lines[i].key = key}
  IN  IF I = {} THEN default ELSE lines[CHOOSE i \in I : \A j \in I : j <= i].val

Loaded(lines) ==
  LET I      == {i \in 1 .. Len(lines) : lines[i].key = "path"}
      n      == Cardinality(I)
      nth(k) == CHOOSE i \in I : Cardinality({j \in I : j < i}) = k - 1
  IN  [level   |-> LastOf(lines, "level", "NONE"), rules |-> <<>>, cpu |-> 0,
       net     |-> LastOf(lines, "net", {}), ipc |-> LastOf(lines, "ipc", {}),
       hw      |-> LastOf(lines, "hw", {}), profile |-> LastOf(lines, "apparmor", FALSE),
       memory  |-> LastOf(lines, "max_memory", 0), pids |-> LastOf(lines, "max_pids", 0),
       fds     |-> LastOf(lines, "max_fds", 0),
       paths   |-> [k \in 1 .. (IF n <= MaxPaths THEN n ELSE MaxPaths) |-> lines[nth(k)].val]]

-----------------------------------------------------------------------------
(* seccomp.c: the filter program, instructions counted from 0.             *)

Load      == [op |-> "load"]
Ret(v)    == [op |-> "ret", verdict |-> v]
Jeq(what, k, jt, jf) == [op |-> "jeq", what |-> what, k |-> k, jt |-> jt, jf |-> jf]

\* Mutant: the jump counts the rules from the wrong end.
DenyJumpFromStart(n, i) == i
\* From rule i (counted from 0) of n over the rest and the default.
DenyJump(n, i) == (n - i - 1) + 1

\* In the second instruction idx is read and incremented in one statement; the
\* compiler may take either value, and archIdx is the one it takes.
Program(rules, archIdx) ==
  LET n == Len(rules)
  IN  <<Load, Jeq("arch", "native", 0, (3 + n + 1) - archIdx - 1), Load>>
        \o [i \in 1 .. n |-> Jeq("nr", rules[i].nr,
                                  IF rules[i].action = "DENY" THEN DenyJump(n, i - 1) ELSE 0, 0)]
        \o <<Ret("ALLOW"), Ret("KILL")>>

\* What the kernel's interpreter returns: Verdict[i] from instruction i on.
Verdict(prog, arch, nr) ==
  LET V[i \in 1 .. Len(prog)] ==
        CASE prog[i].op = "ret"  -> prog[i].verdict
          [] prog[i].op = "load" -> V[i + 1]
          [] OTHER ->  \* "jeq"
               LET hit == prog[i].k = IF prog[i].what = "arch" THEN arch ELSE nr
               IN  V[i + 1 + IF hit THEN prog[i].jt ELSE prog[i].jf]
  IN  V[1]

-----------------------------------------------------------------------------
(* Building a policy: the calls of sandbox.h in any order.                 *)

Init ==
  /\ pc = "build" /\ policy = Empty /\ file \in Files
  /\ host \in SUBSET {"landlock", "apparmor"}
  /\ inForce = {} /\ granted = {} /\ reported = {}

Built(p) == /\ pc = "build"
            /\ policy' = p
            /\ UNCHANGED <<pc, file, host, inForce, granted, reported>>

UseLevel(level) == Built(Default(level))
UseFile  == Built(Loaded(file))
AddRule(nr, a) ==
  Len(policy.rules) < MaxRules /\ Built([policy EXCEPT !.rules = Append(@, Rule(nr, a))])
AddPath(p, r) ==
  Len(policy.paths) < MaxPaths /\ Built([policy EXCEPT !.paths = Append(@, PathRule(p, r))])
SetProfile == Built([policy EXCEPT !.profile = TRUE])

SavePolicy ==
  /\ pc = "build"
  /\ file' = Saved(policy)
  /\ UNCHANGED <<pc, policy, host, inForce, granted, reported>>

-----------------------------------------------------------------------------
(* sbx_init and sbx_apply.  A layer that fails is reported and passed over.*)

Apply ==
  /\ pc = "build"
  /\ pc' = IF policy.level = "NONE" THEN "exec" ELSE "landlock"
  /\ reported' = {"landlock", "apparmor"} \ host
  /\ UNCHANGED <<policy, file, host, inForce, granted>>

Goto(there) == pc' = there /\ UNCHANGED <<policy, file, host>>
Fails(layer)  == reported' = reported \cup {layer} /\ UNCHANGED inForce
Enters(layer) == inForce' = inForce \cup {layer} /\ UNCHANGED reported
Skipped == UNCHANGED <<inForce, reported>>

\* A rule whose path cannot be opened, or that the kernel refuses, is left
\* out and the rest is enforced.
ApplyLandlock ==
  /\ pc = "landlock"
  /\ Goto("seccomp")
  /\ \/ /\ "landlock" \notin host \/ policy.paths = <<>>
        /\ Skipped /\ UNCHANGED granted
     \/ /\ "landlock" \in host /\ policy.paths # <<>>
        /\ \/ Fails("landlock") /\ UNCHANGED granted
           \/ Enters("landlock") /\ granted' \in SUBSET Range(policy.paths)

\* Mutant: a failing prctl is passed over in silence.
SeccompFailsSilently == Skipped
SeccompFails == Fails("seccomp")

ApplySeccomp ==
  /\ pc = "seccomp"
  /\ Goto("apparmor")
  /\ UNCHANGED granted
  /\ \/ policy.rules = <<>> /\ Skipped
     \/ policy.rules # <<>> /\ (SeccompFails \/ Enters("seccomp"))

Beneath(p) == {p} \cup IF p \in {"/usr/lib", "/usr/bin"} THEN {"/usr"} ELSE {}

\* What Landlock lets the process do, once it is in force.
May(right, p) ==
  \/ "landlock" \notin inForce
  \/ \E r \in granted : r.path \in Beneath(p) /\ right \in r.rights

\* The switch is a write to /proc/self/attr/current.
ApplyAppArmor ==
  /\ pc = "apparmor"
  /\ Goto("exec")
  /\ UNCHANGED granted
  /\ \/ (~policy.profile \/ "apparmor" \notin host) /\ Skipped
     \/ /\ policy.profile /\ "apparmor" \in host
        /\ \/ Fails("apparmor")
           \/ May("WRITE", "/proc") /\ Enters("apparmor")

\* execvp of a command in /usr/bin
Exec ==
  /\ pc = "exec"
  /\ Goto(IF May("EXECUTE", "/usr/bin") THEN "running" ELSE "exit 127")
  /\ UNCHANGED <<inForce, granted, reported>>

Compose == \/ UseFile \/ SetProfile \/ AddPath("/proc", {"WRITE"})
           \/ \E l \in Levels : UseLevel(l)
Filter  == \E nr \in Syscalls, a \in Actions : AddRule(nr, a)
Launch  == Apply \/ ApplyLandlock \/ ApplySeccomp \/ ApplyAppArmor \/ Exec
Next    == Compose \/ Filter \/ SavePolicy \/ Launch

Spec == Init /\ [][Next]_vars

-----------------------------------------------------------------------------
(* Properties.                                                             *)

TypeOK ==
  /\ pc \in {"build", "landlock", "seccomp", "apparmor", "exec", "running", "exit 127"}
  /\ policy.level \in AnyLevel
  /\ Len(policy.rules) <= MaxRules /\ Len(policy.paths) <= MaxPaths
  /\ inForce \subseteq Layers /\ reported \subseteq Layers
  /\ granted \subseteq Range(policy.paths)

\* The compiled program kills a native process for a system call exactly if
\* some rule denies it: no ALLOW or LOG rule, no order of the rules and no
\* jump distance changes that (seccomp.c: "For each blocked syscall:
\* JEQ -> KILL_PROCESS").
FilterMeansPolicy ==
  \A nr \in Syscalls, archIdx \in {1, 2} :
    Verdict(Program(policy.rules, archIdx), "native", nr) =
      IF \E i \in 1 .. Len(policy.rules) : policy.rules[i] = Rule(nr, "DENY")
      THEN "KILL" ELSE "ALLOW"

\* A command that runs below level NONE has every layer its policy asks for,
\* or the missing one was reported.
AskedOrReported ==
  pc = "running" /\ policy.level # "NONE" =>
    /\ policy.paths # <<>> => "landlock" \in inForce \cup reported
    /\ policy.rules # <<>> => "seccomp" \in inForce \cup reported
    /\ policy.profile      => "apparmor" \in inForce \cup reported
=============================================================================
