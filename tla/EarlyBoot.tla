----------------------------- MODULE EarlyBoot -----------------------------
(***************************************************************************)
(* The first thing lumid does (early_init in main.c): it mounts the        *)
(* virtual file systems (mount_initial_filesystems in mount.c), then makes *)
(* device nodes, its directories, its cgroup and its pid file on them.     *)
(* Anything may be there already, and any system call may fail.            *)
(***************************************************************************)
EXTENDS Naturals, Sequences, MountTable

CONSTANTS
  Tables,   \* mount tables an initramfs may leave behind
  Present   \* sets of directories the root file system may have

VARIABLES
  pc,       \* "mounts", "nodes", "dirs", "ready" or "shell"
  next,     \* index of the next entry of early_mounts[]
  table, files,
  own,      \* history: the files lumid made
  failed    \* early mounts that failed

vars == <<pc, next, table, files, own, failed>>

\* Mutant: /dev comes after what is mounted below it.
EarlyMountsLateDev ==
  <<Mnt(<<"proc">>, "proc"), Mnt(<<"sys">>, "sysfs"),
    Mnt(<<"dev", "pts">>, "devpts"), Mnt(<<"dev", "shm">>, "tmpfs"),
    Mnt(<<"dev">>, "devtmpfs"), Mnt(<<"run">>, "tmpfs"), Mnt(<<"tmp">>, "tmpfs"),
    Mnt(<<"sys", "fs", "cgroup">>, "cgroup2")>>
EarlyMounts ==
  <<Mnt(<<"proc">>, "proc"), Mnt(<<"sys">>, "sysfs"), Mnt(<<"dev">>, "devtmpfs"),
    Mnt(<<"dev", "pts">>, "devpts"), Mnt(<<"dev", "shm">>, "tmpfs"),
    Mnt(<<"run">>, "tmpfs"), Mnt(<<"tmp">>, "tmpfs"),
    Mnt(<<"sys", "fs", "cgroup">>, "cgroup2")>>

\* File systems of which there is only one: mounting them where they are on
\* top already is refused with EBUSY.
Single == {"proc", "sysfs", "devtmpfs", "cgroup2"}

\* What a file system has from the start.
Provided(m) ==
  CASE m.fs = "sysfs"    -> {<<"sys", "fs", "cgroup">>}
    [] m.fs = "devtmpfs" -> {<<"dev", "null">>}
    [] m.fs = "cgroup2"  -> {<<"sys", "fs", "cgroup", "cgroup.controllers">>}
    [] OTHER -> {}

Nodes == {<<"dev", n>> : n \in {"null", "zero", "random", "urandom", "console", "tty"}}
Links == {<<"dev", n>> : n \in {"fd", "stdin", "stdout", "stderr"}}
Dirs  == {<<"run", "lumid">>, <<"var", "log", "lumid">>, <<"run", "user">>, <<"tmp">>}
Lumid == <<"sys", "fs", "cgroup", "lumid">>
PidFile == <<"run", "lumid.pid">>

Init ==
  /\ pc = "mounts" /\ next = 1 /\ table \in Tables /\ own = {} /\ failed = 0
  /\ \E dirs \in Present :
       files = {File(d, 1, "dir") : d \in dirs}
                 \cup UNION {{File(p, i, "dir") : p \in Provided(table[i])} :
                                i \in 1 .. Len(table)}

\* Files that were made belong to lumid.
Make(new) == files' = new /\ own' = own \cup (new \ files)
MakeNothing == UNCHANGED <<files, own>>
Fails == failed' = failed + 1

\* Mutant: the entry is tried, and counted, without its mount point as well.
NoMountPointCounted == failed' = failed + 2 /\ MakeNothing
NoMountPoint == Fails /\ MakeNothing

MountNext ==
  /\ pc = "mounts" /\ next <= Len(EarlyMounts)
  /\ next' = next + 1
  /\ LET m == EarlyMounts[next]
         target == Made(table, files, m.at, "dir")
     IN  \/ /\ ~Exists(table, files, m.at)          \* no mount point
            /\ NoMountPoint /\ UNCHANGED table
         \/ /\ Fails /\ Make(target) /\ UNCHANGED table
         \/ /\ Make(target)
            /\ table[On(table, m.at)] = m /\ m.fs \in Single
            /\ UNCHANGED <<table, failed>>
         \/ /\ ~(table[On(table, m.at)] = m /\ m.fs \in Single)
            /\ table' = Append(table, m)
            /\ own' = own \cup (target \ files)
            /\ files' = target \cup {File(p, Len(table'), "dir") : p \in Provided(m)}
            /\ UNCHANGED failed
  /\ UNCHANGED pc

MountDone ==
  /\ pc = "mounts" /\ next > Len(EarlyMounts)
  /\ pc' = "nodes"
  /\ UNCHANGED <<next, table, files, own, failed>>

\* Device nodes only if devtmpfs did not bring them, symbolic links anyway;
\* main starts a shell if a mount failed.
MakeNodes ==
  /\ pc = "nodes"
  /\ \E made \in {{}, IF Exists(table, files, <<"dev", "null">>) THEN {} ELSE Nodes} :
       \E linked \in {{}, Links} : Make(MadeAll(table, files, made \cup linked, "node"))
  /\ pc' = IF failed > 0 THEN "shell" ELSE "dirs"
  /\ UNCHANGED <<next, table, failed>>

\* cgroup_init gives up without a cgroup file system.
MakeDirs ==
  /\ pc = "dirs"
  /\ LET cgroup == IF Exists(table, files, <<"sys", "fs", "cgroup", "cgroup.controllers">>)
                   THEN {Lumid} ELSE {}
     IN  \E some \in SUBSET (Dirs \cup cgroup \cup {PidFile}) :
           Make(MadeAll(table, files, some, "dir"))
  /\ pc' = "ready"
  /\ UNCHANGED <<next, table, failed>>

Next == MountNext \/ MountDone \/ MakeNodes \/ MakeDirs

Spec == Init /\ [][Next]_vars

-----------------------------------------------------------------------------
(* Properties.                                                             *)

\* Types: a file is on a mount of the table, and no two are the same file.
TypeOK ==
  /\ pc \in {"mounts", "nodes", "dirs", "ready", "shell"}
  /\ next \in 1 .. Len(EarlyMounts) + 1 /\ failed \in 0 .. Len(EarlyMounts)
  /\ own \subseteq files /\ \A f \in files : f.on \in 1 .. Len(table)
  /\ \A f, g \in files : f.path = g.path /\ f.on = g.on => f = g

\* What lumid relies on is there to be seen.  Whatever was mounted before,
\* failed or existed, no early mount covers a directory, a node or a mount that
\* lumid made before it on another file system: only mount points end up
\* covered.  And if lumid goes on to start services, every virtual file system
\* is at its place: what is reported as a failure is one.
NothingBuried ==
  /\ \A f \in own :
       FileSeen(table, f) \/ \E i \in f.on + 1 .. Len(table) : table[i].at = f.path
  /\ pc = "ready" => \A i \in 1 .. Len(EarlyMounts) :
                       table[On(table, EarlyMounts[i].at)] = EarlyMounts[i]
=============================================================================
