--------------------------- MODULE ContainerSetup ---------------------------
(***************************************************************************)
(* The Android container's init from its clone to execve: container_child  *)
(* in container.c with namespace.c and mounts.c.  It works in a copy of    *)
(* the host's mount table (CLONE_NEWNS).  Any system call may fail; most   *)
(* failures are passed over.                                               *)
(***************************************************************************)
EXTENDS Naturals, Sequences, MountTable

CONSTANTS
  HostFiles   \* sets of files the host may have, see File in MountTable

VARIABLES
  at,       \* the step of container_child to be done next, counted from 1
  gpu,      \* config.gpu_passthrough
  host,     \* the host's mount table
  table,    \* the container's
  files,    \* files on all mounts
  before,   \* history: those that were there before the set-up
  private,  \* mounts no longer propagate to the host
  pc        \* "setup", "init" (execve done) or "failed"

vars == <<at, gpu, host, table, files, before, private, pc>>

Android == <<"android">>                     \* ANDROID_ROOT
In(path) == Android \o path
Dev == <<"dev">>
Binder == <<"dev", "binder">>
Shared == <<"data", "shared">>

\* Mutant: the device nodes are made before the container's /dev is mounted.
StepsNodesFirst ==
  <<"private", "proc", "dev", "nodes", "rootfs", "storage", "gpu", "exec">>
\* container_child in order; the host name and the property table, set before
\* the last step, touch none of these variables (see AndroidProps).
Steps == <<"private", "proc", "dev", "rootfs", "nodes", "storage", "gpu", "exec">>
AtStep(s) == pc = "setup" /\ at <= Len(Steps) /\ Steps[at] = s

Init ==
  /\ at = 1 /\ pc = "setup" /\ private = FALSE /\ gpu \in BOOLEAN
  /\ host = <<Mnt(<<>>, "rootfs"), Mnt(Dev, "devtmpfs")>> /\ table = host
  /\ files \in HostFiles /\ before = files

-----------------------------------------------------------------------------
\* The tables that trying one more mount may leave.
Tried(tables, m) == tables \cup {Append(t, m) : t \in tables}

\* What a mount does to the host: nothing once propagation is off.
Propagate(new) ==
  /\ table' = new
  /\ host' = IF private THEN host
             ELSE host \o SubSeq(new, Len(table) + 1, Len(new))

\* mkdir or mknod, which need the directory above
Make(t, f, paths, kind) == MadeAll(t, f, {p \in paths : Exists(t, f, Front(p))}, kind)

Goto == at' = at + 1 /\ UNCHANGED <<gpu, before, pc>>
Stop == pc' = "failed" /\ UNCHANGED <<at, gpu, host, table, files, before, private>>

\* Mutant: like every other failure, this one is passed over.
PrivateFailsSilently == Goto /\ UNCHANGED <<host, table, files, private>>
PrivateFails == Stop

\* ns_setup_mount: mount(NULL, "/", NULL, MS_REC | MS_PRIVATE, NULL)
MakePrivate ==
  /\ AtStep("private")
  /\ \/ private' = TRUE /\ Goto /\ UNCHANGED <<host, table, files>>
     \/ PrivateFails

MountStep(s, m) ==
  /\ AtStep(s)
  /\ \E t \in Tried({table}, m) : Propagate(t)
  /\ Goto /\ UNCHANGED <<files, private>>

MountProc == MountStep("proc", Mnt(<<"proc">>, "proc"))
\* The host's device nodes are covered from here on.
MountDev  == MountStep("dev", Mnt(Dev, "tmpfs"))

\* mounts_setup_android_rootfs: mkdir and mount, four times
SetupRootfs ==
  /\ AtStep("rootfs")
  /\ \E made \in SUBSET {In(<<d>>) : d \in {"dev", "proc", "sys", "tmp"}} :
       files' = Make(table, files, made, "dir")
  /\ \E t \in Tried(Tried(Tried(Tried({table},
                      Mnt(In(Dev), "tmpfs")), Mnt(In(<<"proc">>), "proc")),
                      Mnt(In(<<"sys">>), "sysfs")), Mnt(In(<<"tmp">>), "tmpfs")) :
       /\ \A m \in Range(t) \ Range(table) : Exists(table, files', m.at)
       /\ Propagate(t)
  /\ Goto /\ UNCHANGED private

-----------------------------------------------------------------------------
\* bind_mount on tables and files: the target is made with mkdir, whatever the
\* source is, and mount(2) refuses to put a node on a directory (ENOTDIR).
Bound(t, f, src, dst) ==
  IF ~Exists(t, f, src) THEN {[table |-> t, files |-> f]}
  ELSE LET g == Make(t, f, {dst}, "dir")
           fits == Exists(t, g, dst) /\ KindOf(t, g, dst) = KindOf(t, g, src)
           tables == {t} \cup IF fits THEN {Append(t, Mnt(dst, "host"))} ELSE {}
       IN  {[table |-> u, files |-> g] : u \in tables}

Become(b) == Propagate(b.table) /\ files' = b.files

\* mounts_bind_device_nodes: mknod, then the binder device
BindNodes ==
  /\ AtStep("nodes")
  /\ \E some \in SUBSET {In(Dev) \o <<n>> : n \in {"null", "random"}} :
       \E b \in Bound(table, Make(table, files, some, "node"), Binder, In(Binder)) :
         Become(b)
  /\ Goto /\ UNCHANGED private

\* mounts_setup_shared_storage
BindShared ==
  /\ AtStep("storage")
  /\ \E b \in Bound(table, Make(table, files, {In(<<"sdcard">>)}, "dir"), Shared, In(<<"sdcard">>)) :
       Become(b)
  /\ Goto /\ UNCHANGED private

\* mounts_setup_gpu_access, for one device after another
BindGpu ==
  /\ AtStep("gpu") /\ gpu
  /\ LET made == Make(table, files, {In(<<"dev", "dri">>)}, "dir")
     IN  \E b \in Bound(table, made, <<"dev", "dri", "card0">>, In(<<"dev", "dri", "card0">>)) :
           \E c \in Bound(b.table, b.files, <<"dev", "mali0">>, In(<<"dev", "mali0">>)) :
             Become(c)
  /\ Goto /\ UNCHANGED private
NoGpu == AtStep("gpu") /\ ~gpu /\ Goto /\ UNCHANGED <<host, table, files, private>>

\* chdir(ANDROID_ROOT); execve("/system/bin/init"), still looked up in the
\* host's root: nothing switches the root directory.
Exec ==
  /\ AtStep("exec")
  /\ \/ /\ Exists(table, files, Android) /\ Exists(table, files, <<"system", "bin", "init">>)
        /\ pc' = "init"
        /\ UNCHANGED <<at, gpu, host, table, files, before, private>>
     \/ Stop

Next == MakePrivate \/ MountProc \/ MountDev \/ SetupRootfs \/ BindNodes \/ BindShared
          \/ BindGpu \/ NoGpu \/ Exec

Spec == Init /\ [][Next]_vars

-----------------------------------------------------------------------------
(* Properties.                                                             *)

\* Types: a file is on a mount of the container or on one of the host's.
TypeOK ==
  /\ at \in 1 .. Len(Steps) /\ pc \in {"setup", "init", "failed"}
  /\ gpu \in BOOLEAN /\ private \in BOOLEAN
  /\ \A f \in files : f.on \in 1 .. Len(table) /\ f.kind \in {"dir", "node"}
  /\ \A f, g \in files : f.path = g.path /\ f.on = g.on => f = g

\* Whatever fails during the set-up, no mount of the container shows on the
\* host (namespace.c:45, "don't propagate to host").
HostUntouched == [][UNCHANGED host]_vars

\* The device nodes the set-up makes for Android are where Android looks for
\* them: whatever mkdir, mount or mknod failed, and whatever an earlier set-up
\* left below ANDROID_ROOT, none is made that a mount hides, which would leave
\* the container without it and the node behind on another file system.
NodesInPlace ==
  \A f \in files \ before :
    f.kind = "node" /\ IsPrefix(In(Dev), f.path) => FileSeen(table, f)
=============================================================================
