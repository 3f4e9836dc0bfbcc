----------------------------- MODULE MountTable -----------------------------
(***************************************************************************)
(* A mount namespace, as far as lumid (mount.c) and the container          *)
(* (namespace.c, mounts.c) rely on it: mounts in the order they were made, *)
(* and files, each on the mount it was made on.  A path is a sequence of   *)
(* names; the first entry of a table is the root file system.              *)
(***************************************************************************)
EXTENDS Naturals, Sequences, SequencesExt

Mnt(at, fs) == [at |-> at, fs |-> fs]
File(path, on, kind) == [path |-> path, on |-> on, kind |-> kind]

\* The mount a path is looked up on: a later mount covers what was there.
On(table, path) ==
  Max({i \in 1 .. Len(table) : IsPrefix(table[i].at, path)})

\* The mount or file a path leads to, if any.
IsTarget(table, path) == table[On(table, path)].at = path
Found(table, files, path) == {f \in files : f.path = path /\ f.on = On(table, path)}
Exists(table, files, path) == IsTarget(table, path) \/ Found(table, files, path) # {}

KindOf(table, files, path) ==
  IF IsTarget(table, path) THEN "dir" ELSE (CHOOSE f \in Found(table, files, path) : TRUE).kind

\* mkdir or mknod: nothing happens if the path is taken.
Made(table, files, path, kind) ==
  IF Exists(table, files, path) THEN files
  ELSE files \cup {File(path, On(table, path), kind)}
MadeAll(table, files, paths, kind) ==
  files \cup UNION {Made(table, files, p, kind) : p \in paths}

\* No later mount hides the file f.
FileSeen(table, f)  == On(table, f.path) = f.on
=============================================================================
