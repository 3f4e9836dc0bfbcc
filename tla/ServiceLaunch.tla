--------------------------- MODULE ServiceLaunch ---------------------------
(***************************************************************************)
(* Between fork and exec: what service_start in service.c does on both     *)
(* sides of the fork, with util_drop_privileges (util.c) in the child and  *)
(* the cgroup calls (cgroup.c) in lumid, and cgroup_remove when a service  *)
(* is stopped.  The two sides run at the same time; every system call may  *)
(* fail, and most failures are logged and passed over.                     *)
(*                                                                         *)
(* A process is <<n, "main">>, the one the n-th start forked, or           *)
(* <<n, "kid">>, one that it forks itself.                                 *)
(***************************************************************************)
EXTENDS Integers, Sequences

CONSTANTS
  Configs,    \* [limits : [Limits -> Int], user : ..., group : ...]
  MaxStarts   \* bound: starts

Limits == {"memory_max", "memory_high", "cpu_weight", "cpu_max", "io_weight", "pids_max"}

VARIABLES
  svc,      \* the service's configuration
  starts,   \* number of starts
  lumid,    \* where service_start is: "idle", "create", "apply", "add", "up"
  child,    \* where the last main process is before its exec
  cred,     \* uid, gid and supplementary groups of the processes that are there
  warned,   \* starts whose process logged a failure to drop its privileges
  cgroup,   \* the service's control group: does it exist, its files, its members
  said      \* lumid logged a failure since the last fork

vars == <<svc, starts, lumid, child, cred, warned, cgroup, said>>

Main == <<starts, "main">>
Kid  == <<starts, "kid">>
Alive == DOMAIN cred
Cred(ids, groups) == [uid |-> ids[1], gid |-> ids[2], groups |-> groups]
RootIds == <<"root", "root">>
Root == Cred(RootIds, "root")
NoGroup == [there |-> FALSE, files |-> [k \in Limits |-> 0], members |-> {}]

Start(p, c) == cred' = [q \in Alive \cup {p} |-> IF q = p THEN c ELSE cred[q]]
Gone(p) == /\ cred' = [q \in Alive \ {p} |-> cred[q]]
           /\ cgroup' = [cgroup EXCEPT !.members = @ \ {p}]

Init ==
  /\ svc \in Configs /\ starts = 0 /\ lumid = "idle" /\ child = "none"
  /\ cred = [p \in {} |-> Root] /\ warned = {} /\ cgroup = NoGroup /\ said = FALSE

-----------------------------------------------------------------------------
(* lumid's side.                                                           *)

\* Only a memory or a CPU limit makes a group; the others alone do not.
HasGroup == svc.limits["memory_max"] > 0 \/ svc.limits["cpu_max"] > 0

Fork ==
  /\ lumid = "idle" /\ starts < MaxStarts
  /\ starts' = starts + 1 /\ said' = FALSE /\ child' = "workdir"
  /\ Start(<<starts + 1, "main">>, Root)
  /\ lumid' = IF HasGroup THEN "create" ELSE "up"
  /\ UNCHANGED <<svc, warned, cgroup>>

Says == said' = TRUE

CgroupCreate ==
  /\ lumid = "create" /\ lumid' = "apply"
  /\ \/ cgroup' = [cgroup EXCEPT !.there = TRUE] /\ UNCHANGED said
     \/ ~cgroup.there /\ Says /\ UNCHANGED cgroup
  /\ UNCHANGED <<svc, starts, child, cred, warned>>

\* The limits that cgroup_apply_limits writes.
Sets(k) == svc.limits[k] > 0 /\ (k = "cpu_max" => svc.limits[k] <= 100)

\* util_write_file for each: it fails for all of them without a group.
CgroupApply ==
  /\ lumid = "apply" /\ lumid' = "add"
  /\ \E K \in SUBSET {k \in Limits : Sets(k) /\ cgroup.there} :
       /\ cgroup' = [cgroup EXCEPT !.files =
                       [k \in Limits |-> IF k \in K THEN svc.limits[k] ELSE @[k]]]
       /\ said' = (said \/ \E k \in Limits \ K : Sets(k))
  /\ UNCHANGED <<svc, starts, child, cred, warned>>

\* Mutant: a write to cgroup.procs that fails is not logged.
CgroupAddFailsSilently == UNCHANGED <<cgroup, said>>
CgroupAddFails == Says /\ UNCHANGED cgroup

CgroupAdd ==
  /\ lumid = "add" /\ lumid' = "up"
  /\ \/ /\ cgroup.there /\ Main \in Alive
        /\ cgroup' = [cgroup EXCEPT !.members = @ \cup {Main}]
        /\ UNCHANGED said
     \/ CgroupAddFails
  /\ UNCHANGED <<svc, starts, child, cred, warned>>

\* service_stop: the main process is gone when cgroup_remove is called, which
\* is refused while the group has members.
Stop ==
  /\ lumid = "up" /\ Main \in Alive
  /\ lumid' = "idle" /\ child' = "none"
  /\ cred' = [q \in Alive \ {Main} |-> cred[q]]
  /\ cgroup' = IF cgroup.members \subseteq {Main} THEN NoGroup
               ELSE [cgroup EXCEPT !.members = @ \ {Main}]
  /\ UNCHANGED <<svc, starts, warned, said>>

\* The supervisor reaps a main process that has ended; the group stays.
Reap ==
  /\ lumid = "up" /\ Main \notin Alive
  /\ lumid' = "idle" /\ child' = "none"
  /\ UNCHANGED <<svc, starts, cred, warned, cgroup, said>>

-----------------------------------------------------------------------------
(* The child's side.                                                       *)

Child(here, there) == child = here /\ Main \in Alive /\ child' = there
\* _exit(127), and any other end of a process
Ends(p) == p \in Alive /\ Gone(p) /\ UNCHANGED <<svc, starts, lumid, child, warned, said>>
Quiet == UNCHANGED <<svc, starts, lumid, cgroup, said>>

Chdir == Child("workdir", "drop") /\ UNCHANGED <<cred, warned>> /\ Quiet

Group == IF svc.group \in {"", "unknown"} THEN "primary" ELSE svc.group

\* Mutant: first setuid, then setgid.
SwappedIds == {RootIds, <<svc.user, "root">>, <<svc.user, Group>>}
\* What setgid and then setuid leave, as far as they go.
DroppedIds == {RootIds, <<"root", Group>>, <<svc.user, Group>>}

\* util_drop_privileges, whose result nobody looks at.  It logs a user or a
\* group it cannot find and each call that fails, the first of them, which
\* sets the supplementary groups (initgroups), to go on with the next.
DropPrivileges ==
  /\ Child("drop", "exec")
  /\ \/ svc.user = "" /\ UNCHANGED <<cred, warned>>
     \/ svc.user = "unknown" /\ UNCHANGED cred /\ warned' = warned \cup {starts}
     \/ /\ svc.user \notin {"", "unknown"}
        /\ \E groups \in {"root", svc.user}, ids \in DroppedIds :
             /\ Start(Main, Cred(ids, groups))
             /\ LET logged == \/ svc.group = "unknown"
                              \/ groups = "root"
                              \/ ids # <<svc.user, Group>>
                IN  warned' = warned \cup IF logged THEN {starts} ELSE {}
  /\ Quiet

Exec == Child("exec", "running") /\ UNCHANGED <<cred, warned>> /\ Quiet

\* What a process forks is in its group.
ForkKid ==
  /\ child = "running" /\ Main \in Alive /\ Kid \notin Alive
  /\ Start(Kid, cred[Main])
  /\ cgroup' = [cgroup EXCEPT !.members = @ \cup {Kid : p \in @ \cap {Main}}]
  /\ UNCHANGED <<svc, starts, lumid, child, warned, said>>

Lumid == Fork \/ CgroupCreate \/ CgroupApply \/ CgroupAdd \/ Stop \/ Reap
Children == Chdir \/ DropPrivileges \/ Exec \/ ForkKid \/ \E p \in Alive : Ends(p)
Next == Lumid \/ Children

Spec == Init /\ [][Next]_vars

-----------------------------------------------------------------------------
(* Properties.                                                             *)

TypeOK ==
  /\ svc \in Configs /\ starts \in 0 .. MaxStarts /\ said \in BOOLEAN
  /\ warned \subseteq 1 .. starts
  /\ lumid \in {"idle", "create", "apply", "add", "up"}
  /\ child \in {"none", "workdir", "drop", "exec", "running"}
  /\ Alive \subseteq (1 .. MaxStarts) \X {"main", "kid"}
  /\ cgroup.members \subseteq Alive /\ (cgroup.members # {} => cgroup.there)

\* A process of a service that names a user, and anything it forks, runs as
\* that user, with its group and its supplementary groups, unless its start
\* logged what failed; and even then never as the user with root's group: where
\* setgid and setuid stop halfway, the user is still root's (util.c:235, "order
\* matters!").  Two things are passed over without a word and are not claimed:
\* a group without a user is ignored (service.c:333), and a service whose
\* privileges could not be dropped is run all the same (service.c:334).
Dropped(p) == p = Main => child \in {"exec", "running"}
PrivilegesDroppedOrSaid ==
  \A p \in Alive :
    /\ cred[p].uid # "root" => cred[p].gid = Group
    /\ svc.user # "" /\ Dropped(p) /\ p[1] \notin warned =>
         cred[p] = Cred(<<svc.user, Group>>, svc.user)

\* The limits lumid drops without a word: all of a service that limits neither
\* its memory_max nor its CPU (service.c:358), and a CPU limit above 100 %
\* (cgroup.c:108).
SilentlyDropped(k) == ~HasGroup \/ (k = "cpu_max" /\ ~(svc.limits[k] <= 100))

\* Of the other limits none is missing without a word: once lumid is done with
\* a start and has logged nothing, those the file asks for are in the files of
\* the service's group, whatever an earlier instance left there, and the main
\* process, if it is still alive, is in it.  (What that process forked before
\* it was moved stays outside.)
NoOtherSilentDrop ==
  lumid = "up" /\ ~said /\ starts > 0 =>
    /\ \A k \in Limits :
         svc.limits[k] > 0 /\ ~SilentlyDropped(k) => cgroup.files[k] = svc.limits[k]
    /\ HasGroup /\ Main \in Alive => Main \in cgroup.members

=============================================================================
