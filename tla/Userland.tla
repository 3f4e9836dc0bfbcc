------------------------------ MODULE Userland ------------------------------
(***************************************************************************)
(* The parts of LumiOS around the service manager, side by side: one       *)
(* instance of the module of each, and the properties of them all.  The    *)
(* parts share no state, and each makes its steps on its own.              *)
(***************************************************************************)
EXTENDS Integers, Sequences

CONSTANTS
  MaxCalls, MaxOwed,                                  \* telephonyd
  Syscalls, BlockedNormal, BlockedStrict, MaxRules, MaxPaths, PolicyFiles,
  FileNames, Contents, MaxDeps, MaxEnv, MaxLoads, Kilo, Half, IntHalf,  \* service files
  Tables, Present,                                    \* early boot
  HostFiles,                                          \* Android container
  Keys, Vals, Defaults, PropLines, MaxLines, MaxProps, MaxAsked,
  Configs, MaxStarts,                                 \* service_start
  Devices, Raw, Hint, MaxSensors, MaxReads            \* sensord

VARIABLES
  phase, running, calls, airplane, reg, active, sim, slot, modem, lifo, clean,
  boxPc, policy, policyFile, kernel, inForce, granted, reported,
  dir, fresh, loads, todo, lines, source, section, parsed, confPc, services,
  bootPc, next, mounts, made, own, failed,
  at, gpu, host, table, files, before, private, pc,
  props, asked,
  config, starts, lumid, child, cred, warned, cgroup, said,
  up, sensing, sensors, last, polled, plugged, buffer, left, reads,
  byLumid, loop, daemonPc, handler, flag, pending, stop, cleaned, early

tel   == <<phase, running, calls, airplane, reg, active, sim, slot, modem, lifo, clean>>
box   == <<boxPc, policy, policyFile, kernel, inForce, granted, reported>>
conf  == <<dir, fresh, loads, todo, lines, source, section, parsed, confPc, services>>
boot  == <<bootPc, next, mounts, made, own, failed>>
setup == <<at, gpu, host, table, files, before, private, pc>>
propVars == <<props, asked>>
exec  == <<config, starts, lumid, child, cred, warned, cgroup, said>>
sense == <<up, sensing, sensors, last, polled, plugged, buffer, left, reads>>
daemon == <<byLumid, loop, daemonPc, handler, flag, pending, stop, cleaned, early>>

Tel   == INSTANCE Telephonyd
Box   == INSTANCE Sandbox WITH
  Files <- PolicyFiles, pc <- boxPc, file <- policyFile, host <- kernel
Conf  == INSTANCE ServiceFile WITH svc <- parsed, pc <- confPc
Boot  == INSTANCE EarlyBoot WITH pc <- bootPc, table <- mounts, files <- made
Setup == INSTANCE ContainerSetup
Props == INSTANCE AndroidProps WITH Lines <- PropLines
Exec  == INSTANCE ServiceLaunch WITH svc <- config
Sense == INSTANCE Sensord WITH running <- sensing, table <- sensors
Stop  == INSTANCE DaemonStop WITH pc <- daemonPc

\* Each part with the spec of its module.
Spec == /\ Tel!Spec /\ Box!Spec /\ Conf!Spec /\ Boot!Spec /\ Setup!Spec
        /\ Props!Spec /\ Exec!Spec /\ Sense!Spec /\ Stop!Spec

-----------------------------------------------------------------------------
(* What the constants are: limits of arrays, and contents of files.        *)

ASSUME LimitsAreNat ==
  {MaxCalls, MaxOwed, MaxRules, MaxPaths, MaxProps, MaxAsked, MaxStarts, MaxSensors, MaxReads}
    \subseteq Nat
ASSUME FilesAreLines == Conf!FilesHaveLines
\* The lists of seccomp.c are of system calls, and sbx_policy_default's at most
\* five paths fit; a policy file is lines, its level a number.
ASSUME PresetsAreBlocked ==
  {BlockedNormal, BlockedStrict} \subseteq Seq(Syscalls) /\ MaxPaths >= 5
ASSUME PoliciesAreLines ==
  \A f \in PolicyFiles :
    /\ Len(f) \in Nat
    /\ \A i \in 1 .. Len(f) : f[i].key = "level" => f[i].val \in Box!AnyLevel
\* The properties that are there by default are a list.
ASSUME DefaultsAreSettings == Defaults \in Seq({Defaults[i] : i \in 1 .. Len(Defaults)})
\* sysfs lists finitely many devices, each with the types its files are there for.
ASSUME DevicesHaveTypes ==
  /\ Sense!IsFiniteSet(Devices) /\ "none" \notin Devices
  /\ Raw \in [Devices -> SUBSET Sense!TypeSet]
\* The kernel mounts the root before it runs init.
ASSUME TablesHaveARoot ==
  \A t \in Tables : /\ t \in Seq([at : Seq(STRING), fs : STRING])
                    /\ t # <<>> /\ t[1].at = <<>>
\* A path names one file of a mount.
ASSUME HostFilesAreFiles ==
  \A F \in HostFiles :
    /\ \A f, g \in F : f.path = g.path /\ f.on = g.on => f = g
    /\ \A f \in F : f.on \in {1, 2} /\ f.kind \in {"dir", "node"}

-----------------------------------------------------------------------------
(* The properties of the parts, each explained in the module of its part.  *)

\* Types: each part keeps its type invariant.
TypeOK ==
  /\ Tel!TypeOK /\ Box!TypeOK /\ Conf!TypeOK /\ Boot!TypeOK /\ Setup!TypeOK
  /\ Props!TypeOK /\ Exec!TypeOK /\ Sense!TypeOK /\ Stop!TypeOK

\* telephonyd: ids of calls are their places, if calls end last in, first out.
IdsArePlaces == Tel!IdsArePlaces
\* telephonyd: what it believes of the modem, as long as no answer is late.
BelievesWhatIs == Tel!BelievesWhatIs
\* telephonyd: airplane mode reaches the modem behind all it still owes.
AirplaneSettles == Tel!AirplaneSettles

\* sandbox: the compiled seccomp program denies what the rules deny.
FilterMeansPolicy == Box!FilterMeansPolicy
\* sandbox: a layer the policy asks for is in force or reported.
AskedOrReported == Box!AskedOrReported

\* lumid's service files: a parsed service is what its file says.
ParsedAsWritten == Conf!ParsedAsWritten
\* lumid's service files: loads add services with new names, and only that.
GrowsByNewNames == Conf!GrowsByNewNames
\* lumid's service files: a bad file keeps no good one from being served.
EveryGoodFileServed == Conf!EveryGoodFileServed

\* lumid's boot: what it made and mounted is there to be seen.
NothingBuried == Boot!NothingBuried
\* container: its set-up leaves the host's mounts alone.
HostUntouched == Setup!HostUntouched
\* container: the device nodes made for it are where it looks for them.
NodesInPlace == Setup!NodesInPlace
\* container: a property's value is the last one set that there was room for.
GetIsLastSet == Props!GetIsLastSet

\* lumid's service_start: privileges are dropped, or it was logged that not.
PrivilegesDroppedOrSaid == Exec!PrivilegesDroppedOrSaid
\* lumid's service_start: limits, but for two kinds, are in force or logged.
NoOtherSilentDrop == Exec!NoOtherSilentDrop

\* sensord: a buffer runs for an active sensor only, or was told to stop.
OnMeansActive == Sense!OnMeansActive
\* sensord: the kept and polled events are the sensors' own.
EventsAreOwn == Sense!EventsAreOwn

\* daemons: SIGTERM ends a loop that reads its flag.
TermEndsTheLoop == Stop!TermEndsTheLoop
=============================================================================
