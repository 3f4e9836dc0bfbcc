-------------------------- MODULE LumidLifeProofs --------------------------
(***************************************************************************)
(* What lumid promises about the life of its services.                     *)
(*                                                                         *)
(* Boot and shutdown respect the dependency order, for every start order   *)
(* that keeps the contract of service_resolve_deps (OrderContract).        *)
(* Both proofs follow the walk over g_start_order: one invariant says how  *)
(* far it got and what is already true of the services behind it.          *)
(*                                                                         *)
(* lumid keeps the promise of Lifecycle, and leaves nothing running when   *)
(* the machine goes down: for every dependency graph, policy, number of    *)
(* pids and sequence of reloads, of services whose process is the one that *)
(* was forked, as long as no client asks for a restart.  Both conditions   *)
(* are needed: a forking service leaves a process no svc->pid names, and   *)
(* an administrator's restart forks a second one.                          *)
(***************************************************************************)
EXTENDS LumidProofs

\* A start order is a sequence of services.
LEMMA OrderTypes ==
  ASSUME NEW g \in 1 .. Loads
  PROVE  /\ BootOrder[g] \in Seq(Services)
         /\ Len(BootOrder[g]) \in Nat
         /\ DOMAIN BootOrder[g] = 1 .. Len(BootOrder[g])
         /\ \A i \in 1 .. Len(BootOrder[g]) : BootOrder[g][i] \in Services
  BY ConstantTypes

\* The parts of the contract the proofs use, in terms of positions.
LEMMA OrderFacts ==
  ASSUME NEW g \in 1 .. Loads
  PROVE  /\ \A i, j \in 1 .. Len(BootOrder[g]) : BootOrder[g][i] = BootOrder[g][j] => i = j
         /\ \A j \in 1 .. Len(BootOrder[g]) : BootOrder[g][j] \in InArray(g)
         /\ \A j \in 1 .. Len(BootOrder[g]) : \A d \in Deps[BootOrder[g][j]] \cap InArray(g) :
              \E i \in 1 .. (j - 1) : BootOrder[g][i] = d
         /\ Resolved[g] => \A t \in InArray(g) :
              \E j \in 1 .. Len(BootOrder[g]) : BootOrder[g][j] = t
<1>1. ResolvedAs(BootOrder[g], Resolved[g], Deps, InArray(g))
  BY OrderContract
<1>2. /\ NoRepeat(BootOrder[g]) /\ Sound(BootOrder[g], Deps, InArray(g))
      /\ Range(BootOrder[g]) \subseteq InArray(g)
  BY <1>1 DEF ResolvedAs, Placed
<1>3. Resolved[g] => InArray(g) \subseteq Range(BootOrder[g])
  BY <1>1 DEF ResolvedAs, Complete, Placed
<1>4. QED
  BY <1>2, <1>3, OrderTypes DEF NoRepeat, Sound, IsInjective, Range

-----------------------------------------------------------------------------
(* Boot: behind the walk every service has been tried.                     *)

BootProgress ==
  pc = "boot" =>
    LET bo == BootOrder[1]
        n  == Len(bo)
        k  == Len(walk)
    IN /\ gen = 1
       /\ walk # <<>> =>
            /\ k <= n
            /\ \A i \in 1 .. k : walk[i] = bo[n - k + i]
            /\ \A j \in 1 .. (n - k) : state[bo[j]] # "STOPPED"

\* What one call of service_start does to the states.
LEMMA StartTries ==
  ASSUME TypeOK, NEW s \in Services, ServiceStart(s)
  PROVE  /\ state'[s] # "STOPPED"
         /\ \A t \in Services : t # s => state'[t] = state[t]
  BY DEF TypeOK, ServiceStart, StartNothing, StartFails, StartForks, StateAfterFork,
         AlreadyRunning, svcVars

\* A step that begins during boot.
LEMMA BootSteps ==
  ASSUME TypeOK, [Next]_vars, pc = "boot"
  PROVE  \/ UNCHANGED <<state, pc, walk, gen>>
         \/ Boot
<1>1. CASE LumidStep
  <2>1. ~Stop
    BY DEF Stop, StopNothing, StopTerm, StopFinish
  <2>2. ~Dispatch
    BY DEF Dispatch, EpollWait, DispatchSignal, DispatchDone
  <2>3. ~Signals
    BY DEF Signals, SignalsDone, TakeHup, TakeTerm, TakeChld, ReapDone, Reap
  <2>4. ~Check
    BY DEF Check, CheckNotDue, CheckDue, SweepSkip, SweepDone, SweepRestart
  <2>5. ~Handle
    BY DEF Handle, HandleStart, RestartStart, HandleStop, HandleRestart, HandleEnable,
           HandlePower, HandleOther, HandleSilent, Serving
  <2>6. ~Shutdown
    BY DEF Shutdown, LoopExit, ShutdownStop, PowerDown
  <2>7. QED
    BY <1>1, <2>1, <2>2, <2>3, <2>4, <2>5, <2>6 DEF LumidStep
<1>2. CASE Environment
  BY <1>2 DEF Environment, ChildExits, Daemonizes, SendHup, SendTerm, ClientConnects,
              ReadReturns, svcVars
<1>3. CASE PoweredOff \/ UNCHANGED vars
  BY <1>3 DEF PoweredOff, vars
<1>4. QED
  BY <1>1, <1>2, <1>3 DEF Next

\* Nothing leads back to boot.
LEMMA NoWayBack == ASSUME TypeOK, [Next]_vars, pc # "boot" PROVE pc' # "boot"
<1>1. CASE LumidStep
  <2>1. CASE Stop
    BY <2>1 DEF Stop, StopNothing, StopTerm, StopFinish, TypeOK
  <2>2. CASE Boot
    BY <2>2 DEF Boot, BootStart, BootDone
  <2>3. CASE Dispatch
    BY <2>3 DEF Dispatch, EpollWait, DispatchSignal, DispatchDone
  <2>4. CASE Signals
    BY <2>4 DEF Signals, SignalsDone, TakeHup, TakeTerm, TakeChld, ReapDone, Reap
  <2>5. CASE Check
    BY <2>5 DEF Check, CheckNotDue, CheckDue, SweepSkip, SweepDone, SweepRestart
  <2>6. CASE Handle
    BY <2>6 DEF Handle, HandleStart, RestartStart, HandleStop, HandleRestart,
                HandleEnable, HandlePower, HandleOther, HandleSilent
  <2>7. CASE Shutdown
    BY <2>7 DEF Shutdown, LoopExit, ShutdownStop, PowerDown
  <2>8. QED
    BY <1>1, <2>1, <2>2, <2>3, <2>4, <2>5, <2>6, <2>7 DEF LumidStep
<1>2. CASE Environment
  BY <1>2 DEF Environment, ChildExits, Daemonizes, SendHup, SendTerm, ClientConnects,
              ReadReturns
<1>3. CASE PoweredOff \/ UNCHANGED vars
  BY <1>3 DEF PoweredOff, vars
<1>4. QED
  BY <1>1, <1>2, <1>3 DEF Next

\* Booting has made no progress before it starts.
LEMMA BootProgressInit == Init => BootProgress
<1> SUFFICES ASSUME Init PROVE BootProgress
  OBVIOUS
<1>1. 1 \in 1 .. Loads
  BY ConstantTypes
<1>2. CASE walk = <<>>
  BY <1>2 DEF Init, BootProgress
<1>3. CASE walk = BootOrder[1]
  BY <1>1, <1>3, OrderTypes DEF Init, BootProgress
<1>4. QED
  BY <1>2, <1>3 DEF Init, BootWalk

\* Every step keeps the services behind the boot's walk tried.
LEMMA BootProgressStep == TypeOK /\ BootProgress /\ [Next]_vars => BootProgress'
<1> SUFFICES ASSUME TypeOK, BootProgress, [Next]_vars PROVE BootProgress'
  OBVIOUS
<1>0. 1 \in 1 .. Loads
  BY ConstantTypes
<1>1. CASE pc # "boot"
  BY <1>1, NoWayBack DEF BootProgress
<1>2. CASE pc = "boot" /\ UNCHANGED <<state, pc, walk, gen>>
  BY <1>2 DEF BootProgress
<1>3. CASE pc = "boot" /\ BootDone
  BY <1>3 DEF BootDone, BootProgress
<1>4. ASSUME pc = "boot", NEW s \in Services, BootStart(s) PROVE BootProgress'
  <2> DEFINE bo == BootOrder[1]
             n  == Len(bo)
             k  == Len(walk)
  <2>1. /\ walk \in Seq(Services) /\ walk # <<>> /\ s = walk[1] /\ ServiceStart(s)
        /\ walk' = Tail(walk) /\ UNCHANGED <<pc, gen>>
    BY <1>4 DEF BootStart, TypeOK
  <2>2. /\ k \in Nat /\ k > 0 /\ Len(walk') = k - 1
        /\ \A i \in 1 .. (k - 1) : walk'[i] = walk[i + 1]
    BY <2>1
  <2>3. /\ gen = 1 /\ k <= n
        /\ \A i \in 1 .. k : walk[i] = bo[n - k + i]
        /\ \A j \in 1 .. (n - k) : state[bo[j]] # "STOPPED"
    BY <1>4, <2>1 DEF BootProgress
  <2>4. n \in Nat /\ \A i \in 1 .. n : bo[i] \in Services
    BY <1>0, OrderTypes
  <2>5. s = bo[n - k + 1]
    BY <2>1, <2>2, <2>3, <2>4
  <2>6. \A i \in 1 .. (k - 1) : walk'[i] = bo[n - (k - 1) + i]
    BY <2>2, <2>3, <2>4
  <2>7. \A j \in 1 .. (n - (k - 1)) : state'[bo[j]] # "STOPPED"
    <3> TAKE j \in 1 .. (n - (k - 1))
    <3>0. j \in 1 .. n /\ (j \in 1 .. (n - k) \/ j = n - k + 1)
      <4> HIDE DEF n, k, bo
      <4>1. k \in Nat /\ n \in Nat /\ 0 < k /\ k <= n
        BY <2>2, <2>3, <2>4
      <4>2. QED
        BY <4>1
    <3>1. bo[j] \in Services /\ (j \in 1 .. (n - k) \/ j = n - k + 1)
      BY <2>4, <3>0
    <3>2. state'[s] # "STOPPED" /\ \A t \in Services : t # s => state'[t] = state[t]
      BY <2>1, StartTries
    <3>3. CASE bo[j] = s
      BY <3>2, <3>3
    <3>4. CASE bo[j] # s
      BY <2>3, <2>5, <3>1, <3>2, <3>4
    <3>5. QED
      BY <3>3, <3>4
  <2>8. QED
    BY <2>1, <2>2, <2>3, <2>4, <2>6, <2>7 DEF BootProgress
<1>5. QED
  BY <1>1, <1>2, <1>3, <1>4, BootSteps DEF Boot

\* At boot every service is tried only after all its dependencies in
\* svc_array were.
THEOREM BootInOrder == Spec => BootRespectsOrder
<1> DEFINE Fine(s) ==
      pc = "boot" /\ state[s] = "STOPPED" /\ state'[s] # "STOPPED" =>
        \A d \in Deps[s] \cap InArray(gen) : state[d] # "STOPPED"
<1>1. TypeOK /\ BootProgress /\ [Next]_vars => [\A s \in Services : Fine(s)]_vars
  <2> SUFFICES ASSUME TypeOK, BootProgress, Next, NEW s \in Services,
                      pc = "boot", state[s] = "STOPPED", state'[s] # "STOPPED",
                      NEW d \in Deps[s] \cap InArray(gen)
               PROVE  state[d] # "STOPPED"
    OBVIOUS
  <2> DEFINE bo == BootOrder[1]
             n  == Len(bo)
             k  == Len(walk)
  <2>1. Boot
    BY BootSteps
  <2>2. PICK t \in Services : BootStart(t)
    BY <2>1 DEF Boot, BootDone, svcVars
  <2>3. t = s /\ walk # <<>> /\ walk[1] = s
    BY <2>2, StartTries DEF BootStart, TypeOK
  <2>3a. k \in Nat /\ k > 0
    BY <2>3 DEF TypeOK
  <2>3b. /\ gen = 1 /\ k <= n
         /\ \A i \in 1 .. k : walk[i] = bo[n - k + i]
         /\ \A j \in 1 .. (n - k) : state[bo[j]] # "STOPPED"
    BY <2>3 DEF BootProgress
  <2>4. /\ gen = 1 /\ k \in Nat /\ k > 0 /\ k <= n
        /\ walk[1] = bo[n - k + 1]
        /\ \A j \in 1 .. (n - k) : state[bo[j]] # "STOPPED"
    BY <2>3a, <2>3b
  <2>5. 1 \in 1 .. Loads
    BY ConstantTypes
  <2>6. n \in Nat
    BY <2>5, OrderTypes
  <2>7. n - k + 1 \in 1 .. n
    BY <2>4, <2>6
  <2>8. d \in Deps[bo[n - k + 1]] \cap InArray(1)
    BY <2>3, <2>4
  <2>9. \E i \in 1 .. (n - k + 1 - 1) : bo[i] = d
    BY <2>5, <2>7, <2>8, OrderFacts
  <2>10. QED
    BY <2>4, <2>6, <2>9
<1>2. Spec => [](TypeOK /\ BootProgress)
  BY BootProgressInit, BootProgressStep, TypeCorrect, PTL DEF Spec
<1>3. Spec => [][\A s \in Services : Fine(s)]_vars
  BY <1>1, <1>2, PTL DEF Spec
<1>4. QED
  BY <1>3 DEF BootRespectsOrder

-----------------------------------------------------------------------------
(* Shutdown: behind the walk no service can still be stopped, so none is   *)
(* up.  The walk's length says how many entries of the order are left.     *)

InShutdown == pc = "shutdown" \/ (pc \in {"stop", "stopping"} /\ ret = "shutdown")

ShutdownProgress ==
  InShutdown =>
    LET bo == BootOrder[gen]
        k  == Len(walk)
    IN /\ k <= Len(bo)
       /\ \A i \in 1 .. k : walk[i] = bo[k + 1 - i]
       /\ \A j \in 1 .. Len(bo) : j > k + 1 => ~Stoppable(bo[j])
       /\ pc # "shutdown" => k < Len(bo) /\ cur = bo[k + 1]
       /\ pc # "stop" /\ k < Len(bo) => ~Stoppable(bo[k + 1])

\* service_stop during shutdown.
LEMMA StopProgress ==
  ASSUME TypeOK, ShutdownProgress, Stop, InShutdown
  PROVE  ShutdownProgress'
<1> DEFINE bo == BootOrder[gen]
           k  == Len(walk)
<1>1. /\ k <= Len(bo) /\ \A i \in 1 .. k : walk[i] = bo[k + 1 - i]
      /\ \A j \in 1 .. Len(bo) : j > k + 1 => ~Stoppable(bo[j])
      /\ k < Len(bo) /\ cur = bo[k + 1]
      /\ pc # "stop" => ~Stoppable(bo[k + 1])
  BY DEF ShutdownProgress, Stop, StopNothing, StopTerm, StopFinish
<1>2. /\ gen \in 1 .. Loads /\ k \in Nat /\ Len(bo) \in Nat
      /\ \A j \in 1 .. Len(bo) : bo[j] \in Services
  BY OrderTypes DEF TypeOK
<1>3. /\ ret = "shutdown" /\ UNCHANGED <<walk, gen, cur, ret>>
      /\ pc' \in {"stopping", "shutdown"}
  BY DEF Stop, StopNothing, StopTerm, StopFinish, InShutdown
<1>4. k + 1 \in 1 .. Len(bo) /\ cur \in Services
  BY <1>1, <1>2
<1> DEFINE Up(t) == state'[t] \in {"RUNNING", "STARTING"}
<1>5. ~Up(cur) /\ \A t \in Services : ~Stoppable(t) => ~Up(t)
  BY <1>4 DEF Stop, StopNothing, StopTerm, StopFinish, Stoppable, TypeOK, svcVars
<1> HIDE DEF Up
<1>6. \A j \in 1 .. Len(bo) : j > k + 1 => ~Up(bo[j])
  BY <1>1, <1>2, <1>5
<1>7. ~Up(bo[k + 1])
  BY <1>1, <1>5
<1>8. QED
  BY <1>1, <1>3, <1>6, <1>7 DEF ShutdownProgress, Stoppable, Up

\* service_stop_all takes the next service.
LEMMA NextProgress ==
  ASSUME TypeOK, ShutdownProgress, ShutdownStop
  PROVE  ShutdownProgress'
<1> DEFINE bo == BootOrder[gen]
           k  == Len(walk)
<1>1. /\ pc = "shutdown" /\ walk # <<>> /\ cur' = walk[1] /\ walk' = Tail(walk)
      /\ pc' = "stop" /\ UNCHANGED <<gen, state>>
  BY DEF ShutdownStop, svcVars
<1>2. /\ k <= Len(bo) /\ \A i \in 1 .. k : walk[i] = bo[k + 1 - i]
      /\ \A j \in 1 .. Len(bo) : j > k + 1 => ~Stoppable(bo[j])
      /\ k < Len(bo) => ~Stoppable(bo[k + 1])
  BY <1>1 DEF ShutdownProgress, InShutdown
<1>3. gen \in 1 .. Loads /\ Len(bo) \in Nat
  BY OrderTypes DEF TypeOK
<1>4. /\ k \in Nat /\ k > 0 /\ Len(walk') = k - 1
      /\ \A i \in 1 .. (k - 1) : walk'[i] = walk[i + 1]
  BY <1>1 DEF TypeOK
<1>5. \A i \in 1 .. (k - 1) : walk'[i] = bo[(k - 1) + 1 - i]
  <2> TAKE i \in 1 .. (k - 1)
  <2>1. i + 1 \in 1 .. k /\ k + 1 - (i + 1) = (k - 1) + 1 - i
    BY <1>4
  <2>2. QED
    BY <1>2, <1>4, <2>1
<1>6. cur' = bo[(k - 1) + 1]
  BY <1>1, <1>2, <1>4
<1>7. \A j \in 1 .. Len(bo) : j > (k - 1) + 1 => ~Stoppable(bo[j])
  <2> TAKE j \in 1 .. Len(bo)
  <2> SUFFICES ASSUME j > (k - 1) + 1 PROVE ~Stoppable(bo[j])
    OBVIOUS
  <2>1. CASE j = k + 1
    BY <1>2, <1>3, <1>4, <2>1
  <2>2. CASE j # k + 1
    <3>1. j > k + 1
      BY <1>3, <1>4, <2>2
    <3>2. QED
      BY <1>2, <3>1
  <2>3. QED
    BY <2>1, <2>2
<1>8. QED
  BY <1>1, <1>2, <1>3, <1>4, <1>5, <1>6, <1>7 DEF ShutdownProgress, Stoppable

\* The loop ends: the whole order is still to be walked, backwards.
LEMMA ExitProgress == ASSUME TypeOK, LoopExit PROVE ShutdownProgress'
<1> DEFINE bo == BootOrder[gen]
<1>1. Len(bo) \in Nat
  BY OrderTypes DEF TypeOK
<1>2. walk' = [i \in 1 .. Len(bo) |-> bo[Len(bo) + 1 - i]] /\ gen' = gen /\ pc' = "shutdown"
  BY DEF LoopExit, StopOrder
<1>3. Len(walk') = Len(bo) /\ \A i \in 1 .. Len(bo) : walk'[i] = bo[Len(bo) + 1 - i]
  BY <1>1, <1>2
<1>4. QED
  BY <1>1, <1>2, <1>3 DEF ShutdownProgress

\* Every step keeps the services behind the shutdown's walk down.
LEMMA ShutdownProgressStep ==
  TypeOK /\ ShutdownProgress /\ [Next]_vars => ShutdownProgress'
<1> SUFFICES ASSUME TypeOK, ShutdownProgress, [Next]_vars PROVE ShutdownProgress'
  OBVIOUS
<1>1. CASE Inside
  <2>1. CASE UNCHANGED <<state, pc, cur, ret, walk, gen>>
    BY <2>1 DEF ShutdownProgress, InShutdown, Stoppable
  <2>2. CASE Stop /\ InShutdown
    BY <2>2, StopProgress
  <2>3. CASE Stop /\ ~InShutdown
    BY <2>3 DEF Stop, StopNothing, StopTerm, StopFinish, InShutdown, ShutdownProgress
  <2>4. CASE ShutdownStop
    BY <2>4, NextProgress
  <2>5. CASE PowerDown \/ \E s \in Services : RestartStart(s)
    BY <2>5 DEF PowerDown, RestartStart, InShutdown, ShutdownProgress
  <2>6. QED
    BY <1>1, <2>1, <2>2, <2>3, <2>4, <2>5, InsideSteps
<1>2. CASE ~Inside /\ Inside'
  <2>1. CASE HandleStop \/ HandleRestart
    BY <2>1 DEF HandleStop, HandleRestart, InShutdown, ShutdownProgress
  <2>2. CASE LoopExit
    BY <2>2, ExitProgress
  <2>3. QED
    BY <1>2, <2>1, <2>2, OutsideSteps
<1>3. CASE ~Inside'
  BY <1>3 DEF Inside, InShutdown, ShutdownProgress
<1>4. QED
  BY <1>1, <1>2, <1>3

\* Whenever the last dependency resolution succeeded, shutdown stops a
\* service only after everything in svc_array that depends on it is down.
THEOREM ShutdownInOrder == Spec => []DependentsStopFirst
<1>1. IInv /\ ShutdownProgress => DependentsStopFirst
  <2> SUFFICES ASSUME IInv, ShutdownProgress, NEW s \in Services,
                      state[s] = "STOPPING", ret = "shutdown", Resolved[gen],
                      NEW t \in InArray(gen), s \in Deps[t]
               PROVE  ~Stoppable(t)
    BY DEF DependentsStopFirst
  <2> DEFINE bo == BootOrder[gen]
             k  == Len(walk)
  <2>1. pc = "stopping" /\ cur = s /\ gen \in 1 .. Loads /\ k \in Nat
    BY DEF IInv, StateMatchesPid, TypeOK
  <2>2. /\ k < Len(bo) /\ s = bo[k + 1]
        /\ \A j \in 1 .. Len(bo) : j > k + 1 => ~Stoppable(bo[j])
    BY <2>1 DEF ShutdownProgress, InShutdown
  <2>3. PICK j \in 1 .. Len(bo) : bo[j] = t
    BY <2>1, OrderFacts
  <2>4. s \in InArray(gen)
    <3>1. Len(bo) \in Nat
      BY <2>1, OrderTypes
    <3>2. k + 1 \in 1 .. Len(bo)
      BY <2>1, <2>2, <3>1
    <3>3. QED
      BY <2>1, <2>2, <3>2, OrderFacts
  <2>5. PICK i \in 1 .. (j - 1) : bo[i] = s
    BY <2>1, <2>3, <2>4, OrderFacts
  <2>6. Len(bo) \in Nat
    BY <2>1, OrderTypes
  <2>7. k + 1 \in 1 .. Len(bo) /\ i \in 1 .. Len(bo)
    BY <2>1, <2>2, <2>6
  <2>8. i = k + 1
    BY <2>1, <2>2, <2>5, <2>7, OrderFacts
  <2>9. QED
    BY <2>2, <2>3, <2>6, <2>8
<1>2. Init => ShutdownProgress
  BY DEF Init, ShutdownProgress, InShutdown
<1>3. Spec => []ShutdownProgress
  BY <1>2, ShutdownProgressStep, TypeCorrect, PTL DEF Spec
<1>4. QED
  BY <1>1, <1>3, Inductive, PTL

-----------------------------------------------------------------------------
(* The promise of Lifecycle.                                               *)

\* The value of svc->pid without a process is no process's pid.
LEMMA NotAPid == NoPid \notin Pids
BY ConstantTypes

SimpleOnly == \A s \in Services : Type[s] = "SIMPLE"
NoRestarts == \A r \in Requests : r.cmd # "RESTART"

(* Every process is the one in its service's svc->pid, and a service that  *)
(* has one is up or being stopped.                                         *)
LifeInv ==
  /\ pc # "restart" /\ ret # "restart"
  /\ \A s \in Services : /\ state[s] # "STARTING"
                         /\ pid[s] # NoPid => state[s] \in {"RUNNING", "STOPPING"}
  /\ \A p \in Pids : proc[p] # "free" =>
       /\ proc[p] \in {"run", "zombie"}
       /\ owner[p] \in Services /\ pid[owner[p]] = p

-----------------------------------------------------------------------------
\* The steps of Spec, as far as services and processes are concerned.
LEMMA StepKinds ==
  ASSUME SimpleOnly, NoRestarts, IInv, LifeInv, [Next]_vars
  PROVE  \/ /\ UNCHANGED <<state, pid, proc, owner, gen>>
            /\ pc' # "restart" /\ ret' # "restart"
         \/ /\ TakeHup
         \/ /\ \E s \in Services : ServiceStart(s)
            /\ UNCHANGED <<pc, ret, gen>> /\ pc # "stopping"
         \/ StopTerm \/ StopFinish
         \/ \E p \in Pids : Reap(p)
         \/ \E p \in Pids : ChildExits(p)
<1>0. TypeOK
  BY DEF IInv
<1>1. CASE LumidStep
  <2>1. CASE Stop
    BY <2>1 DEF Stop, StopNothing, LifeInv, svcVars, procVars
  <2>2. CASE Boot
    BY <2>2 DEF Boot, BootStart, BootDone, LifeInv, svcVars, procVars
  <2>3. CASE Dispatch
    BY <2>3 DEF Dispatch, EpollWait, DispatchSignal, DispatchDone, LifeInv, svcVars, procVars
  <2>4. CASE Signals
    BY <2>4 DEF Signals, SignalsDone, TakeTerm, TakeChld, ReapDone, LifeInv, svcVars, procVars
  <2>5. CASE Check
    BY <2>5 DEF Check, CheckNotDue, CheckDue, SweepSkip, SweepDone, SweepRestart, LifeInv,
                svcVars, procVars
  <2>6. CASE Handle
    <3>1. ~Serving("RESTART")
      <4>1. backlog # <<>> => Head(backlog) \in Requests
        BY <1>0 DEF TypeOK
      <4> QED
        BY <4>1 DEF Serving, NoRestarts
    <3>2. CASE \E s \in Services : HandleStart(s) \/ RestartStart(s)
      BY <3>2 DEF HandleStart, RestartStart, Serving, LifeInv
    <3>3. CASE HandleStop \/ HandleEnable \/ HandlePower \/ HandleOther \/ HandleSilent
      BY <3>3 DEF HandleStop, HandleEnable, HandlePower, HandleOther, HandleSilent, Serving,
                  LifeInv, svcVars, procVars
    <3> QED
      BY <2>6, <3>1, <3>2, <3>3 DEF Handle, HandleRestart
  <2>7. CASE Shutdown
    BY <2>7 DEF Shutdown, LoopExit, ShutdownStop, PowerDown, LifeInv, svcVars, procVars
  <2> QED
    BY <1>1, <2>1, <2>2, <2>3, <2>4, <2>5, <2>6, <2>7 DEF LumidStep
<1>2. CASE Environment
  <2>1. ASSUME NEW p \in Pids, NEW q \in Pids, Daemonizes(p, q) PROVE FALSE
    BY <2>1 DEF Daemonizes, LifeInv, SimpleOnly
  <2>2. CASE SendHup \/ SendTerm \/ ReadReturns \/ \E r \in Requests : ClientConnects(r)
    BY <2>2 DEF SendHup, SendTerm, ClientConnects, ReadReturns, LifeInv, svcVars, procVars
  <2> QED
    BY <1>2, <2>1, <2>2 DEF Environment
<1>3. CASE PoweredOff \/ UNCHANGED vars
  BY <1>3 DEF PoweredOff, vars, LifeInv
<1> QED
  BY <1>1, <1>2, <1>3 DEF Next

\* A start of a service that is not up: it had no process, and the new one
\* is its only one.
LEMMA StartOfIdle ==
  ASSUME SimpleOnly, IInv, LifeInv, pc # "stopping",
         NEW s \in Services, ServiceStart(s), ~StartNothing(s)
  PROVE  /\ pid[s] = NoPid /\ state[s] \in {"STOPPED", "FAILED", "RESTARTING"}
         /\ state' = [state EXCEPT ![s] = state'[s]]
         /\ \/ StartFails(s) /\ state'[s] = "FAILED" /\ UNCHANGED <<pid, proc, owner>>
            \/ /\ DepsUp(s) /\ state'[s] = "RUNNING"
               /\ \E p \in Pids : /\ Free(p)
                                  /\ pid' = [pid EXCEPT ![s] = p]
                                  /\ proc' = [proc EXCEPT ![p] = "run"]
                                  /\ owner' = [owner EXCEPT ![p] = s]
<1>1. state[s] \in {"STOPPED", "FAILED", "RESTARTING"}
  BY DEF ServiceStart, StartNothing, StartFails, StartForks, AlreadyRunning, IInv, TypeOK,
         StateMatchesPid, LifeInv, States
<1>2. pid[s] = NoPid
  BY <1>1 DEF LifeInv
<1>3. CASE StartFails(s)
  BY <1>1, <1>2, <1>3 DEF StartFails, IInv, TypeOK, procVars
<1>4. CASE StartForks(s)
  BY <1>1, <1>2, <1>4 DEF StartForks, StateAfterFork, SimpleOnly, IInv, TypeOK
<1> QED
  BY <1>3, <1>4 DEF ServiceStart

\* Every step keeps the invariant of the processes.
LEMMA LifeInvStep ==
  ASSUME SimpleOnly, NoRestarts, IInv, LifeInv, [Next]_vars
  PROVE  LifeInv'
<1> USE NotAPid
<1>1. CASE /\ UNCHANGED <<state, pid, proc, owner, gen>>
           /\ pc' # "restart" /\ ret' # "restart"
  BY <1>1 DEF LifeInv
<1>2. CASE TakeHup
  BY <1>2 DEF TakeHup, LifeInv, svcVars, procVars
<1>3. ASSUME NEW s \in Services, ServiceStart(s), UNCHANGED <<pc, ret, gen>>, pc # "stopping"
      PROVE  LifeInv'
  <2>1. CASE StartNothing(s)
    BY <1>3, <2>1 DEF StartNothing, LifeInv, svcVars, procVars
  <2>2. CASE ~StartNothing(s)
    <3>1. /\ pid[s] = NoPid
          /\ state' = [state EXCEPT ![s] = state'[s]]
          /\ pc' = pc /\ ret' = ret
      BY <1>3, <2>2, StartOfIdle
    <3>2. CASE state'[s] = "FAILED" /\ UNCHANGED <<pid, proc, owner>>
      <4>1. state' = [state EXCEPT ![s] = "FAILED"]
        BY <3>1, <3>2
      <4>2. \A t \in Services : /\ state'[t] # "STARTING"
                                /\ pid[t] # NoPid => state'[t] \in {"RUNNING", "STOPPING"}
        BY <3>1, <4>1 DEF LifeInv, IInv, TypeOK
      <4> QED
        BY <3>1, <3>2, <4>2 DEF LifeInv
    <3>3. CASE state'[s] = "RUNNING" /\
               \E p \in Pids : /\ Free(p)
                              /\ pid' = [pid EXCEPT ![s] = p]
                              /\ proc' = [proc EXCEPT ![p] = "run"]
                              /\ owner' = [owner EXCEPT ![p] = s]
      <4>1. PICK p \in Pids : /\ Free(p)
                             /\ pid' = [pid EXCEPT ![s] = p]
                             /\ proc' = [proc EXCEPT ![p] = "run"]
                             /\ owner' = [owner EXCEPT ![p] = s]
        BY <3>3
      <4>2. \A t \in Services : /\ state'[t] # "STARTING"
                                /\ pid'[t] # NoPid => state'[t] \in {"RUNNING", "STOPPING"}
        BY <3>1, <3>3, <4>1 DEF LifeInv, IInv, TypeOK
      <4>3. ASSUME NEW q \in Pids, proc'[q] # "free"
            PROVE  /\ proc'[q] \in {"run", "zombie"}
                   /\ owner'[q] \in Services /\ pid'[owner'[q]] = q
        <5>1. CASE q = p
          BY <4>1, <5>1 DEF IInv, TypeOK
        <5>2. CASE q # p
          <6>1. /\ proc'[q] = proc[q] /\ owner'[q] = owner[q] /\ proc[q] # "free"
            BY <4>1, <4>3, <5>2 DEF IInv, TypeOK
          <6>2. proc[q] \in {"run", "zombie"} /\ owner[q] \in Services /\ pid[owner[q]] = q
            BY <6>1 DEF LifeInv
          <6>3. owner[q] # s
            BY <3>1, <6>2
          <6> QED
            BY <4>1, <6>1, <6>2, <6>3 DEF IInv, TypeOK
        <5> QED
          BY <5>1, <5>2
      <4> QED
        BY <3>1, <4>2, <4>3 DEF LifeInv
    <3> QED
      BY <1>3, <2>2, <3>2, <3>3, StartOfIdle
  <2> QED
    BY <2>1, <2>2
<1>4. CASE StopTerm
  BY <1>4 DEF StopTerm, Stoppable, LifeInv, IInv, TypeOK, procVars
<1>5. CASE StopFinish
  <2>1. cur \in Services /\ pid[cur] \in Pids
    BY <1>5, ListsKnown DEF StopFinish, IInv, TypeOK, WorksOnLoaded, StateMatchesPid, PidOwned, Loaded
  <2>2. /\ proc' = [proc EXCEPT ![pid[cur]] = "free"]
        /\ owner' = [owner EXCEPT ![pid[cur]] = NoService]
        /\ state' = [state EXCEPT ![cur] = "STOPPED"]
        /\ pid' = [pid EXCEPT ![cur] = NoPid]
        /\ pc' = ret /\ ret' = ret
    BY <1>5, <2>1 DEF StopFinish, ReapOwn
  <2> QED
    BY <2>1, <2>2 DEF LifeInv, IInv, TypeOK
<1>6. ASSUME NEW p \in Pids, Reap(p) PROVE LifeInv'
  <2>1. /\ proc' = [proc EXCEPT ![p] = "free"]
        /\ owner' = [owner EXCEPT ![p] = NoService]
        /\ pc' = pc /\ ret' = ret
    BY <1>6 DEF Reap, ReapOwn
  <2>2. owner[p] \in Services /\ pid[owner[p]] = p
    BY <1>6 DEF Reap, LifeInv
  <2>3. owner[p] \in Tracking(p)
    BY <2>2 DEF Tracking, IInv, WorksOnLoaded
  <2>4. PICK s \in Tracking(p) :
          /\ state' = [state EXCEPT ![s] = StateAfterExit(s, status[p])]
          /\ pid' = [pid EXCEPT ![s] = NoPid]
    BY <1>6, <2>3 DEF Reap, ReapService, ReapOrphan
  <2>5. s \in Services /\ pid[s] = p
    BY <2>4, ListsKnown DEF Tracking, Loaded, IInv, TypeOK
  <2>6. StateAfterExit(s, status[p]) \in {"STOPPED", "RESTARTING", "FAILED"}
    BY DEF StateAfterExit
  <2>7. \A t \in Services : /\ state'[t] # "STARTING"
                            /\ pid'[t] # NoPid => state'[t] \in {"RUNNING", "STOPPING"}
    BY <2>4, <2>5, <2>6 DEF LifeInv, IInv, TypeOK
  <2>8. ASSUME NEW q \in Pids, proc'[q] # "free"
        PROVE  /\ proc'[q] \in {"run", "zombie"}
               /\ owner'[q] \in Services /\ pid'[owner'[q]] = q
    <3>1. q # p /\ proc'[q] = proc[q] /\ owner'[q] = owner[q]
      BY <2>1, <2>8 DEF IInv, TypeOK
    <3>2. proc[q] \in {"run", "zombie"} /\ owner[q] \in Services /\ pid[owner[q]] = q
      BY <2>8, <3>1 DEF LifeInv
    <3>3. pid'[owner[q]] = pid[owner[q]]
      BY <2>4, <2>5, <3>1, <3>2 DEF IInv, TypeOK
    <3> QED
      BY <3>1, <3>2, <3>3
  <2> QED
    BY <2>1, <2>7, <2>8 DEF LifeInv
<1>7. ASSUME NEW p \in Pids, ChildExits(p) PROVE LifeInv'
  BY <1>7 DEF ChildExits, LifeInv, IInv, TypeOK, svcVars
<1> QED
  BY <1>1, <1>2, <1>3, <1>4, <1>5, <1>6, <1>7, StepKinds

\* The invariant of the processes holds in every reachable state.
LEMMA LifeInvAlways == ASSUME SimpleOnly, NoRestarts PROVE Spec => [](IInv /\ LifeInv)
<1>1. Init => LifeInv
  BY DEF Init, LifeInv
<1>2. IInv /\ LifeInv /\ [Next]_vars => LifeInv'
  BY LifeInvStep
<1> QED
  BY <1>1, <1>2, Inductive, PTL DEF Spec

\* There is never a second instance of a simple service: svc->pid is its only
\* live process (service_start, supervisor_handle_sigchld, service_stop).
THEOREM OnlyOneProcess == ASSUME SimpleOnly, NoRestarts PROVE Spec => []OneProcess
<1>1. LifeInv => OneProcess
  BY DEF LifeInv, OneProcess
<1> QED
  BY <1>1, LifeInvAlways, PTL

-----------------------------------------------------------------------------
(* The refinement of Lifecycle.                                            *)

\* With one process for each service, its fate can be read off svc->pid.
Fate(s) == IF pid[s] = NoPid THEN "none" ELSE IF proc[pid[s]] = "run" THEN "runs" ELSE "died"

\* The process that Lifecycle sees of a service is what became of it.
LEMMA ProcessIsFate ==
  IInv /\ LifeInv => \A s \in Services : Process[s] = Fate(s)
<1> SUFFICES ASSUME IInv, LifeInv, NEW s \in Services PROVE Process[s] = Fate(s)
  OBVIOUS
<1>1. CASE pid[s] = NoPid
  <2>1. Children(s) = {}
    BY <1>1, ConstantTypes DEF Children, LifeInv
  <2> QED
    BY <1>1, <2>1 DEF Process, Fate
<1>2. CASE pid[s] # NoPid
  <2>1. Children(s) = {pid[s]}
    BY <1>2 DEF Children, LifeInv, IInv, PidOwned
  <2> QED
    BY <1>2, <2>1 DEF Process, Fate
<1> QED
  BY <1>1, <1>2

\* The same after a step.
LEMMA ProcessIsFateNext ==
  (IInv /\ LifeInv)' => (\A s \in Services : Process[s] = Fate(s))'
BY ProcessIsFate, PTL

\* No two services have the same pid.
LEMMA OwnPids ==
  ASSUME IInv, NEW s \in Services, pid[s] # NoPid
  PROVE  \A t \in Services \ {s} : pid[t] # pid[s]
<1>1. PidOwned
  BY DEF IInv
<1> QED
  BY <1>1 DEF PidOwned

\* What a service requires are services.
LEMMA RequiresServices == ASSUME NEW s \in Services PROVE Requires[s] \subseteq Services
<1>1. Requires \in [Services -> SUBSET Services]
  BY ConstantTypes
<1> QED
  BY <1>1

\* The phases, one by one.
LEMMA PhaseValues ==
  /\ PhaseOf["STOPPED"] = "down" /\ PhaseOf["RUNNING"] = "up"
  /\ PhaseOf["STOPPING"] = "ending" /\ PhaseOf["RESTARTING"] = "waiting"
  /\ PhaseOf["FAILED"] = "failed"
BY DEF PhaseOf

\* A step that changes the state and the process of one service is the step
\* of its life that Becomes describes.
LEMMA StepOfOne ==
  ASSUME IInv, LifeInv, IInv', LifeInv', gen' = gen,
         NEW s \in Services, NEW ph, NEW pr,
         PhaseOf[state'[s]] = ph, Fate(s)' = pr,
         \A t \in Services \ {s} : state'[t] = state[t] /\ Fate(t)' = Fate(t)
  PROVE  Life!Becomes(s, ph, pr)
<1>1. \A t \in Services : Process[t] = Fate(t)
  BY ProcessIsFate
<1>2. \A t \in Services : Process'[t] = Fate(t)'
  BY ProcessIsFateNext
<1>3. Phase' = [Phase EXCEPT ![s] = ph]
  BY DEF Phase
<1>4. Process' = [Process EXCEPT ![s] = pr]
  <2>1. DOMAIN Process = Services /\ DOMAIN Process' = Services
    BY DEF Process
  <2>2. Process = [t \in Services |-> Process[t]] /\ Process' = [t \in Services |-> Process'[t]]
    BY DEF Process
  <2> QED
    BY <1>1, <1>2, <2>1, <2>2
<1>5. Loaded' = Loaded
  BY DEF Loaded
<1> QED
  BY <1>3, <1>4, <1>5 DEF Life!Becomes

\* Every step of lumid is one of Lifecycle's or none.
LEMMA LifeStep ==
  ASSUME SimpleOnly, NoRestarts, IInv, LifeInv, [Next]_vars, IInv', LifeInv'
  PROVE  [Life!Next]_<<Phase, Process, Loaded>>
<1> USE NotAPid
<1>0. \A s \in Services : Phase[s] = PhaseOf[state[s]] /\ Process[s] = Fate(s)
  BY ProcessIsFate DEF Phase
<1>1. CASE UNCHANGED <<state, pid, proc, owner, gen>>
  BY <1>1 DEF Phase, Process, Children, Loaded
<1>2. CASE TakeHup
  <2>1. gen' \in 1 .. Loads /\ gen \in 1 .. gen' /\ UNCHANGED <<state, proc, owner>>
    BY <1>2 DEF TakeHup, IInv, TypeOK, svcVars, procVars
  <2>2. Loaded' \subseteq Services /\ Loaded \subseteq Loaded'
    BY <2>1, ListsKnown DEF Loaded
  <2>3. UNCHANGED <<Phase, Process>>
    BY <2>1 DEF Phase, Process, Children
  <2>4. Life!Load(Loaded')
    BY <2>2, <2>3 DEF Life!Load
  <2> QED
    BY <2>2, <2>4 DEF Life!Next
<1>3. ASSUME NEW s \in Services, ServiceStart(s), UNCHANGED <<pc, ret, gen>>, pc # "stopping"
      PROVE  [Life!Next]_<<Phase, Process, Loaded>>
  <2>1. CASE StartNothing(s)
    BY <1>1, <1>3, <2>1 DEF StartNothing, svcVars, procVars
  <2>2. CASE ~StartNothing(s)
    <3>1. /\ pid[s] = NoPid /\ state[s] \in {"STOPPED", "FAILED", "RESTARTING"}
          /\ state' = [state EXCEPT ![s] = state'[s]]
      BY <1>3, <2>2, StartOfIdle
    <3>2. Life!Idle(s)
      BY <1>0, <3>1, PhaseValues DEF Life!Idle, Fate
    <3>3. CASE state'[s] = "FAILED" /\ UNCHANGED <<pid, proc, owner>>
      <4>1. Life!Becomes(s, "failed", "none")
        BY <1>3, <3>1, <3>3, PhaseValues, StepOfOne DEF Fate, IInv, TypeOK
      <4>2. Life!Fail(s)
        BY <3>2, <4>1 DEF Life!Fail
      <4> QED
        BY <4>2 DEF Life!Next
    <3>4. ASSUME DepsUp(s), state'[s] = "RUNNING", NEW p \in Pids, Free(p),
                 pid' = [pid EXCEPT ![s] = p], proc' = [proc EXCEPT ![p] = "run"]
          PROVE  Life!Next
      <4>1. Fate(s)' = "runs"
        BY <3>4 DEF Fate, IInv, TypeOK
      <4>2. \A t \in Services \ {s} : state'[t] = state[t] /\ Fate(t)' = Fate(t)
        <5>1. \A t \in Services \ {s} : state'[t] = state[t] /\ pid'[t] = pid[t]
          BY <3>1, <3>4 DEF IInv, TypeOK
        <5>2. \A t \in Services : pid[t] # NoPid => pid[t] \in Pids /\ pid[t] # p
          BY <3>4 DEF Free, IInv, PidOwned
        <5>3. \A q \in Pids \ {p} : proc'[q] = proc[q]
          <6>1. proc \in [Pids -> {"free", "run", "daemon", "zombie"}]
            BY DEF IInv, TypeOK
          <6> QED
            BY <3>4, <6>1
        <5> QED
          BY <5>1, <5>2, <5>3 DEF Fate
      <4>3. Life!Becomes(s, "up", "runs")
        BY <1>3, <3>4, <4>1, <4>2, PhaseValues, StepOfOne
      <4>4. \A d \in Requires[s] \cap Loaded : Phase[d] = "up"
        <5>1. \A d \in Requires[s] \cap Loaded : state[d] = "RUNNING"
          BY <3>4 DEF DepsUp
        <5>2. Requires[s] \subseteq Services
          BY RequiresServices
        <5> QED
          BY <1>0, <5>1, <5>2, PhaseValues
      <4>5. Life!Fork(s)
        BY <3>2, <4>3, <4>4 DEF Life!Fork
      <4> QED
        BY <4>5 DEF Life!Next
    <3> QED
      BY <1>3, <2>2, <3>3, <3>4, StartOfIdle
  <2> QED
    BY <2>1, <2>2
<1>4. CASE StopTerm
  <2>1. cur \in Services /\ state[cur] = "RUNNING"
    BY <1>4, ListsKnown DEF StopTerm, Stoppable, LifeInv, IInv, TypeOK, WorksOnLoaded, Loaded
  <2>2. /\ state' = [state EXCEPT ![cur] = "STOPPING"] /\ UNCHANGED <<pid, proc, gen>>
    BY <1>4 DEF StopTerm, procVars
  <2>3. \A t \in Services : Fate(t)' = Fate(t)
    BY <2>2 DEF Fate
  <2>4. PhaseOf[state'[cur]] = "ending" /\ \A t \in Services \ {cur} : state'[t] = state[t]
    BY <2>1, <2>2, PhaseValues DEF IInv, TypeOK
  <2>5. Life!Becomes(cur, "ending", Fate(cur))
    BY <2>1, <2>2, <2>3, <2>4, StepOfOne
  <2>6. Life!AskToEnd(cur)
    BY <1>0, <2>1, <2>5, PhaseValues DEF Life!AskToEnd
  <2> QED
    BY <2>1, <2>6 DEF Life!Next
<1>5. CASE StopFinish
  <2>1. cur \in Services /\ pid[cur] \in Pids /\ state[cur] = "STOPPING"
    BY <1>5, ListsKnown DEF StopFinish, IInv, TypeOK, WorksOnLoaded, StateMatchesPid, PidOwned, Loaded
  <2>2. /\ proc' = [proc EXCEPT ![pid[cur]] = "free"]
        /\ state' = [state EXCEPT ![cur] = "STOPPED"]
        /\ pid' = [pid EXCEPT ![cur] = NoPid] /\ gen' = gen
    BY <1>5, <2>1 DEF StopFinish, ReapOwn
  <2>3. PICK s \in Services : s = cur
    BY <2>1
  <2>4. \A t \in Services \ {s} : pid[t] # pid[s]
    BY <2>1, <2>3, OwnPids
  <2>5. PhaseOf[state'[s]] = "down" /\ \A t \in Services \ {s} : state'[t] = state[t]
    BY <2>2, <2>3, PhaseValues DEF IInv, TypeOK
  <2>6. Fate(s)' = "none"
    BY <2>2, <2>3 DEF Fate, IInv, TypeOK
  <2>7. \A t \in Services \ {s} : Fate(t)' = Fate(t)
    <3>1. \A t \in Services \ {s} : pid'[t] = pid[t]
      BY <2>2, <2>3 DEF IInv, TypeOK
    <3>2. \A t \in Services \ {s} : pid[t] # NoPid => proc'[pid[t]] = proc[pid[t]]
      BY <2>2, <2>3, <2>4 DEF IInv, TypeOK
    <3> QED
      BY <3>1, <3>2 DEF Fate
  <2>8. Life!Becomes(s, "down", "none")
    BY <2>2, <2>5, <2>6, <2>7, StepOfOne
  <2>9. Life!Ended(s)
    BY <1>0, <2>1, <2>3, <2>8, PhaseValues DEF Life!Ended
  <2> QED
    BY <2>9 DEF Life!Next
<1>6. ASSUME NEW p \in Pids, Reap(p) PROVE Life!Next
  <2>1. /\ proc' = [proc EXCEPT ![p] = "free"] /\ gen' = gen
        /\ proc[p] = "zombie" /\ pc = "reap"
    BY <1>6 DEF Reap, ReapOwn
  <2>2. owner[p] \in Services /\ pid[owner[p]] = p
    BY <2>1 DEF LifeInv
  <2>3. owner[p] \in Tracking(p)
    BY <2>2 DEF Tracking, IInv, WorksOnLoaded
  <2>4. PICK s \in Tracking(p) :
          /\ state' = [state EXCEPT ![s] = StateAfterExit(s, status[p])]
          /\ pid' = [pid EXCEPT ![s] = NoPid]
    BY <1>6, <2>3 DEF Reap, ReapService, ReapOrphan
  <2>5. s \in Services /\ pid[s] = p /\ p # NoPid
    BY <2>4, ListsKnown DEF Tracking, Loaded, IInv, TypeOK
  <2>6. StateAfterExit(s, status[p]) \in {"STOPPED", "RESTARTING", "FAILED"}
    BY DEF StateAfterExit
  <2>7. PhaseOf[state'[s]] \in {"down", "waiting", "failed"}
    BY <2>4, <2>5, <2>6, PhaseValues DEF IInv, TypeOK
  <2>8. Phase[s] = "up" /\ Process[s] = "died"
    <3>1. state[s] = "RUNNING"
      BY <2>1, <2>5 DEF LifeInv, IInv, StateMatchesPid
    <3>2. Fate(s) = "died"
      BY <2>1, <2>5 DEF Fate
    <3> QED
      BY <1>0, <2>5, <3>1, <3>2, PhaseValues
  <2>9. /\ Fate(s)' = "none"
        /\ \A t \in Services \ {s} : state'[t] = state[t] /\ Fate(t)' = Fate(t)
    <3>1. \A t \in Services \ {s} : pid[t] # p
      BY <2>5, OwnPids
    <3>2. /\ pid'[s] = NoPid
          /\ \A t \in Services \ {s} : state'[t] = state[t] /\ pid'[t] = pid[t]
      BY <2>4, <2>5 DEF IInv, TypeOK
    <3>3. /\ \A q \in Pids \ {p} : proc'[q] = proc[q]
          /\ \A t \in Services : pid[t] # NoPid => pid[t] \in Pids
      BY <2>1 DEF IInv, TypeOK, PidOwned
    <3> QED
      BY <3>1, <3>2, <3>3 DEF Fate
  <2>10. Life!Becomes(s, PhaseOf[state'[s]], "none")
    BY <2>1, <2>5, <2>9, StepOfOne
  <2>11. Life!Reaped(s)
    BY <2>7, <2>8, <2>10 DEF Life!Reaped
  <2> QED
    BY <2>5, <2>11 DEF Life!Next
<1>7. ASSUME NEW p \in Pids, ChildExits(p) PROVE Life!Next
  <2>1. /\ proc[p] = "run" /\ proc' = [proc EXCEPT ![p] = "zombie"]
        /\ UNCHANGED <<state, pid, gen>>
    <3>1. proc[p] # "daemon"
      BY DEF LifeInv
    <3> QED
      BY <1>7, <3>1 DEF ChildExits, svcVars
  <2>2. PICK s \in Services : pid[s] = p
    BY <2>1 DEF LifeInv
  <2>3. p # NoPid /\ state[s] \in {"RUNNING", "STOPPING"}
    BY <2>2 DEF LifeInv
  <2>4. /\ Fate(s) = "runs" /\ Fate(s)' = "died"
        /\ \A t \in Services \ {s} : Fate(t)' = Fate(t)
    <3>1. \A t \in Services \ {s} : pid[t] # p
      BY <2>2, <2>3, OwnPids
    <3> QED
      BY <2>1, <2>2, <2>3, <3>1 DEF Fate, IInv, TypeOK
  <2>5. Life!Becomes(s, PhaseOf[state[s]], "died")
    BY <2>1, <2>4, StepOfOne
  <2>6. Life!Exits(s)
    BY <1>0, <2>3, <2>4, <2>5, PhaseValues DEF Life!Exits
  <2> QED
    BY <2>6 DEF Life!Next
<1> QED
  BY <1>1, <1>2, <1>3, <1>4, <1>5, <1>6, <1>7, StepKinds

\* lumid implements Lifecycle: each service has one process at a time, forked
\* only while all it requires is up, and gone for good once reaped or killed.
THEOREM LumidImplementsLifecycle ==
  ASSUME SimpleOnly, NoRestarts PROVE Spec => LifeGoesOn
<1>1. Init => Life!Init
  <2> SUFFICES ASSUME Init PROVE Life!Init
    OBVIOUS
  <2>1. Phase = [s \in Services |-> "down"]
    BY PhaseValues DEF Init, Phase
  <2>2. Process = [s \in Services |-> "none"]
    BY DEF Init, Process, Children
  <2>3. Loaded \subseteq Services
    BY ListsKnown, ConstantTypes DEF Init, Loaded
  <2> QED
    BY <2>1, <2>2, <2>3 DEF Life!Init
<1>2. /\ IInv /\ LifeInv /\ [Next]_vars /\ (IInv /\ LifeInv)'
      => [Life!Next]_<<Phase, Process, Loaded>>
  BY LifeStep
<1> QED
  BY <1>1, <1>2, LifeInvAlways, PTL DEF Spec, LifeGoesOn, Life!Spec

-----------------------------------------------------------------------------
(* Nothing is left when the machine goes down: the walk of the shutdown    *)
(* has been over the whole order by then, and the order over all services. *)

Off == pc = "off" =>
  \A j \in 1 .. Len(BootOrder[gen]) : ~Stoppable(BootOrder[gen][j])

\* Only shutdown_system powers down.
LEMMA WayOff ==
  ASSUME TypeOK, [Next]_vars, pc' = "off"
  PROVE  PowerDown \/ (pc = "off" /\ UNCHANGED <<state, gen>>)
<1>1. CASE LumidStep
  <2>1. ~Stop
    BY <1>1 DEF Stop, StopNothing, StopTerm, StopFinish, TypeOK
  <2>2. ~Boot
    BY DEF Boot, BootStart, BootDone
  <2>3. ~Dispatch
    BY DEF Dispatch, EpollWait, DispatchSignal, DispatchDone
  <2>4. ~Signals
    BY DEF Signals, SignalsDone, TakeHup, TakeTerm, TakeChld, ReapDone, Reap
  <2>5. ~Check
    BY DEF Check, CheckNotDue, CheckDue, SweepSkip, SweepDone, SweepRestart
  <2>6. ~Handle
    BY DEF Handle, HandleStart, HandleStop, HandleRestart, HandleEnable, HandlePower,
           HandleOther, HandleSilent, RestartStart, Serving
  <2> QED
    BY <1>1, <2>1, <2>2, <2>3, <2>4, <2>5, <2>6 DEF LumidStep, Shutdown, LoopExit, ShutdownStop
<1>2. CASE Environment
  BY <1>2 DEF Environment, ChildExits, Daemonizes, SendHup, SendTerm, ClientConnects,
              ReadReturns
<1>3. CASE PoweredOff \/ UNCHANGED vars
  BY <1>3 DEF PoweredOff, vars
<1> QED
  BY <1>1, <1>2, <1>3 DEF Next

\* With the power off nothing happens to a service.
LEMMA OffStep == TypeOK /\ ShutdownProgress /\ Off /\ [Next]_vars => Off'
<1> SUFFICES ASSUME TypeOK, ShutdownProgress, Off, [Next]_vars, pc' = "off" PROVE Off'
  BY DEF Off
<1>1. CASE pc = "off" /\ UNCHANGED <<state, gen>>
  BY <1>1 DEF Off, Stoppable
<1>2. CASE PowerDown
  <2>1. pc = "shutdown" /\ Len(walk) = 0 /\ UNCHANGED <<state, gen>>
    BY <1>2 DEF PowerDown, svcVars
  <2>2. Len(BootOrder[gen]) \in Nat
    BY OrderTypes DEF TypeOK
  <2>3. \A j \in 1 .. Len(BootOrder[gen]) : ~Stoppable(BootOrder[gen][j])
    <3> TAKE j \in 1 .. Len(BootOrder[gen])
    <3>1. CASE j = 1
      BY <2>1, <2>2, <3>1 DEF ShutdownProgress, InShutdown
    <3>2. CASE j > 1
      BY <2>1, <2>2, <3>2 DEF ShutdownProgress, InShutdown
    <3> QED
      BY <2>2, <3>1, <3>2
  <2> QED
    BY <2>1, <2>3 DEF Off, Stoppable
<1> QED
  BY <1>1, <1>2, WayOff

\* A process that is left belongs to a service the shutdown did not reach.
LEMMA LeftIsUnlisted ==
  ASSUME IInv, LifeInv, Off, pc = "off", Resolved[gen],
         NEW p \in Pids, proc[p] # "free"
  PROVE  owner[p] \notin InArray(gen)
<1> SUFFICES ASSUME owner[p] \in InArray(gen) PROVE FALSE
  OBVIOUS
<1>1. PICK s \in Services : pid[s] = p
  BY DEF LifeInv
<1>2. p # NoPid /\ gen \in 1 .. Loads
  BY ConstantTypes DEF IInv, TypeOK
<1>3. owner[p] = s
  BY <1>1, <1>2 DEF IInv, PidOwned
<1>4. PICK j \in 1 .. Len(BootOrder[gen]) : BootOrder[gen][j] = s
  BY <1>2, <1>3, OrderFacts
<1>5. state[s] = "STOPPING"
  BY <1>1, <1>2, <1>4 DEF Off, Stoppable, LifeInv
<1> QED
  BY <1>5 DEF IInv, StateMatchesPid

\* When the last dependency resolution succeeded, reboot() is called with no
\* process left of a service in svc_array (service_stop_all, shutdown_system).
THEOREM NothingListedIsLeft ==
  ASSUME SimpleOnly, NoRestarts
  PROVE  Spec => []NothingListedLeft
<1>1. Init => ShutdownProgress /\ Off
  BY DEF Init, ShutdownProgress, InShutdown, Off
<1>2. IInv /\ LifeInv /\ Off => NothingListedLeft
  BY LeftIsUnlisted DEF NothingListedLeft
<1>3. IInv => TypeOK
  BY DEF IInv
<1> QED
  BY <1>1, <1>2, <1>3, LifeInvAlways, ShutdownProgressStep, OffStep, PTL DEF Spec

\* With every resolution a success and never more services than svc_array
\* holds, nothing at all is left running.
THEOREM NothingIsLeftRunning ==
  ASSUME SimpleOnly, NoRestarts,
         \A g \in 1 .. Loads : Resolved[g] /\ Len(ServiceList[g]) <= MaxServices
  PROVE  Spec => []NothingLeftRunning
<1>1. Init => ShutdownProgress /\ Off
  BY DEF Init, ShutdownProgress, InShutdown, Off
<1>2. IInv /\ LifeInv /\ Off => NothingLeftRunning
  <2> SUFFICES ASSUME IInv, LifeInv, Off, pc = "off", NEW p \in Pids, proc[p] # "free"
               PROVE  FALSE
    BY DEF NothingLeftRunning
  <2>1. gen \in 1 .. Loads
    BY DEF IInv, TypeOK
  <2>2. PICK s \in Services : pid[s] = p
    BY DEF LifeInv
  <2>3. owner[p] = s /\ s \in Known(gen)
    BY <2>2, ConstantTypes DEF IInv, PidOwned, WorksOnLoaded, Loaded
  <2>4. Known(gen) = InArray(gen)
    <3>1. ServiceList[gen] \in Seq(Services) /\ MaxServices \in Nat
      BY <2>1, ConstantTypes
    <3>2. \A i \in DOMAIN ServiceList[gen] : i <= MaxServices
      BY <2>1, <3>1
    <3> QED
      BY <3>2 DEF Known, InArray, Range
  <2> QED
    BY <2>1, <2>3, <2>4, LeftIsUnlisted
<1>3. IInv => TypeOK
  BY DEF IInv
<1> QED
  BY <1>1, <1>2, <1>3, LifeInvAlways, ShutdownProgressStep, OffStep, PTL DEF Spec

=============================================================================
