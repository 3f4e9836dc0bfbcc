---------------------------- MODULE LumidProofs ----------------------------
(***************************************************************************)
(* Proofs about Lumid, for every set of services and pids, every           *)
(* dependency graph, policy, type and sequence of reloads.                 *)
(***************************************************************************)
EXTENDS Lumid, TLAPS

(* What lumid's thread works on is loaded: the services it still has to    *)
(* walk, the one it is stopping, and every one that has a process.  So the *)
(* reaper, which looks a pid up in the loaded list, finds its service.     *)
WorksOnLoaded ==
  /\ walk \in Seq(Loaded)
  /\ cur \in Loaded \cup {NoService}
  /\ pc \in {"stop", "stopping", "restart"} => cur # NoService
  /\ pc = "stopping" => state[cur] = "STOPPING"
  /\ \A s \in Services : pid[s] # NoPid => s \in Loaded

IInv == TypeOK /\ PidOwned /\ StateMatchesPid /\ WorksOnLoaded

-----------------------------------------------------------------------------
\* A sequence is one over every set that holds its elements.
LEMMA SeqOver ==
  ASSUME NEW S, NEW T, NEW q \in Seq(S), \A i \in 1 .. Len(q) : q[i] \in T
  PROVE  q \in Seq(T)
OBVIOUS

\* A sequence over a set is one over every larger set.
LEMMA SeqMonotone ==
  ASSUME NEW S, NEW T, S \subseteq T, NEW q \in Seq(S)
  PROVE  q \in Seq(T)
OBVIOUS

\* svc_array holds loaded services.
LEMMA ArrayKnown ==
  ASSUME NEW g \in 1 .. Loads
  PROVE  InArray(g) \subseteq Known(g)
  BY DEF InArray, Known, Range

\* The lists of a load contain the services known after it, and later loads
\* know at least those.
LEMMA ListsKnown ==
  ASSUME NEW g \in 1 .. Loads
  PROVE  /\ Known(g) \subseteq Services
         /\ ServiceList[g] \in Seq(Known(g))
         /\ BootOrder[g] \in Seq(Known(g))
         /\ \A h \in 1 .. g : Known(h) \subseteq Known(g)
<1>1. ServiceList[g] \in Seq(Services) /\ BootOrder[g] \in Seq(Services)
  BY ConstantTypes
<1>2. Known(g) \subseteq Services
  BY <1>1 DEF Known, Range
<1>3. \A i \in 1 .. Len(ServiceList[g]) : ServiceList[g][i] \in Known(g)
  BY <1>1 DEF Known, Range
<1>4. \A i \in 1 .. Len(BootOrder[g]) : BootOrder[g][i] \in Known(g)
  <2>1. Range(BootOrder[g]) \subseteq InArray(g)
    BY OrderContract DEF ResolvedAs, Placed
  <2>2. QED
    BY <1>1, <2>1, ArrayKnown DEF Range
<1>5. ServiceList[g] \in Seq(Known(g)) /\ BootOrder[g] \in Seq(Known(g))
  BY <1>1, <1>3, <1>4, SeqOver
<1>6. QED
  BY <1>2, <1>5, OrderContract

-----------------------------------------------------------------------------
\* The program starts in the invariant.
LEMMA InitIInv == Init => IInv
<1> SUFFICES ASSUME Init PROVE IInv
  OBVIOUS
<1> USE DEF Init
<1>0. 1 \in 1 .. Loads
  BY ConstantTypes
<1>1. BootWalk \in Seq(Known(1))
  BY <1>0, ListsKnown DEF BootWalk
<1>2. TypeOK
  <2>1. walk \in Seq(Services)
    BY <1>0, <1>1, ListsKnown, SeqMonotone
  <2>2. QED
    BY <1>0, <2>1, ConstantTypes DEF TypeOK, States, Locations
<1>3. PidOwned
  BY DEF PidOwned
<1>4. StateMatchesPid
  BY DEF StateMatchesPid
<1>5. WorksOnLoaded
  BY <1>1 DEF WorksOnLoaded, Loaded
<1>6. QED
  BY <1>2, <1>3, <1>4, <1>5 DEF IInv

-----------------------------------------------------------------------------
\* service_start touches one service and one free pid, and leaves the service
\* with a process of its own or FAILED.
LEMMA StartEffect ==
  ASSUME TypeOK, PidOwned, StateMatchesPid,
         NEW s \in Services, ServiceStart(s)
  PROVE  /\ state' \in [Services -> States]
         /\ pid' \in [Services -> Pids \cup {NoPid}]
         /\ retries' \in [Services -> Nat]
         /\ \A t \in Services : retries'[t] <= MaxRetries[t]
         /\ proc' \in [Pids -> {"free", "run", "daemon", "zombie"}]
         /\ owner' \in [Pids -> Services \cup {NoService}]
         /\ status' \in [Pids -> {"ok", "error", "signal"}]
         /\ PidOwned'
         /\ state'[s] \in {"RUNNING", "STARTING", "FAILED"}
         /\ state'[s] # "FAILED" => pid'[s] # NoPid
         /\ \A t \in Services \ {s} : state'[t] = state[t] /\ pid'[t] = pid[t]
<1> USE ConstantTypes DEF TypeOK, States
<1>1. CASE StartNothing(s)
  BY <1>1 DEF StartNothing, AlreadyRunning, svcVars, procVars, PidOwned, StateMatchesPid
<1>2. CASE StartFails(s)
  BY <1>2 DEF StartFails, procVars, PidOwned
<1>3. CASE StartForks(s)
  <2>1. PICK p \in Pids :
          /\ Free(p)
          /\ pid' = [pid EXCEPT ![s] = p]
          /\ proc' = [proc EXCEPT ![p] = "run"]
          /\ owner' = [owner EXCEPT ![p] = s]
    BY <1>3 DEF StartForks
  <2>2. PidOwned'
    <3> SUFFICES ASSUME NEW t \in Services, pid'[t] # NoPid
                 PROVE  /\ pid'[t] \in Pids
                        /\ proc'[pid'[t]] \in {"run", "zombie"}
                        /\ owner'[pid'[t]] = t
      BY DEF PidOwned
    <3>1. CASE t = s
      BY <2>1, <3>1
    <3>2. CASE t # s
      BY <2>1, <3>2 DEF PidOwned, Free
    <3>3. QED
      BY <3>1, <3>2
  <2>3. state' = [state EXCEPT ![s] = StateAfterFork(s)] /\ StateAfterFork(s) \in {"RUNNING", "STARTING"}
    BY <1>3 DEF StartForks, StateAfterFork
  <2>4. retries' = [retries EXCEPT ![s] = 0] /\ status' = status
    BY <1>3 DEF StartForks
  <2>5. QED
    BY <2>1, <2>2, <2>3, <2>4
<1>4. QED
  BY <1>1, <1>2, <1>3 DEF ServiceStart

\* What a start by one of the walks, a request or a restart does to the
\* invariant, whatever the control state becomes.
LEMMA StartKeepsIInv ==
  ASSUME IInv, NEW s \in Loaded, ServiceStart(s),
         UNCHANGED <<gen, enabled, sig, cur, running, power>>,
         ret' = ret,
         \/ pc \in {"boot", "sweep", "dispatch"} /\ pc' = pc
         \/ pc = "restart" /\ pc' = "dispatch" /\ s = cur,
         walk' \in Seq(Loaded), events' \in Seq({"signal", "server"}),
         backlog' \in Seq(Requests), Len(backlog') <= Backlog
  PROVE  IInv'
<1>0. s \in Services /\ Loaded \subseteq Services /\ Loaded' = Loaded
  BY ListsKnown DEF IInv, TypeOK, Loaded
<1>1. walk' \in Seq(Services)
  BY <1>0, SeqMonotone
<1>2. TypeOK'
  BY <1>0, <1>1, StartEffect DEF IInv, TypeOK, Locations
<1>3. PidOwned'
  BY <1>0, StartEffect DEF IInv
<1>4. StateMatchesPid'
  BY <1>0, StartEffect DEF IInv, StateMatchesPid
<1>5. WorksOnLoaded'
  BY <1>0, StartEffect DEF IInv, WorksOnLoaded
<1>6. QED
  BY <1>2, <1>3, <1>4, <1>5 DEF IInv

\* Steps that only move lumid's thread: services, processes and loads stay.
LEMMA MoveKeepsIInv ==
  ASSUME IInv, UNCHANGED <<svcVars, procVars, gen>>, TypeOK',
         walk' \in Seq(Loaded), cur' \in Loaded \cup {NoService},
         pc' \in {"stop", "stopping", "restart"} => cur' # NoService,
         pc' = "stopping" => state[cur'] = "STOPPING",
         pc \in {"stopping", "stop", "restart"} =>
           /\ cur' = cur /\ ret' = ret
           /\ pc' = pc \/ (pc = "stop" /\ pc' = ret)
  PROVE  IInv'
<1>1. PidOwned'
  BY DEF IInv, PidOwned, svcVars, procVars
<1>2. StateMatchesPid'
  BY DEF IInv, StateMatchesPid, svcVars, procVars, TypeOK, WorksOnLoaded
<1>3. WorksOnLoaded'
  BY DEF IInv, WorksOnLoaded, svcVars, Loaded
<1>4. QED
  BY <1>1, <1>2, <1>3 DEF IInv

-----------------------------------------------------------------------------
(* One lemma per group of actions.                                         *)

\* service_stop: the SIGTERM, and the poll that ends with the process reaped.
LEMMA StopKeepsIInv == IInv /\ Stop => IInv'
<1> SUFFICES ASSUME IInv, Stop PROVE IInv'
  OBVIOUS
<1> USE ConstantTypes
<1>0. Loaded \subseteq Services /\ Loaded' = Loaded
  BY ListsKnown DEF Stop, StopNothing, StopTerm, StopFinish, IInv, TypeOK, Loaded
<1>1. CASE StopNothing
  <2>1. TypeOK'
    BY <1>1, SMTT(30) DEF StopNothing, IInv, TypeOK, Locations, svcVars, procVars
  <2>2. pc = "stop" /\ pc' = ret /\ ret # "stopping" /\ cur # NoService
    BY <1>1 DEF StopNothing, IInv, TypeOK, WorksOnLoaded
  <2>3. QED
    BY <1>1, <2>1, <2>2, MoveKeepsIInv DEF StopNothing, IInv, WorksOnLoaded
<1>2. CASE StopTerm
  <2>1. cur \in Services /\ pid[cur] # NoPid
    BY <1>0, <1>2 DEF StopTerm, Stoppable, IInv, WorksOnLoaded, StateMatchesPid
  <2>2. TypeOK'
    BY <1>2, <2>1 DEF StopTerm, IInv, TypeOK, Locations, States, procVars
  <2>3. PidOwned'
    BY <1>2 DEF StopTerm, IInv, PidOwned, procVars
  <2>4. StateMatchesPid'
    BY <1>2, <2>1 DEF StopTerm, Stoppable, IInv, TypeOK, StateMatchesPid
  <2>5. WorksOnLoaded'
    BY <1>0, <1>2, <2>1 DEF StopTerm, IInv, TypeOK, WorksOnLoaded
  <2>6. QED
    BY <2>2, <2>3, <2>4, <2>5 DEF IInv
<1>3. CASE StopFinish
  <2>1. cur \in Services /\ pid[cur] \in Pids /\ owner[pid[cur]] = cur
    BY <1>0, <1>3 DEF StopFinish, IInv, WorksOnLoaded, StateMatchesPid, PidOwned
  <2>2. /\ proc' = [proc EXCEPT ![pid[cur]] = "free"]
        /\ owner' = [owner EXCEPT ![pid[cur]] = NoService]
        /\ status' = [status EXCEPT ![pid[cur]] = "ok"]
    BY <1>3, <2>1 DEF StopFinish, ReapOwn
  <2>3. TypeOK'
    BY <1>3, <2>1, <2>2 DEF StopFinish, IInv, TypeOK, Locations, States
  <2>4. PidOwned'
    <3> SUFFICES ASSUME NEW t \in Services, pid'[t] # NoPid
                 PROVE  /\ pid'[t] \in Pids
                        /\ proc'[pid'[t]] \in {"run", "zombie"}
                        /\ owner'[pid'[t]] = t
      BY DEF PidOwned
    <3>1. t # cur /\ pid'[t] = pid[t]
      BY <1>3, <2>1 DEF StopFinish, IInv, TypeOK
    <3>2. QED
      BY <2>1, <2>2, <3>1 DEF IInv, TypeOK, PidOwned
  <2>5. StateMatchesPid'
    BY <1>3, <2>1 DEF StopFinish, IInv, TypeOK, StateMatchesPid
  <2>6. WorksOnLoaded'
    BY <1>0, <1>3, <2>1 DEF StopFinish, IInv, TypeOK, WorksOnLoaded
  <2>7. QED
    BY <2>3, <2>4, <2>5, <2>6 DEF IInv
<1>4. QED
  BY <1>1, <1>2, <1>3 DEF Stop

\* The boot sequence keeps the invariant.
LEMMA BootKeepsIInv == IInv /\ Boot => IInv'
<1> SUFFICES ASSUME IInv, Boot PROVE IInv'
  OBVIOUS
<1>0. walk # <<>> => Head(walk) \in Loaded /\ Tail(walk) \in Seq(Loaded)
  BY DEF IInv, WorksOnLoaded
<1>1. Loaded \subseteq Services
  BY ListsKnown DEF IInv, TypeOK, Loaded
<1>3. ASSUME NEW s \in Services, BootStart(s) PROVE IInv'
  <2>1. s \in Loaded /\ walk' \in Seq(Loaded)
    BY <1>0, <1>3 DEF BootStart
  <2>2. /\ events' \in Seq({"signal", "server"})
        /\ backlog' \in Seq(Requests) /\ Len(backlog') <= Backlog
    BY <1>3 DEF BootStart, IInv, TypeOK
  <2>3. /\ ServiceStart(s) /\ pc = "boot" /\ pc' = pc /\ ret' = ret
        /\ UNCHANGED <<gen, enabled, sig, cur, running, power>>
    BY <1>3 DEF BootStart
  <2>4. QED
    BY <2>1, <2>2, <2>3, StartKeepsIInv
<1>4. CASE BootDone
  <2>1. TypeOK'
    BY <1>4 DEF BootDone, IInv, TypeOK, Locations, svcVars, procVars
  <2>2. QED
    BY <1>4, <2>1, MoveKeepsIInv DEF BootDone, IInv, WorksOnLoaded
<1>5. QED
  BY <1>3, <1>4 DEF Boot

\* The event loop's choice of what to handle keeps the invariant.
LEMMA DispatchKeepsIInv == IInv /\ Dispatch => IInv'
<1> SUFFICES ASSUME IInv, Dispatch PROVE IInv'
  OBVIOUS
<1>1. TypeOK'
  <2>1. CASE EpollWait
    <3>0. /\ <<>> \in Seq({"signal", "server"})
          /\ <<"signal">> \in Seq({"signal", "server"})
          /\ <<"server">> \in Seq({"signal", "server"})
          /\ <<"signal", "server">> \in Seq({"signal", "server"})
          /\ <<"server", "signal">> \in Seq({"signal", "server"})
      OBVIOUS
    <3>1. events' \in Seq({"signal", "server"})
      BY <2>1, <3>0 DEF EpollWait, ReadyOrders
    <3>2. QED
      BY <2>1, <3>1 DEF EpollWait, IInv, TypeOK, Locations, svcVars, procVars
  <2>2. CASE DispatchSignal
    BY <2>2 DEF DispatchSignal, IInv, TypeOK, Locations, svcVars, procVars
  <2>3. CASE DispatchDone
    BY <2>3 DEF DispatchDone, IInv, TypeOK, Locations, svcVars, procVars
  <2>4. QED
    BY <2>1, <2>2, <2>3 DEF Dispatch
<1>2. QED
  BY <1>1, MoveKeepsIInv
     DEF Dispatch, EpollWait, DispatchSignal, DispatchDone, IInv, WorksOnLoaded

\* Reaping: the service whose process died, found because it is loaded, gives
\* up its pid in the same step that frees the pid.
LEMMA ReapKeepsIInv ==
  ASSUME IInv, NEW p \in Pids, Reap(p)
  PROVE  IInv'
<1> USE ConstantTypes DEF IInv
<1>0. Loaded \subseteq Services /\ Loaded' = Loaded /\ p # NoPid /\ gen' = gen
  BY ListsKnown DEF Reap, TypeOK, Loaded
<1>1. /\ proc' = [proc EXCEPT ![p] = "free"]
      /\ owner' = [owner EXCEPT ![p] = NoService]
      /\ status' = [status EXCEPT ![p] = "ok"]
  BY <1>0 DEF Reap, ReapOwn
<1>2. CASE ReapOrphan(p)
  <2>1. \A s \in Services : pid[s] # p
    BY <1>0, <1>2 DEF ReapOrphan, Tracking, WorksOnLoaded
  <2>2. TypeOK'
    BY <1>0, <1>1, <1>2 DEF Reap, ReapOrphan, TypeOK, svcVars
  <2>3. PidOwned'
    BY <1>1, <1>2, <2>1 DEF ReapOrphan, svcVars, PidOwned, TypeOK
  <2>4. StateMatchesPid'
    BY <1>2 DEF Reap, ReapOrphan, svcVars, StateMatchesPid
  <2>5. WorksOnLoaded'
    BY <1>0, <1>2 DEF Reap, ReapOrphan, svcVars, WorksOnLoaded
  <2>6. QED
    BY <2>2, <2>3, <2>4, <2>5
<1>3. CASE ReapService(p)
  <2>1. PICK s \in Tracking(p) :
          LET next == StateAfterExit(s, status[p]) IN
          /\ state' = [state EXCEPT ![s] = next]
          /\ pid' = [pid EXCEPT ![s] = NoPid]
          /\ retries' = [retries EXCEPT ![s] = IF next = "RESTARTING" THEN @ + 1 ELSE @]
    BY <1>3 DEF ReapService
  <2>2. s \in Services /\ pid[s] = p /\ owner[p] = s
    BY <1>0, <2>1 DEF Tracking, PidOwned
  <2>3. /\ StateAfterExit(s, status[p]) \in {"STOPPED", "RESTARTING", "FAILED"}
        /\ StateAfterExit(s, status[p]) = "RESTARTING" => retries[s] < MaxRetries[s]
    BY DEF StateAfterExit, RetriesLeft
  <2>4. TypeOK'
    <3>1. /\ retries' \in [Services -> Nat]
          /\ \A t \in Services : retries'[t] <= MaxRetries[t]
      BY <2>1, <2>2, <2>3 DEF TypeOK
    <3>2. state' \in [Services -> States] /\ pid' \in [Services -> Pids \cup {NoPid}]
      BY <2>1, <2>2, <2>3 DEF TypeOK, States
    <3>3. QED
      BY <1>0, <1>1, <3>1, <3>2 DEF Reap, TypeOK
  <2>5. PidOwned'
    <3> SUFFICES ASSUME NEW t \in Services, pid'[t] # NoPid
                 PROVE  /\ pid'[t] \in Pids
                        /\ proc'[pid'[t]] \in {"run", "zombie"}
                        /\ owner'[pid'[t]] = t
      BY DEF PidOwned
    <3>1. t # s /\ pid'[t] = pid[t]
      BY <2>1, <2>2 DEF TypeOK
    <3>2. QED
      BY <1>1, <2>2, <3>1 DEF TypeOK, PidOwned
  <2>6. StateMatchesPid'
    BY <1>0, <2>1, <2>2, <2>3 DEF Reap, TypeOK, StateMatchesPid
  <2>7. WorksOnLoaded'
    BY <1>0, <2>1, <2>2 DEF Reap, TypeOK, WorksOnLoaded
  <2>8. QED
    BY <2>4, <2>5, <2>6, <2>7
<1>4. QED
  BY <1>2, <1>3 DEF Reap

\* A reload keeps every service that has a process loaded.
LEMMA HupKeepsIInv == IInv /\ TakeHup => IInv'
<1> SUFFICES ASSUME IInv, TakeHup PROVE IInv'
  OBVIOUS
<1>1. gen' \in 1 .. Loads /\ gen \in 1 .. gen'
  BY ConstantTypes DEF TakeHup, IInv, TypeOK
<1>2. Loaded \subseteq Loaded' /\ Loaded' \subseteq Services
  BY <1>1, ListsKnown DEF Loaded
<1>3. walk \in Seq(Loaded')
  BY <1>2, SeqMonotone DEF IInv, WorksOnLoaded
<1>4. TypeOK'
  BY <1>1 DEF TakeHup, IInv, TypeOK, svcVars, procVars
<1>5. PidOwned' /\ StateMatchesPid'
  BY DEF TakeHup, IInv, PidOwned, StateMatchesPid, svcVars, procVars
<1>6. WorksOnLoaded'
  BY <1>2, <1>3 DEF TakeHup, IInv, WorksOnLoaded, svcVars
<1>7. QED
  BY <1>4, <1>5, <1>6 DEF IInv

\* Signals keep the invariant.
LEMMA SignalsKeepIInv == IInv /\ Signals => IInv'
<1> SUFFICES ASSUME IInv, Signals PROVE IInv'
  OBVIOUS
<1>1. CASE TakeHup
  BY <1>1, HupKeepsIInv
<1>2. CASE \E p \in Pids : Reap(p)
  BY <1>2, ReapKeepsIInv
<1>3. CASE SignalsDone \/ TakeTerm \/ TakeChld \/ ReapDone
  <2>1. TypeOK'
    BY <1>3 DEF SignalsDone, TakeTerm, TakeChld, ReapDone, IInv, TypeOK,
                Locations, svcVars, procVars
  <2>2. QED
    BY <1>3, <2>1, MoveKeepsIInv
       DEF SignalsDone, TakeTerm, TakeChld, ReapDone, IInv, WorksOnLoaded
<1>4. QED
  BY <1>1, <1>2, <1>3 DEF Signals

\* The supervisor's check keeps the invariant.
LEMMA CheckKeepsIInv == IInv /\ Check => IInv'
<1> SUFFICES ASSUME IInv, Check PROVE IInv'
  OBVIOUS
<1>0. /\ walk # <<>> => Head(walk) \in Loaded /\ Tail(walk) \in Seq(Loaded)
      /\ ServiceList[gen] \in Seq(Loaded) /\ Loaded \subseteq Services
  BY ListsKnown DEF IInv, TypeOK, WorksOnLoaded, Loaded
<1>1. CASE CheckNotDue \/ CheckDue \/ SweepSkip \/ SweepDone
  <2>1. walk' \in Seq(Loaded)
    BY <1>0, <1>1 DEF CheckNotDue, CheckDue, SweepSkip, SweepDone, IInv, WorksOnLoaded
  <2>2. walk' \in Seq(Services)
    BY <1>0, <2>1, SeqMonotone
  <2>3. TypeOK'
    BY <1>1, <2>2 DEF CheckNotDue, CheckDue, SweepSkip, SweepDone, IInv, TypeOK,
                      Locations, svcVars, procVars
  <2>4. QED
    BY <1>1, <2>1, <2>3, MoveKeepsIInv
       DEF CheckNotDue, CheckDue, SweepSkip, SweepDone, IInv, WorksOnLoaded
<1>2. ASSUME NEW s \in Services, SweepRestart(s) PROVE IInv'
  <2>1. s \in Loaded /\ walk' \in Seq(Loaded)
    BY <1>0, <1>2 DEF SweepRestart
  <2>2. /\ events' \in Seq({"signal", "server"})
        /\ backlog' \in Seq(Requests) /\ Len(backlog') <= Backlog
    BY <1>2 DEF SweepRestart, IInv, TypeOK
  <2>3. /\ ServiceStart(s) /\ pc = "sweep" /\ pc' = pc /\ ret' = ret
        /\ UNCHANGED <<gen, enabled, sig, cur, running, power>>
    BY <1>2 DEF SweepRestart
  <2>4. QED
    BY <2>1, <2>2, <2>3, StartKeepsIInv
<1>3. QED
  BY <1>1, <1>2 DEF Check

\* Serving one request leaves two well-formed queues behind.
LEMMA AcceptedTypes ==
  ASSUME TypeOK, events # <<>>, backlog # <<>>, Accept
  PROVE  /\ events' \in Seq({"signal", "server"})
         /\ backlog' \in Seq(Requests) /\ Len(backlog') <= Backlog
BY ConstantTypes DEF TypeOK, Accept

\* Every request keeps the invariant.
LEMMA HandleKeepsIInv == IInv /\ Handle => IInv'
<1> SUFFICES ASSUME IInv, Handle PROVE IInv'
  OBVIOUS
<1> USE ConstantTypes
<1>0. Loaded \subseteq Services /\ walk \in Seq(Loaded)
  BY ListsKnown DEF IInv, TypeOK, WorksOnLoaded, Loaded
<1>1. ASSUME NEW s \in Services, HandleStart(s) PROVE IInv'
  <2>1. /\ events' \in Seq({"signal", "server"})
        /\ backlog' \in Seq(Requests) /\ Len(backlog') <= Backlog
    BY <1>1, AcceptedTypes DEF HandleStart, Serving, IInv
  <2>2. /\ s \in Loaded /\ ServiceStart(s) /\ pc = "dispatch" /\ pc' = pc /\ ret' = ret
        /\ walk' = walk /\ UNCHANGED <<gen, enabled, sig, cur, running, power>>
    BY <1>1 DEF HandleStart, Serving, TargetFound
  <2>3. QED
    BY <1>0, <2>1, <2>2, StartKeepsIInv
<1>2. ASSUME NEW s \in Services, RestartStart(s) PROVE IInv'
  <2>1. s \in Loaded
    BY <1>2 DEF RestartStart, IInv, WorksOnLoaded
  <2>2. /\ ServiceStart(s) /\ pc = "restart" /\ pc' = "dispatch" /\ ret' = ret /\ s = cur
        /\ walk' = walk /\ UNCHANGED <<gen, enabled, sig, cur, running, power>>
    BY <1>2 DEF RestartStart
  <2>3. /\ events' \in Seq({"signal", "server"})
        /\ backlog' \in Seq(Requests) /\ Len(backlog') <= Backlog
    BY <1>2 DEF RestartStart, IInv, TypeOK
  <2>4. QED
    BY <1>0, <2>1, <2>2, <2>3, StartKeepsIInv
<1>3. CASE HandleRestart
  <2>1. /\ events' \in Seq({"signal", "server"})
        /\ backlog' \in Seq(Requests) /\ Len(backlog') <= Backlog
    BY <1>3, AcceptedTypes DEF HandleRestart, Serving, IInv
  <2>2. Target \in Loaded /\ Target \in Services /\ Target # NoService /\ pc = "dispatch"
    BY <1>0, <1>3 DEF HandleRestart, Serving, TargetFound
  <2>3. TypeOK'
    BY <1>3, <2>1, <2>2 DEF HandleRestart, IInv, TypeOK, States, Locations, procVars
  <2>4. PidOwned'
    BY <1>3 DEF HandleRestart, IInv, PidOwned, procVars
  <2>5. StateMatchesPid'
    BY <1>3, <2>2 DEF HandleRestart, IInv, TypeOK, StateMatchesPid
  <2>6. WorksOnLoaded'
    BY <1>3, <2>2 DEF HandleRestart, IInv, WorksOnLoaded, Loaded
  <2>7. QED
    BY <2>3, <2>4, <2>5, <2>6 DEF IInv
<1>4. CASE HandleStop \/ HandleEnable \/ HandlePower \/ HandleOther \/ HandleSilent
  <2>1. /\ events' \in Seq({"signal", "server"})
        /\ backlog' \in Seq(Requests) /\ Len(backlog') <= Backlog
    BY <1>4, AcceptedTypes
       DEF HandleStop, HandleEnable, HandlePower, HandleOther, HandleSilent, Serving, IInv
  <2>2. HandleStop => Target \in Loaded /\ Target \in Services
    BY <1>0 DEF HandleStop, TargetFound
  <2>3. TypeOK'
    <3>1. CASE HandleStop
      BY <2>1, <2>2, <3>1 DEF HandleStop, IInv, TypeOK, Locations, svcVars, procVars
    <3>2. CASE HandleEnable
      BY <2>1, <3>2 DEF HandleEnable, IInv, TypeOK, svcVars, procVars
    <3>3. CASE HandlePower
      BY <2>1, <3>3 DEF HandlePower, IInv, TypeOK, svcVars, procVars
    <3>4. CASE HandleOther \/ HandleSilent
      BY <2>1, <3>4 DEF HandleOther, HandleSilent, IInv, TypeOK, Locations, svcVars, procVars
    <3>5. QED
      BY <1>4, <3>1, <3>2, <3>3, <3>4
  <2>4. /\ UNCHANGED <<svcVars, procVars, gen, walk>> /\ pc = "dispatch"
        /\ \/ pc' \in {"dispatch", "reading"} /\ cur' = cur
           \/ pc' = "stop" /\ cur' = Target /\ Target \in Loaded /\ Target \in Services
    BY <1>4, <2>2
       DEF HandleStop, HandleEnable, HandlePower, HandleOther, HandleSilent, Serving
  <2>5. cur' \in Loaded \cup {NoService} /\ (pc' = "stop" => cur' # NoService)
    BY <2>4 DEF IInv, WorksOnLoaded
  <2>6. walk' \in Seq(Loaded) /\ pc' \notin {"stopping", "restart"}
    BY <1>0, <2>4
  <2>7. QED
    BY <2>3, <2>4, <2>5, <2>6, MoveKeepsIInv
<1>5. QED
  BY <1>1, <1>2, <1>3, <1>4 DEF Handle

\* The shutdown sequence keeps the invariant.
LEMMA ShutdownKeepsIInv == IInv /\ Shutdown => IInv'
<1> SUFFICES ASSUME IInv, Shutdown PROVE IInv'
  OBVIOUS
<1>0. /\ walk # <<>> => Head(walk) \in Loaded /\ Tail(walk) \in Seq(Loaded)
      /\ BootOrder[gen] \in Seq(Loaded) /\ Loaded \subseteq Services
  BY ListsKnown DEF IInv, TypeOK, WorksOnLoaded, Loaded
<1>1. StopOrder \in Seq(Loaded)
  BY <1>0 DEF StopOrder
<1>2. walk' \in Seq(Loaded)
  BY <1>0, <1>1 DEF Shutdown, LoopExit, ShutdownStop, PowerDown, IInv, WorksOnLoaded
<1>3. walk' \in Seq(Services)
  BY <1>0, <1>2, SeqMonotone
<1>4. /\ UNCHANGED <<svcVars, procVars, gen>> /\ pc \in {"loop", "shutdown"}
      /\ \/ pc' \in {"shutdown", "off"} /\ cur' = cur
         \/ pc' = "stop" /\ cur' = Head(walk) /\ walk # <<>>
  BY DEF Shutdown, LoopExit, ShutdownStop, PowerDown
<1>5. TypeOK'
  BY <1>0, <1>3
     DEF Shutdown, LoopExit, ShutdownStop, PowerDown, IInv, TypeOK, Locations, svcVars, procVars
<1>6. /\ cur' \in Loaded \cup {NoService} /\ (pc' = "stop" => cur' # NoService)
      /\ pc' \notin {"stopping", "restart"}
  BY <1>0, <1>4, ConstantTypes DEF IInv, WorksOnLoaded
<1>7. QED
  BY <1>2, <1>4, <1>5, <1>6, MoveKeepsIInv

\* A child that exits or leaves a daemon behind keeps its pid until reaped.
LEMMA EnvironmentKeepsIInv == IInv /\ Environment => IInv'
<1> SUFFICES ASSUME IInv, Environment PROVE IInv'
  OBVIOUS
<1>1. ASSUME NEW p \in Pids, ChildExits(p) PROVE IInv'
  <2>1. TypeOK'
    BY <1>1 DEF ChildExits, IInv, TypeOK, svcVars
  <2>2. PidOwned'
    BY <1>1 DEF ChildExits, IInv, TypeOK, PidOwned, svcVars
  <2>3. StateMatchesPid' /\ WorksOnLoaded'
    BY <1>1 DEF ChildExits, IInv, StateMatchesPid, WorksOnLoaded, svcVars, Loaded
  <2>4. QED
    BY <2>1, <2>2, <2>3 DEF IInv
<1>2. ASSUME NEW p \in Pids, NEW q \in Pids, Daemonizes(p, q) PROVE IInv'
  <2>1. TypeOK'
    BY <1>2 DEF Daemonizes, IInv, TypeOK, svcVars
  <2>2. PidOwned'
    BY <1>2 DEF Daemonizes, Free, IInv, TypeOK, PidOwned, svcVars
  <2>3. StateMatchesPid' /\ WorksOnLoaded'
    BY <1>2 DEF Daemonizes, IInv, StateMatchesPid, WorksOnLoaded, svcVars, Loaded
  <2>4. QED
    BY <2>1, <2>2, <2>3 DEF IInv
<1>3. CASE SendHup \/ SendTerm \/ ReadReturns \/ \E r \in Requests : ClientConnects(r)
  <2>1. TypeOK'
    <3>1. CASE SendHup \/ SendTerm \/ ReadReturns
      BY <3>1 DEF SendHup, SendTerm, ReadReturns, IInv, TypeOK, Locations, svcVars, procVars
    <3>2. ASSUME NEW r \in Requests, ClientConnects(r) PROVE TypeOK'
      <4>1. backlog' \in Seq(Requests) /\ Len(backlog') <= Backlog
        BY <3>2, ConstantTypes DEF ClientConnects, IInv, TypeOK
      <4>2. QED
        BY <3>2, <4>1 DEF ClientConnects, IInv, TypeOK, svcVars, procVars
    <3>3. QED
      BY <1>3, <3>1, <3>2
  <2>2. /\ UNCHANGED <<svcVars, procVars, gen, cur, ret, walk>>
        /\ pc' = pc \/ (pc = "reading" /\ pc' = "dispatch")
    BY <1>3 DEF SendHup, SendTerm, ReadReturns, ClientConnects
  <2>3. QED
    BY <2>1, <2>2, MoveKeepsIInv DEF IInv, WorksOnLoaded
<1>4. QED
  BY <1>1, <1>2, <1>3 DEF Environment

\* Every step of lumid keeps the invariant.
LEMMA NextKeepsIInv == IInv /\ [Next]_vars => IInv'
<1> SUFFICES ASSUME IInv, [Next]_vars PROVE IInv'
  OBVIOUS
<1>1. CASE LumidStep
  BY <1>1, StopKeepsIInv, BootKeepsIInv, DispatchKeepsIInv, SignalsKeepIInv,
     CheckKeepsIInv, HandleKeepsIInv, ShutdownKeepsIInv DEF LumidStep
<1>2. CASE Environment
  BY <1>2, EnvironmentKeepsIInv
<1>3. CASE PoweredOff \/ UNCHANGED vars
  <2>1. UNCHANGED vars
    BY <1>3 DEF PoweredOff
  <2>2. TypeOK'
    BY <2>1 DEF vars, IInv, TypeOK
  <2>3. PidOwned' /\ StateMatchesPid' /\ WorksOnLoaded'
    BY <2>1 DEF vars, IInv, PidOwned, StateMatchesPid, WorksOnLoaded, Loaded
  <2>4. QED
    BY <2>2, <2>3 DEF IInv
<1>4. QED
  BY <1>1, <1>2, <1>3 DEF Next

-----------------------------------------------------------------------------
\* The strengthened invariant, from which the others follow.
LEMMA Inductive == Spec => []IInv
  BY InitIInv, NextKeepsIInv, PTL DEF Spec

\* Types, the retry limit and the length of the accept queue.
THEOREM TypeCorrect == Spec => []TypeOK
<1>1. IInv => TypeOK
  BY DEF IInv
<1>2. QED
  BY <1>1, Inductive, PTL

\* lumid only ever signals and waits for a child of the service it means:
\* svc->pid is never a pid that was reaped, or reused by another process.
THEOREM PidsAreOwned == Spec => []PidOwned
<1>1. IInv => PidOwned
  BY DEF IInv
<1>2. QED
  BY <1>1, Inductive, PTL

\* The state lumid reports agrees with whether it has a pid for the service.
THEOREM StatesMatchPids == Spec => []StateMatchesPid
<1>1. IInv => StateMatchesPid
  BY DEF IInv
<1>2. QED
  BY <1>1, Inductive, PTL

-----------------------------------------------------------------------------
(* Where lumid's thread may be after one step: the calls of service_stop   *)
(* and the delay of service_restart are entered by few steps only, and     *)
(* while they last no service but the one being stopped changes.           *)

Inside == pc \in {"stop", "stopping", "restart", "shutdown"}

\* The steps lumid makes while it is inside a restart or a stop.
LEMMA InsideSteps ==
  ASSUME TypeOK, [Next]_vars, Inside
  PROVE  \/ UNCHANGED <<state, pc, cur, ret, walk, gen>>
         \/ Stop
         \/ \E s \in Services : RestartStart(s)
         \/ ShutdownStop
         \/ PowerDown
<1> USE DEF Inside
<1>1. CASE LumidStep
  <2>1. ~Boot
    BY DEF Boot, BootStart, BootDone
  <2>2. ~Dispatch
    BY DEF Dispatch, EpollWait, DispatchSignal, DispatchDone
  <2>3. ~Signals
    BY DEF Signals, SignalsDone, TakeHup, TakeTerm, TakeChld, ReapDone, Reap
  <2>4. ~Check
    BY DEF Check, CheckNotDue, CheckDue, SweepSkip, SweepDone, SweepRestart
  <2>5. Handle => \E s \in Services : RestartStart(s)
    BY DEF Handle, HandleStart, HandleStop, HandleRestart, HandleEnable, HandlePower,
           HandleOther, HandleSilent, Serving
  <2>6. Shutdown => ShutdownStop \/ PowerDown
    BY DEF Shutdown, LoopExit
  <2>7. QED
    BY <1>1, <2>1, <2>2, <2>3, <2>4, <2>5, <2>6 DEF LumidStep
<1>2. CASE Environment
  BY <1>2 DEF Environment, ChildExits, Daemonizes, SendHup, SendTerm, ClientConnects,
              ReadReturns, svcVars
<1>3. CASE PoweredOff \/ UNCHANGED vars
  BY <1>3 DEF PoweredOff, vars
<1>4. QED
  BY <1>1, <1>2, <1>3 DEF Next

\* The steps by which lumid comes into a restart or a stop.
LEMMA OutsideSteps ==
  ASSUME TypeOK, [Next]_vars, ~Inside, Inside'
  PROVE  HandleStop \/ HandleRestart \/ LoopExit
<1> USE DEF Inside
<1>1. CASE LumidStep
  <2>1. ~Boot
    BY DEF Boot, BootStart, BootDone
  <2>2. ~Dispatch
    BY DEF Dispatch, EpollWait, DispatchSignal, DispatchDone
  <2>3. ~Signals
    BY DEF Signals, SignalsDone, TakeHup, TakeTerm, TakeChld, ReapDone, Reap
  <2>4. ~Check
    BY DEF Check, CheckNotDue, CheckDue, SweepSkip, SweepDone, SweepRestart
  <2>5. Handle => HandleStop \/ HandleRestart
    BY DEF Handle, HandleStart, RestartStart, HandleEnable, HandlePower,
           HandleOther, HandleSilent, Serving
  <2>6. Shutdown => LoopExit
    BY DEF Shutdown, ShutdownStop, PowerDown
  <2>7. ~Stop
    BY DEF Stop, StopNothing, StopTerm, StopFinish
  <2>8. QED
    BY <1>1, <2>1, <2>2, <2>3, <2>4, <2>5, <2>6, <2>7 DEF LumidStep
<1>2. CASE Environment
  BY <1>2 DEF Environment, ChildExits, Daemonizes, SendHup, SendTerm, ClientConnects,
              ReadReturns, svcVars
<1>3. CASE PoweredOff \/ UNCHANGED vars
  BY <1>3 DEF PoweredOff, vars
<1>4. QED
  BY <1>1, <1>2, <1>3 DEF Next

-----------------------------------------------------------------------------
(* service_restart sets RESTARTING before it calls service_stop, so the    *)
(* service is still RESTARTING when the call returns.                      *)
RestartPending ==
  /\ pc = "restart" \/ (pc = "stop" /\ ret = "restart") => state[cur] = "RESTARTING"
  /\ pc = "stopping" => ret # "restart"

\* A service that is restarted stays RESTARTING while it is stopped.
LEMMA RestartPendingStep == IInv /\ RestartPending /\ [Next]_vars => RestartPending'
<1> SUFFICES ASSUME IInv, RestartPending, [Next]_vars PROVE RestartPending'
  OBVIOUS
<1>0. TypeOK
  BY DEF IInv
<1>1. CASE Inside
  <2>1. CASE UNCHANGED <<state, pc, cur, ret, walk, gen>>
    BY <2>1 DEF RestartPending
  <2>2. CASE Stop
    BY <1>0, <2>2 DEF Stop, StopNothing, StopTerm, StopFinish, Stoppable, svcVars,
                      RestartPending, TypeOK
  <2>3. CASE \/ \E s \in Services : RestartStart(s)
             \/ ShutdownStop \/ PowerDown
    BY <2>3 DEF RestartStart, ShutdownStop, PowerDown, RestartPending
  <2>4. QED
    BY <1>0, <1>1, <2>1, <2>2, <2>3, InsideSteps
<1>2. CASE ~Inside /\ Inside'
  <2>1. CASE HandleRestart
    <3>1. Target \in Services /\ state' = [state EXCEPT ![Target] = "RESTARTING"] /\ cur' = Target
      BY <2>1, <1>0, ListsKnown DEF HandleRestart, TargetFound, Loaded, TypeOK
    <3>2. QED
      BY <1>0, <2>1, <3>1 DEF HandleRestart, RestartPending, TypeOK
  <2>2. CASE HandleStop \/ LoopExit
    BY <2>2 DEF HandleStop, LoopExit, RestartPending
  <2>3. QED
    BY <1>0, <1>2, <2>1, <2>2, OutsideSteps
<1>3. CASE ~Inside'
  BY <1>3 DEF Inside, RestartPending
<1>4. QED
  BY <1>1, <1>2, <1>3

\* A service that is down comes up only at boot or because it was asked for:
\* neither a late SIGCHLD nor the periodic sweep nor a reload revives it.
THEOREM NoRevival == Spec => StoppedStaysStopped
<1> DEFINE Allowed(s) ==
      state[s] = "STOPPED" /\ state'[s] # "STOPPED" =>
        pc = "boot" \/ ((Serving("START") \/ Serving("RESTART")) /\ Target = s)
<1>1. Init => RestartPending
  BY DEF Init, RestartPending
<1>2. Spec => [](IInv /\ RestartPending)
  BY <1>1, Inductive, RestartPendingStep, PTL DEF Spec
<1>3. IInv /\ RestartPending /\ [Next]_vars => [\A s \in Services : Allowed(s)]_vars
  <2> SUFFICES ASSUME IInv, RestartPending, Next, NEW s \in Services,
                      state[s] = "STOPPED", state'[s] # "STOPPED"
               PROVE  pc = "boot" \/ ((Serving("START") \/ Serving("RESTART")) /\ Target = s)
    OBVIOUS
  <2>0. TypeOK
    BY DEF IInv
  <2>1. CASE LumidStep
    <3>1. ASSUME NEW t \in Services, ServiceStart(t) PROVE \/ t = s
                                                           \/ state'[s] = state[s]
      BY <2>0, <3>1 DEF ServiceStart, StartNothing, StartFails, StartForks, svcVars, TypeOK
    <3>2. CASE Stop
      BY <2>0, <3>2 DEF Stop, StopNothing, StopTerm, StopFinish, Stoppable, svcVars, TypeOK
    <3>3. CASE Boot
      BY <3>3 DEF Boot, BootStart, BootDone
    <3>4. CASE Dispatch
      BY <3>4 DEF Dispatch, EpollWait, DispatchSignal, DispatchDone, svcVars
    <3>5. CASE Signals
      <4>1. CASE \E p \in Pids : Reap(p)
        <5>1. PICK p \in Pids : Reap(p)
          BY <4>1
        <5>2. p # NoPid /\ pid[s] = NoPid
          BY ConstantTypes DEF IInv, StateMatchesPid
        <5>3. QED
          BY <2>0, <5>1, <5>2 DEF Reap, ReapService, ReapOrphan, Tracking, svcVars, TypeOK
      <4>2. QED
        BY <3>5, <4>1 DEF Signals, SignalsDone, TakeHup, TakeTerm, TakeChld, ReapDone, svcVars
    <3>6. CASE Check
      BY <3>1, <3>6 DEF Check, CheckNotDue, CheckDue, SweepSkip, SweepDone, SweepRestart,
                        DueForRestart, svcVars
    <3>7. CASE Handle
      <4>1. CASE \E t \in Services : RestartStart(t)
        BY <3>1, <4>1 DEF RestartStart, RestartPending
      <4>2. CASE \E t \in Services : HandleStart(t)
        BY <3>1, <4>2 DEF HandleStart
      <4>3. CASE HandleRestart
        BY <2>0, <4>3 DEF HandleRestart, TypeOK
      <4>4. QED
        BY <3>7, <4>1, <4>2, <4>3 DEF Handle, HandleStop, HandleEnable, HandlePower,
                                      HandleOther, HandleSilent, svcVars
    <3>8. CASE Shutdown
      BY <3>8 DEF Shutdown, LoopExit, ShutdownStop, PowerDown, svcVars
    <3>9. QED
      BY <2>1, <3>2, <3>3, <3>4, <3>5, <3>6, <3>7, <3>8 DEF LumidStep
  <2>2. CASE Environment
    BY <2>2 DEF Environment, ChildExits, Daemonizes, SendHup, SendTerm, ClientConnects,
                ReadReturns, svcVars
  <2>3. CASE PoweredOff
    BY <2>3 DEF PoweredOff, vars
  <2>4. QED
    BY <2>1, <2>2, <2>3 DEF Next
<1>4. Spec => [][\A s \in Services : Allowed(s)]_vars
  BY <1>2, <1>3, PTL DEF Spec
<1>5. QED
  BY <1>4 DEF StoppedStaysStopped
=============================================================================
