-------------------------- MODULE ContainerProofs --------------------------
(***************************************************************************)
(* Proofs about Container, for every number of start commands and pids.    *)
(***************************************************************************)
EXTENDS Container, TLAPS

\* Only a manager's child is yet to write, and a free pid has no owner.
Owned ==
  \A p \in Pids : /\ proc[p] = "fresh" => owner[p] # NoManager
                  /\ proc[p] = "free" => owner[p] = NoManager

\* A manager has at most one child, the one in init_pid, and none before the
\* clone or after the reaping.
OneChild ==
  \A m \in Managers, p \in Pids :
    owner[p] = m => initPid[m] = p /\ managerPc[m] \notin {"idle", "begin", "waited", "cleanup"}

\* How a manager ended is known at its end only, and an orderly end is one
\* without a child.
EndedInOrder ==
  /\ \A m \in Managers : ended[m] # "no" => managerPc[m] = "done"
  /\ NothingLeft

\* A manager outside the crowd never shared its time past the check.
Lonely ==
  \A m \in Inside \ crowd : \A n \in Managers \ {m} : managerPc[n] \in {"idle", "done"}

\* What such a manager makes of the pid file: nobody else touches it.
FileOfLonely ==
  \A m \in Managers \ crowd :
    /\ managerPc[m] \in {"begin", "handshake", "ready"} => pidFile = "absent"
    /\ managerPc[m] = "writing" => pidFile = "empty"
    /\ managerPc[m] = "wait" => pidFile \in {"absent", "empty", initPid[m]}

IInv == ContainerTypeOK /\ KillsItsOwn /\ Owned /\ OneChild /\ EndedInOrder /\ Lonely /\ FileOfLonely

-----------------------------------------------------------------------------
\* The program starts in the invariant.
LEMMA InitIInv == ContainerInit => IInv
BY ContainerConstants
   DEF ContainerInit, IInv, ContainerTypeOK, KillsItsOwn, Owned, OneChild, EndedInOrder, NothingLeft, Lonely, FileOfLonely, Inside,
            Locations, ChildOf

\* The start command.
LEMMA StartKeeps ==
  ASSUME IInv, NEW m \in Managers, Start(m)
  PROVE  IInv'
<1> USE ContainerConstants
        DEF IInv, ContainerTypeOK, KillsItsOwn, Owned, OneChild, EndedInOrder, NothingLeft, Lonely, FileOfLonely, Inside,
            Locations, ChildOf, Dead, Goto, Exit, SetState, Reaped, fields, procVars, fileVars
<1>1. CASE Check(m)
  BY <1>1 DEF Check, GetsIn
<1>2. CASE StartFails(m)
  BY <1>2 DEF StartFails
<1>3. CASE Clone(m)
  BY <1>3 DEF Clone
<1>4. CASE ReadsOK(m)
  BY <1>4 DEF ReadsOK
<1>5. CASE ReadsEof(m)
  BY <1>5 DEF ReadsEof
<1>6. CASE CreateFile(m)
  BY <1>6 DEF CreateFile
<1>7. CASE WriteFile(m)
  BY <1>7 DEF WriteFile, FileContent
<1>8. CASE WaitReturns(m)
  BY <1>8 DEF WaitReturns
<1>9. CASE WaitDone(m)
  BY <1>9 DEF WaitDone
<1> QED
  BY <1>1, <1>2, <1>3, <1>4, <1>5, <1>6, <1>7, <1>8, <1>9 DEF Start

\* The signal handler and what interrupts a manager.
LEMMA HandlerKeeps ==
  ASSUME IInv, NEW m \in Managers, Handler(m) \/ Interrupt(m)
  PROVE  IInv'
<1> USE ContainerConstants
        DEF IInv, ContainerTypeOK, KillsItsOwn, Owned, OneChild, EndedInOrder, NothingLeft, Lonely, FileOfLonely, Inside,
            Locations, ChildOf, Dead, Goto, Exit, SetState, Reaped, fields, procVars, fileVars
<1>1. CASE FirstWait(m) /\ StillThere(m)
  BY <1>1 DEF FirstWait, StillThere
<1>2. CASE FirstWait(m) /\ ~StillThere(m)
  BY <1>2 DEF FirstWait, StillThere
<1>3. CASE GraceOver(m)
  BY <1>3 DEF GraceOver
<1>4. CASE CleanUp(m)
  BY <1>4 DEF CleanUp
<1>5. CASE SignalIgnored(m)
  BY <1>5 DEF SignalIgnored, Working
<1>6. CASE SignalStops(m)
  BY <1>6 DEF SignalStops, Working
<1>7. CASE SecondSignal(m)
  BY <1>7 DEF SecondSignal, Handling
<1>8. CASE Killed(m)
  BY <1>8 DEF Killed, Working, Handling
<1> QED
  BY <1>1, <1>2, <1>3, <1>4, <1>5, <1>6, <1>7, <1>8 DEF Handler, Interrupt

\* The processes.
LEMMA ProcessKeeps ==
  ASSUME IInv, NEW p \in Pids, Process(p)
  PROVE  IInv'
<1> USE ContainerConstants
        DEF IInv, ContainerTypeOK, KillsItsOwn, Owned, OneChild, EndedInOrder, NothingLeft, Lonely, FileOfLonely, Inside,
            Locations, ChildOf, Dead, Reaped, fields, fileVars
<1>1. CASE ChildWrites(p)
  BY <1>1 DEF ChildWrites
<1>2. CASE ChildExits(p)
  BY <1>2 DEF ChildExits
<1>3. CASE OrphanReaped(p)
  BY <1>3 DEF OrphanReaped
<1>4. CASE UnrelatedStarts(p)
  BY <1>4 DEF UnrelatedStarts
<1>5. CASE UnrelatedEnds(p)
  BY <1>5 DEF UnrelatedEnds
<1> QED
  BY <1>1, <1>2, <1>3, <1>4, <1>5 DEF Process

\* Every step keeps the invariant.
LEMMA StepIInv == IInv /\ [ContainerNext]_containerVars => IInv'
<1> SUFFICES ASSUME IInv, [ContainerNext]_containerVars PROVE IInv'
  OBVIOUS
<1>1. CASE UNCHANGED containerVars
  BY <1>1 DEF containerVars, IInv, ContainerTypeOK, KillsItsOwn, Owned, OneChild, EndedInOrder, NothingLeft, Lonely, FileOfLonely, Inside,
            ChildOf
<1>2. CASE ContainerNext
  BY <1>2, StartKeeps, HandlerKeeps, ProcessKeeps DEF ContainerNext
<1> QED
  BY <1>1, <1>2

\* Whatever the number of start commands that race, signals, crashes and
\* reused pids: a manager waits for, and SIGKILLs, its own child only
\* (container_start, container_wait, container_stop).
THEOREM KillsOnlyItsOwn == ContainerSpec => []KillsItsOwn
<1>1. IInv => KillsItsOwn
  BY DEF IInv
<1> QED
  BY InitIInv, StepIInv, <1>1, PTL DEF ContainerSpec

\* A manager that saw its container end, or went through all of
\* container_stop, leaves no process behind, not even a zombie.
THEOREM OrderlyEndsLeaveNothing == ContainerSpec => []NothingLeft
<1>1. IInv => NothingLeft
  BY DEF IInv, EndedInOrder
<1> QED
  BY InitIInv, StepIInv, <1>1, PTL DEF ContainerSpec

\* The fields of container_t and the pid file keep their types: the pid file
\* never names init_pid's initial -1.
THEOREM ContainerTypeCorrect == ContainerSpec => []ContainerTypeOK
<1>1. IInv => ContainerTypeOK
  BY DEF IInv
<1> QED
  BY InitIInv, StepIInv, <1>1, PTL DEF ContainerSpec

\* A manager that shared its time past the pid file check with no other may
\* wait without its pid in the pid file (an open() or write() that fails is
\* passed over), but never with the pid of another process in it.
THEOREM LonelyIsNotMistaken == ContainerSpec => []NamesNoStranger
<1>1. IInv => NamesNoStranger
  BY DEF IInv, FileOfLonely, NamesNoStranger
<1> QED
  BY InitIInv, StepIInv, <1>1, PTL DEF ContainerSpec
=============================================================================
