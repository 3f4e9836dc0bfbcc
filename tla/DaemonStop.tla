----------------------------- MODULE DaemonStop -----------------------------
(***************************************************************************)
(* How a daemon (telephonyd, sensord, audiod, bluetoothd, netd) stops: its *)
(* main and its work loop, one after the other for the two ways the code   *)
(* writes them, against whoever stops it: lumid (service_stop in service.c)*)
(* or somebody at a shell.                                                 *)
(*                                                                         *)
(* lumid blocks SIGTERM for its signalfd (main.c) and nothing opens it     *)
(* again between fork and exec: the processes it starts inherit the mask.  *)
(***************************************************************************)

VARIABLES
  byLumid,  \* the daemon was started by lumid
  loop,     \* "reads": telephonyd, sensord test the flag the handler clears;
            \* "endless": while (1) in audiod, bluetoothd, netd
  pc,       \* "main", "init", "loop", "sleep", "shutdown", "exited", "killed"
  handler,  \* signal(SIGTERM, ...) was called
  flag,     \* running, g_running
  pending,  \* SIGTERM was sent and not delivered
  stop,     \* who stops it: "idle", "termed", "killing", "done"
  cleaned,  \* history: the shutdown code ran
  early     \* history: SIGTERM was delivered before the work loop

vars == <<byLumid, loop, pc, handler, flag, pending, stop, cleaned, early>>

Over == pc \in {"exited", "killed"}

Init ==
  /\ byLumid \in BOOLEAN /\ loop \in {"reads", "endless"}
  /\ pc = "main" /\ handler = FALSE /\ flag = (loop = "endless")
  /\ pending = FALSE /\ stop = "idle" /\ cleaned = FALSE /\ early = FALSE

-----------------------------------------------------------------------------
(* The daemon.                                                             *)

\* setup_signals in lumid, inherited
Blocked == byLumid

InstallHandler ==
  /\ pc = "main" /\ pc' = "init" /\ handler' = TRUE
  /\ UNCHANGED <<byLumid, loop, flag, pending, stop, cleaned, early>>

\* The init functions of telephonyd and sensord end with running = true, on
\* top of a signal that came meanwhile; the others never touch the flag.
FlagAfterInit == IF loop = "reads" THEN TRUE ELSE flag

InitDone ==
  /\ pc = "init" /\ pc' = "loop" /\ flag' = FlagAfterInit
  /\ UNCHANGED <<byLumid, loop, handler, pending, stop, cleaned, early>>

\* Mutant: no loop reads the flag.
NoLoopReads == FALSE
\* The condition of the work loop
LoopEnds == loop = "reads" /\ ~flag

TestFlag ==
  /\ pc = "loop" /\ pc' = IF LoopEnds THEN "shutdown" ELSE "sleep"
  /\ UNCHANGED <<byLumid, loop, handler, flag, pending, stop, cleaned, early>>

\* sleep() is over; one to five seconds, more than lumid waits.
Wake ==
  /\ pc = "sleep" /\ pc' = "loop"
  /\ UNCHANGED <<byLumid, loop, handler, flag, pending, stop, cleaned, early>>

ShutdownRuns ==
  /\ pc = "shutdown" /\ pc' = "exited" /\ cleaned' = TRUE
  /\ UNCHANGED <<byLumid, loop, handler, flag, pending, stop, early>>

\* The kernel delivers SIGTERM: the handler clears the flag and interrupts
\* the sleep; without a handler the process ends.
Deliver ==
  /\ pending /\ ~Blocked /\ ~Over
  /\ pending' = FALSE
  /\ early' = (early \/ pc \in {"main", "init"})
  /\ IF handler
     THEN flag' = FALSE /\ pc' = IF pc = "sleep" THEN "loop" ELSE pc
     ELSE pc' = "killed" /\ UNCHANGED flag
  /\ UNCHANGED <<byLumid, loop, handler, stop, cleaned>>

Daemon == InstallHandler \/ InitDone \/ TestFlag \/ Wake \/ ShutdownRuns

-----------------------------------------------------------------------------
(* Who stops it.                                                           *)

SendTerm ==
  /\ stop = "idle" /\ ~Over
  /\ pending' = TRUE /\ stop' = "termed"
  /\ UNCHANGED <<byLumid, loop, pc, handler, flag, cleaned, early>>

\* lumid, half a second later: waitpid finds the process gone, or SIGKILL
\* goes out and lumid waits for it.  Somebody at a shell just leaves.
HalfASecond ==
  /\ stop = "termed" /\ stop' = IF byLumid /\ ~Over THEN "killing" ELSE "done"
  /\ UNCHANGED <<byLumid, loop, pc, handler, flag, pending, cleaned, early>>

Kill ==
  /\ stop = "killing" /\ stop' = "done"
  /\ pc' = IF Over THEN pc ELSE "killed"
  /\ UNCHANGED <<byLumid, loop, handler, flag, pending, cleaned, early>>

Next == Daemon \/ Deliver \/ SendTerm \/ HalfASecond \/ Kill

\* A process that can run is scheduled, the kernel delivers a signal that is
\* not blocked, and lumid's service_stop goes on.
Fairness == /\ WF_vars(Daemon) /\ WF_vars(Deliver)
            /\ WF_vars(HalfASecond) /\ WF_vars(Kill)

Spec == Init /\ [][Next]_vars /\ Fairness

-----------------------------------------------------------------------------
(* Properties.                                                             *)

TypeOK ==
  /\ byLumid \in BOOLEAN /\ loop \in {"reads", "endless"} /\ handler \in BOOLEAN
  /\ pc \in {"main", "init", "loop", "sleep", "shutdown", "exited", "killed"}
  /\ flag \in BOOLEAN /\ pending \in BOOLEAN /\ cleaned \in BOOLEAN
  /\ early \in BOOLEAN /\ stop \in {"idle", "termed", "killing", "done"}

\* Of a daemon that somebody stops at a shell and whose loop reads its flag, a
\* SIGTERM that finds it past its initialisation ends the loop, and its shutdown
\* code runs (hanging up, closing the data connection, switching sensors off).
\* One delivered earlier kills the daemon or is forgotten.
TermEndsTheLoop ==
  (stop = "termed" /\ ~byLumid /\ loop = "reads")
    ~> (early \/ (pc = "exited" /\ cleaned))

\* Every daemon that is told to stop and is past its initialisation runs its
\* shutdown code: what SIGTERM first and SIGKILL "if needed" is for
\* (service.c:388), and what audiod_shutdown, which saves the volumes, counts on.
StopRunsCleanup == stop = "termed" ~> (cleaned \/ early)

\* What the code does instead: the shutdown code runs only in daemons that lumid
\* did not start and whose loop reads its flag.
CleansUpByHandOnly == cleaned => ~byLumid /\ loop = "reads"
=============================================================================
