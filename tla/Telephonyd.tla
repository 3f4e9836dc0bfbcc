----------------------------- MODULE Telephonyd -----------------------------
(***************************************************************************)
(* telephonyd: call table (call.c), data connection (data.c), radio        *)
(* (network.c), SIM (sim.c), SMS (sms.c) and the serial line to the modem  *)
(* they all share (modem.c), from telephonyd_init to telephonyd_shutdown.  *)
(* The functions declared in telephonyd.h are the interface: clients call  *)
(* them in any order.                                                      *)
(*                                                                         *)
(* modem_send_at writes a command and reads whatever is on the line within *)
(* two seconds.  Nothing ties an answer to its command: one that comes     *)
(* late is read as the answer of a later command.                          *)
(***************************************************************************)
EXTENDS Naturals, Sequences, SequencesExt

CONSTANTS
  MaxCalls,   \* length of calls[] (8)
  MaxOwed     \* bound: commands the modem has not answered yet

VARIABLES
  phase,      \* "init", "run" (telephonyd_run), "down" (after shutdown)
  running,    \* t->running
  calls,      \* t->calls[0 .. num_calls - 1]
  airplane, reg, active,    \* airplane_mode, reg_state, data.active
  sim, slot,                \* sim[].state, active_sim
  modem,      \* the line and the modem at its other end
  lifo,       \* history: no call was hung up while a later one was tracked
  clean       \* history: the daemon was never killed

vars == <<phase, running, calls, airplane, reg, active, sim, slot, modem,
          lifo, clean>>
voiceVars == <<calls, lifo>>
dataVars  == <<airplane, reg, active>>
simVars   == <<sim, slot>>

Slots     == {0, 1}
SimStates == {"ABSENT", "NOT_READY", "PIN", "PUK", "READY"}
Regs      == {"NOT_REGISTERED", "SEARCHING"}
Up        == {"DIALING", "ACTIVE"}
Call      == [id : 1 .. MaxCalls, state : Up \cup {"HELD"}]

-----------------------------------------------------------------------------
(* The modem, as the code uses it.  It answers in the order it was asked.  *)

Commands == {"CFUN=0", "CFUN=1", "CFUN=4", "CGACT=1", "CGACT=0", "CPIN?",
             "CPIN=", "other"}
Locks    == {"PIN", "PUK", "READY"}
\* What matters of an answer: OK or ERROR, and for AT+CPIN? what it says.
Answers  == {"OK", "ERROR"} \cup Locks
Modem == [fd : BOOLEAN,                 \* modem_fd >= 0
          owed : Seq(Commands),         \* written, not answered yet
          unread : SUBSET Answers,      \* answered, not read yet
          radio : BOOLEAN, pdp : BOOLEAN, lock : Locks,
          late : BOOLEAN,               \* history: an answer was not waited for
          lost : BOOLEAN]               \* history: a write failed, or the modem
                                        \* refused to switch something

PowerOff == {"CFUN=0", "CFUN=4"}
PowerOn  == "CFUN=1"

Obeyed(m, c) ==
  CASE c \in PowerOff -> {[m EXCEPT !.radio = FALSE, !.pdp = FALSE]}
    [] c = PowerOn   -> {[m EXCEPT !.radio = TRUE]}
    [] c = "CGACT=1" -> {n \in {[m EXCEPT !.pdp = TRUE]} : m.radio}
    [] c = "CGACT=0" -> {[m EXCEPT !.pdp = FALSE]}
    [] c = "CPIN="   -> {n \in {[m EXCEPT !.lock = "READY"]} : m.lock = "PIN"}
    [] OTHER -> {m}

Refused(m, c) ==
  CASE c \in PowerOff \cup {PowerOn, "CGACT=0"} -> {[m EXCEPT !.lost = TRUE]}
    [] c = "CPIN=" /\ m.lock = "PIN" -> {m, [m EXCEPT !.lock = "PUK"]}
    [] OTHER -> {m}

\* The modem answers the first command it owes an answer to.
Answered(m) ==
  IF m.owed = <<>> THEN {}
  ELSE LET c    == Head(m.owed)
           rest == [m EXCEPT !.owed = Tail(@)]
           Say(n, a) == [n EXCEPT !.unread = @ \cup {a}]
       IN  {Say(n, "ERROR") : n \in Refused(rest, c)}
             \cup {Say(n, IF c = "CPIN?" THEN m.lock ELSE "OK") : n \in Obeyed(rest, c)}

\* The states the modem may be in while the daemon waits.
Arrivals(m) ==
  LET After[n \in 0 .. MaxOwed + 1] ==
        IF n = 0 THEN {m} ELSE UNION {Answered(v) : v \in After[n - 1]}
  IN  UNION {After[n] : n \in 0 .. MaxOwed + 1}

-----------------------------------------------------------------------------
(* modem.c                                                                 *)

\* read() takes everything that has arrived.
Take(m) == [modem |-> [m EXCEPT !.unread = {}, !.late = @ \/ m.owed # <<>>],
            said |-> m.unread]

\* The outcomes of modem_send_at: there is no modem; write() fails; nothing
\* comes in time; or one read returns all that is there by then.
SendAt(m, c) ==
  IF ~m.fd THEN {[modem |-> m, said |-> {}]}
  ELSE LET sent == [m EXCEPT !.owed = Append(@, c)]
       IN  {[modem |-> [m EXCEPT !.lost = TRUE], said |-> {}]}
             \cup {o \in {Take(v) : v \in {v \in Arrivals(sent) :
                                             v.unread # {} \/ v = sent}} :
                     Len(o.modem.owed) <= MaxOwed}

\* strstr(resp, "OK"): any of the answers read together will do.
Ok(said) == said \ {"ERROR"} # {}

\* The outcomes of sending c next, whatever the outcome of the one before.
Then(outcomes, c) == UNION {SendAt(o.modem, c) : o \in outcomes}
\* The same, going on only when the one before was answered OK.
AndThen(outcomes, c) ==
  {o \in outcomes : ~Ok(o.said)} \cup Then({o \in outcomes : Ok(o.said)}, c)

\* n commands in a row whose answers are not needed
Asked(outcomes, n) ==
  LET After[i \in 0 .. n] == IF i = 0 THEN outcomes ELSE Then(After[i - 1], "other")
  IN  After[n]

Closed(m)  == [m EXCEPT !.fd = FALSE]
Flushed(m) == [m EXCEPT !.fd = TRUE, !.unread = {}]
\* modem_open on the port the modem is at: flush, then test with AT.
Tested(m)  == SendAt(Flushed(m), "other")
\* telephonyd_init: modem_get_info asks three things; or no port answers.
Opened(m)  ==
  Asked({o \in Tested(m) : Ok(o.said)}, 3)
    \cup {[modem |-> Closed(n), said |-> {}] :
             n \in {m} \cup {o.modem : o \in {o \in Tested(m) : ~Ok(o.said)}}}

-----------------------------------------------------------------------------
(* telephonyd.c: init.                                                     *)

\* sim_get_state: no answer is no card; otherwise what strstr finds first.
SimState(said) ==
  CASE ~Ok(said) -> "ABSENT"
    [] "READY" \in said -> "READY"
    [] "READY" \notin said /\ "PIN" \in said -> "PIN"
    [] said \cap {"READY", "PIN"} = {} /\ "PUK" \in said -> "PUK"
    [] OTHER -> "NOT_READY"

\* sim_get_info asks four things of a card that is ready.
SimInfo(o) ==
  IF SimState(o.said) = "READY" THEN Asked({o}, 4) ELSE {o}

Init ==
  /\ phase = "init" /\ running = FALSE
  /\ calls = <<>> /\ lifo = TRUE /\ clean = TRUE
  /\ airplane = FALSE /\ reg = "NOT_REGISTERED" /\ active = FALSE
  /\ sim = [s \in Slots |-> "ABSENT"] /\ slot = 0
  /\ modem \in [fd : {FALSE}, owed : {<<>>}, unread : {{}}, radio : {TRUE},
                pdp : {FALSE}, lock : {"PIN", "READY"}, late : {FALSE},
                lost : {FALSE}]

\* running is set last, whatever a signal handler wrote before.
Start ==
  /\ phase = "init"
  /\ \E o \in Opened(modem) :
       \E q0 \in SendAt(o.modem, "CPIN?") :
         \E i0 \in SimInfo(q0) :
           \E q1 \in SendAt(i0.modem, "CPIN?") :
             \E i1 \in SimInfo(q1) :
               /\ sim' = [s \in Slots |-> SimState(IF s = 0 THEN q0.said ELSE q1.said)]
               /\ modem' = i1.modem
  /\ phase' = "run" /\ running' = TRUE
  /\ UNCHANGED <<voiceVars, dataVars, slot, clean>>

-----------------------------------------------------------------------------
(* call.c                                                                  *)

InRun == phase = "run"

With(id) == {i \in 1 .. Len(calls) : calls[i].id = id}
First(S) == CHOOSE i \in S : \A j \in S : i <= j

\* The command goes out even if the table is full.
Originate ==
  /\ InRun /\ ~airplane
  /\ \E o \in SendAt(modem, "other") :
       /\ modem' = o.modem
       /\ calls' = IF Ok(o.said) /\ Len(calls) < MaxCalls
                   THEN Append(calls, [id |-> Len(calls) + 1, state |-> "DIALING"])
                   ELSE calls
  /\ UNCHANGED <<phase, running, dataVars, simVars, lifo, clean>>

\* call_answer and call_hold
SetCall(id, st) ==
  /\ InRun
  /\ \E o \in SendAt(modem, "other") :
       /\ modem' = o.modem
       /\ calls' = IF Ok(o.said) /\ With(id) # {}
                   THEN [calls EXCEPT ![First(With(id))].state = st]
                   ELSE calls
  /\ UNCHANGED <<phase, running, dataVars, simVars, lifo, clean>>

Answer(id) == SetCall(id, "ACTIVE")
Hold(id)   == SetCall(id, "HELD")

\* Mutant: ids of the calls behind the removed one are renumbered.
WithoutFirstRenumbers(table, id) ==
  LET S == {i \in 1 .. Len(table) : table[i].id = id}
      t == IF S = {} THEN table ELSE RemoveAt(table, First(S))
  IN  [i \in 1 .. Len(t) |-> [t[i] EXCEPT !.id = Len(t) + 1 - i]]
\* The first call with the id goes, those behind it move up.
WithoutFirst(table, id) ==
  LET S == {i \in 1 .. Len(table) : table[i].id = id}
  IN  IF S = {} THEN table ELSE RemoveAt(table, First(S))

\* The results of AT+CHLD and ATH are not looked at.
Hangup(id) ==
  /\ InRun
  /\ \E o \in Then(SendAt(modem, "other"), "other") : modem' = o.modem
  /\ calls' = WithoutFirst(calls, id)
  /\ lifo' = (lifo /\ With(id) \subseteq {Len(calls)})
  /\ UNCHANGED <<phase, running, dataVars, simVars, clean>>

-----------------------------------------------------------------------------
(* network.c, data.c                                                       *)

RegAfter(said) == IF Ok(said) THEN "SEARCHING" ELSE reg

Register ==
  /\ InRun
  /\ \E o \in AndThen(SendAt(modem, "other"), "other") :
       modem' = o.modem /\ reg' = RegAfter(o.said)
  /\ UNCHANGED <<phase, running, voiceVars, airplane, active, simVars, clean>>

\* Mutant: the radio is switched before the flag is looked at.
AirplaneOnSwapped == Then(SendAt(modem, "CFUN=4"), "CFUN=1")
AirplaneOn  == SendAt(modem, "CFUN=4")
AirplaneOff == AndThen(Then(SendAt(modem, "CFUN=1"), "other"), "other")

\* The flag is set whatever the modem answers; the data connection is left.
SetAirplane(on) ==
  /\ InRun
  /\ airplane' = on
  /\ \E o \in IF on THEN AirplaneOn ELSE AirplaneOff :
       /\ modem' = o.modem
       /\ reg' = IF on THEN "NOT_REGISTERED" ELSE RegAfter(o.said)
  /\ UNCHANGED <<phase, running, voiceVars, active, simVars, clean>>

\* modem_power, which nothing in the daemon calls itself.
Power(on) ==
  /\ InRun
  /\ \E o \in SendAt(modem, IF on THEN "CFUN=1" ELSE "CFUN=0") : modem' = o.modem
  /\ UNCHANGED <<phase, running, voiceVars, dataVars, simVars, clean>>

\* Mutant: without an address the connection does not count as active.
ActiveIfAddress(connected, addressed) == connected /\ addressed
\* The address is optional.
ActiveAfter(connected, addressed) == connected

\* AT+CGDCONT, AT+CGACT=1,1, AT+CGPADDR
Connect ==
  /\ InRun /\ ~airplane /\ ~active
  /\ \E o \in AndThen(SendAt(modem, "other"), "CGACT=1") :
       \E a \in IF Ok(o.said) THEN SendAt(o.modem, "other") ELSE {o} :
         /\ modem' = a.modem
         /\ active' = ActiveAfter(Ok(o.said), Ok(a.said))
  /\ UNCHANGED <<phase, running, voiceVars, airplane, reg, simVars, clean>>

Disconnect ==
  /\ InRun /\ active
  /\ \E o \in SendAt(modem, "CGACT=0") : modem' = o.modem
  /\ active' = FALSE
  /\ UNCHANGED <<phase, running, voiceVars, airplane, reg, simVars, clean>>

-----------------------------------------------------------------------------
(* sim.c, sms.c, and the queries                                           *)

GetSimState(s) ==
  /\ InRun
  /\ \E o \in SendAt(modem, "CPIN?") :
       modem' = o.modem /\ sim' = [sim EXCEPT ![s] = SimState(o.said)]
  /\ UNCHANGED <<phase, running, voiceVars, dataVars, slot, clean>>

EnterPin(s) ==
  /\ InRun /\ sim[s] = "PIN"
  /\ \E o \in SendAt(modem, "CPIN=") :
       /\ modem' = o.modem
       /\ sim' = IF Ok(o.said) THEN [sim EXCEPT ![s] = "READY"] ELSE sim
  /\ UNCHANGED <<phase, running, voiceVars, dataVars, slot, clean>>

SwitchSim(s) ==
  /\ InRun /\ sim[s] = "READY"
  /\ slot' = s
  /\ UNCHANGED <<phase, running, voiceVars, dataVars, sim, modem, clean>>

\* sms_send: AT+CMGF, then the message, written and read without
\* modem_send_at but with the same outcomes.
SendSms ==
  /\ InRun /\ ~airplane
  /\ \E o \in Then(SendAt(modem, "other"), "other") : modem' = o.modem
  /\ UNCHANGED <<phase, running, voiceVars, dataVars, simVars, clean>>

\* Commands that only ask: signal, operator, preferred technology, DTMF,
\* incoming SMS.
Ask ==
  /\ InRun
  /\ \E o \in SendAt(modem, "other") : modem' = o.modem
  /\ UNCHANGED <<phase, running, voiceVars, dataVars, simVars, clean>>

-----------------------------------------------------------------------------
(* The signal handler, telephonyd_shutdown, and the world.                 *)

\* SIGTERM while telephonyd_init is still at work is forgotten (Start).
Term == phase # "down" /\ running' = FALSE
        /\ UNCHANGED <<phase, voiceVars, dataVars, simVars, modem, clean>>

\* The loop over calls[] after i turns.  call_hangup moves the calls behind
\* the one it removes, the index goes on.
HangupLoop(table) ==
  LET Turn[i \in 0 .. MaxCalls] ==
        IF i = 0 THEN table
        ELSE LET t == Turn[i - 1]
             IN  IF i <= Len(t) /\ t[i].state \in Up
                 THEN WithoutFirst(t, t[i].id) ELSE t
  IN  Turn[MaxCalls]

\* Two commands per hangup, then data_disconnect, then modem_close.
Shutdown ==
  /\ InRun /\ ~running
  /\ calls' = HangupLoop(calls)
  /\ \E h \in Asked({[modem |-> modem, said |-> {}]}, 2 * (Len(calls) - Len(calls'))) :
       \E o \in IF active THEN SendAt(h.modem, "CGACT=0") ELSE {h} :
         modem' = Closed(o.modem)
  /\ active' = FALSE
  /\ phase' = "down"
  /\ UNCHANGED <<running, airplane, reg, simVars, lifo, clean>>

\* SIGKILL (or a crash) and the restart by lumid: telephonyd_init clears the
\* daemon's memory, the modem keeps its state and may owe an answer to the
\* command that was under way.
Killed ==
  /\ phase # "init"
  /\ phase' = "init" /\ running' = FALSE
  /\ calls' = <<>> /\ lifo' = TRUE
  /\ airplane' = FALSE /\ reg' = "NOT_REGISTERED" /\ active' = FALSE
  /\ sim' = [s \in Slots |-> "ABSENT"] /\ slot' = 0
  /\ modem' \in {Closed(modem)} \cup
       {[Closed(modem) EXCEPT !.owed = Append(@, c), !.late = TRUE] :
          c \in {c \in Commands : modem.fd /\ Len(modem.owed) < MaxOwed}}
  /\ clean' = FALSE

ModemAnswers ==
  /\ modem' \in Answered(modem)
  /\ UNCHANGED <<phase, running, voiceVars, dataVars, simVars, clean>>

Voice == Originate \/ \E id \in 1 .. MaxCalls : Answer(id) \/ Hold(id) \/ Hangup(id)
Data  == Register \/ Connect \/ Disconnect
           \/ \E on \in BOOLEAN : SetAirplane(on) \/ Power(on)
Sims  == \E s \in Slots : GetSimState(s) \/ EnterPin(s) \/ SwitchSim(s)
Rest  == Start \/ SendSms \/ Ask \/ Term \/ Shutdown \/ Killed \/ ModemAnswers
Next  == Voice \/ Data \/ Sims \/ Rest

Spec == Init /\ [][Next]_vars

-----------------------------------------------------------------------------
(* Properties.                                                             *)

TypeOK ==
  /\ phase \in {"init", "run", "down"} /\ running \in BOOLEAN
  /\ calls \in Seq(Call) /\ Len(calls) <= MaxCalls
  /\ airplane \in BOOLEAN /\ reg \in Regs /\ active \in BOOLEAN
  /\ sim \in [Slots -> SimStates] /\ slot \in Slots
  /\ modem \in Modem /\ Len(modem.owed) <= MaxOwed
  /\ lifo \in BOOLEAN /\ clean \in BOOLEAN

\* call_originate numbers a call by its place in the table.  As long as only
\* the newest call is ever hung up, ids are places, hence unique, and
\* call_hangup(id) means one call.
IdsArePlaces == InRun /\ lifo => \A i \in 1 .. Len(calls) : calls[i].id = i

\* After telephonyd_shutdown no call is dialling or active ("Hangup active
\* calls", telephonyd.c:64).
NoActiveCallLeft ==
  phase = "down" => \A i \in 1 .. Len(calls) : calls[i].state \notin Up

\* What the daemon believes of its modem is true as long as no answer came
\* late: SIM_READY means that the card was unlocked; and, while no write failed
\* and the daemon was not killed, a PDP context of the modem is one data.active
\* knows of, so that data_disconnect and telephonyd_shutdown close it.
BelievesWhatIs ==
  ~modem.late =>
    /\ (\E s \in Slots : sim[s] = "READY") => modem.lock = "READY"
    /\ clean /\ ~modem.lost => (modem.pdp => active)

\* Once the modem has answered all it was asked, its radio will be off.
RadioWillBeOff ==
  LET P == {i \in 1 .. Len(modem.owed) : modem.owed[i] \in PowerOff \cup {PowerOn}}
  IN  IF P = {} THEN ~modem.radio
      ELSE \E i \in P : modem.owed[i] \in PowerOff /\ \A j \in P : j <= i

\* Airplane mode reaches the modem behind whatever it still owes an answer to,
\* and only a modem_power from outside turns the radio on again, however late
\* the answers are.
AirplaneSettles ==
  [][airplane' /\ modem'.fd /\ ~modem'.lost /\ (~airplane \/ RadioWillBeOff)
       => RadioWillBeOff' \/ Power(TRUE)]_vars
=============================================================================
