------------------------------ MODULE Sensord ------------------------------
(***************************************************************************)
(* sensord: the table of IIO devices (enumerate.c), enabling, disabling,   *)
(* reading and polling by sensor type (reader.c), start and shutdown       *)
(* (sensord.c, main.c).  Clients call the functions of sensord.h in any    *)
(* order.  The devices keep their buffers running when the daemon is       *)
(* killed; a device can be unplugged and comes back switched off.          *)
(***************************************************************************)
EXTENDS Naturals, Sequences, FiniteSets

CONSTANTS
  Devices,    \* IIO devices that may be plugged in
  Raw,        \* [Devices -> SUBSET Types]: the *_raw files a device has
  Hint,       \* [Devices -> Types \cup {"none"}]: the type its name suggests
  MaxSensors, \* SENSOR_MAX_DEVICES (16)
  MaxReads    \* bound: readings

\* The types of sensor_type_t that detect_type can find, in its order.

Types == <<"accel", "gyro", "magnet", "light", "proximity", "pressure",
           "temperature", "humidity", "step_counter">>
\* Those it recognises in a device's name.
Named == {"accel", "gyro", "magnet", "light", "proximity"}
TypeSet == {Types[i] : i \in DOMAIN Types}

VARIABLES
  up,       \* the daemon is between sensord_init and the end of main
  running,  \* sd.running
  table,    \* s->sensors[0 .. num_sensors - 1]: [type, dev, active]
  last,     \* s->last_events: what was read from which device
  polled,   \* what the last sensor_poll wrote
  plugged,  \* devices under /sys/bus/iio/devices
  buffer,   \* devices whose buffer/enable is 1
  left,     \* history: devices a killed daemon, or a failed switch-off, left on
  reads     \* history: number of readings

vars == <<up, running, table, last, polled, plugged, buffer, left, reads>>
hardware == <<plugged, buffer, left>>

Sensor == [type : TypeSet, dev : Devices, active : BOOLEAN]
Event  == [dev : Devices \cup {"none"}, at : 0 .. MaxReads]
NoEvent == [dev |-> "none", at |-> 0]

Init ==
  /\ up = FALSE /\ running = FALSE /\ table = <<>> /\ last = <<>>
  /\ polled = <<>> /\ plugged \in SUBSET Devices /\ buffer = {} /\ left = {}
  /\ reads = 0

-----------------------------------------------------------------------------

\* detect_type: the first raw file found, then the name, then a guess.
DetectType(d) ==
  IF Raw[d] # {}
  THEN Types[CHOOSE i \in DOMAIN Types :
               Types[i] \in Raw[d] /\ \A j \in 1 .. i - 1 : Types[j] \notin Raw[d]]
  ELSE IF Hint[d] \in Named THEN Hint[d] ELSE "accel"

\* readdir lists the devices in any order; the table takes MaxSensors.
Listings ==
  LET n == IF Cardinality(plugged) < MaxSensors THEN Cardinality(plugged) ELSE MaxSensors
  IN  {s \in [1 .. n -> plugged] : \A i, j \in 1 .. n : s[i] = s[j] => i = j}

\* sensord_init sets running whatever a signal handler did before.
Start ==
  /\ ~up /\ up' = TRUE /\ running' = TRUE
  /\ \E devs \in Listings :
       table' = [i \in DOMAIN devs |->
                   [type |-> DetectType(devs[i]), dev |-> devs[i], active |-> FALSE]]
  /\ last' = [i \in DOMAIN table' |-> NoEvent]
  /\ polled' = <<>>
  /\ UNCHANGED <<hardware, reads>>

OfType(tab, type) == {i \in DOMAIN tab : tab[i].type = type}
\* find_sensor, where there is one
FindSensor(tab, type) == CHOOSE i \in OfType(tab, type) : \A j \in OfType(tab, type) : i <= j

\* sensor_enable: a device that is gone, or has no such file, is passed over.
Enable(type) ==
  /\ up /\ running /\ OfType(table, type) # {}
  /\ LET i == FindSensor(table, type)
     IN  /\ table' = [table EXCEPT ![i].active = TRUE]
         /\ buffer' \in {buffer, buffer \cup ({table[i].dev} \cap plugged)}
         /\ left' = left \ {table[i].dev}
  /\ UNCHANGED <<up, running, last, polled, plugged, reads>>

\* sensor_disable on a table and the devices told to switch off so far
Off(done, type) ==
  LET i == FindSensor(done.table, type)
  IN  [table |-> [done.table EXCEPT ![i].active = FALSE],
       told  |-> done.told \cup {done.table[i].dev}]
NoneTold(tab) == [table |-> tab, told |-> {}]

\* The sensor counts as inactive whether or not its buffer/enable could be
\* opened and written: any of the devices that are told may stay on.
SwitchOff(done) ==
  /\ table' = done.table
  /\ \E D \in SUBSET done.told : buffer' = buffer \ D
  /\ left' = (left \cup done.told) \cap buffer'

Disable(type) ==
  /\ up /\ running /\ OfType(table, type) # {}
  /\ SwitchOff(Off(NoneTold(table), type))
  /\ UNCHANGED <<up, running, last, polled, plugged, reads>>

\* Mutant: every sensor of the type gets the reading.
CachedByType(tab, cache, type, event) ==
  [i \in DOMAIN cache |-> IF tab[i].type = type THEN event ELSE cache[i]]
\* sensor_read keeps the event with the first sensor of the type.
Cached(tab, cache, type, event) == [cache EXCEPT ![FindSensor(tab, type)] = event]

EventOf(tab, type, at) == [dev |-> tab[FindSensor(tab, type)].dev, at |-> at]

\* sensor_read: a file that cannot be read counts as zero, so it succeeds.
Read(type) ==
  /\ up /\ running /\ OfType(table, type) # {} /\ reads < MaxReads
  /\ reads' = reads + 1
  /\ last' = Cached(table, last, type, EventOf(table, type, reads'))
  /\ UNCHANGED <<up, running, table, polled, hardware>>

Active(tab) == {i \in DOMAIN tab : tab[i].active}
\* The n lowest of the indices in S
Lowest(S, n) == {i \in S : Cardinality({j \in S : j <= i}) <= n}
Nth(S, k) == CHOOSE i \in S : Cardinality({j \in S : j <= i}) = k

\* sensor_poll: reads every active sensor by its type, max of them.
Poll(max) ==
  /\ up /\ running
  /\ LET due == Lowest(Active(table), max)
         n   == Cardinality(due)
         EventAt(k) == EventOf(table, table[Nth(due, k)].type, reads + k)
         After[k \in 0 .. n] ==
           IF k = 0 THEN last
           ELSE Cached(table, After[k - 1], table[Nth(due, k)].type, EventAt(k))
     IN  /\ n > 0 /\ reads + n <= MaxReads
         /\ reads' = reads + n
         /\ last' = After[n]
         /\ polled' = [k \in 1 .. n |-> EventAt(k)]
  /\ UNCHANGED <<up, running, table, hardware>>

\* Only the flag changes: the loop of sensord_run ends after its sleep.
Term == up /\ running /\ running' = FALSE
        /\ UNCHANGED <<up, table, last, polled, hardware, reads>>

\* Mutant: the loop stops one sensor short.
ShutdownShort(tab) ==
  LET After[k \in 0 .. Len(tab)] ==
        IF k = 0 THEN NoneTold(tab)
        ELSE IF After[k - 1].table[k].active /\ k < Len(tab)
        THEN Off(After[k - 1], tab[k].type) ELSE After[k - 1]
  IN  After[Len(tab)]
\* The loop of sensord_shutdown
ShutdownLoop(tab) ==
  LET After[k \in 0 .. Len(tab)] ==
        IF k = 0 THEN NoneTold(tab)
        ELSE IF After[k - 1].table[k].active
        THEN Off(After[k - 1], tab[k].type) ELSE After[k - 1]
  IN  After[Len(tab)]

Shutdown ==
  /\ up /\ ~running /\ up' = FALSE
  /\ SwitchOff(ShutdownLoop(table))
  /\ UNCHANGED <<running, last, polled, plugged, reads>>

\* SIGKILL, or a crash: nothing is switched off.
Killed ==
  /\ up /\ up' = FALSE /\ running' = FALSE /\ table' = <<>> /\ last' = <<>>
  /\ polled' = <<>> /\ left' = left \cup buffer
  /\ UNCHANGED <<plugged, buffer, reads>>

Unplug(d) ==
  /\ d \in plugged
  /\ plugged' = plugged \ {d} /\ buffer' = buffer \ {d} /\ left' = left \ {d}
  /\ UNCHANGED <<up, running, table, last, polled, reads>>
Plug(d) ==
  /\ d \notin plugged /\ plugged' = plugged \cup {d}
  /\ UNCHANGED <<up, running, table, last, polled, buffer, left, reads>>

Client == (\E type \in TypeSet : Enable(type) \/ Disable(type) \/ Read(type))
            \/ \E max \in {1, MaxSensors} : Poll(max)
Next == Start \/ Client \/ Term \/ Shutdown \/ Killed
          \/ \E d \in Devices : Unplug(d) \/ Plug(d)
Spec == Init /\ [][Next]_vars

-----------------------------------------------------------------------------
(* Properties.                                                             *)

TypeOK ==
  /\ up \in BOOLEAN /\ running \in BOOLEAN
  /\ table \in Seq(Sensor) /\ Len(table) <= MaxSensors
  /\ last \in Seq(Event) /\ Len(last) = Len(table)
  /\ polled \in Seq(Event) /\ Len(polled) <= MaxSensors
  /\ plugged \subseteq Devices /\ buffer \subseteq plugged /\ left \subseteq buffer
  /\ reads \in 0 .. MaxReads

\* A device's buffer runs only while the daemon is up and has it as active,
\* unless a killed daemon left it running or it did not obey when it was told
\* to switch off, which nobody notices (reader.c:72-76): sensord_shutdown tells
\* every device that this daemon switched on.
OnMeansActive ==
  \A d \in buffer \ left : up /\ \E i \in DOMAIN table : table[i].dev = d /\ table[i].active

\* The last event kept for a sensor was read from that sensor's device, and
\* sensor_poll returns one event per active sensor: of the devices of one
\* type only the first is ever active, so none is read in another's place.
EventsAreOwn ==
  /\ \A i \in DOMAIN last : last[i].dev \in {"none", table[i].dev}
  /\ \A j, k \in DOMAIN polled : polled[j].dev = polled[k].dev => j = k
=============================================================================
