---------------------------- MODULE DaemonProofs ----------------------------
(***************************************************************************)
(* Proofs about the daemons: sensord for every set of devices and every    *)
(* use of its interface; telephonyd for every length of its call table and *)
(* every behaviour of the modem, with answers late, refused and lost; how  *)
(* the daemons stop; and that all parts of Userland keep their types.      *)
(***************************************************************************)
EXTENDS SystemProofs, ServiceProofs

-----------------------------------------------------------------------------
(* The sensors.                                                            *)

\* The instance's Cardinality is that of the library's theorems.
LEMMA SenseFinite ==
  /\ \A S : Sense!Cardinality(S) = Cardinality(S)
  /\ \A S : Sense!IsFiniteSet(S) <=> IsFiniteSet(S)
BY DEF Sense!Cardinality, Cardinality, Sense!IsFiniteSet, IsFiniteSet

\* Of the members of a set of numbers each has its own rank, without gaps.
Ranked(S, i) == {j \in S : j <= i}

\* Each rank up to the size of a set is that of one of its members.
LEMMA RankOf ==
  ASSUME NEW m \in Nat, NEW S \in SUBSET (1 .. m), NEW k \in 1 .. Cardinality(S)
  PROVE  \E i \in S : Cardinality(Ranked(S, i)) = k
<1> DEFINE r(x) == Cardinality(Ranked(S, x))
           T == {x \in 1 .. m : r(x) >= k}
<1>0. \A j \in S : j \in Int /\ 1 <= j /\ j <= m
  OBVIOUS
<1>1. IsFiniteSet(S) /\ Cardinality(S) \in Nat
  <2>1. IsFiniteSet(1 .. m)
    BY FS_Interval
  <2>2. IsFiniteSet(S)
    BY <2>1, FS_Subset
  <2> QED
    BY <2>2, FS_CardinalityType
<1>2. \A x : IsFiniteSet(Ranked(S, x)) /\ r(x) \in Nat
  <2>1. \A x : Ranked(S, x) \subseteq S
    BY DEF Ranked
  <2> QED
    BY <1>1, <2>1, FS_Subset, FS_CardinalityType
<1>3. r(0) = 0 /\ r(m) = Cardinality(S)
  <2>1. Ranked(S, 0) = {}
    <3>1. \A j \in S : ~(j <= 0)
      BY <1>0
    <3> QED
      BY <3>1 DEF Ranked
  <2>2. Ranked(S, m) = S
    <3>1. \A j \in S : j <= m
      BY <1>0
    <3>2. \A j : j \in Ranked(S, m) <=> j \in S
      BY <3>1 DEF Ranked
    <3> QED
      BY <3>2
  <2> QED
    BY <2>1, <2>2, FS_EmptySet
<1>4. \A x \in 1 .. m : /\ x \in S => r(x) = r(x - 1) + 1
                        /\ x \notin S => r(x) = r(x - 1)
  <2> TAKE x \in 1 .. m
  <2>1. CASE x \in S
    <3>0. \A j \in S : (j <= x <=> j <= x - 1 \/ j = x) /\ ~(x <= x - 1)
      BY <1>0
    <3>1. Ranked(S, x) = Ranked(S, x - 1) \cup {x} /\ x \notin Ranked(S, x - 1)
      BY <2>1, <3>0 DEF Ranked
    <3> QED
      BY <1>2, <2>1, <3>1, FS_AddElement
  <2>2. CASE x \notin S
    <3>0. \A j \in S : j <= x <=> j <= x - 1
      BY <1>0, <2>2
    <3>1. Ranked(S, x) = Ranked(S, x - 1)
      BY <3>0 DEF Ranked
    <3> QED
      BY <2>2, <3>1
  <2> QED
    BY <2>1, <2>2
<1> HIDE DEF r
<1>5. k \in Nat /\ k >= 1 /\ r(m) >= k /\ m >= 1
  <2>1. m # 0
    BY <1>1, <1>3
  <2> QED
    BY <1>1, <1>3, <2>1
<1>6. T \in SUBSET (1 .. m) /\ m \in T
  BY <1>5
<1>7. PICK x \in T : \A y \in T : x <= y
  <2> HIDE DEF T
  <2> QED
    BY <1>6, MinExists
<1>8. r(x - 1) < k
  <2>1. CASE x = 1
    BY <1>3, <1>5, <2>1
  <2>2. CASE x # 1
    <3>1. x - 1 \in 1 .. m /\ ~(x <= x - 1)
      BY <1>6, <1>7, <2>2
    <3>2. r(x - 1) \in Nat
      BY <1>2 DEF r
    <3> QED
      BY <1>5, <1>7, <3>1, <3>2
  <2> QED
    BY <2>1, <2>2
<1>9. x \in S /\ r(x) = k
  <2>1. r(x - 1) \in Nat /\ r(x) \in Nat /\ r(x) >= k /\ x \in 1 .. m
    BY <1>2, <1>7 DEF r
  <2> QED
    BY <1>4, <1>5, <1>8, <2>1
<1> QED
  BY <1>9 DEF r

\* Nth is the member of that rank.
LEMMA NthIs ==
  ASSUME NEW m \in Nat, NEW S \in SUBSET (1 .. m), NEW k \in 1 .. Cardinality(S)
  PROVE  /\ Sense!Nth(S, k) \in S
         /\ Cardinality(Ranked(S, Sense!Nth(S, k))) = k
<1>1. \E i \in S : Cardinality(Ranked(S, i)) = k
  BY RankOf
<1>2. Sense!Nth(S, k) = CHOOSE i \in S : Cardinality(Ranked(S, i)) = k
  BY SenseFinite DEF Sense!Nth, Ranked, Sense!Cardinality, Cardinality
<1> QED
  BY <1>1, <1>2

\* The first sensor of a type that is there.
LEMMA FirstOfType ==
  ASSUME NEW tab, NEW n \in Nat, DOMAIN tab = 1 .. n, NEW i \in 1 .. n
  PROVE  /\ Sense!FindSensor(tab, tab[i].type) \in 1 .. n
         /\ tab[Sense!FindSensor(tab, tab[i].type)].type = tab[i].type
         /\ \A j \in 1 .. n : tab[j].type = tab[i].type =>
              Sense!FindSensor(tab, tab[i].type) <= j
         /\ i \in Sense!OfType(tab, tab[i].type)
<1> DEFINE I == Sense!OfType(tab, tab[i].type)
<1>1. I \in SUBSET (1 .. n) /\ i \in I /\ \A j \in 1 .. n : j \in I <=> tab[j].type = tab[i].type
  BY DEF Sense!OfType
<1>2. \E a \in I : \A j \in I : a <= j
  <2> HIDE DEF I
  <2> QED
    BY <1>1, MinExists
<1>3. Sense!FindSensor(tab, tab[i].type) = CHOOSE a \in I : \A j \in I : a <= j
  BY DEF Sense!FindSensor
<1> HIDE DEF I
<1>4. /\ Sense!FindSensor(tab, tab[i].type) \in I
      /\ \A j \in I : Sense!FindSensor(tab, tab[i].type) <= j
  BY <1>2, <1>3
<1> QED
  BY <1>1, <1>4 DEF I

\* The type of a device is one of the enum's.
LEMMA DetectTypes ==
  ASSUME NEW d \in Devices
  PROVE  Sense!DetectType(d) \in Sense!TypeSet
<1> DEFINE T == Sense!Types
           I == {i \in 1 .. 9 : T[i] \in Raw[d]}
<1>1. DOMAIN T = 1 .. 9
  BY DEF Sense!Types
<1>2. {"accel", "gyro", "magnet", "light", "proximity"} \subseteq Sense!TypeSet
  <2>1. T[1] = "accel" /\ T[2] = "gyro" /\ T[3] = "magnet" /\ T[4] = "light" /\ T[5] = "proximity"
    BY DEF Sense!Types
  <2> HIDE DEF T
  <2>2. {1, 2, 3, 4, 5} \subseteq DOMAIN T
    BY <1>1
  <2> QED
    BY <2>1, <2>2 DEF Sense!TypeSet, T
<1>3. CASE Raw[d] = {}
  BY <1>2, <1>3 DEF Sense!DetectType, Sense!Named
<1>4. CASE Raw[d] # {}
  <2>1. I # {}
    BY <1>1, <1>4, DevicesHaveTypes DEF Sense!TypeSet
  <2>2. PICK a \in I : \A j \in I : a <= j
    <3>1. I \in SUBSET (1 .. 9) /\ 9 \in Nat
      OBVIOUS
    <3>2. PICK n \in Nat : n = 9
      OBVIOUS
    <3> HIDE DEF I
    <3>3. I \in SUBSET (1 .. n)
      BY <3>1, <3>2
    <3> QED
      BY <2>1, <3>3, MinExists
  <2> HIDE DEF T
  <2>3. a \in DOMAIN T /\ T[a] \in Raw[d] /\ \A j \in 1 .. a - 1 : T[j] \notin Raw[d]
    BY <1>1, <2>2
  <2>4. \E i \in DOMAIN T : T[i] \in Raw[d] /\ \A j \in 1 .. i - 1 : T[j] \notin Raw[d]
    BY <2>3
  <2>5. (CHOOSE i \in DOMAIN T : T[i] \in Raw[d] /\ \A j \in 1 .. i - 1 : T[j] \notin Raw[d])
          \in DOMAIN T
    BY <2>4
  <2>6. Sense!DetectType(d) =
          T[CHOOSE i \in DOMAIN T : T[i] \in Raw[d] /\ \A j \in 1 .. i - 1 : T[j] \notin Raw[d]]
    BY <1>4 DEF Sense!DetectType, T
  <2> QED
    BY <2>5, <2>6 DEF Sense!TypeSet, T
<1> QED
  BY <1>3, <1>4

\* A table: no device twice, and of a type only the first sensor is active.
TableOK(tab) ==
  /\ tab \in Seq(Sense!Sensor) /\ Len(tab) <= MaxSensors
  /\ \A i, j \in DOMAIN tab : tab[i].dev = tab[j].dev => i = j
  /\ \A i, j \in DOMAIN tab : tab[i].active /\ tab[j].type = tab[i].type => i <= j

\* What runs and is not in except is active.
Covered(tab, buf, except) ==
  \A d \in buf \ except : \E i \in DOMAIN tab : tab[i].dev = d /\ tab[i].active

\* Types, and that sysfs lists what runs.
SenseTypes ==
  /\ up \in BOOLEAN /\ sensing \in BOOLEAN
  /\ last \in Seq(Sense!Event) /\ Len(last) = Len(sensors)
  /\ polled \in Seq(Sense!Event) /\ Len(polled) <= MaxSensors
  /\ plugged \subseteq Devices /\ buffer \subseteq plugged /\ left \subseteq buffer
  /\ reads \in 0 .. MaxReads

\* A device in the table is there once, a type has one active entry at most, and
\* what runs and was not left behind by a dead daemon is active.
SenseInv ==
  /\ SenseTypes
  /\ TableOK(sensors)
  /\ Covered(sensors, buffer, left)
  /\ ~up => \A i \in DOMAIN sensors : ~sensors[i].active
  /\ Sense!EventsAreOwn

\* The table as an array, whose first entry of a type is the active one.
LEMMA TableFacts ==
  ASSUME NEW tab, TableOK(tab)
  PROVE  \E n \in Nat :
           /\ n = Len(tab) /\ n <= MaxSensors /\ DOMAIN tab = 1 .. n
           /\ tab \in [1 .. n -> Sense!Sensor]
           /\ \A i \in 1 .. n : /\ tab[i].type \in Sense!TypeSet /\ tab[i].dev \in Devices
                                /\ tab[i].active \in BOOLEAN
                                /\ tab[i].active =>
                                     Sense!FindSensor(tab, tab[i].type) = i
<1>1. PICK n \in Nat : n = Len(tab)
  BY DEF TableOK
<1>2. n <= MaxSensors /\ DOMAIN tab = 1 .. n /\ tab \in [1 .. n -> Sense!Sensor]
  BY <1>1 DEF TableOK
<1>3. \A i \in 1 .. n : /\ tab[i].type \in Sense!TypeSet /\ tab[i].dev \in Devices
                        /\ tab[i].active \in BOOLEAN
  BY <1>2 DEF Sense!Sensor
<1>4. ASSUME NEW i \in 1 .. n, tab[i].active PROVE Sense!FindSensor(tab, tab[i].type) = i
  <2>1. /\ Sense!FindSensor(tab, tab[i].type) \in 1 .. n
        /\ tab[Sense!FindSensor(tab, tab[i].type)].type = tab[i].type
        /\ Sense!FindSensor(tab, tab[i].type) <= i
    BY <1>2, FirstOfType
  <2>2. i <= Sense!FindSensor(tab, tab[i].type)
    BY <1>2, <1>4, <2>1 DEF TableOK
  <2> QED
    BY <2>1, <2>2
<1> QED
  BY <1>1, <1>2, <1>3, <1>4

\* A sensor may be made active if it is the first of its type.
LEMMA ActiveSet ==
  ASSUME NEW tab, TableOK(tab), NEW n \in Nat, DOMAIN tab = 1 .. n, NEW i \in 1 .. n,
         NEW u \in [1 .. n -> Sense!Sensor],
         \A j \in 1 .. n : u[j].dev = tab[j].dev /\ u[j].type = tab[j].type,
         \A j \in 1 .. n : j # i => (u[j].active <=> tab[j].active),
         u[i].active => Sense!FindSensor(tab, tab[i].type) = i
  PROVE  TableOK(u)
<1>1. n = Len(tab) /\ n <= MaxSensors
  BY DEF TableOK
<1>4. u \in Seq(Sense!Sensor) /\ Len(u) = n /\ DOMAIN u = 1 .. n
  OBVIOUS
<1>5. \A j, k \in 1 .. n : u[j].active /\ u[k].type = u[j].type => j <= k
  <2> TAKE j, k \in 1 .. n
  <2> HAVE u[j].active /\ u[k].type = u[j].type
  <2>1. tab[k].type = tab[j].type
    OBVIOUS
  <2>2. CASE j = i
    <3>2. Sense!FindSensor(tab, tab[i].type) = i
      BY <2>2
    <3>3. \A l \in 1 .. n : tab[l].type = tab[i].type => Sense!FindSensor(tab, tab[i].type) <= l
      BY FirstOfType
    <3> QED
      BY <2>1, <2>2, <3>2, <3>3
  <2>3. CASE j # i
    BY <2>1, <2>3 DEF TableOK
  <2> QED
    BY <2>2, <2>3
<1> QED
  BY <1>1, <1>4, <1>5 DEF TableOK

\* sensor_disable on a table whose running buffers are covered, but for those of
\* the devices told to switch off.
SwitchedOff(done, n, i, buf, except) ==
  LET tab == done.table
      off == Sense!Off(done, tab[i].type)
      f   == Sense!FindSensor(tab, tab[i].type)
  IN  /\ TableOK(off.table) /\ Len(off.table) = n /\ DOMAIN off.table = 1 .. n
      /\ \A j \in 1 .. n : /\ off.table[j].dev = tab[j].dev /\ off.table[j].type = tab[j].type
                           /\ off.table[j].active = IF j = f THEN FALSE ELSE tab[j].active
      /\ off.told = done.told \cup {tab[f].dev}
      /\ Covered(off.table, buf \ off.told, except)

\* Switching an entry off leaves running only what was left running or is active.
LEMMA OffKeeps ==
  ASSUME NEW done, NEW tab, tab = done.table, TableOK(tab), NEW n \in Nat,
         DOMAIN tab = 1 .. n, NEW i \in 1 .. n,
         NEW buf, NEW except, Covered(tab, buf \ done.told, except)
  PROVE  SwitchedOff(done, n, i, buf, except)
<1> DEFINE off == Sense!Off(done, tab[i].type)
           f   == Sense!FindSensor(tab, tab[i].type)
           u   == [tab EXCEPT ![f].active = FALSE]
<1>1. f \in 1 .. n
  BY FirstOfType
<1>2. off.table = u /\ off.told = done.told \cup {tab[f].dev}
  BY DEF Sense!Off
<1> HIDE DEF f, off
<1>3. /\ TableOK(u) /\ Len(u) = n /\ DOMAIN u = 1 .. n
      /\ \A j \in 1 .. n : /\ u[j].dev = tab[j].dev /\ u[j].type = tab[j].type
                           /\ u[j].active = IF j = f THEN FALSE ELSE tab[j].active
  <2>1. tab \in [1 .. n -> Sense!Sensor]
    BY DEF TableOK
  <2>2. u \in [1 .. n -> Sense!Sensor]
    BY <2>1 DEF Sense!Sensor
  <2>3. \A j \in 1 .. n : /\ u[j].dev = tab[j].dev /\ u[j].type = tab[j].type
                          /\ u[j].active = IF j = f THEN FALSE ELSE tab[j].active
    BY <2>1 DEF Sense!Sensor
  <2> HIDE DEF u
  <2>4. Len(u) = n /\ DOMAIN u = 1 .. n
    BY <2>2
  <2>5. TableOK(u)
    <3>1. \A j \in 1 .. n : u[j].dev = tab[j].dev /\ u[j].type = tab[j].type
      BY <2>3
    <3>2. \A j \in 1 .. n : j # f => (u[j].active <=> tab[j].active)
      BY <2>3
    <3>3. u[f].active => Sense!FindSensor(tab, tab[f].type) = f
      BY <1>1, <2>3
    <3> QED
      BY <1>1, <2>2, <3>1, <3>2, <3>3, ActiveSet
  <2> QED
    BY <2>3, <2>4, <2>5
<1> HIDE DEF u
<1>4. Covered(u, buf \ (done.told \cup {tab[f].dev}), except)
  <2> SUFFICES ASSUME NEW d \in (buf \ (done.told \cup {tab[f].dev})) \ except
               PROVE  \E j \in 1 .. n : u[j].dev = d /\ u[j].active
    BY <1>3 DEF Covered
  <2>1. PICK j \in 1 .. n : tab[j].dev = d /\ tab[j].active
    BY DEF Covered
  <2>2. j # f
    BY <2>1
  <2>3. u[j].dev = d /\ u[j].active
    BY <1>3, <2>1, <2>2
  <2> QED
    BY <2>3
<1>5. /\ TableOK(off.table) /\ Len(off.table) = n /\ DOMAIN off.table = 1 .. n
      /\ Covered(off.table, buf \ off.told, except)
      /\ \A j \in 1 .. n : /\ off.table[j].dev = tab[j].dev /\ off.table[j].type = tab[j].type
                           /\ off.table[j].active = IF j = f THEN FALSE ELSE tab[j].active
  BY <1>2, <1>3, <1>4
<1> QED
  BY <1>2, <1>5 DEF f, off, SwitchedOff

\* Where the caches hold only what their sensors were asked.
OwnEvents(tab, cache) ==
  /\ cache \in [DOMAIN tab -> Sense!Event]
  /\ \A i \in DOMAIN tab : cache[i].dev \in {"none", tab[i].dev}

\* An event that is read is the sensor's own, and is cached in its own place.
LEMMA CachedKeeps ==
  ASSUME NEW tab, TableOK(tab), NEW n \in Nat, DOMAIN tab = 1 .. n, NEW i \in 1 .. n,
         NEW cache, OwnEvents(tab, cache), NEW time \in 0 .. MaxReads
  PROVE  /\ Sense!EventOf(tab, tab[i].type, time) \in Sense!Event
         /\ OwnEvents(tab, Sense!Cached(tab, cache, tab[i].type,
                                        Sense!EventOf(tab, tab[i].type, time)))
<1> DEFINE f == Sense!FindSensor(tab, tab[i].type)
           e == Sense!EventOf(tab, tab[i].type, time)
           c == Sense!Cached(tab, cache, tab[i].type, e)
<1>1. f \in 1 .. n
  BY FirstOfType
<1>2. \A j \in 1 .. n : tab[j].dev \in Devices
  <2>1. tab \in [1 .. n -> Sense!Sensor]
    BY DEF TableOK
  <2> QED
    BY <2>1 DEF Sense!Sensor
<1>3. e = [dev |-> tab[f].dev, at |-> time]
  BY DEF Sense!EventOf
<1>4. c = [cache EXCEPT ![f] = e]
  BY DEF Sense!Cached
<1> HIDE DEF f
<1>5. e \in Sense!Event /\ e.dev = tab[f].dev
  BY <1>1, <1>2, <1>3 DEF Sense!Event
<1> HIDE DEF e, c
<1>6. cache \in [1 .. n -> Sense!Event]
  BY DEF OwnEvents
<1>7. c \in [1 .. n -> Sense!Event] /\ \A j \in 1 .. n : c[j] = IF j = f THEN e ELSE cache[j]
  BY <1>4, <1>5, <1>6
<1>8. \A j \in 1 .. n : c[j].dev \in {"none", tab[j].dev}
  BY <1>5, <1>7 DEF OwnEvents
<1>9. OwnEvents(tab, c)
  BY <1>7, <1>8 DEF OwnEvents
<1> QED
  BY <1>5, <1>9 DEF c, e

\* What holds of the active sensors that a poll takes.
LEMMA DueAreActive ==
  ASSUME NEW tab, TableOK(tab), NEW n \in Nat, DOMAIN tab = 1 .. n, NEW max \in Nat,
         NEW due, due = Sense!Lowest(Sense!Active(tab), max)
  PROVE  /\ due \in SUBSET (1 .. n) /\ Cardinality(due) \in 0 .. n
         /\ \A i \in due : tab[i].active
<1>1. due \in SUBSET (1 .. n) /\ \A i \in due : tab[i].active
  BY DEF Sense!Lowest, Sense!Active
<1>2. IsFiniteSet(1 .. n) /\ Cardinality(1 .. n) = n
  BY FS_Interval
<1>3. IsFiniteSet(due) /\ Cardinality(due) <= n
  BY <1>1, <1>2, FS_Subset
<1>4. Cardinality(due) \in Nat
  BY <1>3, FS_CardinalityType
<1> QED
  BY <1>1, <1>3, <1>4

\* sensord starts in the invariant.
LEMMA SenseInit == Sense!Init => SenseInv
<1> SUFFICES ASSUME Sense!Init PROVE SenseInv
  OBVIOUS
<1>1. /\ up = FALSE /\ sensing = FALSE /\ sensors = <<>> /\ last = <<>> /\ polled = <<>>
      /\ plugged \subseteq Devices /\ buffer = {} /\ left = {} /\ reads = 0
  BY DEF Sense!Init
<1>2. <<>> \in Seq(Sense!Event) /\ <<>> \in Seq(Sense!Sensor) /\ Len(<<>>) = 0 /\ DOMAIN <<>> = {}
  OBVIOUS
<1>3. 0 <= MaxSensors /\ 0 \in 0 .. MaxReads
  BY LimitsAreNat
<1>4. SenseTypes
  BY <1>1, <1>2, <1>3 DEF SenseTypes
<1>5. TableOK(sensors) /\ \A i \in DOMAIN sensors : ~sensors[i].active
  BY <1>1, <1>2, <1>3 DEF TableOK
<1>6. Covered(sensors, buffer, left)
  BY <1>1 DEF Covered
<1>7. Sense!EventsAreOwn
  BY <1>1, <1>2 DEF Sense!EventsAreOwn
<1> QED
  BY <1>4, <1>5, <1>6, <1>7 DEF SenseInv

\* sensord_init keeps the invariant.
LEMMA StartKeeps == SenseInv /\ Sense!Start => SenseInv'
<1> SUFFICES ASSUME SenseInv, Sense!Start PROVE SenseInv'
  OBVIOUS
<1> DEFINE n == IF Sense!Cardinality(plugged) < MaxSensors
                THEN Sense!Cardinality(plugged) ELSE MaxSensors
<1>1. PICK devs \in Sense!Listings :
        sensors' = [i \in DOMAIN devs |->
                      [type |-> Sense!DetectType(devs[i]), dev |-> devs[i], active |-> FALSE]]
  BY DEF Sense!Start
<1>2. n \in Nat /\ n <= MaxSensors
  <2>1. IsFiniteSet(Devices) /\ plugged \subseteq Devices
    BY SenseFinite, DevicesHaveTypes DEF SenseInv, SenseTypes
  <2>2. Sense!Cardinality(plugged) \in Nat
    BY <2>1, SenseFinite, FS_Subset, FS_CardinalityType
  <2> QED
    BY <2>2, LimitsAreNat
<1>3. devs \in [1 .. n -> plugged] /\ \A i, j \in 1 .. n : devs[i] = devs[j] => i = j
  BY <1>1 DEF Sense!Listings
<1> HIDE DEF n
<1>4. DOMAIN devs = 1 .. n /\ \A i \in 1 .. n : devs[i] \in Devices
  BY <1>3 DEF SenseInv, SenseTypes
<1>5. sensors' \in [1 .. n -> Sense!Sensor]
  BY <1>1, <1>4, DetectTypes DEF Sense!Sensor
<1>6. \A i \in 1 .. n : sensors'[i].dev = devs[i] /\ sensors'[i].active = FALSE
  BY <1>1, <1>4
<1>7. sensors' \in Seq(Sense!Sensor) /\ Len(sensors') = n /\ DOMAIN sensors' = 1 .. n
  BY <1>2, <1>5
<1>8. TableOK(sensors')
  BY <1>2, <1>3, <1>6, <1>7 DEF TableOK
<1>9. /\ last' = [i \in DOMAIN sensors' |-> Sense!NoEvent] /\ polled' = <<>>
      /\ up' = TRUE /\ sensing' = TRUE /\ plugged' = plugged /\ buffer' = buffer
      /\ left' = left /\ reads' = reads /\ ~up
  BY DEF Sense!Start, Sense!hardware
<1>10. Sense!NoEvent \in Sense!Event /\ Sense!NoEvent.dev = "none"
  BY LimitsAreNat DEF Sense!NoEvent, Sense!Event
<1>11. /\ last' \in Seq(Sense!Event) /\ Len(last') = n /\ DOMAIN last' = 1 .. n
       /\ \A i \in 1 .. n : last'[i].dev = "none"
  <2>1. last' \in [1 .. n -> Sense!Event] /\ \A i \in 1 .. n : last'[i] = Sense!NoEvent
    BY <1>7, <1>9, <1>10
  <2> QED
    BY <1>2, <1>10, <2>1
<1>12. <<>> \in Seq(Sense!Event) /\ Len(<<>>) = 0 /\ DOMAIN <<>> = {} /\ 0 <= MaxSensors
  BY LimitsAreNat
<1>13. SenseTypes'
  BY <1>7, <1>9, <1>11, <1>12 DEF SenseInv, SenseTypes
<1>14. Covered(sensors', buffer', left')
  <2>1. buffer \subseteq left
    BY <1>9 DEF SenseInv, Covered
  <2> QED
    BY <1>9, <2>1 DEF Covered
<1>15. Sense!EventsAreOwn'
  BY <1>9, <1>11, <1>12 DEF Sense!EventsAreOwn
<1> QED
  BY <1>8, <1>9, <1>13, <1>14, <1>15 DEF SenseInv, TableOK, Covered

\* A step that leaves the table's sensors and what was read.
LEMMA SwitchKeeps ==
  ASSUME SenseInv, TableOK(sensors'), Covered(sensors', buffer', left'),
         Len(sensors') = Len(sensors), \A i \in DOMAIN sensors : sensors'[i].dev = sensors[i].dev,
         ~up' => \A i \in DOMAIN sensors' : ~sensors'[i].active,
         up' \in BOOLEAN, sensing' \in BOOLEAN, last' = last, polled' = polled, reads' = reads,
         plugged' \subseteq Devices, buffer' \subseteq plugged', left' \subseteq buffer'
  PROVE  SenseInv'
<1>1. SenseTypes'
  BY DEF SenseInv, SenseTypes
<1>2. DOMAIN last = DOMAIN sensors
  BY DEF SenseInv, SenseTypes, TableOK
<1>3. Sense!EventsAreOwn'
  BY <1>2 DEF SenseInv, Sense!EventsAreOwn
<1> QED
  BY <1>1, <1>3 DEF SenseInv, TableOK, Covered

\* sensor_enable keeps the invariant.
LEMMA EnableKeeps ==
  ASSUME SenseInv, NEW type, Sense!Enable(type)
  PROVE  SenseInv'
<1>1. PICK n \in Nat : n = Len(sensors) /\ DOMAIN sensors = 1 .. n
                       /\ sensors \in [1 .. n -> Sense!Sensor]
  BY TableFacts DEF SenseInv
<1>2. PICK k \in 1 .. n : sensors[k].type = type
  BY <1>1 DEF Sense!Enable, Sense!OfType
<1> DEFINE i == Sense!FindSensor(sensors, type)
<1>3. i \in 1 .. n /\ sensors[i].type = type
  BY <1>1, <1>2, FirstOfType
<1>4. /\ sensors' = [sensors EXCEPT ![i].active = TRUE]
      /\ buffer' \in {buffer, buffer \cup ({sensors[i].dev} \cap plugged)}
      /\ left' = left \ {sensors[i].dev}
      /\ up /\ sensing /\ up' = up /\ sensing' = sensing /\ last' = last /\ polled' = polled
      /\ plugged' = plugged /\ reads' = reads
  BY DEF Sense!Enable
<1>5. Sense!FindSensor(sensors, sensors[i].type) = i
  BY <1>3
<1> HIDE DEF i
<1>6. sensors' \in [1 .. n -> Sense!Sensor]
  BY <1>1, <1>3, <1>4 DEF Sense!Sensor
<1>7. /\ \A j \in 1 .. n : sensors'[j].dev = sensors[j].dev /\ sensors'[j].type = sensors[j].type
      /\ \A j \in 1 .. n : j # i => sensors'[j].active = sensors[j].active
      /\ sensors'[i].active = TRUE
  BY <1>1, <1>3, <1>4 DEF Sense!Sensor
<1>8. Len(sensors') = n /\ DOMAIN sensors' = 1 .. n
  BY <1>6
<1>9. TableOK(sensors')
  <2>1. PICK u : u = sensors'
    OBVIOUS
  <2>2. \A j \in 1 .. n : u[j].dev = sensors[j].dev /\ u[j].type = sensors[j].type
    BY <1>7, <2>1
  <2>3. \A j \in 1 .. n : j # i => (u[j].active <=> sensors[j].active)
    BY <1>7, <2>1
  <2>4. u \in [1 .. n -> Sense!Sensor]
    BY <1>6, <2>1
  <2>5. u[i].active => Sense!FindSensor(sensors, sensors[i].type) = i
    BY <1>5
  <2>6. TableOK(u)
    BY <1>1, <1>3, <2>2, <2>3, <2>4, <2>5, ActiveSet DEF SenseInv
  <2> QED
    BY <2>1, <2>6
<1>10. Covered(sensors', buffer', left')
  <2> SUFFICES ASSUME NEW d \in buffer' \ left'
               PROVE  \E j \in 1 .. n : sensors'[j].dev = d /\ sensors'[j].active
    BY <1>8 DEF Covered
  <2>1. CASE d = sensors[i].dev
    BY <1>3, <1>7, <2>1
  <2>2. CASE d # sensors[i].dev
    <3>1. d \in buffer \ left
      BY <1>4, <2>2
    <3>2. PICK j \in 1 .. n : sensors[j].dev = d /\ sensors[j].active
      BY <1>1, <3>1 DEF SenseInv, Covered
    <3> QED
      BY <1>7, <2>2, <3>2
  <2> QED
    BY <2>1, <2>2
<1>11. buffer' \subseteq plugged /\ left' \subseteq buffer' /\ plugged \subseteq Devices
  BY <1>4 DEF SenseInv, SenseTypes
<1> QED
  BY <1>1, <1>4, <1>7, <1>8, <1>9, <1>10, <1>11, SwitchKeeps DEF SenseInv, SenseTypes

\* Whichever of the devices told to switch off obey, the invariant is kept.
LEMMA ToldKeeps ==
  ASSUME SenseInv, NEW w, Sense!SwitchOff(w), TableOK(w.table), Len(w.table) = Len(sensors),
         \A j \in DOMAIN sensors : w.table[j].dev = sensors[j].dev,
         Covered(w.table, buffer \ w.told, left),
         up' \in BOOLEAN, sensing' = sensing, last' = last, polled' = polled,
         plugged' = plugged, reads' = reads,
         ~up' => \A i \in DOMAIN w.table : ~w.table[i].active
  PROVE  SenseInv'
<1>1. sensors' = w.table /\ left' = (left \cup w.told) \cap buffer'
  BY DEF Sense!SwitchOff
<1>2. buffer' \subseteq buffer
  BY DEF Sense!SwitchOff
<1>3. Covered(sensors', buffer', left')
  BY <1>1, <1>2 DEF Covered
<1>4. buffer' \subseteq plugged /\ left' \subseteq buffer' /\ plugged \subseteq Devices
  BY <1>1, <1>2 DEF SenseInv, SenseTypes
<1> QED
  BY <1>1, <1>3, <1>4, SwitchKeeps DEF SenseInv, SenseTypes

\* sensor_disable keeps the invariant.
LEMMA DisableKeeps ==
  ASSUME SenseInv, NEW type, Sense!Disable(type)
  PROVE  SenseInv'
<1>1. PICK n \in Nat : n = Len(sensors) /\ DOMAIN sensors = 1 .. n
  BY TableFacts DEF SenseInv
<1>2. PICK k \in 1 .. n : sensors[k].type = type
  BY <1>1 DEF Sense!Disable, Sense!OfType
<1>3. PICK done : done = Sense!NoneTold(sensors)
  OBVIOUS
<1>4. done.table = sensors /\ done.told = {}
  BY <1>3 DEF Sense!NoneTold
<1>5. PICK off : off = Sense!Off(done, sensors[k].type)
  OBVIOUS
<1>6. /\ TableOK(off.table) /\ Len(off.table) = n /\ DOMAIN off.table = 1 .. n
      /\ \A j \in 1 .. n : off.table[j].dev = sensors[j].dev
      /\ Covered(off.table, buffer \ off.told, left)
  <2>1. TableOK(sensors) /\ Covered(sensors, buffer \ done.told, left)
    BY <1>4 DEF SenseInv, Covered
  <2>2. SwitchedOff(done, n, k, buffer, left)
    BY <1>1, <1>4, <2>1, OffKeeps
  <2> QED
    BY <1>4, <1>5, <2>2 DEF SwitchedOff
<1>7. /\ up /\ sensing /\ up' = up /\ sensing' = sensing /\ last' = last /\ polled' = polled
      /\ plugged' = plugged /\ reads' = reads /\ Sense!SwitchOff(off)
  BY <1>2, <1>3, <1>5 DEF Sense!Disable
<1>8. TableOK(off.table) /\ Len(off.table) = Len(sensors)
      /\ \A j \in DOMAIN sensors : off.table[j].dev = sensors[j].dev
  BY <1>1, <1>6
<1> QED
  BY <1>6, <1>7, <1>8, ToldKeeps DEF SenseInv

\* sensor_read keeps the invariant.
LEMMA ReadKeeps ==
  ASSUME SenseInv, NEW type, Sense!Read(type)
  PROVE  SenseInv'
<1>1. PICK n \in Nat : n = Len(sensors) /\ DOMAIN sensors = 1 .. n
  BY TableFacts DEF SenseInv
<1>2. PICK k \in 1 .. n : sensors[k].type = type
  BY <1>1 DEF Sense!Read, Sense!OfType
<1>3. PICK r \in 0 .. MaxReads : r = reads'
  BY LimitsAreNat DEF Sense!Read, SenseInv, SenseTypes
<1>4. OwnEvents(sensors, last)
  BY <1>1 DEF SenseInv, SenseTypes, OwnEvents, Sense!EventsAreOwn
<1> DEFINE c == Sense!Cached(sensors, last, type, Sense!EventOf(sensors, type, r))
<1>5. OwnEvents(sensors, c)
  BY <1>1, <1>2, <1>4, CachedKeeps DEF SenseInv
<1>6. /\ last' = c /\ up' = up /\ sensing' = sensing /\ sensors' = sensors
      /\ polled' = polled /\ plugged' = plugged /\ buffer' = buffer /\ left' = left
  BY <1>3 DEF Sense!Read, Sense!hardware
<1> HIDE DEF c
<1>7. c \in Seq(Sense!Event) /\ Len(c) = n /\ DOMAIN c = 1 .. n
      /\ \A i \in 1 .. n : c[i].dev \in {"none", sensors[i].dev}
  BY <1>1, <1>5 DEF OwnEvents
<1>8. SenseTypes'
  BY <1>1, <1>3, <1>6, <1>7 DEF SenseInv, SenseTypes
<1>9. Sense!EventsAreOwn'
  BY <1>6, <1>7 DEF SenseInv, Sense!EventsAreOwn
<1> QED
  BY <1>6, <1>8, <1>9 DEF SenseInv, TableOK, Covered

\* The recursive function of sensor_poll's loop, by its equation.
PolledOf(tab, due, time, k) == Sense!EventOf(tab, tab[Sense!Nth(due, k)].type, time + k)
\* W[k] is the cache after the first k turns of the loop of sensor_poll.
Polls(W, tab, cache, due, time) ==
  W = [k \in 0 .. Sense!Cardinality(due) |->
         IF k = 0 THEN cache
         ELSE Sense!Cached(tab, W[k - 1], tab[Sense!Nth(due, k)].type,
                           PolledOf(tab, due, time, k))]

\* The loop of sensor_poll yields events of the sensors it reads and caches them.
LEMMA PollLoop ==
  ASSUME NEW tab, TableOK(tab), NEW m \in Nat, DOMAIN tab = 1 .. m,
         NEW cache, OwnEvents(tab, cache), NEW due \in SUBSET (1 .. m),
         NEW n \in Nat, n = Cardinality(due), NEW time \in Nat, time + n <= MaxReads
  PROVE  /\ \A k \in 1 .. n : PolledOf(tab, due, time, k) \in Sense!Event
         /\ OwnEvents(tab, (CHOOSE W : Polls(W, tab, cache, due, time))[n])
<1> DEFINE one(c, k) == Sense!Cached(tab, c, tab[Sense!Nth(due, k)].type,
                                     PolledOf(tab, due, time, k))
           S == {c \in [DOMAIN tab -> Sense!Event] : OwnEvents(tab, c)}
<1>0. \A c : c \in S <=> OwnEvents(tab, c)
  BY DEF OwnEvents
<1>1. ASSUME NEW k \in 1 .. n, NEW c \in S
      PROVE  PolledOf(tab, due, time, k) \in Sense!Event /\ one(c, k) \in S
  <2>1. PICK i \in 1 .. m : i = Sense!Nth(due, k)
    BY NthIs
  <2>2. PICK r \in 0 .. MaxReads : r = time + k
    BY LimitsAreNat
  <2>3. OwnEvents(tab, c)
    BY <1>0
  <2>4. /\ Sense!EventOf(tab, tab[i].type, r) \in Sense!Event
        /\ OwnEvents(tab, Sense!Cached(tab, c, tab[i].type, Sense!EventOf(tab, tab[i].type, r)))
    BY <2>3, CachedKeeps
  <2>5. PolledOf(tab, due, time, k) = Sense!EventOf(tab, tab[i].type, r)
    BY <2>1, <2>2 DEF PolledOf
  <2>6. one(c, k) = Sense!Cached(tab, c, tab[i].type, Sense!EventOf(tab, tab[i].type, r))
    BY <2>1, <2>5
  <2> HIDE DEF one, S
  <2> QED
    BY <1>0, <2>4, <2>5, <2>6
<1>2. cache \in S
  BY <1>0
<1> HIDE DEF S
<1>3. \E W : Polls(W, tab, cache, due, time)
  <2> DEFINE step == [x \in S \X (1 .. n) |-> one(x[1], x[2])]
  <2>1. step \in [S \X (1 .. n) -> S]
    <3> HIDE DEF one
    <3> QED
      BY <1>1
  <2>2. \A c \in S, k \in 1 .. n : step[<<c, k>>] = one(c, k)
    OBVIOUS
  <2> HIDE DEF step
  <2>3. Recursion(n, S, cache, step)
    BY <1>2, <2>1, RecursionExists
  <2>4. PICK g \in [0 .. n -> S] :
          g[0] = cache /\ \A k \in 1 .. n : g[k] = step[<<g[k - 1], k>>]
    BY <2>3 DEF Recursion
  <2> HIDE DEF one
  <2>5. \A k \in 1 .. n : g[k] = one(g[k - 1], k)
    <3>1. \A k \in 1 .. n : g[k - 1] \in S
      BY <2>4
    <3> QED
      BY <2>2, <2>4, <3>1
  <2>6. g = [k \in 0 .. n |-> g[k]]
    BY <2>4
  <2>7. \A k \in 0 .. n : g[k] = IF k = 0 THEN cache ELSE one(g[k - 1], k)
    BY <2>4, <2>5
  <2>8. g = [k \in 0 .. n |-> IF k = 0 THEN cache ELSE one(g[k - 1], k)]
    BY <2>6, <2>7
  <2>9. n = Sense!Cardinality(due)
    BY SenseFinite
  <2>10. Polls(g, tab, cache, due, time)
    BY <2>8, <2>9 DEF Polls, one
  <2> QED
    BY <2>10
<1> DEFINE V == CHOOSE W : Polls(W, tab, cache, due, time)
<1>4. Polls(V, tab, cache, due, time)
  BY <1>3
<1> HIDE DEF V
<1>5. V[0] = cache /\ \A k \in 1 .. n : V[k] = one(V[k - 1], k)
  <2>1. n = Sense!Cardinality(due)
    BY SenseFinite
  <2>2. V = [k \in 0 .. n |-> IF k = 0 THEN cache ELSE one(V[k - 1], k)]
    BY <1>4, <2>1 DEF Polls
  <2> HIDE DEF one
  <2> QED
    BY <2>2
<1> DEFINE T == {k \in 0 .. n : V[k] \in S}
<1>6. 0 \in T
  BY <1>2, <1>5
<1>7. \A k \in 0 .. n - 1 : k \in T => k + 1 \in T
  <2>1. \A k \in 0 .. n - 1 : k + 1 \in 1 .. n /\ (k + 1) - 1 = k
    OBVIOUS
  <2> HIDE DEF one
  <2> QED
    BY <1>1, <1>5, <2>1
<1> HIDE DEF T
<1>8. 0 .. n \subseteq T
  BY <1>6, <1>7, UpTo
<1>9. V[n] \in S
  BY <1>8 DEF T
<1>10. \A k \in 1 .. n : PolledOf(tab, due, time, k) \in Sense!Event
  BY <1>1, <1>2
<1> QED
  BY <1>0, <1>9, <1>10 DEF V

\* sensor_poll keeps the invariant.
LEMMA PollKeeps ==
  ASSUME SenseInv, NEW max \in Nat, Sense!Poll(max)
  PROVE  SenseInv'
<1>1. PICK m \in Nat : /\ m = Len(sensors) /\ m <= MaxSensors /\ DOMAIN sensors = 1 .. m
                       /\ \A i \in 1 .. m : sensors[i].active =>
                            Sense!FindSensor(sensors, sensors[i].type) = i
  BY TableFacts DEF SenseInv
<1> DEFINE due == Sense!Lowest(Sense!Active(sensors), max)
           V == CHOOSE W : Polls(W, sensors, last, due, reads)
<1>2. PICK n \in Nat : n = Sense!Cardinality(due)
  BY <1>1, DueAreActive, SenseFinite DEF SenseInv
<1>3. /\ reads + n <= MaxReads /\ reads' = reads + n /\ last' = V[n]
      /\ polled' = [k \in 1 .. n |-> PolledOf(sensors, due, reads, k)]
  BY <1>2 DEF Sense!Poll, Polls, PolledOf
<1>4. /\ up' = up /\ sensing' = sensing /\ sensors' = sensors
      /\ plugged' = plugged /\ buffer' = buffer /\ left' = left
  BY DEF Sense!Poll, Sense!hardware
<1>5. /\ due \in SUBSET (1 .. m) /\ n <= m /\ n = Cardinality(due)
      /\ \A i \in due : sensors[i].active
  BY <1>1, <1>2, DueAreActive, SenseFinite DEF SenseInv
<1> HIDE DEF due
<1>6. reads \in Nat
  BY DEF SenseInv, SenseTypes
<1>7. OwnEvents(sensors, last)
  BY <1>1 DEF SenseInv, SenseTypes, OwnEvents, Sense!EventsAreOwn
<1>8. /\ \A k \in 1 .. n : PolledOf(sensors, due, reads, k) \in Sense!Event
      /\ OwnEvents(sensors, V[n])
  BY <1>1, <1>3, <1>5, <1>6, <1>7, PollLoop DEF SenseInv
<1> HIDE DEF V
<1>9. last' \in Seq(Sense!Event) /\ Len(last') = m /\ DOMAIN last' = 1 .. m
      /\ \A i \in 1 .. m : last'[i].dev \in {"none", sensors[i].dev}
  <2>1. /\ last' \in [1 .. m -> Sense!Event]
        /\ \A i \in 1 .. m : last'[i].dev \in {"none", sensors[i].dev}
    BY <1>1, <1>3, <1>8 DEF OwnEvents
  <2>2. last' \in Seq(Sense!Event) /\ Len(last') = m /\ DOMAIN last' = 1 .. m
    BY <2>1
  <2> QED
    BY <2>1, <2>2
<1>10. polled' \in Seq(Sense!Event) /\ Len(polled') = n /\ DOMAIN polled' = 1 .. n
  BY <1>3, <1>8
<1>11. ASSUME NEW k \in 1 .. n
       PROVE  /\ Sense!Nth(due, k) \in 1 .. m
              /\ polled'[k].dev = sensors[Sense!Nth(due, k)].dev
  <2>1. PICK i \in due : i = Sense!Nth(due, k)
    BY <1>1, <1>5, NthIs
  <2>2. Sense!FindSensor(sensors, sensors[i].type) = i
    BY <1>1, <1>5, <2>1
  <2>3. PolledOf(sensors, due, reads, k).dev = sensors[i].dev
    BY <2>1, <2>2 DEF PolledOf, Sense!EventOf
  <2> QED
    BY <1>3, <1>5, <2>1, <2>3
<1>12. ASSUME NEW j \in 1 .. n, NEW k \in 1 .. n, polled'[j].dev = polled'[k].dev
       PROVE  j = k
  <2>1. Sense!Nth(due, j) = Sense!Nth(due, k)
    BY <1>1, <1>11, <1>12 DEF SenseInv, TableOK
  <2>2. /\ Cardinality(Ranked(due, Sense!Nth(due, j))) = j
        /\ Cardinality(Ranked(due, Sense!Nth(due, k))) = k
    BY <1>1, <1>5, NthIs
  <2> QED
    BY <2>1, <2>2
<1>13. SenseTypes'
  <2>1. up' \in BOOLEAN /\ sensing' \in BOOLEAN
    BY <1>4 DEF SenseInv, SenseTypes
  <2>2. /\ plugged' \subseteq Devices /\ buffer' \subseteq plugged'
        /\ left' \subseteq buffer'
    BY <1>4 DEF SenseInv, SenseTypes
  <2>3. n <= MaxSensors /\ reads + n \in 0 .. MaxReads
    BY <1>1, <1>2, <1>3, <1>5, <1>6, LimitsAreNat
  <2>4. reads' \in 0 .. MaxReads
    BY <1>3, <2>3
  <2>5. Len(last') = Len(sensors') /\ Len(polled') <= MaxSensors
    BY <1>1, <1>4, <1>9, <1>10, <2>3
  <2> QED
    BY <1>9, <1>10, <2>1, <2>2, <2>4, <2>5 DEF SenseTypes
<1>14. Sense!EventsAreOwn'
  BY <1>4, <1>9, <1>10, <1>12 DEF Sense!EventsAreOwn
<1> QED
  BY <1>4, <1>13, <1>14 DEF SenseInv, TableOK, Covered

\* The recursive function of sensord_shutdown's loop, by its equation.
EndStep(tab, w, k) ==
  IF w.table[k].active THEN Sense!Off(w, tab[k].type) ELSE w
\* W[k] is the state after the first k turns of the loop of sensord_shutdown.
Ends(W, tab) ==
  W = [k \in 0 .. Len(tab) |->
         IF k = 0 THEN Sense!NoneTold(tab) ELSE EndStep(tab, W[k - 1], k)]

\* What the loop keeps of a table and the devices told to switch off.
Ending(tab, buf, except, w) ==
  /\ w \in [table : Seq(Sense!Sensor), told : SUBSET Devices]
  /\ TableOK(w.table) /\ DOMAIN w.table = DOMAIN tab
  /\ \A i \in DOMAIN tab : w.table[i].dev = tab[i].dev /\ w.table[i].type = tab[i].type
  /\ Covered(w.table, buf \ w.told, except)

\* One turn of the shutdown's loop switches its sensor off and no other on.
LEMMA EndStepKeeps ==
  ASSUME NEW tab, NEW m \in Nat, DOMAIN tab = 1 .. m, NEW buf, NEW except, NEW w,
         Ending(tab, buf, except, w), NEW k \in 1 .. m
  PROVE  /\ Ending(tab, buf, except, EndStep(tab, w, k))
         /\ ~EndStep(tab, w, k).table[k].active
         /\ \A i \in 1 .. m : ~w.table[i].active => ~EndStep(tab, w, k).table[i].active
<1>1. CASE ~w.table[k].active
  BY <1>1 DEF EndStep
<1>2. CASE w.table[k].active
  <2> DEFINE t == w.table
             off == Sense!Off(w, t[k].type)
             f == Sense!FindSensor(t, t[k].type)
  <2>1. EndStep(tab, w, k) = off
    BY <1>2 DEF EndStep, Ending
  <2>2. TableOK(t) /\ DOMAIN t = 1 .. m /\ Covered(t, buf \ w.told, except)
    BY DEF Ending
  <2>3. f = k
    BY <1>2, <2>2, TableFacts
  <2>4. /\ TableOK(off.table) /\ DOMAIN off.table = 1 .. m
        /\ \A j \in 1 .. m : /\ off.table[j].dev = t[j].dev /\ off.table[j].type = t[j].type
                             /\ off.table[j].active = IF j = f THEN FALSE ELSE t[j].active
        /\ off.told = w.told \cup {t[f].dev} /\ Covered(off.table, buf \ off.told, except)
    <3>1. PICK u : u = t
      OBVIOUS
    <3>2. SwitchedOff(w, m, k, buf, except)
      BY <2>2, <3>1, OffKeeps
    <3> QED
      BY <3>2 DEF SwitchedOff
  <2>5. off = [table |-> off.table, told |-> off.told]
    BY DEF Sense!Off
  <2>6. t[f].dev \in Devices /\ w.told \in SUBSET Devices
    BY <2>2, <2>3, TableFacts DEF Ending
  <2> HIDE DEF off, f
  <2>7. off \in [table : Seq(Sense!Sensor), told : SUBSET Devices]
    BY <2>4, <2>5, <2>6 DEF TableOK
  <2>8. Ending(tab, buf, except, off)
    BY <2>4, <2>7 DEF Ending
  <2> QED
    BY <2>1, <2>3, <2>4, <2>8
<1> QED
  BY <1>1, <1>2

\* After the shutdown's loop no sensor is active.
LEMMA ShutdownEnds ==
  ASSUME NEW tab, TableOK(tab), NEW buf, NEW except, Covered(tab, buf, except)
  PROVE  LET w == Sense!ShutdownLoop(tab)
         IN  Ending(tab, buf, except, w) /\ \A i \in DOMAIN tab : ~w.table[i].active
<1>1. PICK m \in Nat : m = Len(tab) /\ DOMAIN tab = 1 .. m
  BY TableFacts
<1> DEFINE first == Sense!NoneTold(tab)
           S == {w \in [table : Seq(Sense!Sensor), told : SUBSET Devices] :
                   Ending(tab, buf, except, w)}
<1>2. \A w : w \in S <=> Ending(tab, buf, except, w)
  BY DEF Ending
<1>3. first \in S
  <2>1. first.table = tab /\ first.told = {}
    BY DEF Sense!NoneTold
  <2>2. first \in [table : Seq(Sense!Sensor), told : SUBSET Devices]
    BY DEF TableOK, Sense!NoneTold
  <2> HIDE DEF first
  <2>3. Ending(tab, buf, except, first)
    BY <2>1, <2>2 DEF Ending, Covered
  <2> QED
    BY <1>2, <2>3
<1> HIDE DEF S, first
<1>4. \A w \in S, k \in 1 .. m : EndStep(tab, w, k) \in S
  BY <1>1, <1>2, EndStepKeeps
<1>5. \E W : Ends(W, tab)
  <2> DEFINE step == [x \in S \X (1 .. m) |-> EndStep(tab, x[1], x[2])]
  <2>1. step \in [S \X (1 .. m) -> S]
    BY <1>4
  <2>2. \A w \in S, k \in 1 .. m : step[<<w, k>>] = EndStep(tab, w, k)
    OBVIOUS
  <2> HIDE DEF step
  <2>3. Recursion(m, S, first, step)
    BY <1>3, <2>1, RecursionExists
  <2>4. PICK g \in [0 .. m -> S] :
          g[0] = first /\ \A k \in 1 .. m : g[k] = step[<<g[k - 1], k>>]
    BY <2>3 DEF Recursion
  <2>5. \A k \in 1 .. m : g[k] = EndStep(tab, g[k - 1], k)
    <3>1. \A k \in 1 .. m : g[k - 1] \in S
      BY <2>4
    <3> QED
      BY <2>2, <2>4, <3>1
  <2>6. g = [k \in 0 .. m |-> g[k]]
    BY <2>4
  <2>7. \A k \in 0 .. m : g[k] = IF k = 0 THEN first ELSE EndStep(tab, g[k - 1], k)
    BY <2>4, <2>5
  <2>8. g = [k \in 0 .. m |-> IF k = 0 THEN first ELSE EndStep(tab, g[k - 1], k)]
    BY <2>6, <2>7
  <2>9. Ends(g, tab)
    BY <1>1, <2>8 DEF Ends, first
  <2> QED
    BY <2>9
<1> DEFINE V == CHOOSE W : Ends(W, tab)
<1>6. Ends(V, tab)
  BY <1>5
<1>7. Sense!ShutdownLoop(tab) = V[m]
  BY <1>1 DEF Sense!ShutdownLoop, Ends, EndStep
<1> HIDE DEF V
<1>8. V[0] = first /\ \A k \in 1 .. m : V[k] = EndStep(tab, V[k - 1], k)
  BY <1>1, <1>6 DEF Ends, first
<1> DEFINE T == {k \in 0 .. m : V[k] \in S /\ \A i \in 1 .. k : ~V[k].table[i].active}
<1>9. 0 \in T
  BY <1>3, <1>8
<1>10. ASSUME NEW k \in 0 .. m - 1, k \in T PROVE k + 1 \in T
  <2>1. k + 1 \in 1 .. m /\ (k + 1) - 1 = k /\ k + 1 \in 0 .. m
    OBVIOUS
  <2>2. V[k + 1] = EndStep(tab, V[k], k + 1)
    BY <1>8, <2>1
  <2>3. V[k + 1] \in S
    BY <1>4, <1>10, <2>1, <2>2
  <2>4. \A i \in 1 .. k + 1 : i = k + 1 \/ i \in 1 .. k
    OBVIOUS
  <2>5. \A i \in 1 .. k + 1 : i \in 1 .. m
    OBVIOUS
  <2>6. Ending(tab, buf, except, V[k])
    BY <1>2, <1>10
  <2>7. /\ ~V[k + 1].table[k + 1].active
        /\ \A i \in 1 .. m : ~V[k].table[i].active => ~V[k + 1].table[i].active
    BY <1>1, <2>1, <2>2, <2>6, EndStepKeeps
  <2>8. \A i \in 1 .. k + 1 : ~V[k + 1].table[i].active
    BY <1>10, <2>4, <2>5, <2>7
  <2> QED
    BY <2>1, <2>3, <2>8
<1>11. m \in T
  <2>1. \A k \in 0 .. m - 1 : k \in T => k + 1 \in T
    BY <1>10
  <2> HIDE DEF T
  <2>2. 0 .. m \subseteq T
    BY <1>9, <2>1, UpTo
  <2> QED
    BY <2>2
<1> QED
  BY <1>1, <1>2, <1>7, <1>11

\* sensord_shutdown keeps the invariant.
LEMMA ShutdownKeeps ==
  ASSUME SenseInv, Sense!Shutdown
  PROVE  SenseInv'
<1>1. PICK m \in Nat : m = Len(sensors) /\ DOMAIN sensors = 1 .. m
  BY TableFacts DEF SenseInv
<1>2. PICK w : w = Sense!ShutdownLoop(sensors)
  OBVIOUS
<1>3. Ending(sensors, buffer, left, w) /\ \A i \in DOMAIN sensors : ~w.table[i].active
  BY <1>2, ShutdownEnds DEF SenseInv
<1>4. /\ Sense!SwitchOff(w) /\ up' = FALSE /\ sensing' = sensing /\ last' = last
      /\ polled' = polled /\ plugged' = plugged /\ reads' = reads
  BY <1>2 DEF Sense!Shutdown
<1>5. /\ TableOK(w.table) /\ DOMAIN w.table = 1 .. m
      /\ \A i \in 1 .. m : w.table[i].dev = sensors[i].dev
      /\ Covered(w.table, buffer \ w.told, left)
  BY <1>1, <1>3 DEF Ending
<1>6. Len(w.table) = m
  BY <1>5 DEF TableOK
<1>7. /\ Len(w.table) = Len(sensors) /\ up' \in BOOLEAN
      /\ \A i \in DOMAIN w.table : ~w.table[i].active
      /\ \A j \in DOMAIN sensors : w.table[j].dev = sensors[j].dev
  BY <1>1, <1>3, <1>4, <1>5, <1>6
<1> QED
  BY <1>4, <1>5, <1>7, ToldKeeps

\* Signals, and devices that come and go, keep the invariant.
LEMMA SenseOthers ==
  ASSUME SenseInv,
         Sense!Term \/ Sense!Killed \/ \E d \in Devices : Sense!Unplug(d) \/ Sense!Plug(d)
  PROVE  SenseInv'
<1>1. CASE Sense!Term
  BY <1>1 DEF Sense!Term, Sense!hardware, SenseInv, SenseTypes, TableOK, Covered,
     Sense!EventsAreOwn
<1>2. CASE Sense!Killed
  <2>1. /\ up' = FALSE /\ sensing' = FALSE /\ sensors' = <<>> /\ last' = <<>> /\ polled' = <<>>
        /\ left' = left \cup buffer /\ plugged' = plugged /\ buffer' = buffer /\ reads' = reads
    BY <1>2 DEF Sense!Killed
  <2>2. /\ <<>> \in Seq(Sense!Event) /\ <<>> \in Seq(Sense!Sensor) /\ Len(<<>>) = 0
        /\ DOMAIN <<>> = {} /\ 0 <= MaxSensors
    BY LimitsAreNat
  <2>3. SenseTypes'
    BY <2>1, <2>2 DEF SenseInv, SenseTypes
  <2>4. TableOK(<<>>)
    BY <2>2 DEF TableOK
  <2>5. Covered(<<>>, buffer, left \cup buffer)
    BY DEF Covered
  <2>6. Sense!EventsAreOwn'
    BY <2>1, <2>2 DEF Sense!EventsAreOwn
  <2> QED
    BY <2>1, <2>2, <2>3, <2>4, <2>5, <2>6 DEF SenseInv, TableOK, Covered
<1>3. ASSUME NEW d \in Devices, Sense!Unplug(d) \/ Sense!Plug(d) PROVE SenseInv'
  <2>1. /\ up' = up /\ sensing' = sensing /\ sensors' = sensors /\ last' = last
        /\ polled' = polled /\ reads' = reads
        /\ plugged' \subseteq Devices /\ buffer' \subseteq plugged' /\ left' \subseteq buffer'
        /\ buffer' \ left' \subseteq buffer \ left
    BY <1>3 DEF Sense!Unplug, Sense!Plug, SenseInv, SenseTypes
  <2>2. Covered(sensors, buffer', left')
    BY <2>1 DEF SenseInv, Covered
  <2> QED
    BY <2>1, <2>2, SwitchKeeps DEF SenseInv, SenseTypes
<1> QED
  BY <1>1, <1>2, <1>3

\* The invariant of sensord holds in every reachable state.
LEMMA SenseInductive == Sense!Spec => []SenseInv
<1>1. ASSUME SenseInv, [Sense!Next]_(Sense!vars) PROVE SenseInv'
  <2>1. CASE UNCHANGED Sense!vars
    BY <1>1, <2>1 DEF Sense!vars, SenseInv, SenseTypes, TableOK, Covered, Sense!EventsAreOwn
  <2>2. CASE Sense!Client
    <3>1. {1, MaxSensors} \subseteq Nat
      BY LimitsAreNat
    <3> QED
      BY <1>1, <2>2, <3>1, EnableKeeps, DisableKeeps, ReadKeeps, PollKeeps DEF Sense!Client
  <2> QED
    BY <1>1, <2>1, <2>2, StartKeeps, ShutdownKeeps, SenseOthers DEF Sense!Next
<1> QED
  BY <1>1, SenseInit, PTL DEF Sense!Spec

\* Types of sensord.
THEOREM SensorsFitTheTable == Sense!Spec => []Sense!TypeOK
<1>1. SenseInv => Sense!TypeOK
  BY DEF SenseInv, SenseTypes, TableOK, Sense!TypeOK
<1> QED
  BY <1>1, SenseInductive, PTL

\* No buffer runs without an active sensor, unless it was told to stop and did
\* not, or a daemon that was killed left it on.
THEOREM BuffersAreActiveOnes == Sense!Spec => []OnMeansActive
<1>1. SenseInv => Sense!OnMeansActive
  BY DEF SenseInv, Covered, Sense!OnMeansActive
<1> QED
  BY <1>1, SenseInductive, PTL DEF OnMeansActive

\* No event of one sensor passes for another's.
THEOREM EventsAreTheSensors == Sense!Spec => []EventsAreOwn
<1>1. SenseInv => Sense!EventsAreOwn
  BY DEF SenseInv
<1> QED
  BY <1>1, SenseInductive, PTL DEF EventsAreOwn

-----------------------------------------------------------------------------
(* The modem: what one answer changes.                                     *)
Modems == Tel!Modem
Powers == Tel!PowerOff \cup {Tel!PowerOn}

\* n is m after it refused, or obeyed, the command c.
RefusedBy(m, c, n) ==
  /\ n.unread = m.unread \cup {"ERROR"}
  /\ n.radio = m.radio /\ n.pdp = m.pdp /\ (m.lock = "READY" => n.lock = "READY")
  /\ m.lost => n.lost
  /\ c \in Powers \cup {"CGACT=0"} => n.lost
ObeyedBy(m, c, n) ==
  /\ n.unread = m.unread \cup {IF c = "CPIN?" THEN m.lock ELSE "OK"}
  /\ m.lost => n.lost
  /\ m.lock = "READY" => n.lock = "READY"
  /\ c = "CPIN=" => n.lock = "READY"
  /\ c = "CPIN?" => n.lock = m.lock
  /\ c \in Tel!PowerOff => n.radio = FALSE
  /\ c \notin Powers => n.radio = m.radio
  /\ c = "CGACT=0" => n.pdp = FALSE
  /\ c # "CGACT=1" /\ n.pdp => m.pdp

\* One answer.
AnswersOne(m, n) ==
  /\ n \in Modems /\ n.owed = Tail(m.owed) /\ n.fd = m.fd /\ n.late = m.late
  /\ RefusedBy(m, Head(m.owed), n) \/ ObeyedBy(m, Head(m.owed), n)

\* The fields of a modem.
LEMMA ModemFields ==
  ASSUME NEW m \in Modems
  PROVE  /\ m.fd \in BOOLEAN /\ m.owed \in Seq(Tel!Commands) /\ m.unread \in SUBSET Tel!Answers
         /\ m.radio \in BOOLEAN /\ m.pdp \in BOOLEAN /\ m.lock \in Tel!Locks
         /\ m.late \in BOOLEAN /\ m.lost \in BOOLEAN
         /\ Len(m.owed) \in Nat
<1>1. m.owed \in Seq(Tel!Commands)
  BY DEF Modems, Tel!Modem
<1> QED
  BY <1>1 DEF Modems, Tel!Modem

\* What a refused command may leave behind.
LEMMA RefusedIs ==
  ASSUME NEW m \in Modems, NEW c \in Tel!Commands, NEW n \in Tel!Refused(m, c)
  PROVE  \/ n = m /\ c \notin Powers \cup {"CGACT=0"}
         \/ n = [m EXCEPT !.lost = TRUE]
         \/ n = [m EXCEPT !.lock = "PUK"] /\ m.lock = "PIN" /\ c = "CPIN="
BY DEF Tel!Refused, Powers, Tel!PowerOff, Tel!PowerOn

\* What each obeyed command does.
LEMMA ObeyedIs ==
  ASSUME NEW m \in Modems, NEW c \in Tel!Commands, NEW n \in Tel!Obeyed(m, c)
  PROVE  \/ n = [m EXCEPT !.radio = FALSE, !.pdp = FALSE] /\ c \in Tel!PowerOff
         \/ n = [m EXCEPT !.radio = TRUE] /\ c = Tel!PowerOn
         \/ n = [m EXCEPT !.pdp = TRUE] /\ c = "CGACT=1"
         \/ n = [m EXCEPT !.pdp = FALSE] /\ c = "CGACT=0"
         \/ n = [m EXCEPT !.lock = "READY"] /\ c = "CPIN="
         \/ n = m /\ c \in {"CPIN?", "other"}
BY DEF Tel!Obeyed, Powers, Tel!PowerOff, Tel!PowerOn, Tel!Commands

\* One answer answers the first command that is owed.
LEMMA OneAnswer ==
  ASSUME NEW m \in Modems, NEW n \in Tel!Answered(m)
  PROVE  m.owed # <<>> /\ AnswersOne(m, n)
<1> DEFINE c == Head(m.owed)
           rest == [m EXCEPT !.owed = Tail(@)]
           Say(w, a) == [w EXCEPT !.unread = @ \cup {a}]
           word == IF c = "CPIN?" THEN m.lock ELSE "OK"
<1>1. m.owed # <<>>
  BY DEF Tel!Answered
<1>2. \/ \E w \in Tel!Refused(rest, c) : n = Say(w, "ERROR")
      \/ \E w \in Tel!Obeyed(rest, c) : n = Say(w, word)
  BY <1>1 DEF Tel!Answered
<1>3. c \in Tel!Commands /\ Tail(m.owed) \in Seq(Tel!Commands)
  BY <1>1, ModemFields
<1>4. rest \in Modems /\ rest = [m EXCEPT !.owed = Tail(m.owed)]
  BY <1>3 DEF Modems, Tel!Modem
<1>5. /\ rest.owed = Tail(m.owed) /\ rest.fd = m.fd /\ rest.unread = m.unread /\ rest.radio = m.radio
      /\ rest.pdp = m.pdp /\ rest.lock = m.lock /\ rest.late = m.late /\ rest.lost = m.lost
  BY DEF Modems, Tel!Modem
<1>6. "ERROR" \in Tel!Answers /\ word \in Tel!Answers
  BY ModemFields DEF Tel!Answers
<1> HIDE DEF rest, c, word
<1>7. \A w \in Modems, a \in Tel!Answers :
        /\ Say(w, a) \in Modems /\ Say(w, a).unread = w.unread \cup {a}
        /\ Say(w, a).owed = w.owed /\ Say(w, a).fd = w.fd /\ Say(w, a).radio = w.radio
        /\ Say(w, a).pdp = w.pdp /\ Say(w, a).lock = w.lock /\ Say(w, a).late = w.late
        /\ Say(w, a).lost = w.lost
  BY DEF Modems, Tel!Modem
<1> HIDE DEF Say
<1>8. CASE \E w \in Tel!Refused(rest, c) : n = Say(w, "ERROR")
  <2>1. PICK w \in Tel!Refused(rest, c) : n = Say(w, "ERROR")
    BY <1>8
  <2>2. /\ w \in Modems /\ w.owed = rest.owed /\ w.fd = rest.fd /\ w.unread = rest.unread
        /\ w.late = rest.late /\ w.radio = rest.radio /\ w.pdp = rest.pdp
        /\ rest.lock = "READY" => w.lock = "READY"
        /\ rest.lost => w.lost
        /\ c \in Powers \cup {"CGACT=0"} => w.lost
    <3>1. \/ w = rest /\ c \notin Powers \cup {"CGACT=0"}
          \/ w = [rest EXCEPT !.lost = TRUE]
          \/ w = [rest EXCEPT !.lock = "PUK"] /\ rest.lock = "PIN" /\ c = "CPIN="
      BY <1>3, <1>4, RefusedIs
    <3>2. c = "CPIN=" => c \notin Powers \cup {"CGACT=0"}
      BY DEF Powers, Tel!PowerOff, Tel!PowerOn
    <3> QED
      BY <1>4, <3>1, <3>2 DEF Modems, Tel!Modem, Tel!Locks
  <2>3. RefusedBy(m, c, n)
    BY <1>5, <1>6, <1>7, <2>1, <2>2 DEF RefusedBy
  <2> QED
    BY <1>1, <1>5, <1>6, <1>7, <2>1, <2>2, <2>3 DEF AnswersOne, c
<1>9. CASE \E w \in Tel!Obeyed(rest, c) : n = Say(w, word)
  <2>1. PICK w \in Tel!Obeyed(rest, c) : n = Say(w, word)
    BY <1>9
  <2>2. \/ w = [rest EXCEPT !.radio = FALSE, !.pdp = FALSE] /\ c \in Tel!PowerOff
        \/ w = [rest EXCEPT !.radio = TRUE] /\ c = Tel!PowerOn
        \/ w = [rest EXCEPT !.pdp = TRUE] /\ c = "CGACT=1"
        \/ w = [rest EXCEPT !.pdp = FALSE] /\ c = "CGACT=0"
        \/ w = [rest EXCEPT !.lock = "READY"] /\ c = "CPIN="
        \/ w = rest /\ c \in {"CPIN?", "other"}
    BY <1>3, <1>4, ObeyedIs
  <2>3. /\ w \in Modems /\ w.owed = rest.owed /\ w.fd = rest.fd /\ w.unread = rest.unread
        /\ w.late = rest.late /\ w.lost = rest.lost
        /\ rest.lock = "READY" => w.lock = "READY"
    BY <1>4, <2>2 DEF Modems, Tel!Modem, Tel!Locks
  <2>4. /\ c = "CPIN=" => w.lock = "READY"
        /\ c = "CPIN?" => w.lock = rest.lock
        /\ c \in Tel!PowerOff => w.radio = FALSE
        /\ c \notin Powers => w.radio = rest.radio
        /\ c = "CGACT=0" => w.pdp = FALSE
        /\ c # "CGACT=1" /\ w.pdp => rest.pdp
    BY <1>4, <2>2 DEF Modems, Tel!Modem, Powers, Tel!PowerOff, Tel!PowerOn
  <2>5. ObeyedBy(m, c, n)
    BY <1>5, <1>6, <1>7, <2>1, <2>3, <2>4 DEF ObeyedBy, word
  <2> QED
    BY <1>1, <1>5, <1>6, <1>7, <2>1, <2>3, <2>5 DEF AnswersOne, c
<1> QED
  BY <1>2, <1>8, <1>9

-----------------------------------------------------------------------------
\* The recursive function of Arrivals, by its equation.
AllAnswered(T) == UNION {Tel!Answered(v) : v \in T}
Arriving(W, m) ==
  W = [i \in 0 .. MaxOwed + 1 |-> IF i = 0 THEN {m} ELSE AllAnswered(W[i - 1])]

\* A modem of AllAnswered answered one of the given ones.
LEMMA AllAnsweredIs == \A T, n : n \in AllAnswered(T) <=> \E v \in T : n \in Tel!Answered(v)
<1> TAKE T, n
<1> DEFINE G == {Tel!Answered(v) : v \in T}
<1>1. n \in UNION G <=> \E A \in G : n \in A
  OBVIOUS
<1>2. \A A : A \in G <=> \E v \in T : A = Tel!Answered(v)
  OBVIOUS
<1>3. AllAnswered(T) = UNION G
  BY DEF AllAnswered
<1> HIDE DEF G
<1> QED
  BY <1>1, <1>2, <1>3

\* While the daemon waits, the modem does not leave a set its answers stay in.
LEMMA ArrivalsStay ==
  ASSUME NEW m \in Modems, NEW I \in SUBSET Modems, m \in I,
         \A v \in I : Tel!Answered(v) \subseteq I
  PROVE  Tel!Arrivals(m) \subseteq I
<1>1. PICK n \in Nat : n = MaxOwed + 1
  BY LimitsAreNat
<1>2. \A T \in SUBSET Modems : AllAnswered(T) \in SUBSET Modems
  BY AllAnsweredIs, OneAnswer DEF AnswersOne
<1>3. \E W : Arriving(W, m)
  <2> DEFINE step == [x \in (SUBSET Modems) \X (1 .. n) |-> AllAnswered(x[1])]
  <2>1. step \in [(SUBSET Modems) \X (1 .. n) -> SUBSET Modems]
    BY <1>2
  <2>2. \A x \in SUBSET Modems, i \in 1 .. n : step[<<x, i>>] = AllAnswered(x)
    OBVIOUS
  <2> HIDE DEF step
  <2>3. {m} \in SUBSET Modems
    OBVIOUS
  <2>4. PICK g \in [0 .. n -> SUBSET Modems] :
          g[0] = {m} /\ \A i \in 1 .. n : g[i] = step[<<g[i - 1], i>>]
    <3>1. Recursion(n, SUBSET Modems, {m}, step)
      BY <2>1, <2>3, RecursionExists
    <3> QED
      BY <3>1 DEF Recursion
  <2>5. \A i \in 1 .. n : g[i] = AllAnswered(g[i - 1])
    <3>1. \A i \in 1 .. n : g[i - 1] \in SUBSET Modems
      BY <2>4
    <3> QED
      BY <2>2, <2>4, <3>1
  <2>6. g = [i \in 0 .. n |-> g[i]]
    BY <2>4
  <2>7. \A i \in 0 .. n : g[i] = IF i = 0 THEN {m} ELSE AllAnswered(g[i - 1])
    BY <2>4, <2>5
  <2>8. g = [i \in 0 .. n |-> IF i = 0 THEN {m} ELSE AllAnswered(g[i - 1])]
    BY <2>6, <2>7
  <2> QED
    BY <1>1, <2>8 DEF Arriving
<1> DEFINE V == CHOOSE g : Arriving(g, m)
<1>4. Arriving(V, m)
  BY <1>3
<1>5. Tel!Arrivals(m) = UNION {V[i] : i \in 0 .. n}
  BY <1>1 DEF Tel!Arrivals, Arriving, AllAnswered
<1> HIDE DEF V
<1>6. V[0] = {m} /\ \A i \in 1 .. n : V[i] = AllAnswered(V[i - 1])
  <2>1. \A i \in 0 .. n : V[i] = IF i = 0 THEN {m} ELSE AllAnswered(V[i - 1])
    BY <1>1, <1>4 DEF Arriving
  <2>2. 0 \in 0 .. n /\ \A i \in 1 .. n : i \in 0 .. n /\ i # 0
    OBVIOUS
  <2> QED
    BY <2>1, <2>2
<1> DEFINE S == {i \in 0 .. n : V[i] \subseteq I}
<1>7. 0 \in S
  BY <1>6
<1>8. \A i \in 0 .. n - 1 : i \in S => i + 1 \in S
  <2>1. \A i \in 0 .. n - 1 : i + 1 \in 1 .. n /\ (i + 1) - 1 = i
    OBVIOUS
  <2>2. \A T : T \subseteq I => AllAnswered(T) \subseteq I
    BY AllAnsweredIs
  <2> QED
    BY <1>6, <2>1, <2>2
<1>9. \A i \in 0 .. n : V[i] \subseteq I
  <2> HIDE DEF S
  <2>1. 0 .. n \subseteq S
    BY <1>7, <1>8, UpTo
  <2> QED
    BY <2>1 DEF S
<1> QED
  <2>1. \A v \in UNION {V[i] : i \in 0 .. n} : \E i \in 0 .. n : v \in V[i]
    OBVIOUS
  <2> QED
    BY <1>5, <1>9, <2>1

-----------------------------------------------------------------------------
\* Whether the radio will be off once the modem has answered.
PowerPlaces(m) == {i \in 1 .. Len(m.owed) : m.owed[i] \in Powers}
\* The radio is off once m has answered all it owes: the last command about
\* power says so, or there is none and it is off.
WillBeOff(m) ==
  IF PowerPlaces(m) = {} THEN ~m.radio
  ELSE \E i \in PowerPlaces(m) : m.owed[i] \in Tel!PowerOff /\ \A j \in PowerPlaces(m) : j <= i

\* n follows m by answers and commands that do not turn the radio on.
RadioKept(m, n) == ~n.lost => (WillBeOff(m) => WillBeOff(n))

\* An answer changes the radio only as its command says.
LEMMA AnswersKeepRadio ==
  ASSUME NEW m \in Modems, NEW n \in Tel!Answered(m)
  PROVE  RadioKept(m, n)
<1> SUFFICES ASSUME ~n.lost, WillBeOff(m) PROVE WillBeOff(n)
  BY DEF RadioKept
<1> DEFINE c == Head(m.owed)
<1>1. m.owed # <<>> /\ AnswersOne(m, n) /\ m.owed \in Seq(Tel!Commands)
  BY OneAnswer, ModemFields
<1>2. PICK k \in Nat : k = Len(n.owed)
  BY <1>1, ModemFields DEF AnswersOne
<1>3. Len(m.owed) = k + 1 /\ c = m.owed[1] /\ \A i \in 1 .. k : n.owed[i] = m.owed[i + 1]
  BY <1>1, <1>2 DEF AnswersOne
<1>4. \A i \in 1 .. k : i \in PowerPlaces(n) <=> i + 1 \in PowerPlaces(m)
  BY <1>2, <1>3 DEF PowerPlaces
<1>5. 1 \in PowerPlaces(m) <=> c \in Powers
  BY <1>3 DEF PowerPlaces
<1>6. PowerPlaces(n) \subseteq 1 .. k /\ PowerPlaces(m) \subseteq 1 .. k + 1
  BY <1>2, <1>3 DEF PowerPlaces
<1>7. Tel!PowerOff \subseteq Powers
  BY DEF Powers
<1>8. c \in Powers => ObeyedBy(m, c, n)
  BY <1>1 DEF AnswersOne, RefusedBy
<1>9. c \notin Powers => n.radio = m.radio
  BY <1>1 DEF AnswersOne, RefusedBy, ObeyedBy
<1>10. CASE PowerPlaces(m) = {}
  <2>1. PowerPlaces(n) = {}
    BY <1>4, <1>6, <1>10
  <2> QED
    BY <1>5, <1>9, <1>10, <2>1 DEF WillBeOff
<1>11. CASE PowerPlaces(m) # {}
  <2>1. PICK i \in PowerPlaces(m) : m.owed[i] \in Tel!PowerOff /\ \A j \in PowerPlaces(m) : j <= i
    BY <1>11 DEF WillBeOff
  <2>2. CASE i = 1
    <3>1. PowerPlaces(n) = {}
      <4>1. \A j \in 1 .. k : ~(j + 1 <= 1)
        OBVIOUS
      <4> QED
        BY <1>4, <1>6, <2>1, <2>2, <4>1
    <3>2. n.radio = FALSE
      BY <1>3, <1>7, <1>8, <2>1, <2>2 DEF ObeyedBy
    <3> QED
      BY <3>1, <3>2 DEF WillBeOff
  <2>3. CASE i # 1
    <3>1. i - 1 \in 1 .. k /\ (i - 1) + 1 = i
      BY <1>6, <2>3
    <3>2. i - 1 \in PowerPlaces(n) /\ n.owed[i - 1] \in Tel!PowerOff
      BY <1>3, <1>4, <2>1, <3>1
    <3>3. \A j \in PowerPlaces(n) : j <= i - 1
      <4>1. \A j \in PowerPlaces(n) : j \in 1 .. k /\ j + 1 <= i
        BY <1>4, <1>6, <2>1
      <4> QED
        BY <3>1, <4>1
    <3> QED
      BY <3>2, <3>3 DEF WillBeOff
  <2> QED
    BY <2>2, <2>3
<1> QED
  BY <1>10, <1>11

\* Taking what was answered changes neither what is owed nor the radio.
LEMMA SameRadio ==
  ASSUME NEW m, NEW n, n.owed = m.owed, n.radio = m.radio
  PROVE  WillBeOff(n) <=> WillBeOff(m)
BY DEF WillBeOff, PowerPlaces

\* One more command to answer.
LEMMA AskedKeepsRadio ==
  ASSUME NEW m \in Modems, NEW n, NEW c \in Tel!Commands,
         n.owed = Append(m.owed, c), n.radio = m.radio
  PROVE  /\ c \notin Powers => (WillBeOff(m) => WillBeOff(n))
         /\ c \in Tel!PowerOff => WillBeOff(n)
<1>1. PICK k \in Nat : k = Len(m.owed)
  BY ModemFields
<1>2. Len(n.owed) = k + 1 /\ n.owed[k + 1] = c /\ \A i \in 1 .. k : n.owed[i] = m.owed[i]
  BY <1>1, ModemFields
<1>3. \A i \in 1 .. k : i \in PowerPlaces(n) <=> i \in PowerPlaces(m)
  BY <1>1, <1>2 DEF PowerPlaces
<1>4. PowerPlaces(n) \subseteq 1 .. k + 1 /\ PowerPlaces(m) \subseteq 1 .. k
      /\ (k + 1 \in PowerPlaces(n) <=> c \in Powers)
  BY <1>1, <1>2 DEF PowerPlaces
<1>5. ASSUME c \notin Powers, WillBeOff(m) PROVE WillBeOff(n)
  <2>1. PowerPlaces(n) = PowerPlaces(m)
    <3>1. \A i \in 1 .. k + 1 : i \in 1 .. k \/ i = k + 1
      OBVIOUS
    <3>2. \A i : i \in PowerPlaces(n) <=> i \in PowerPlaces(m)
      BY <1>3, <1>4, <1>5, <3>1
    <3> QED
      BY <3>2
  <2>2. \A i \in PowerPlaces(m) : n.owed[i] = m.owed[i]
    BY <1>2, <1>4
  <2> QED
    BY <1>5, <2>1, <2>2 DEF WillBeOff
<1>6. ASSUME c \in Tel!PowerOff PROVE WillBeOff(n)
  <2>1. k + 1 \in PowerPlaces(n) /\ n.owed[k + 1] \in Tel!PowerOff
    BY <1>2, <1>4, <1>6 DEF Powers
  <2>2. \A j \in PowerPlaces(n) : j <= k + 1
    BY <1>4
  <2> QED
    BY <2>1, <2>2 DEF WillBeOff
<1> QED
  BY <1>5, <1>6

-----------------------------------------------------------------------------
(* One command.                                                            *)

\* The modem as the daemon finds it: when no answer is late, none is missing.
Fit(m) == /\ m \in Modems /\ Len(m.owed) <= MaxOwed
          /\ m.late \/ (m.owed = <<>> /\ m.unread = {})
\* What modem_send_at may return.
Outcomes == {o \in [modem : Modems, said : SUBSET Tel!Answers] : Fit(o.modem)}
Sent(m, c) == [m EXCEPT !.owed = Append(@, c)]

\* A command that is written is owed last, and nothing else changes.
LEMMA SentIs ==
  ASSUME NEW m \in Modems, NEW c \in Tel!Commands
  PROVE  /\ Sent(m, c) \in Modems /\ Sent(m, c).owed = Append(m.owed, c)
         /\ Sent(m, c).fd = m.fd /\ Sent(m, c).unread = m.unread /\ Sent(m, c).radio = m.radio
         /\ Sent(m, c).pdp = m.pdp /\ Sent(m, c).lock = m.lock /\ Sent(m, c).late = m.late
         /\ Sent(m, c).lost = m.lost
<1>1. Append(m.owed, c) \in Seq(Tel!Commands)
  BY ModemFields
<1> QED
  BY <1>1 DEF Sent, Modems, Tel!Modem

\* Reading takes all that is unread and tells whether answers are late.
LEMMA TakeIs ==
  ASSUME NEW v \in Modems
  PROVE  /\ Tel!Take(v).said = v.unread /\ Tel!Take(v).modem \in Modems
         /\ Tel!Take(v).modem.owed = v.owed /\ Tel!Take(v).modem.unread = {}
         /\ Tel!Take(v).modem.fd = v.fd /\ Tel!Take(v).modem.radio = v.radio
         /\ Tel!Take(v).modem.pdp = v.pdp /\ Tel!Take(v).modem.lock = v.lock
         /\ Tel!Take(v).modem.lost = v.lost
         /\ Tel!Take(v).modem.late <=> v.late \/ v.owed # <<>>
         /\ Tel!Take(v) \in [modem : Modems, said : SUBSET Tel!Answers]
<1> DEFINE w == [v EXCEPT !.unread = {}, !.late = v.late \/ v.owed # <<>>]
<1>1. Tel!Take(v) = [modem |-> w, said |-> v.unread]
  BY DEF Tel!Take
<1>2. /\ w \in Modems /\ w.owed = v.owed /\ w.unread = {} /\ w.fd = v.fd /\ w.radio = v.radio
      /\ w.pdp = v.pdp /\ w.lock = v.lock /\ w.lost = v.lost
      /\ w.late <=> v.late \/ v.owed # <<>>
  BY DEF Modems, Tel!Modem
<1>3. v.unread \in SUBSET Tel!Answers
  BY ModemFields
<1> HIDE DEF w
<1> QED
  BY <1>1, <1>2, <1>3

\* A modem that lost a command is otherwise the same.
LEMMA LostIs ==
  ASSUME NEW m \in Modems
  PROVE  /\ [m EXCEPT !.lost = TRUE] \in Modems /\ [m EXCEPT !.lost = TRUE].owed = m.owed
         /\ [m EXCEPT !.lost = TRUE].fd = m.fd /\ [m EXCEPT !.lost = TRUE].unread = m.unread
         /\ [m EXCEPT !.lost = TRUE].radio = m.radio /\ [m EXCEPT !.lost = TRUE].pdp = m.pdp
         /\ [m EXCEPT !.lost = TRUE].lock = m.lock /\ [m EXCEPT !.lost = TRUE].late = m.late
         /\ [m EXCEPT !.lost = TRUE].lost = TRUE
BY DEF Modems, Tel!Modem

\* The three ways a command may go.
NoModem(m, o)  == m.fd = FALSE /\ o = [modem |-> m, said |-> {}]
NoWrite(m, o)  == m.fd = TRUE /\ o = [modem |-> [m EXCEPT !.lost = TRUE], said |-> {}]
Waits(m, c, o) == /\ m.fd = TRUE /\ Len(o.modem.owed) <= MaxOwed
                  /\ \E v \in Tel!Arrivals(Sent(m, c)) : o = Tel!Take(v)

\* modem_send_at finds no modem, fails to write, or waits for answers.
LEMMA SendAtIs ==
  ASSUME NEW m \in Modems, NEW c \in Tel!Commands, NEW o \in Tel!SendAt(m, c)
  PROVE  NoModem(m, o) \/ NoWrite(m, o) \/ Waits(m, c, o)
<1>1. m.fd \in BOOLEAN
  BY ModemFields
<1>2. CASE ~m.fd
  BY <1>1, <1>2 DEF Tel!SendAt, NoModem
<1>3. CASE m.fd
  BY <1>1, <1>3 DEF Tel!SendAt, NoWrite, Waits, Sent
<1> QED
  BY <1>2, <1>3

\* What holds of every outcome, however late the answers are.
Onward(m, n) ==
  /\ n \in Modems /\ n.fd = m.fd /\ (m.late => n.late) /\ (m.lost => n.lost)

\* Any number of answers takes the modem onward and keeps its radio.
LEMMA AnswersOnward ==
  ASSUME NEW m \in Modems, NEW v \in Tel!Arrivals(m)
  PROVE  Onward(m, v) /\ v.late = m.late /\ RadioKept(m, v)
<1> DEFINE I == {w \in Modems : /\ w.fd = m.fd /\ w.late = m.late /\ (m.lost => w.lost)
                                /\ RadioKept(m, w)}
<1>1. m \in I
  BY DEF RadioKept
<1>2. ASSUME NEW w \in I, NEW n \in Tel!Answered(w) PROVE n \in I
  <2>1. w \in Modems /\ w.fd = m.fd /\ w.late = m.late /\ (m.lost => w.lost) /\ RadioKept(m, w)
    OBVIOUS
  <2>2. AnswersOne(w, n) /\ RadioKept(w, n)
    BY <1>2, <2>1, OneAnswer, AnswersKeepRadio
  <2>3. n \in Modems /\ n.fd = w.fd /\ n.late = w.late /\ (w.lost => n.lost)
    BY <2>2 DEF AnswersOne, RefusedBy, ObeyedBy
  <2>4. RadioKept(m, n)
    BY <2>1, <2>2, <2>3 DEF RadioKept
  <2> QED
    BY <2>1, <2>3, <2>4
<1>3. I \in SUBSET Modems
  OBVIOUS
<1>4. v \in I
  <2>1. \A w \in I : Tel!Answered(w) \subseteq I
    BY <1>2
  <2> HIDE DEF I
  <2> QED
    BY <1>1, <1>3, <2>1, ArrivalsStay
<1> QED
  BY <1>4 DEF Onward

\* modem_send_at takes the modem onward; a power command will switch it off.
LEMMA SendAtOnward ==
  ASSUME NEW m, Fit(m), NEW c \in Tel!Commands, NEW o \in Tel!SendAt(m, c)
  PROVE  /\ o \in Outcomes /\ Onward(m, o.modem)
         /\ c \notin Powers => RadioKept(m, o.modem)
         /\ c \in Tel!PowerOff /\ m.fd /\ ~o.modem.lost => WillBeOff(o.modem)
<1>0. m \in Modems /\ Len(m.owed) <= MaxOwed /\ (m.late \/ (m.owed = <<>> /\ m.unread = {}))
  BY DEF Fit
<1>1. NoModem(m, o) \/ NoWrite(m, o) \/ Waits(m, c, o)
  BY <1>0, SendAtIs
<1>2. CASE NoModem(m, o)
  <2>1. o.modem = m /\ o \in [modem : Modems, said : SUBSET Tel!Answers] /\ m.fd = FALSE
    BY <1>0, <1>2 DEF NoModem
  <2> QED
    BY <1>0, <2>1 DEF Outcomes, Onward, RadioKept, Fit
<1>3. CASE NoWrite(m, o)
  <2> DEFINE n == [m EXCEPT !.lost = TRUE]
  <2>1. /\ n \in Modems /\ n.owed = m.owed /\ n.fd = m.fd /\ n.unread = m.unread
        /\ n.radio = m.radio /\ n.late = m.late /\ n.lost = TRUE
    BY <1>0, LostIs
  <2>2. o = [modem |-> n, said |-> {}]
    BY <1>3 DEF NoWrite
  <2> HIDE DEF n
  <2>3. o.modem = n /\ o \in [modem : Modems, said : SUBSET Tel!Answers]
    BY <2>1, <2>2
  <2>4. Fit(n)
    BY <1>0, <2>1 DEF Fit
  <2> QED
    BY <2>1, <2>3, <2>4 DEF Outcomes, Onward, RadioKept
<1>4. CASE Waits(m, c, o)
  <2>1. PICK v \in Tel!Arrivals(Sent(m, c)) : o = Tel!Take(v)
    BY <1>4 DEF Waits
  <2>2. PICK s : s = Sent(m, c)
    OBVIOUS
  <2>3. /\ s \in Modems /\ s.owed = Append(m.owed, c) /\ s.fd = m.fd /\ s.radio = m.radio
        /\ s.late = m.late /\ s.lost = m.lost
    BY <1>0, <2>2, SentIs
  <2>4. Onward(s, v) /\ v.late = s.late /\ RadioKept(s, v)
    BY <2>1, <2>2, <2>3, AnswersOnward
  <2>5. v \in Modems
    BY <2>4 DEF Onward
  <2>6. /\ o \in [modem : Modems, said : SUBSET Tel!Answers] /\ o.modem \in Modems
        /\ o.modem.owed = v.owed /\ o.modem.unread = {} /\ o.modem.fd = v.fd
        /\ o.modem.radio = v.radio /\ o.modem.lost = v.lost
        /\ o.modem.late <=> v.late \/ v.owed # <<>>
    BY <2>1, <2>5, TakeIs
  <2>7. Fit(o.modem)
    BY <1>4, <2>6 DEF Fit, Waits
  <2>8. Onward(m, o.modem)
    BY <2>3, <2>4, <2>6 DEF Onward
  <2>9. WillBeOff(o.modem) <=> WillBeOff(v)
    BY <2>6, SameRadio
  <2>10. /\ c \notin Powers => (WillBeOff(m) => WillBeOff(s))
         /\ c \in Tel!PowerOff => WillBeOff(s)
    BY <1>0, <2>3, AskedKeepsRadio
  <2> QED
    BY <2>4, <2>6, <2>7, <2>8, <2>9, <2>10 DEF Outcomes, RadioKept
<1> QED
  BY <1>1, <1>2, <1>3, <1>4

\* A command whose answer is not late: it got no answer, for want of a modem or
\* because it was not written, or its own, and nothing else.
Prompt(m, c, o) ==
  \/ NoModem(m, o) \/ NoWrite(m, o)
  \/ \E v \in Modems :
       /\ RefusedBy(m, c, v) \/ ObeyedBy(m, c, v)
       /\ o.said = v.unread /\ o.modem.lock = v.lock /\ o.modem.pdp = v.pdp
       /\ o.modem.lost = v.lost

\* An outcome that is not late is the answer to this very command.
LEMMA PromptAnswer ==
  ASSUME NEW m, Fit(m), NEW c \in Tel!Commands, NEW o \in Tel!SendAt(m, c), ~o.modem.late
  PROVE  Prompt(m, c, o) /\ m.unread = {}
<1>0. m \in Modems
  BY DEF Fit
<1>1. ~m.late /\ m.owed = <<>> /\ m.unread = {}
  BY SendAtOnward DEF Onward, Fit
<1>2. NoModem(m, o) \/ NoWrite(m, o) \/ Waits(m, c, o)
  BY <1>0, SendAtIs
<1>3. CASE Waits(m, c, o)
  <2>1. PICK v \in Tel!Arrivals(Sent(m, c)) : o = Tel!Take(v)
    BY <1>3 DEF Waits
  <2>2. PICK s : s = Sent(m, c)
    OBVIOUS
  <2>3. /\ s \in Modems /\ s.owed = Append(m.owed, c) /\ s.unread = m.unread
        /\ s.radio = m.radio /\ s.pdp = m.pdp /\ s.lock = m.lock /\ s.lost = m.lost
    BY <1>0, <2>2, SentIs
  <2>4. s.owed = <<c>> /\ Head(s.owed) = c /\ Tail(s.owed) = <<>> /\ s.owed # <<>>
    <3>1. Append(<<>>, c) = <<c>> /\ Head(<<c>>) = c /\ Tail(<<c>>) = <<>> /\ <<c>> # <<>>
      OBVIOUS
    <3> QED
      BY <1>1, <2>3, <3>1
  <2> DEFINE I == {w \in Modems : w = s \/ (w.owed = <<>> /\ (RefusedBy(s, c, w) \/ ObeyedBy(s, c, w)))}
  <2>5. s \in I /\ I \in SUBSET Modems
    BY <2>3
  <2>6. ASSUME NEW w \in I, NEW n \in Tel!Answered(w) PROVE n \in I
    <3>1. w.owed # <<>> /\ AnswersOne(w, n)
      BY OneAnswer
    <3>2. w = s
      BY <3>1
    <3>3. n \in Modems /\ n.owed = <<>> /\ (RefusedBy(s, c, n) \/ ObeyedBy(s, c, n))
      BY <2>4, <3>1, <3>2 DEF AnswersOne
    <3> QED
      BY <3>3
  <2>7. v \in I
    <3>1. \A w \in I : Tel!Answered(w) \subseteq I
      BY <2>6
    <3> HIDE DEF I
    <3> QED
      BY <2>1, <2>2, <2>3, <2>5, <3>1, ArrivalsStay
  <2>8. /\ o.said = v.unread /\ o.modem.pdp = v.pdp /\ o.modem.lock = v.lock
        /\ o.modem.lost = v.lost /\ (o.modem.late <=> v.late \/ v.owed # <<>>) /\ v \in Modems
    BY <2>1, <2>7, TakeIs
  <2>9. v.owed = <<>> /\ (RefusedBy(s, c, v) \/ ObeyedBy(s, c, v))
    BY <2>4, <2>7, <2>8
  <2>10. RefusedBy(m, c, v) \/ ObeyedBy(m, c, v)
    BY <2>3, <2>9 DEF RefusedBy, ObeyedBy
  <2> QED
    BY <1>1, <2>8, <2>10 DEF Prompt
<1> QED
  BY <1>1, <1>2, <1>3 DEF Prompt

\* What the daemon may conclude from an answer that is not late.
Told(m, c, o) ==
  /\ m.lock = "READY" => o.modem.lock = "READY"
  /\ c # "CGACT=1" /\ o.modem.pdp => m.pdp
  /\ c = "CGACT=1" /\ o.modem.pdp => m.pdp \/ Tel!Ok(o.said)
  /\ c = "CGACT=0" /\ m.fd /\ ~o.modem.lost => ~o.modem.pdp
  /\ c = "CPIN?" /\ Tel!SimState(o.said) = "READY" => o.modem.lock = "READY"
  /\ c = "CPIN=" /\ Tel!Ok(o.said) => o.modem.lock = "READY"

\* What may be concluded from an answer that is not late.
LEMMA Conclusions ==
  ASSUME NEW m, Fit(m), NEW c \in Tel!Commands, NEW o \in Tel!SendAt(m, c), ~o.modem.late
  PROVE  Told(m, c, o)
<1>0. m \in Modems
  BY DEF Fit
<1>1. Prompt(m, c, o) /\ m.unread = {}
  BY PromptAnswer
<1>2. ~Tel!Ok({}) /\ ~Tel!Ok({"ERROR"}) /\ Tel!Ok({"OK"})
  BY DEF Tel!Ok
<1>3. \A heard : Tel!SimState(heard) = "READY" => Tel!Ok(heard) /\ "READY" \in heard
  <2>1. \A heard : "READY" \in heard => Tel!Ok(heard)
    <3>1. \A heard : "READY" \in heard => "READY" \in heard \ {"ERROR"}
      OBVIOUS
    <3> QED
      BY <3>1 DEF Tel!Ok
  <2>2. ASSUME NEW heard, "READY" \notin heard PROVE Tel!SimState(heard) # "READY"
    BY <2>2 DEF Tel!SimState
  <2> QED
    BY <2>1, <2>2
<1>4. CASE NoModem(m, o)
  BY <1>2, <1>3, <1>4 DEF NoModem, Told
<1>5. CASE NoWrite(m, o)
  <2>1. o.modem = [m EXCEPT !.lost = TRUE] /\ o.said = {}
    BY <1>5 DEF NoWrite
  <2>2. o.modem.lock = m.lock /\ o.modem.pdp = m.pdp /\ o.modem.lost
    BY <1>0, <2>1, LostIs
  <2> QED
    BY <1>2, <1>3, <2>1, <2>2 DEF Told
<1>6. CASE \E v \in Modems :
       /\ RefusedBy(m, c, v) \/ ObeyedBy(m, c, v)
       /\ o.said = v.unread /\ o.modem.lock = v.lock /\ o.modem.pdp = v.pdp
       /\ o.modem.lost = v.lost
  <2>1. PICK v \in Modems :
          /\ RefusedBy(m, c, v) \/ ObeyedBy(m, c, v)
          /\ o.said = v.unread /\ o.modem.lock = v.lock /\ o.modem.pdp = v.pdp
          /\ o.modem.lost = v.lost
    BY <1>6
  <2>2. CASE RefusedBy(m, c, v)
    <3>1. o.said = {"ERROR"}
      BY <1>1, <2>1, <2>2 DEF RefusedBy
    <3> QED
      BY <1>2, <1>3, <2>1, <2>2, <3>1 DEF RefusedBy, Told
  <2>3. CASE ObeyedBy(m, c, v)
    <3>1. o.said = {IF c = "CPIN?" THEN m.lock ELSE "OK"}
      BY <1>1, <2>1, <2>3 DEF ObeyedBy
    <3>2. c = "CGACT=1" => Tel!Ok(o.said)
      BY <1>2, <3>1
    <3>3. c = "CPIN?" /\ Tel!SimState(o.said) = "READY" => o.modem.lock = "READY"
      <4>1. c = "CPIN?" => o.said = {m.lock} /\ o.modem.lock = m.lock
        BY <2>1, <2>3, <3>1 DEF ObeyedBy
      <4> QED
        BY <1>3, <4>1
    <3>4. c = "CGACT=0" => o.modem.pdp = FALSE
      BY <2>1, <2>3 DEF ObeyedBy
    <3>5. m.lock = "READY" => o.modem.lock = "READY"
      BY <2>1, <2>3 DEF ObeyedBy
    <3>6. c # "CGACT=1" /\ o.modem.pdp => m.pdp
      BY <2>1, <2>3 DEF ObeyedBy
    <3>7. c = "CPIN=" => o.modem.lock = "READY"
      BY <2>1, <2>3 DEF ObeyedBy
    <3> QED
      BY <3>2, <3>3, <3>4, <3>5, <3>6, <3>7 DEF Told
  <2> QED
    BY <2>1, <2>2, <2>3
<1> QED
  BY <1>1, <1>4, <1>5, <1>6 DEF Prompt

-----------------------------------------------------------------------------
(* Commands in a row.                                                      *)

\* n follows m by commands that switch neither the radio nor a connection on.
Quiet(m, n) ==
  /\ Fit(n) /\ Onward(m, n) /\ RadioKept(m, n)
  /\ ~n.late => (m.lock = "READY" => n.lock = "READY") /\ (n.pdp => m.pdp)

QuietCommands == Tel!Commands \ (Powers \cup {"CGACT=1"})

\* A command that switches nothing on leaves the modem quiet.
LEMMA QuietlySent ==
  ASSUME NEW m, Fit(m), NEW c \in QuietCommands, NEW o \in Tel!SendAt(m, c)
  PROVE  o \in Outcomes /\ Quiet(m, o.modem)
<1>1. c \in Tel!Commands /\ c \notin Powers /\ c # "CGACT=1"
  BY DEF QuietCommands
<1>2. o \in Outcomes /\ Onward(m, o.modem) /\ RadioKept(m, o.modem)
  BY <1>1, SendAtOnward
<1>3. ~o.modem.late => Told(m, c, o)
  BY <1>1, Conclusions
<1>4. Fit(o.modem)
  BY <1>2 DEF Outcomes
<1> QED
  BY <1>1, <1>2, <1>3, <1>4 DEF Quiet, Told

\* Two quiet changes are one.
LEMMA QuietTwice ==
  ASSUME NEW m, NEW n, NEW p, Quiet(m, n), Quiet(n, p)
  PROVE  Quiet(m, p)
<1>1. Onward(m, p)
  BY DEF Quiet, Onward
<1>2. RadioKept(m, p)
  BY DEF Quiet, Onward, RadioKept
<1>3. ~p.late => ~n.late
  BY DEF Quiet, Onward
<1> QED
  BY <1>1, <1>2, <1>3 DEF Quiet

\* No change is quiet.
LEMMA QuietNever ==
  ASSUME NEW m, Fit(m)
  PROVE  Quiet(m, m)
BY DEF Quiet, Onward, RadioKept, Fit

\* An outcome of Then is one of modem_send_at after an earlier outcome.
LEMMA ThenIs == \A T, c, o : o \in Tel!Then(T, c) <=> \E x \in T : o \in Tel!SendAt(x.modem, c)
<1> TAKE T, c, o
<1> DEFINE G == {Tel!SendAt(x.modem, c) : x \in T}
<1>1. o \in UNION G <=> \E A \in G : o \in A
  OBVIOUS
<1>2. \A A : A \in G <=> \E x \in T : A = Tel!SendAt(x.modem, c)
  OBVIOUS
<1>3. Tel!Then(T, c) = UNION G
  BY DEF Tel!Then
<1> HIDE DEF G
<1> QED
  BY <1>1, <1>2, <1>3

\* Commands with no effect that matters here switch nothing on.
LEMMA OtherIsQuiet == "other" \in QuietCommands /\ "other" \in Tel!Commands
BY DEF QuietCommands, Tel!Commands, Powers, Tel!PowerOff, Tel!PowerOn

\* The recursive function of Asked, by its equation.
AllSent(T) == Tel!Then(T, "other")
Asking(W, T, n) == W = [i \in 0 .. n |-> IF i = 0 THEN T ELSE AllSent(W[i - 1])]

\* Any number of questions leaves the modem quiet.
LEMMA AskedQuietly ==
  ASSUME NEW m, NEW T \in SUBSET Outcomes, \A o \in T : Quiet(m, o.modem), NEW n \in Nat
  PROVE  \A o \in Tel!Asked(T, n) : o \in Outcomes /\ Quiet(m, o.modem)
<1>1. \A A \in SUBSET Outcomes : AllSent(A) \in SUBSET Outcomes
  <2> TAKE A \in SUBSET Outcomes
  <2>1. \A x \in A : Fit(x.modem)
    BY DEF Outcomes
  <2> QED
    BY <2>1, ThenIs, QuietlySent, OtherIsQuiet DEF AllSent
<1>2. \E W : Asking(W, T, n)
  <2> DEFINE step == [x \in (SUBSET Outcomes) \X (1 .. n) |-> AllSent(x[1])]
  <2>1. step \in [(SUBSET Outcomes) \X (1 .. n) -> SUBSET Outcomes]
    BY <1>1
  <2>2. \A x \in SUBSET Outcomes, i \in 1 .. n : step[<<x, i>>] = AllSent(x)
    OBVIOUS
  <2> HIDE DEF step
  <2>4. PICK g \in [0 .. n -> SUBSET Outcomes] :
          g[0] = T /\ \A i \in 1 .. n : g[i] = step[<<g[i - 1], i>>]
    <3>1. Recursion(n, SUBSET Outcomes, T, step)
      BY <2>1, RecursionExists
    <3> QED
      BY <3>1 DEF Recursion
  <2>5. \A i \in 1 .. n : g[i] = AllSent(g[i - 1])
    <3>1. \A i \in 1 .. n : g[i - 1] \in SUBSET Outcomes
      BY <2>4
    <3> QED
      BY <2>2, <2>4, <3>1
  <2>6. g = [i \in 0 .. n |-> g[i]]
    BY <2>4
  <2>7. \A i \in 0 .. n : g[i] = IF i = 0 THEN T ELSE AllSent(g[i - 1])
    BY <2>4, <2>5
  <2>8. g = [i \in 0 .. n |-> IF i = 0 THEN T ELSE AllSent(g[i - 1])]
    BY <2>6, <2>7
  <2> QED
    BY <2>8 DEF Asking
<1> DEFINE V == CHOOSE g : Asking(g, T, n)
<1>3. Asking(V, T, n)
  BY <1>2
<1>4. Tel!Asked(T, n) = V[n]
  BY DEF Tel!Asked, Asking, AllSent
<1> HIDE DEF V
<1>5. V[0] = T /\ \A i \in 1 .. n : V[i] = AllSent(V[i - 1])
  <2>1. \A i \in 0 .. n : V[i] = IF i = 0 THEN T ELSE AllSent(V[i - 1])
    BY <1>3 DEF Asking
  <2>2. 0 \in 0 .. n /\ \A i \in 1 .. n : i \in 0 .. n /\ i # 0
    OBVIOUS
  <2> QED
    BY <2>1, <2>2
<1> DEFINE I == {o \in Outcomes : Quiet(m, o.modem)}
           S == {i \in 0 .. n : V[i] \subseteq I}
<1>6. 0 \in S
  BY <1>5
<1>7. \A i \in 0 .. n - 1 : i \in S => i + 1 \in S
  <2>1. \A i \in 0 .. n - 1 : i + 1 \in 1 .. n /\ (i + 1) - 1 = i
    OBVIOUS
  <2>2. ASSUME NEW A \in SUBSET I PROVE AllSent(A) \subseteq I
    <3>1. ASSUME NEW x \in A, NEW o \in Tel!SendAt(x.modem, "other") PROVE o \in I
      <4>1. Fit(x.modem) /\ Quiet(m, x.modem)
        BY DEF Outcomes
      <4>2. o \in Outcomes /\ Quiet(x.modem, o.modem)
        BY <3>1, <4>1, QuietlySent, OtherIsQuiet
      <4> QED
        BY <4>1, <4>2, QuietTwice
    <3> QED
      BY <3>1, ThenIs DEF AllSent
  <2> HIDE DEF I
  <2> QED
    BY <1>5, <2>1, <2>2
<1>8. V[n] \subseteq I
  <2> HIDE DEF S
  <2>1. 0 .. n \subseteq S
    BY <1>6, <1>7, UpTo
  <2> QED
    BY <2>1 DEF S
<1> QED
  BY <1>4, <1>8

-----------------------------------------------------------------------------
(* What the daemon believes.                                               *)

\* n follows m by commands that open no data connection; the line may be
\* opened or closed in between.
Follows(m, n) ==
  /\ Fit(n) /\ (m.late => n.late) /\ (m.lost => n.lost)
  /\ ~n.late => (m.lock = "READY" => n.lock = "READY") /\ (n.pdp => m.pdp)

\* A quiet change is one that follows.
LEMMA QuietFollows == ASSUME NEW m, NEW n, Quiet(m, n) PROVE Follows(m, n) /\ n.fd = m.fd
BY DEF Quiet, Follows, Onward

\* Two changes that follow are one.
LEMMA FollowsTwice ==
  ASSUME NEW m, NEW n, NEW p, Follows(m, n), Follows(n, p) PROVE Follows(m, p)
BY DEF Follows

\* Every command but the connecting one leaves a modem that follows.
LEMMA SentFollows ==
  ASSUME NEW m, Fit(m), NEW c \in Tel!Commands, c # "CGACT=1", NEW o \in Tel!SendAt(m, c)
  PROVE  o \in Outcomes /\ Fit(o.modem) /\ Follows(m, o.modem) /\ o.modem.fd = m.fd
<1>1. o \in Outcomes /\ Onward(m, o.modem)
  BY SendAtOnward
<1>2. ~o.modem.late => Told(m, c, o)
  BY Conclusions
<1> QED
  BY <1>1, <1>2 DEF Outcomes, Follows, Onward, Told

\* Opening and closing the line.
LEMMA LineFollows ==
  ASSUME NEW m, Fit(m)
  PROVE  /\ Fit(Tel!Closed(m)) /\ Follows(m, Tel!Closed(m)) /\ Tel!Closed(m).fd = FALSE
         /\ Fit(Tel!Flushed(m)) /\ Follows(m, Tel!Flushed(m))
<1>1. m \in Modems
  BY DEF Fit
<1>2. /\ Tel!Closed(m) \in Modems /\ Tel!Closed(m).fd = FALSE /\ Tel!Closed(m).owed = m.owed
      /\ Tel!Closed(m).unread = m.unread /\ Tel!Closed(m).late = m.late
      /\ Tel!Closed(m).lost = m.lost /\ Tel!Closed(m).lock = m.lock /\ Tel!Closed(m).pdp = m.pdp
  BY <1>1 DEF Tel!Closed, Modems, Tel!Modem
<1>3. /\ Tel!Flushed(m) \in Modems /\ Tel!Flushed(m).owed = m.owed
      /\ Tel!Flushed(m).unread = {} /\ Tel!Flushed(m).late = m.late
      /\ Tel!Flushed(m).lost = m.lost /\ Tel!Flushed(m).lock = m.lock /\ Tel!Flushed(m).pdp = m.pdp
  BY <1>1 DEF Tel!Flushed, Modems, Tel!Modem
<1> QED
  BY <1>2, <1>3 DEF Fit, Follows

\* An answer means that there is a modem.
LEMMA HeardOfModem ==
  ASSUME NEW m, Fit(m), NEW c \in Tel!Commands, NEW o \in Tel!SendAt(m, c), Tel!Ok(o.said)
  PROVE  m.fd
<1>1. ~Tel!Ok({})
  BY DEF Tel!Ok
<1>2. NoModem(m, o) \/ NoWrite(m, o) \/ Waits(m, c, o)
  BY SendAtIs DEF Fit
<1>3. ~NoModem(m, o)
  BY <1>1 DEF NoModem
<1> QED
  BY <1>2, <1>3 DEF NoWrite, Waits

\* What the daemon believes of m, if it thinks that a card is ready, that a
\* connection is active, and if it was never killed.
Believed(m, ready, connected, whole) ==
  ~m.late => /\ ready => m.lock = "READY"
             /\ whole /\ ~m.lost => (m.pdp => connected)

SimReady == \E s \in Tel!Slots : sim[s] = "READY"

\* What telephonyd believes of the modem is so.
ModemInv ==
  /\ Fit(modem) /\ (active => modem.fd)
  /\ Believed(modem, SimReady, active, clean)

\* A radio that was to be off stays so in airplane mode, unless telephonyd is
\* told to switch it on.
Settles ==
  airplane' /\ modem'.fd /\ ~modem'.lost /\ (~airplane \/ WillBeOff(modem))
    => WillBeOff(modem') \/ Tel!Power(TRUE)

\* A step that leaves the modem quiet keeps the modem's invariant.
LEMMA QuietStep ==
  ASSUME ModemInv, Quiet(modem, modem'), airplane' = airplane \/ ~airplane', active' = active,
         clean' = clean, SimReady' => SimReady \/ modem'.late \/ modem'.lock = "READY"
  PROVE  ModemInv' /\ Settles
<1>1. Follows(modem, modem') /\ modem'.fd = modem.fd /\ RadioKept(modem, modem')
  BY QuietFollows DEF Quiet
<1>2. Believed(modem', SimReady', active', clean')
  BY <1>1 DEF ModemInv, Believed, Follows
<1>3. Settles
  BY <1>1 DEF Settles, RadioKept
<1> QED
  BY <1>1, <1>2, <1>3 DEF ModemInv, Follows

\* Two questions, with or without a test in between, leave the modem quiet.
LEMMA QuietlyThen ==
  ASSUME NEW m, Fit(m)
  PROVE  /\ \A o \in Tel!SendAt(m, "other") : o \in Outcomes /\ Quiet(m, o.modem)
         /\ \A o \in Tel!Then(Tel!SendAt(m, "other"), "other") : Quiet(m, o.modem)
         /\ \A o \in Tel!AndThen(Tel!SendAt(m, "other"), "other") : Quiet(m, o.modem)
<1>1. \A o \in Tel!SendAt(m, "other") : o \in Outcomes /\ Quiet(m, o.modem)
  BY QuietlySent, OtherIsQuiet
<1>2. ASSUME NEW T \in SUBSET Tel!SendAt(m, "other"), NEW o \in Tel!Then(T, "other")
      PROVE  Quiet(m, o.modem)
  <2>1. PICK x \in T : o \in Tel!SendAt(x.modem, "other")
    BY <1>2, ThenIs
  <2>2. Quiet(m, x.modem) /\ Fit(x.modem)
    BY <1>1 DEF Quiet
  <2>3. Quiet(x.modem, o.modem)
    BY <2>1, <2>2, QuietlySent, OtherIsQuiet
  <2> QED
    BY <2>2, <2>3, QuietTwice
<1>3. \A o \in Tel!AndThen(Tel!SendAt(m, "other"), "other") : Quiet(m, o.modem)
  <2> DEFINE A == Tel!SendAt(m, "other")
  <2>1. {o \in A : Tel!Ok(o.said)} \in SUBSET A
    OBVIOUS
  <2>2. Tel!AndThen(A, "other") = {o \in A : ~Tel!Ok(o.said)} \cup Tel!Then({o \in A : Tel!Ok(o.said)}, "other")
    BY DEF Tel!AndThen
  <2> QED
    BY <1>1, <1>2, <2>1, <2>2
<1>4. \A o \in Tel!Then(Tel!SendAt(m, "other"), "other") : Quiet(m, o.modem)
  BY <1>2
<1> QED
  BY <1>1, <1>3, <1>4

\* The actions that only ask, or whose commands switch nothing on.
LEMMA AskingSteps ==
  ASSUME ModemInv,
         \/ Tel!Originate \/ Tel!Register \/ Tel!SendSms \/ Tel!Ask \/ Tel!Term
         \/ \E id \in 1 .. MaxCalls : Tel!Answer(id) \/ Tel!Hold(id) \/ Tel!Hangup(id)
         \/ \E s \in Tel!Slots : Tel!SwitchSim(s)
  PROVE  ModemInv' /\ Settles
<1>0. Fit(modem)
  BY DEF ModemInv
<1>1. Quiet(modem, modem') /\ airplane' = airplane /\ active' = active /\ clean' = clean /\ sim' = sim
  <2>1. CASE Tel!Originate \/ Tel!Ask
    BY <1>0, <2>1, QuietlyThen
       DEF Tel!Originate, Tel!Ask, Tel!voiceVars, Tel!dataVars, Tel!simVars
  <2>2. CASE Tel!Register
    BY <1>0, <2>2, QuietlyThen DEF Tel!Register, Tel!voiceVars, Tel!simVars
  <2>3. CASE Tel!SendSms
    BY <1>0, <2>3, QuietlyThen DEF Tel!SendSms, Tel!voiceVars, Tel!dataVars, Tel!simVars
  <2>4. CASE \E id \in 1 .. MaxCalls : Tel!Answer(id) \/ Tel!Hold(id) \/ Tel!Hangup(id)
    BY <1>0, <2>4, QuietlyThen
       DEF Tel!Answer, Tel!Hold, Tel!SetCall, Tel!Hangup, Tel!dataVars, Tel!simVars
  <2>5. CASE Tel!Term \/ \E s \in Tel!Slots : Tel!SwitchSim(s)
    <3>1. modem' = modem
      BY <2>5 DEF Tel!Term, Tel!SwitchSim
    <3>2. airplane' = airplane /\ active' = active /\ clean' = clean /\ sim' = sim
      BY <2>5 DEF Tel!Term, Tel!SwitchSim, Tel!dataVars, Tel!simVars
    <3> QED
      BY <1>0, <3>1, <3>2, QuietNever
  <2> QED
    BY <2>1, <2>2, <2>3, <2>4, <2>5
<1>2. SimReady' => SimReady
  BY <1>1 DEF SimReady
<1> QED
  BY <1>1, <1>2, QuietStep

\* Commands to the card.
LEMMA CardSteps ==
  ASSUME ModemInv, sim \in [Tel!Slots -> Tel!SimStates], NEW s \in Tel!Slots,
         Tel!GetSimState(s) \/ Tel!EnterPin(s)
  PROVE  ModemInv' /\ Settles
<1>0. Fit(modem)
  BY DEF ModemInv
<1>1. airplane' = airplane /\ active' = active /\ clean' = clean
  BY DEF Tel!GetSimState, Tel!EnterPin, Tel!dataVars
<1>2. {"CPIN?", "CPIN="} \subseteq QuietCommands /\ {"CPIN?", "CPIN="} \subseteq Tel!Commands
  BY DEF QuietCommands, Tel!Commands, Powers, Tel!PowerOff, Tel!PowerOn
<1>3. CASE Tel!GetSimState(s)
  <2>1. PICK o \in Tel!SendAt(modem, "CPIN?") :
          modem' = o.modem /\ sim' = [sim EXCEPT ![s] = Tel!SimState(o.said)]
    BY <1>3 DEF Tel!GetSimState
  <2>2. Quiet(modem, modem')
    BY <1>0, <1>2, <2>1, QuietlySent
  <2>3. ~modem'.late => Told(modem, "CPIN?", o)
    BY <1>0, <1>2, <2>1, Conclusions
  <2>4. \A r \in Tel!Slots : sim'[r] = IF r = s THEN Tel!SimState(o.said) ELSE sim[r]
    BY <2>1
  <2>5. SimReady' => SimReady \/ Tel!SimState(o.said) = "READY"
    BY <2>4 DEF SimReady
  <2>6. SimReady' => SimReady \/ modem'.late \/ modem'.lock = "READY"
    BY <2>1, <2>3, <2>5 DEF Told
  <2> QED
    BY <1>1, <2>2, <2>6, QuietStep
<1>4. CASE Tel!EnterPin(s)
  <2>1. PICK o \in Tel!SendAt(modem, "CPIN=") :
          modem' = o.modem /\ sim' = IF Tel!Ok(o.said) THEN [sim EXCEPT ![s] = "READY"] ELSE sim
    BY <1>4 DEF Tel!EnterPin
  <2>2. Quiet(modem, modem')
    BY <1>0, <1>2, <2>1, QuietlySent
  <2>3. ~modem'.late => Told(modem, "CPIN=", o)
    BY <1>0, <1>2, <2>1, Conclusions
  <2>4. SimReady' => SimReady \/ Tel!Ok(o.said)
    BY <2>1 DEF SimReady
  <2>5. SimReady' => SimReady \/ modem'.late \/ modem'.lock = "READY"
    BY <2>1, <2>3, <2>4 DEF Told
  <2> QED
    BY <1>1, <2>2, <2>5, QuietStep
<1> QED
  BY <1>3, <1>4

-----------------------------------------------------------------------------
\* A step that follows: nothing is believed that was not believed before.
LEMMA FollowsStep ==
  ASSUME ModemInv, Follows(modem, modem'), active' => modem'.fd, active' = active,
         clean' => clean, SimReady' => SimReady
  PROVE  ModemInv'
<1>1. Believed(modem', SimReady', active', clean')
  BY DEF ModemInv, Believed, Follows
<1> QED
  BY <1>1 DEF ModemInv, Follows

\* Radio commands.
LEMMA RadioSteps ==
  ASSUME ModemInv, airplane \in BOOLEAN, NEW on \in BOOLEAN, Tel!SetAirplane(on) \/ Tel!Power(on)
  PROVE  ModemInv' /\ Settles
<1>0. Fit(modem)
  BY DEF ModemInv
<1>1. active' = active /\ clean' = clean /\ sim' = sim
  BY DEF Tel!SetAirplane, Tel!Power, Tel!simVars, Tel!dataVars
<1>2. {"CFUN=0", "CFUN=1", "CFUN=4", "other"} \subseteq Tel!Commands
  BY DEF Tel!Commands
<1>3. "CFUN=4" \in Tel!PowerOff /\ "CFUN=0" \in Tel!PowerOff
  BY DEF Tel!PowerOff
<1>4. SimReady' => SimReady
  BY <1>1 DEF SimReady
<1>5. CASE Tel!SetAirplane(TRUE)
  <2>1. PICK o \in Tel!SendAt(modem, "CFUN=4") : modem' = o.modem
    BY <1>5 DEF Tel!SetAirplane, Tel!AirplaneOn
  <2>2. Follows(modem, modem') /\ modem'.fd = modem.fd
    BY <1>0, <1>2, <2>1, SentFollows
  <2>3. modem.fd /\ ~modem'.lost => WillBeOff(modem')
    BY <1>0, <1>2, <1>3, <2>1, SendAtOnward
  <2> QED
    BY <1>1, <1>4, <2>2, <2>3, FollowsStep DEF Settles, ModemInv
<1>6. CASE Tel!SetAirplane(FALSE)
  <2>0. airplane' = FALSE
    BY <1>6 DEF Tel!SetAirplane
  <2>1. PICK o \in Tel!AirplaneOff : modem' = o.modem
    BY <1>6 DEF Tel!SetAirplane
  <2> DEFINE A == Tel!SendAt(modem, "CFUN=1")
             B == Tel!Then(A, "other")
  <2>2. \A x \in A : Fit(x.modem) /\ Follows(modem, x.modem) /\ x.modem.fd = modem.fd
    BY <1>0, <1>2, SentFollows
  <2>3. ASSUME NEW T, \A x \in T : Fit(x.modem) /\ Follows(modem, x.modem) /\ x.modem.fd = modem.fd,
               NEW p \in Tel!Then(T, "other")
        PROVE  Fit(p.modem) /\ Follows(modem, p.modem) /\ p.modem.fd = modem.fd
    <3>1. PICK x \in T : p \in Tel!SendAt(x.modem, "other")
      BY <2>3, ThenIs
    <3>2. Fit(x.modem) /\ Follows(modem, x.modem) /\ x.modem.fd = modem.fd
      BY <2>3
    <3>3. Fit(p.modem) /\ Follows(x.modem, p.modem) /\ p.modem.fd = x.modem.fd
      BY <1>2, <3>1, <3>2, SentFollows
    <3> QED
      BY <3>2, <3>3, FollowsTwice
  <2>4. Tel!AirplaneOff = {x \in B : ~Tel!Ok(x.said)} \cup Tel!Then({x \in B : Tel!Ok(x.said)}, "other")
    BY DEF Tel!AirplaneOff, Tel!AndThen
  <2>5. \A x \in B : Fit(x.modem) /\ Follows(modem, x.modem) /\ x.modem.fd = modem.fd
    BY <2>2, <2>3
  <2> HIDE DEF B
  <2>6. \A x \in Tel!Then({y \in B : Tel!Ok(y.said)}, "other") :
          Fit(x.modem) /\ Follows(modem, x.modem) /\ x.modem.fd = modem.fd
    <3> DEFINE C == {y \in B : Tel!Ok(y.said)}
    <3>1. \A x \in C : Fit(x.modem) /\ Follows(modem, x.modem) /\ x.modem.fd = modem.fd
      BY <2>5
    <3> HIDE DEF C
    <3>2. \A x \in Tel!Then(C, "other") : Fit(x.modem) /\ Follows(modem, x.modem) /\ x.modem.fd = modem.fd
      BY <2>3, <3>1
    <3> QED
      BY <3>2 DEF C
  <2>7. Follows(modem, modem') /\ modem'.fd = modem.fd
    BY <2>1, <2>4, <2>5, <2>6
  <2> QED
    BY <1>1, <1>4, <2>0, <2>7, FollowsStep DEF Settles, ModemInv
<1>7. CASE Tel!Power(on)
  <2>1. PICK o \in Tel!SendAt(modem, IF on THEN "CFUN=1" ELSE "CFUN=0") : modem' = o.modem
    BY <1>7 DEF Tel!Power
  <2>2. Follows(modem, modem') /\ modem'.fd = modem.fd
    BY <1>0, <1>2, <2>1, SentFollows
  <2>3. on = FALSE => (modem.fd /\ ~modem'.lost => WillBeOff(modem'))
    <3>1. ASSUME on = FALSE PROVE o \in Tel!SendAt(modem, "CFUN=0")
      BY <2>1, <3>1
    <3> QED
      BY <1>0, <1>2, <1>3, <2>1, <3>1, SendAtOnward
  <2>4. ModemInv'
    BY <1>1, <1>4, <2>2, FollowsStep DEF ModemInv
  <2>5. on = TRUE => Tel!Power(TRUE)
    BY <1>7
  <2> QED
    BY <2>2, <2>3, <2>4, <2>5 DEF Settles
<1>8. on = TRUE \/ on = FALSE
  OBVIOUS
<1>9. CASE Tel!SetAirplane(on)
  BY <1>5, <1>6, <1>8, <1>9
<1> QED
  BY <1>7, <1>9

\* A data connection goes up: active says so if the modem does.
LEMMA ConnectStep ==
  ASSUME ModemInv, airplane \in BOOLEAN, active \in BOOLEAN, Tel!Connect
  PROVE  ModemInv' /\ Settles
<1>0. Fit(modem) /\ ~airplane /\ ~active
  BY DEF ModemInv, Tel!Connect
<1>1. airplane' = airplane /\ clean' = clean /\ sim' = sim
  BY DEF Tel!Connect, Tel!simVars
<1>2. "CGACT=1" \in Tel!Commands /\ "other" \in Tel!Commands
  BY DEF Tel!Commands
<1>3. SimReady' => SimReady
  BY <1>1 DEF SimReady
<1> DEFINE A == Tel!SendAt(modem, "other")
           B == {x \in A : Tel!Ok(x.said)}
<1>4. PICK o \in Tel!AndThen(A, "CGACT=1") :
        \E a \in IF Tel!Ok(o.said) THEN Tel!SendAt(o.modem, "other") ELSE {o} :
          modem' = a.modem /\ active' = Tel!ActiveAfter(Tel!Ok(o.said), Tel!Ok(a.said))
  BY DEF Tel!Connect
<1>5. PICK a \in IF Tel!Ok(o.said) THEN Tel!SendAt(o.modem, "other") ELSE {o} :
        modem' = a.modem /\ active' = Tel!Ok(o.said)
  BY <1>4 DEF Tel!ActiveAfter
<1>6. /\ Fit(o.modem) /\ Onward(modem, o.modem)
      /\ Tel!Ok(o.said) => o.modem.fd
      /\ ~o.modem.late => /\ modem.lock = "READY" => o.modem.lock = "READY"
                          /\ o.modem.pdp => modem.pdp \/ Tel!Ok(o.said)
  <2>1. CASE o \in A /\ ~Tel!Ok(o.said)
    <3>1. Quiet(modem, o.modem)
      BY <1>0, <2>1, QuietlyThen
    <3> QED
      BY <2>1, <3>1 DEF Quiet
  <2>2. CASE o \in Tel!Then(B, "CGACT=1")
    <3>1. PICK x \in B : o \in Tel!SendAt(x.modem, "CGACT=1")
      BY <2>2, ThenIs
    <3>2. Quiet(modem, x.modem)
      BY <1>0, <3>1, QuietlyThen
    <3>3. Fit(x.modem) /\ Onward(modem, x.modem)
      BY <3>2 DEF Quiet
    <3>4. o \in Outcomes /\ Onward(x.modem, o.modem)
      BY <1>2, <3>1, <3>3, SendAtOnward
    <3>5. Onward(modem, o.modem) /\ Fit(o.modem)
      BY <3>3, <3>4 DEF Onward, Outcomes
    <3>6. Tel!Ok(o.said) => x.modem.fd
      BY <1>2, <3>1, <3>3, HeardOfModem
    <3>7. ~o.modem.late => Told(x.modem, "CGACT=1", o) /\ ~x.modem.late
      BY <1>2, <3>1, <3>3, <3>4, Conclusions DEF Onward
    <3> QED
      BY <3>2, <3>4, <3>5, <3>6, <3>7 DEF Quiet, Onward, Told
  <2> QED
    BY <2>1, <2>2 DEF Tel!AndThen
<1>7. Fit(a.modem) /\ Follows(o.modem, a.modem) /\ a.modem.fd = o.modem.fd
  <2>1. CASE Tel!Ok(o.said)
    <3>1. a \in Tel!SendAt(o.modem, "other")
      BY <1>5, <2>1
    <3> QED
      BY <1>2, <1>6, <3>1, SentFollows
  <2>2. CASE ~Tel!Ok(o.said)
    <3>1. a = o
      BY <1>5, <2>2
    <3> QED
      BY <1>6, <3>1 DEF Follows
  <2> QED
    BY <2>1, <2>2
<1>8. Fit(modem') /\ (active' => modem'.fd)
  BY <1>5, <1>6, <1>7
<1>9. Believed(modem', SimReady', active', clean')
  <2>1. SUFFICES ASSUME ~modem'.late
                 PROVE  /\ SimReady' => modem'.lock = "READY"
                        /\ clean' /\ ~modem'.lost => (modem'.pdp => active')
    BY DEF Believed
  <2>2. ~o.modem.late /\ ~modem.late
    BY <1>5, <1>6, <1>7, <2>1 DEF Follows, Onward
  <2>3. SimReady' => modem'.lock = "READY"
    BY <1>3, <1>5, <1>6, <1>7, <2>1, <2>2 DEF ModemInv, Believed, Follows
  <2>4. ~modem'.lost => ~modem.lost
    BY <1>5, <1>6, <1>7 DEF Follows, Onward
  <2>5. modem'.pdp => modem.pdp \/ active'
    BY <1>5, <1>6, <1>7, <2>1, <2>2 DEF Follows
  <2> QED
    BY <1>0, <1>1, <2>2, <2>3, <2>4, <2>5 DEF ModemInv, Believed
<1> QED
  BY <1>0, <1>1, <1>8, <1>9 DEF ModemInv, Settles

\* ... and down.
LEMMA ClosedDown ==
  ASSUME NEW m, Fit(m), NEW o \in Tel!SendAt(m, "CGACT=0")
  PROVE  /\ Quiet(m, o.modem) /\ (~o.modem.late /\ ~o.modem.lost /\ m.fd => ~o.modem.pdp)
<1>1. "CGACT=0" \in QuietCommands /\ "CGACT=0" \in Tel!Commands
  BY DEF QuietCommands, Tel!Commands, Powers, Tel!PowerOff, Tel!PowerOn
<1>2. Quiet(m, o.modem)
  BY <1>1, QuietlySent
<1>3. ~o.modem.late => Told(m, "CGACT=0", o)
  BY <1>1, Conclusions
<1> QED
  BY <1>2, <1>3 DEF Told

\* data_disconnect keeps the modem's invariant.
LEMMA DisconnectStep ==
  ASSUME ModemInv, Tel!Disconnect
  PROVE  ModemInv' /\ Settles
<1>0. Fit(modem) /\ active /\ modem.fd
  BY DEF ModemInv, Tel!Disconnect
<1>1. airplane' = airplane /\ clean' = clean /\ sim' = sim /\ active' = FALSE
  BY DEF Tel!Disconnect, Tel!simVars
<1>2. PICK o \in Tel!SendAt(modem, "CGACT=0") : modem' = o.modem
  BY DEF Tel!Disconnect
<1>3. Quiet(modem, modem') /\ (~modem'.late /\ ~modem'.lost => ~modem'.pdp)
  BY <1>0, <1>2, ClosedDown
<1>4. SimReady' => SimReady
  BY <1>1 DEF SimReady
<1>5. Believed(modem', SimReady', active', clean')
  BY <1>3, <1>4 DEF ModemInv, Believed, Quiet, Onward
<1>6. Settles
  BY <1>1, <1>3 DEF Settles, Quiet, RadioKept, Onward
<1> QED
  BY <1>1, <1>3, <1>5, <1>6 DEF ModemInv, Quiet

\* telephonyd_shutdown keeps the modem's invariant.
LEMMA ShutdownStep ==
  ASSUME ModemInv, Len(calls) - Len(calls') \in Nat, Tel!Shutdown
  PROVE  ModemInv' /\ Settles
<1>0. Fit(modem)
  BY DEF ModemInv
<1>1. airplane' = airplane /\ clean' = clean /\ sim' = sim /\ active' = FALSE
  BY DEF Tel!Shutdown, Tel!simVars
<1> DEFINE first == [modem |-> modem, said |-> {}]
<1>2. PICK h \in Tel!Asked({first}, 2 * (Len(calls) - Len(calls'))) :
        \E o \in IF active THEN Tel!SendAt(h.modem, "CGACT=0") ELSE {h} :
          modem' = Tel!Closed(o.modem)
  BY DEF Tel!Shutdown
<1>3. PICK o \in IF active THEN Tel!SendAt(h.modem, "CGACT=0") ELSE {h} :
        modem' = Tel!Closed(o.modem)
  BY <1>2
<1>4. first \in Outcomes /\ first.modem = modem /\ Quiet(modem, first.modem)
  BY <1>0, QuietNever DEF Outcomes, Fit
<1>5. h \in Outcomes /\ Quiet(modem, h.modem)
  <2>1. PICK n \in Nat : n = 2 * (Len(calls) - Len(calls'))
    OBVIOUS
  <2>2. {first} \in SUBSET Outcomes /\ \A x \in {first} : Quiet(modem, x.modem)
    BY <1>4
  <2> HIDE DEF first
  <2>3. \A x \in Tel!Asked({first}, n) : x \in Outcomes /\ Quiet(modem, x.modem)
    BY <2>2, AskedQuietly
  <2> QED
    BY <1>2, <2>1, <2>3
<1>6. Fit(h.modem) /\ Follows(modem, h.modem) /\ h.modem.fd = modem.fd
  BY <1>5, QuietFollows DEF Quiet
<1>7. /\ Fit(o.modem) /\ Follows(modem, o.modem)
      /\ active => (~o.modem.late /\ ~o.modem.lost => ~o.modem.pdp)
  <2>1. CASE active
    <3>1. o \in Tel!SendAt(h.modem, "CGACT=0") /\ h.modem.fd
      BY <1>3, <1>6, <2>1 DEF ModemInv
    <3>2. Quiet(h.modem, o.modem) /\ (~o.modem.late /\ ~o.modem.lost => ~o.modem.pdp)
      BY <1>6, <3>1, ClosedDown
    <3>3. Follows(h.modem, o.modem) /\ Fit(o.modem)
      BY <3>2, QuietFollows DEF Quiet
    <3> QED
      BY <1>6, <3>2, <3>3, FollowsTwice
  <2>2. CASE ~active
    <3>1. o = h
      BY <1>3, <2>2
    <3> QED
      BY <1>6, <2>2, <3>1
  <2> QED
    BY <2>1, <2>2
<1>8. Follows(o.modem, modem') /\ modem'.fd = FALSE
  BY <1>3, <1>7, LineFollows
<1>9. Follows(modem, modem')
  BY <1>7, <1>8, FollowsTwice
<1>10. SimReady' => SimReady
  BY <1>1 DEF SimReady
<1>11. active => (~modem'.late /\ ~modem'.lost => ~modem'.pdp)
  BY <1>7, <1>8 DEF Follows
<1>12. Believed(modem', SimReady', active', clean')
  BY <1>1, <1>9, <1>10, <1>11 DEF ModemInv, Believed, Follows
<1> QED
  BY <1>1, <1>8, <1>9, <1>12 DEF ModemInv, Settles, Follows

\* A late answer comes by itself.
LEMMA ModemAnswersStep ==
  ASSUME ModemInv, Tel!ModemAnswers
  PROVE  ModemInv' /\ Settles
<1>1. airplane' = airplane /\ clean' = clean /\ sim' = sim /\ active' = active
  BY DEF Tel!ModemAnswers, Tel!simVars, Tel!dataVars
<1>2. PICK n : n = modem' /\ n \in Tel!Answered(modem)
  BY DEF Tel!ModemAnswers
<1>3. Fit(modem) /\ modem \in Modems
  BY DEF ModemInv, Fit
<1>4. modem.owed # <<>> /\ AnswersOne(modem, n) /\ RadioKept(modem, n)
  BY <1>2, <1>3, OneAnswer, AnswersKeepRadio
<1>5. n \in Modems /\ n.owed = Tail(modem.owed) /\ n.fd = modem.fd /\ n.late = modem.late
  BY <1>4 DEF AnswersOne
<1>6. modem.late
  BY <1>3, <1>4 DEF Fit
<1>7. Len(n.owed) <= MaxOwed
  <2>1. PICK k \in Nat : k = Len(modem.owed)
    BY <1>3, ModemFields
  <2>2. Len(n.owed) = k - 1 /\ k <= MaxOwed /\ MaxOwed \in Nat
    BY <1>3, <1>4, <1>5, <2>1, ModemFields, LimitsAreNat DEF Fit
  <2> QED
    BY <2>2
<1>8. Fit(n) /\ n.late
  BY <1>5, <1>6, <1>7 DEF Fit
<1> QED
  BY <1>1, <1>2, <1>4, <1>5, <1>8 DEF ModemInv, Believed, Settles, RadioKept

\* telephonyd_init: opening the port, and asking for a card.
LEMMA OpenedFollows ==
  ASSUME NEW m, Fit(m), NEW o \in Tel!Opened(m)
  PROVE  Fit(o.modem) /\ Follows(m, o.modem)
<1> DEFINE f == Tel!Flushed(m)
           T == {x \in Tel!SendAt(f, "other") : Tel!Ok(x.said)}
           U == {x.modem : x \in {x \in Tel!SendAt(f, "other") : ~Tel!Ok(x.said)}}
<1>1. Fit(f) /\ Follows(m, f)
  BY LineFollows
<1>2. \A x \in Tel!SendAt(f, "other") : x \in Outcomes /\ Quiet(f, x.modem)
  BY <1>1, QuietlyThen
<1>3. Tel!Opened(m) = Tel!Asked(T, 3) \cup {[modem |-> Tel!Closed(n), said |-> {}] : n \in {m} \cup U}
  BY DEF Tel!Opened, Tel!Tested
<1>4. CASE o \in Tel!Asked(T, 3)
  <2>1. PICK n \in Nat : n = 3
    OBVIOUS
  <2>2. T \in SUBSET Outcomes /\ \A x \in T : Quiet(f, x.modem)
    BY <1>2
  <2> HIDE DEF T, f
  <2>3. \A x \in Tel!Asked(T, n) : x \in Outcomes /\ Quiet(f, x.modem)
    BY <2>2, AskedQuietly
  <2>4. Fit(o.modem) /\ Follows(f, o.modem)
    BY <1>4, <2>1, <2>3, QuietFollows DEF Quiet
  <2> QED
    BY <1>1, <2>4, FollowsTwice
<1>5. CASE \E n \in {m} \cup U : o = [modem |-> Tel!Closed(n), said |-> {}]
  <2>1. PICK n \in {m} \cup U : o = [modem |-> Tel!Closed(n), said |-> {}]
    BY <1>5
  <2>2. Fit(n) /\ Follows(m, n)
    <3>1. CASE n = m
      BY <3>1 DEF Follows, Fit
    <3>2. CASE n \in U
      <4>1. Fit(n) /\ Follows(f, n)
        BY <1>2, <3>2, QuietFollows DEF Quiet
      <4> QED
        BY <1>1, <4>1, FollowsTwice
    <3> QED
      BY <3>1, <3>2
  <2>3. Fit(Tel!Closed(n)) /\ Follows(n, Tel!Closed(n))
    BY <2>2, LineFollows
  <2>4. Follows(m, Tel!Closed(n))
    BY <2>2, <2>3, FollowsTwice
  <2> QED
    BY <2>1, <2>3, <2>4
<1> QED
  BY <1>3, <1>4, <1>5

\* A card that was said to be ready is, if no answer is late.
LEMMA CardAsked ==
  ASSUME NEW m, Fit(m), NEW q \in Tel!SendAt(m, "CPIN?"), NEW i \in Tel!SimInfo(q)
  PROVE  /\ Fit(i.modem) /\ Follows(m, i.modem)
         /\ Tel!SimState(q.said) = "READY" /\ ~i.modem.late => i.modem.lock = "READY"
<1>1. "CPIN?" \in QuietCommands /\ "CPIN?" \in Tel!Commands
  BY DEF QuietCommands, Tel!Commands, Powers, Tel!PowerOff, Tel!PowerOn
<1>2. q \in Outcomes /\ Quiet(m, q.modem) /\ Fit(q.modem)
  BY <1>1, QuietlySent DEF Quiet
<1>3. Quiet(q.modem, i.modem)
  <2>1. CASE Tel!SimState(q.said) = "READY"
    <3>1. PICK n \in Nat : n = 4
      OBVIOUS
    <3>2. {q} \in SUBSET Outcomes /\ \A x \in {q} : Quiet(q.modem, x.modem)
      BY <1>2, QuietNever
    <3>3. \A x \in Tel!Asked({q}, n) : x \in Outcomes /\ Quiet(q.modem, x.modem)
      BY <3>2, AskedQuietly
    <3> QED
      BY <2>1, <3>1, <3>3 DEF Tel!SimInfo
  <2>2. CASE Tel!SimState(q.said) # "READY"
    BY <1>2, <2>2, QuietNever DEF Tel!SimInfo
  <2> QED
    BY <2>1, <2>2
<1>4. Follows(m, q.modem) /\ Follows(q.modem, i.modem)
  BY <1>2, <1>3, QuietFollows
<1>5. ~i.modem.late => Told(m, "CPIN?", q)
  BY <1>1, <1>4, Conclusions DEF Follows
<1> QED
  BY <1>3, <1>4, <1>5, FollowsTwice DEF Quiet, Follows, Told

\* telephonyd_init keeps the modem's invariant.
LEMMA StartStep ==
  ASSUME ModemInv, ~airplane, ~active, Tel!Start
  PROVE  ModemInv' /\ Settles
<1>0. Fit(modem)
  BY DEF ModemInv
<1>1. airplane' = airplane /\ clean' = clean /\ active' = active
  BY DEF Tel!Start, Tel!dataVars
<1>2. PICK o \in Tel!Opened(modem) :
        \E q0 \in Tel!SendAt(o.modem, "CPIN?") :
         \E i0 \in Tel!SimInfo(q0) :
           \E q1 \in Tel!SendAt(i0.modem, "CPIN?") :
             \E i1 \in Tel!SimInfo(q1) :
               /\ sim' = [s \in Tel!Slots |-> Tel!SimState(IF s = 0 THEN q0.said ELSE q1.said)]
               /\ modem' = i1.modem
  BY DEF Tel!Start
<1>3. PICK q0 \in Tel!SendAt(o.modem, "CPIN?") :
       \E i0 \in Tel!SimInfo(q0) :
        \E q1 \in Tel!SendAt(i0.modem, "CPIN?") :
          \E i1 \in Tel!SimInfo(q1) :
            /\ sim' = [s \in Tel!Slots |-> Tel!SimState(IF s = 0 THEN q0.said ELSE q1.said)]
            /\ modem' = i1.modem
  BY <1>2
<1>3a. PICK i0 \in Tel!SimInfo(q0) :
        \E q1 \in Tel!SendAt(i0.modem, "CPIN?") :
          \E i1 \in Tel!SimInfo(q1) :
            /\ sim' = [s \in Tel!Slots |-> Tel!SimState(IF s = 0 THEN q0.said ELSE q1.said)]
            /\ modem' = i1.modem
  BY <1>3
<1>3b. PICK q1 \in Tel!SendAt(i0.modem, "CPIN?") :
        \E i1 \in Tel!SimInfo(q1) :
          /\ sim' = [s \in Tel!Slots |-> Tel!SimState(IF s = 0 THEN q0.said ELSE q1.said)]
          /\ modem' = i1.modem
  BY <1>3a
<1>4. PICK i1 \in Tel!SimInfo(q1) :
        /\ sim' = [s \in Tel!Slots |-> Tel!SimState(IF s = 0 THEN q0.said ELSE q1.said)]
        /\ modem' = i1.modem
  BY <1>3b
<1>5. Fit(o.modem) /\ Follows(modem, o.modem)
  BY <1>0, OpenedFollows
<1>6. /\ Fit(i0.modem) /\ Follows(o.modem, i0.modem)
      /\ Tel!SimState(q0.said) = "READY" /\ ~i0.modem.late => i0.modem.lock = "READY"
  BY <1>5, CardAsked
<1>7. /\ Fit(i1.modem) /\ Follows(i0.modem, i1.modem)
      /\ Tel!SimState(q1.said) = "READY" /\ ~i1.modem.late => i1.modem.lock = "READY"
  BY <1>6, CardAsked
<1>8. Follows(modem, modem')
  BY <1>4, <1>5, <1>6, <1>7, FollowsTwice
<1>9. SimReady' /\ ~modem'.late => modem'.lock = "READY"
  <2>1. SimReady' => Tel!SimState(q0.said) = "READY" \/ Tel!SimState(q1.said) = "READY"
    BY <1>4 DEF SimReady
  <2> QED
    BY <1>4, <1>6, <1>7, <2>1 DEF Follows
<1>10. Believed(modem', SimReady', active', clean')
  BY <1>1, <1>8, <1>9 DEF ModemInv, Believed, Follows
<1> QED
  BY <1>1, <1>4, <1>7, <1>10 DEF ModemInv, Settles

\* lumid starts the daemon again.  The modem goes on.
LEMMA KilledStep ==
  ASSUME ModemInv, Tel!Killed
  PROVE  ModemInv' /\ Settles
<1>0. Fit(modem) /\ modem \in Modems
  BY DEF ModemInv, Fit
<1>1. airplane' = FALSE /\ clean' = FALSE /\ active' = FALSE /\ sim' = [s \in Tel!Slots |-> "ABSENT"]
  BY DEF Tel!Killed
<1>2. ~SimReady'
  BY <1>1 DEF SimReady
<1>3. PICK n : n = Tel!Closed(modem)
  OBVIOUS
<1>4. Fit(n) /\ n \in Modems
  BY <1>0, <1>3, LineFollows DEF Fit
<1>5. n.owed = modem.owed
  BY <1>3 DEF Tel!Closed
<1>6. Fit(modem')
  <2>1. CASE modem' = n
    BY <1>4, <2>1
  <2>2. CASE \E c \in Tel!Commands : /\ modem' = [n EXCEPT !.owed = Append(@, c), !.late = TRUE]
                                     /\ Len(modem.owed) < MaxOwed
    <3>1. PICK c \in Tel!Commands : /\ modem' = [n EXCEPT !.owed = Append(@, c), !.late = TRUE]
                                    /\ Len(modem.owed) < MaxOwed
      BY <2>2
    <3>2. Append(n.owed, c) \in Seq(Tel!Commands) /\ n.owed \in Seq(Tel!Commands)
      BY <1>4, ModemFields
    <3>3. PICK u : u = modem'
      OBVIOUS
    <3>4. u \in Modems /\ u.owed = Append(n.owed, c) /\ u.late = TRUE
      BY <1>4, <3>1, <3>2, <3>3 DEF Modems, Tel!Modem
    <3>5. Len(u.owed) <= MaxOwed
      <4>1. PICK k \in Nat : k = Len(n.owed)
        BY <3>2
      <4>2. Len(u.owed) = k + 1 /\ k < MaxOwed /\ MaxOwed \in Nat
        BY <1>5, <3>1, <3>2, <3>4, <4>1, LimitsAreNat
      <4> QED
        BY <4>2
    <3> QED
      BY <3>3, <3>4, <3>5 DEF Fit
  <2>3. \/ modem' = n
        \/ \E c \in Tel!Commands : /\ modem' = [n EXCEPT !.owed = Append(@, c), !.late = TRUE]
                                   /\ Len(modem.owed) < MaxOwed
    BY <1>3 DEF Tel!Killed
  <2> QED
    BY <2>1, <2>2, <2>3
<1> QED
  BY <1>1, <1>2, <1>6 DEF ModemInv, Believed, Settles

-----------------------------------------------------------------------------
(* The table of calls.                                                     *)
CallTables == Seq(Tel!Call)

\* u is t without its i-th element.
Removed(t, i, u) ==
  /\ u \in CallTables /\ Len(u) = Len(t) - 1
  /\ \A k \in 1 .. Len(u) : u[k] = IF k < i THEN t[k] ELSE t[k + 1]

\* RemoveAt of the community modules does what it says.
LEMMA RemoveAtIs ==
  ASSUME NEW t \in CallTables, NEW i \in 1 .. Len(t)
  PROVE  Removed(t, i, Tel!RemoveAt(t, i))
<1>1. PICK n \in Nat : n = Len(t)
  BY DEF CallTables
<1> DEFINE a == SubSeq(t, 1, i - 1)
           b == SubSeq(t, i + 1, n)
<1>2. i \in 1 .. n
  BY <1>1
<1>3. a \in CallTables /\ Len(a) = i - 1 /\ \A k \in 1 .. i - 1 : a[k] = t[k]
  BY <1>1, <1>2 DEF CallTables
<1>4. b \in CallTables /\ Len(b) = n - i /\ \A k \in 1 .. n - i : b[k] = t[i + k]
  BY <1>1, <1>2 DEF CallTables
<1>5. Tel!RemoveAt(t, i) = a \o b
  BY <1>1 DEF Tel!RemoveAt
<1> HIDE DEF a, b
<1> DEFINE u == a \o b
<1>6. /\ u \in CallTables /\ Len(u) = (i - 1) + (n - i)
      /\ \A k \in 1 .. (i - 1) + (n - i) : u[k] = IF k <= i - 1 THEN a[k] ELSE b[k - (i - 1)]
  <2>1. /\ u \in Seq(Tel!Call) /\ Len(u) = Len(a) + Len(b)
        /\ \A k \in 1 .. Len(a) + Len(b) : u[k] = IF k <= Len(a) THEN a[k] ELSE b[k - Len(a)]
    BY <1>3, <1>4, ConcatProperties DEF CallTables
  <2> QED
    BY <1>3, <1>4, <2>1 DEF CallTables
<1>7. Len(u) = n - 1
  BY <1>2, <1>6
<1>8. ASSUME NEW k \in 1 .. n - 1 PROVE u[k] = IF k < i THEN t[k] ELSE t[k + 1]
  <2>1. u[k] = IF k <= i - 1 THEN a[k] ELSE b[k - (i - 1)]
    BY <1>2, <1>6
  <2>2. CASE k < i
    BY <1>2, <1>3, <2>1, <2>2
  <2>3. CASE ~(k < i)
    <3>1. k - (i - 1) \in 1 .. n - i /\ i + (k - (i - 1)) = k + 1 /\ ~(k <= i - 1)
      BY <1>2, <2>3
    <3> QED
      BY <1>4, <2>1, <2>3, <3>1
  <2> QED
    BY <2>2, <2>3
<1> QED
  BY <1>1, <1>5, <1>6, <1>7, <1>8 DEF Removed

\* call_hangup of an id: the first call with it goes.
GoesFirst(t, id, u) ==
  \/ u = t /\ \A i \in 1 .. Len(t) : t[i].id # id
  \/ \E i \in 1 .. Len(t) : t[i].id = id /\ Removed(t, i, u)

\* WithoutFirst drops the first call of that id and keeps the order.
LEMMA WithoutFirstIs ==
  ASSUME NEW t \in CallTables, NEW id
  PROVE  GoesFirst(t, id, Tel!WithoutFirst(t, id))
<1>1. PICK n \in Nat : n = Len(t)
  BY DEF CallTables
<1> DEFINE S == {i \in 1 .. Len(t) : t[i].id = id}
<1>2. CASE S = {}
  BY <1>2 DEF Tel!WithoutFirst, GoesFirst
<1>3. CASE S # {}
  <2>1. PICK i \in S : \A j \in S : i <= j
    <3>1. S \in SUBSET (1 .. n)
      BY <1>1
    <3> HIDE DEF S
    <3> QED
      BY <1>3, <3>1, MinExists
  <2>2. Tel!First(S) \in S
    BY <2>1 DEF Tel!First
  <2>3. Removed(t, Tel!First(S), Tel!RemoveAt(t, Tel!First(S)))
    BY <2>2, RemoveAtIs
  <2>4. Tel!WithoutFirst(t, id) = Tel!RemoveAt(t, Tel!First(S))
    BY <1>3 DEF Tel!WithoutFirst
  <2> QED
    BY <2>2, <2>3, <2>4 DEF GoesFirst
<1> QED
  BY <1>2, <1>3

-----------------------------------------------------------------------------
\* One turn of the loop of telephonyd_shutdown.
TurnOf(t, i) ==
  IF i <= Len(t) /\ t[i].state \in Tel!Up THEN Tel!WithoutFirst(t, t[i].id) ELSE t
\* W[i] is the table after i turns of the loop of telephonyd_shutdown.
Turning(W, t) ==
  W = [i \in 0 .. MaxCalls |-> IF i = 0 THEN t ELSE TurnOf(W[i - 1], i)]

\* One turn of the hang-up loop leaves a call table.
LEMMA TurnIsTable ==
  ASSUME NEW t \in CallTables, NEW i
  PROVE  TurnOf(t, i) \in CallTables
BY WithoutFirstIs DEF TurnOf, GoesFirst, Removed

\* What every turn passes on, the loop ends with.
LEMMA LoopKeeps ==
  ASSUME NEW T \in CallTables, NEW F \in [0 .. MaxCalls -> SUBSET CallTables], T \in F[0],
         \A i \in 1 .. MaxCalls : \A t \in F[i - 1] : TurnOf(t, i) \in F[i]
  PROVE  Tel!HangupLoop(T) \in F[MaxCalls]
<1>1. PICK n \in Nat : n = MaxCalls
  BY LimitsAreNat
<1>2. \E W : Turning(W, T)
  <2> DEFINE step == [x \in CallTables \X (1 .. n) |-> TurnOf(x[1], x[2])]
  <2>1. step \in [CallTables \X (1 .. n) -> CallTables]
    BY TurnIsTable
  <2>2. \A x \in CallTables, i \in 1 .. n : step[<<x, i>>] = TurnOf(x, i)
    OBVIOUS
  <2> HIDE DEF step
  <2>4. PICK g \in [0 .. n -> CallTables] :
          g[0] = T /\ \A i \in 1 .. n : g[i] = step[<<g[i - 1], i>>]
    <3>1. Recursion(n, CallTables, T, step)
      BY <2>1, RecursionExists
    <3> QED
      BY <3>1 DEF Recursion
  <2>5. \A i \in 1 .. n : g[i] = TurnOf(g[i - 1], i)
    <3>1. \A i \in 1 .. n : g[i - 1] \in CallTables
      BY <2>4
    <3> QED
      BY <2>2, <2>4, <3>1
  <2>6. g = [i \in 0 .. n |-> g[i]]
    BY <2>4
  <2>7. \A i \in 0 .. n : g[i] = IF i = 0 THEN T ELSE TurnOf(g[i - 1], i)
    BY <2>4, <2>5
  <2>8. g = [i \in 0 .. n |-> IF i = 0 THEN T ELSE TurnOf(g[i - 1], i)]
    BY <2>6, <2>7
  <2> QED
    BY <1>1, <2>8 DEF Turning
<1> DEFINE V == CHOOSE g : Turning(g, T)
<1>3. Turning(V, T)
  BY <1>2
<1>4. Tel!HangupLoop(T) = V[n]
  BY <1>1 DEF Tel!HangupLoop, Turning, TurnOf
<1> HIDE DEF V
<1>5. V[0] = T /\ \A i \in 1 .. n : V[i] = TurnOf(V[i - 1], i)
  <2>1. \A i \in 0 .. n : V[i] = IF i = 0 THEN T ELSE TurnOf(V[i - 1], i)
    BY <1>1, <1>3 DEF Turning
  <2>2. 0 \in 0 .. n /\ \A i \in 1 .. n : i \in 0 .. n /\ i # 0
    OBVIOUS
  <2> QED
    BY <2>1, <2>2
<1> DEFINE S == {i \in 0 .. n : V[i] \in F[i]}
<1>6. 0 \in S
  BY <1>5
<1>7. \A i \in 0 .. n - 1 : i \in S => i + 1 \in S
  <2>1. \A i \in 0 .. n - 1 : i + 1 \in 1 .. n /\ (i + 1) - 1 = i
    OBVIOUS
  <2> QED
    BY <1>1, <1>5, <2>1
<1>8. V[n] \in F[n]
  <2> HIDE DEF S
  <2>1. 0 .. n \subseteq S
    BY <1>6, <1>7, UpTo
  <2> QED
    BY <2>1 DEF S
<1> QED
  BY <1>1, <1>4, <1>8

\* The hang-up loop leaves a call table that is no longer.
LEMMA LoopShrinks ==
  ASSUME NEW T \in CallTables
  PROVE  Tel!HangupLoop(T) \in CallTables /\ Len(Tel!HangupLoop(T)) <= Len(T)
<1>1. PICK n \in Nat : n = Len(T)
  BY DEF CallTables
<1> DEFINE C == {t \in CallTables : Len(t) <= n}
           F == [i \in 0 .. MaxCalls |-> C]
<1>2. MaxCalls \in Nat
  BY LimitsAreNat
<1>3. ASSUME NEW t \in C, NEW i PROVE TurnOf(t, i) \in C
  <2>1. PICK k \in Nat : k = Len(t)
    BY DEF CallTables
  <2>2. CASE TurnOf(t, i) = t
    BY <2>2
  <2>3. CASE TurnOf(t, i) = Tel!WithoutFirst(t, t[i].id)
    <3>1. Len(TurnOf(t, i)) \in {k, k - 1}
      BY <2>1, <2>3, WithoutFirstIs DEF GoesFirst, Removed
    <3>2. TurnOf(t, i) \in CallTables
      BY TurnIsTable
    <3> QED
      BY <2>1, <3>1, <3>2
  <2> QED
    BY <2>2, <2>3 DEF TurnOf
<1>4. F \in [0 .. MaxCalls -> SUBSET CallTables] /\ T \in F[0] /\ F[MaxCalls] = C
  BY <1>1, <1>2
<1>5. \A i \in 1 .. MaxCalls : \A t \in F[i - 1] : TurnOf(t, i) \in F[i]
  <2>1. \A i \in 1 .. MaxCalls : F[i - 1] = C /\ F[i] = C
    <3>1. \A i \in 1 .. MaxCalls : i \in 0 .. MaxCalls /\ i - 1 \in 0 .. MaxCalls
      BY <1>2
    <3> HIDE DEF C
    <3> QED
      BY <3>1
  <2> QED
    BY <1>3, <2>1
<1> HIDE DEF F
<1>6. Tel!HangupLoop(T) \in F[MaxCalls]
  BY <1>4, <1>5, LoopKeeps
<1> QED
  BY <1>1, <1>4, <1>6

-----------------------------------------------------------------------------
(* Which calls the loop leaves.                                            *)

\* The loop has been through i turns over T, whose ids are places, and left t:
\* it has looked at the calls up to i + gone, gone being those it hung up.
Kept(t, k) == \E j \in 1 .. Len(t) : t[j].id = k
Named(T, t) ==
  /\ \A j \in 1 .. Len(t) : t[j].id \in 1 .. Len(T) /\ t[j] = T[t[j].id]
  /\ \A j, k \in 1 .. Len(t) : t[j].id = t[k].id => j = k
Unseen(T, t, i) ==
  \A k \in 1 .. Len(T) : k > i + (Len(T) - Len(t)) =>
    k - (Len(T) - Len(t)) \in 1 .. Len(t) /\ t[k - (Len(T) - Len(t))] = T[k]
Treated(T, t, k) ==
  IF T[k].state = "HELD" THEN Kept(t, k) ELSE Kept(t, k) => k > 1 /\ ~Kept(t, k - 1)
Turned(T, t, i) ==
  /\ Len(t) <= Len(T) /\ Named(T, t) /\ Unseen(T, t, i)
  /\ \A k \in 1 .. Len(T) : k <= i + (Len(T) - Len(t)) => Treated(T, t, k)

\* The fields of a call.
LEMMA CallFields ==
  ASSUME NEW t \in CallTables, NEW i \in 1 .. Len(t)
  PROVE  t[i] \in Tel!Call /\ t[i].id \in 1 .. MaxCalls /\ t[i].state \in Tel!Up \cup {"HELD"}
<1>1. t[i] \in Tel!Call
  BY DEF CallTables
<1> QED
  BY <1>1 DEF Tel!Call

\* With unique ids, the call at i is the one that goes.
LEMMA GoneIs ==
  ASSUME NEW T \in CallTables, NEW t \in CallTables, Named(T, t), NEW i \in 1 .. Len(t)
  PROVE  LET u == Tel!WithoutFirst(t, t[i].id)
         IN  /\ Removed(t, i, u) /\ Named(T, u)
             /\ \A k \in 1 .. Len(T) : Kept(u, k) <=> Kept(t, k) /\ k # t[i].id
<1> DEFINE u == Tel!WithoutFirst(t, t[i].id)
<1>1. PICK n \in Nat : n = Len(t)
  BY DEF CallTables
<1>2. Removed(t, i, u)
  <2>1. GoesFirst(t, t[i].id, u)
    BY WithoutFirstIs
  <2> HIDE DEF u
  <2> QED
    BY <2>1 DEF GoesFirst, Named
<1> HIDE DEF u
<1>3. Len(u) = n - 1 /\ \A k \in 1 .. n - 1 : u[k] = IF k < i THEN t[k] ELSE t[k + 1]
  BY <1>1, <1>2 DEF Removed
<1> DEFINE P(k) == IF k < i THEN k ELSE k + 1
<1>4. \A k \in 1 .. n - 1 : P(k) \in 1 .. n /\ P(k) # i /\ u[k] = t[P(k)]
  BY <1>1, <1>3
<1>5. \A j, k \in 1 .. n - 1 : P(j) = P(k) => j = k
  BY <1>1
<1>6. \A j \in 1 .. n : j # i => \E k \in 1 .. n - 1 : P(k) = j
  <2> TAKE j \in 1 .. n
  <2>1. CASE j < i
    <3>1. j \in 1 .. n - 1 /\ P(j) = j
      BY <1>1, <2>1
    <3> QED
      BY <3>1
  <2>2. CASE j > i
    <3>1. j - 1 \in 1 .. n - 1 /\ P(j - 1) = j
      BY <1>1, <2>2
    <3> QED
      BY <3>1
  <2> QED
    BY <1>1, <2>1, <2>2
<1> HIDE DEF P
<1>7. Named(T, u)
  BY <1>1, <1>3, <1>4, <1>5 DEF Named
<1>8. ASSUME NEW k \in 1 .. Len(T) PROVE Kept(u, k) <=> Kept(t, k) /\ k # t[i].id
  <2>1. ASSUME Kept(u, k) PROVE Kept(t, k) /\ k # t[i].id
    <3>1. PICK j \in 1 .. n - 1 : u[j].id = k
      BY <1>3, <2>1 DEF Kept
    <3>2. P(j) \in 1 .. n /\ t[P(j)].id = k /\ P(j) # i
      BY <1>4, <3>1
    <3> QED
      BY <1>1, <3>2 DEF Kept, Named
  <2>2. ASSUME Kept(t, k), k # t[i].id PROVE Kept(u, k)
    <3>1. PICK j \in 1 .. n : t[j].id = k
      BY <1>1, <2>2 DEF Kept
    <3>2. PICK q \in 1 .. n - 1 : P(q) = j
      BY <1>6, <2>2, <3>1
    <3> QED
      BY <1>3, <1>4, <3>1, <3>2 DEF Kept
  <2> QED
    BY <2>1, <2>2
<1> QED
  BY <1>2, <1>7, <1>8 DEF u

\* What the loop did up to call i, carried on by one turn.
LEMMA TurnKeeps ==
  ASSUME NEW T \in CallTables, \A k \in 1 .. Len(T) : T[k].id = k,
         NEW i \in 1 .. MaxCalls, NEW t \in CallTables, Turned(T, t, i - 1)
  PROVE  Turned(T, TurnOf(t, i), i)
<1>1. PICK n \in Nat : n = Len(T)
  BY DEF CallTables
<1>2. PICK l \in Nat : l = Len(t)
  BY DEF CallTables
<1>3. PICK r \in Nat : r = n - l /\ r = Len(T) - Len(t)
  <2>1. Len(t) <= Len(T)
    BY DEF Turned
  <2>2. n - l \in Nat
    BY <1>1, <1>2, <2>1
  <2> QED
    BY <1>1, <1>2, <2>2
<1>4. MaxCalls \in Nat /\ i \in Nat /\ i >= 1 /\ l = n - r
  BY <1>1, <1>2, <1>3, LimitsAreNat
<1>5. Named(T, t) /\ (\A k \in 1 .. n : k > (i - 1) + r => k - r \in 1 .. l /\ t[k - r] = T[k])
  BY <1>1, <1>2, <1>3 DEF Turned, Unseen
<1>6. \A k \in 1 .. n : k <= (i - 1) + r => Treated(T, t, k)
  BY <1>1, <1>3 DEF Turned
<1>7. CASE ~(i <= l)
  <2>1. TurnOf(t, i) = t
    BY <1>2, <1>7 DEF TurnOf
  <2>2. \A k \in 1 .. n : k <= (i - 1) + r /\ ~(k > i + r)
    BY <1>4, <1>7
  <2>3. Unseen(T, t, i)
    BY <1>1, <1>3, <2>2 DEF Unseen
  <2> QED
    BY <1>1, <1>2, <1>3, <1>4, <1>5, <1>6, <2>1, <2>2, <2>3 DEF Turned
<1>8. CASE i <= l
  <2>1. i \in 1 .. l /\ i + r \in 1 .. n /\ (i + r) - r = i /\ i + r > (i - 1) + r
    BY <1>4, <1>8
  <2>2. t[i] = T[i + r]
    BY <1>5, <2>1
  <2>3. t[i].id = i + r
    BY <1>1, <2>1, <2>2
  <2>4. Kept(t, i + r)
    BY <1>2, <2>1, <2>3 DEF Kept
  <2>5. CASE t[i].state \notin Tel!Up
    <3>1. TurnOf(t, i) = t
      BY <2>5 DEF TurnOf
    <3>2. T[i + r].state = "HELD"
      BY <1>2, <2>1, <2>2, <2>5, CallFields
    <3>3. \A k \in 1 .. n : k <= i + r => Treated(T, t, k)
      <4> TAKE k \in 1 .. n
      <4>1. CASE k = i + r
        BY <2>4, <3>2, <4>1 DEF Treated
      <4>2. CASE k <= (i - 1) + r
        BY <1>6, <4>2
      <4> QED
        BY <1>4, <4>1, <4>2
    <3>4. Unseen(T, t, i)
      <4>1. \A k \in 1 .. n : k > i + r => k > (i - 1) + r
        BY <1>4
      <4> QED
        BY <1>1, <1>2, <1>3, <1>5, <4>1 DEF Unseen
    <3> QED
      BY <1>1, <1>2, <1>3, <1>4, <1>5, <3>1, <3>3, <3>4 DEF Turned
  <2>6. CASE t[i].state \in Tel!Up
    <3>1. PICK u : u = Tel!WithoutFirst(t, t[i].id)
      OBVIOUS
    <3>2. TurnOf(t, i) = u
      BY <1>2, <1>8, <2>6, <3>1 DEF TurnOf
    <3>3. /\ Removed(t, i, u) /\ Named(T, u)
          /\ \A k \in 1 .. n : Kept(u, k) <=> Kept(t, k) /\ k # i + r
      BY <1>1, <1>2, <1>5, <2>1, <2>3, <3>1, GoneIs
    <3>4. Len(u) = l - 1 /\ \A k \in 1 .. l - 1 : u[k] = IF k < i THEN t[k] ELSE t[k + 1]
      BY <1>2, <3>3 DEF Removed
    <3>5. Len(T) - Len(u) = r + 1 /\ Len(u) <= Len(T)
      BY <1>1, <1>4, <3>4, <1>3
    <3>6. T[i + r].state # "HELD"
      BY <2>2, <2>6 DEF Tel!Up
    <3>7. ASSUME NEW k \in 1 .. n, k > i + (r + 1)
          PROVE  k - (r + 1) \in 1 .. l - 1 /\ u[k - (r + 1)] = T[k]
      <4>1. /\ k - (r + 1) \in 1 .. l - 1 /\ ~(k - (r + 1) < i) /\ (k - (r + 1)) + 1 = k - r
            /\ k > (i - 1) + r
        BY <1>4, <3>7
      <4>2. u[k - (r + 1)] = t[k - r]
        BY <3>4, <4>1
      <4> QED
        BY <1>5, <4>1, <4>2
    <3>8. Unseen(T, u, i)
      BY <1>1, <3>4, <3>5, <3>7 DEF Unseen
    <3>9. ASSUME NEW k \in 1 .. n, k <= i + (r + 1) PROVE Treated(T, u, k)
      <4>0. k - 1 \in 1 .. n \/ k = 1
        OBVIOUS
      <4>1. CASE k = i + r
        BY <3>3, <3>6, <4>1 DEF Treated
      <4>2. CASE k = i + (r + 1)
        <5>1. k > (i - 1) + r /\ k # i + r /\ k > 1 /\ k - 1 = i + r /\ k - r = i + 1
          BY <1>4, <4>2
        <5>2. t[k - r] = T[k] /\ k - r \in 1 .. l
          BY <1>5, <5>1
        <5>3. Kept(t, k)
          BY <1>1, <1>2, <5>2 DEF Kept
        <5>4. Kept(u, k) /\ ~Kept(u, k - 1)
          BY <2>1, <3>3, <5>1, <5>3
        <5> QED
          BY <5>1, <5>4 DEF Treated
      <4>3. CASE k <= (i - 1) + r
        <5>1. Treated(T, t, k) /\ k # i + r
          BY <1>4, <1>6, <4>3
        <5>2. Kept(u, k) <=> Kept(t, k)
          BY <3>3, <5>1
        <5>3. k > 1 /\ ~Kept(t, k - 1) => ~Kept(u, k - 1)
          BY <3>3, <4>0
        <5> QED
          BY <5>1, <5>2, <5>3 DEF Treated
      <4> QED
        BY <1>4, <3>9, <4>1, <4>2, <4>3
    <3> QED
      BY <1>1, <3>2, <3>3, <3>5, <3>8, <3>9 DEF Turned
  <2> QED
    BY <2>5, <2>6
<1> QED
  BY <1>4, <1>7, <1>8

\* The whole loop.
LEMMA LoopTreats ==
  ASSUME NEW T \in CallTables, \A k \in 1 .. Len(T) : T[k].id = k, Len(T) <= MaxCalls
  PROVE  LET t == Tel!HangupLoop(T)
         IN  Named(T, t) /\ \A k \in 1 .. Len(T) : Treated(T, t, k)
<1>1. PICK n \in Nat : n = Len(T)
  BY DEF CallTables
<1>2. MaxCalls \in Nat
  BY LimitsAreNat
<1> DEFINE F == [i \in 0 .. MaxCalls |-> {t \in CallTables : Turned(T, t, i)}]
<1>3. Turned(T, T, 0)
  <2>1. Len(T) - Len(T) = 0 /\ Len(T) <= Len(T)
    BY <1>1
  <2>2. \A k \in 1 .. Len(T) : k - 0 = k /\ ~(k <= 0 + 0)
    BY <1>1
  <2>3. Named(T, T)
    BY DEF Named
  <2>4. Unseen(T, T, 0)
    BY <2>1, <2>2 DEF Unseen
  <2> QED
    BY <2>1, <2>2, <2>3, <2>4 DEF Turned
<1>4. F \in [0 .. MaxCalls -> SUBSET CallTables] /\ T \in F[0]
  BY <1>2, <1>3
<1>5. \A i \in 1 .. MaxCalls : \A t \in F[i - 1] : TurnOf(t, i) \in F[i]
  <2>1. \A i \in 1 .. MaxCalls : i \in 0 .. MaxCalls /\ i - 1 \in 0 .. MaxCalls
    BY <1>2
  <2>2. ASSUME NEW i \in 1 .. MaxCalls, NEW t \in F[i - 1] PROVE TurnOf(t, i) \in F[i]
    <3>1. t \in CallTables /\ Turned(T, t, i - 1)
      BY <2>1
    <3>2. TurnOf(t, i) \in CallTables /\ Turned(T, TurnOf(t, i), i)
      BY <3>1, TurnKeeps, TurnIsTable
    <3> QED
      BY <2>1, <3>2
  <2> QED
    BY <2>2
<1>6. MaxCalls \in 0 .. MaxCalls
  BY <1>2
<1> HIDE DEF F
<1>7. Tel!HangupLoop(T) \in F[MaxCalls]
  BY <1>4, <1>5, LoopKeeps
<1>8. PICK t : t = Tel!HangupLoop(T)
  OBVIOUS
<1>9. t \in CallTables /\ Turned(T, t, MaxCalls)
  BY <1>6, <1>7, <1>8 DEF F
<1>10. \A k \in 1 .. Len(T) : k <= MaxCalls + (Len(T) - Len(t))
  <2>1. PICK l \in Nat : l = Len(t)
    BY <1>9 DEF CallTables
  <2>2. l <= n
    BY <1>1, <1>9, <2>1 DEF Turned
  <2> QED
    BY <1>1, <1>2, <2>1, <2>2
<1> QED
  BY <1>8, <1>9, <1>10 DEF Turned

-----------------------------------------------------------------------------
(* The rest of the state.                                                  *)

\* The types of all but calls and modem.
TelFields ==
  /\ phase \in {"init", "run", "down"} /\ running \in BOOLEAN
  /\ airplane \in BOOLEAN /\ reg \in Tel!Regs /\ active \in BOOLEAN
  /\ sim \in [Tel!Slots -> Tel!SimStates] /\ slot \in Tel!Slots
  /\ lifo \in BOOLEAN /\ clean \in BOOLEAN
\* The calls fit their table, and each has the id of its place if no call was
\* hung up before a later one.
CallsInv ==
  /\ calls \in CallTables /\ Len(calls) <= MaxCalls
  /\ phase = "init" => calls = <<>> /\ airplane = FALSE /\ active = FALSE
  /\ Tel!IdsArePlaces

\* The loop of telephonyd_shutdown leaves the held calls, and of the others only
\* some whose predecessor it hung up.
Treatment ==
  Tel!Shutdown /\ lifo =>
    \A i \in 1 .. Len(calls) :
      IF calls[i].state = "HELD" THEN calls[i] \in Tel!Range(calls')
      ELSE calls[i] \in Tel!Range(calls') => i > 1 /\ calls[i - 1] \notin Tel!Range(calls')

\* sim_get_state returns a SIM state.
LEMMA SimStateIs == \A heard : Tel!SimState(heard) \in Tel!SimStates
BY DEF Tel!SimState, Tel!SimStates

\* Steps that leave the calls alone.
LEMMA SameCalls ==
  ASSUME CallsInv, calls' = calls, lifo' = lifo, phase' = phase, phase # "init"
  PROVE  CallsInv'
BY DEF CallsInv, Tel!IdsArePlaces, Tel!InRun

\* telephonyd starts in the invariant of the calls.
LEMMA InitIsCalls == ASSUME Tel!Init PROVE TelFields /\ CallsInv
<1>1. MaxCalls \in Nat /\ Len(<<>>) = 0 /\ <<>> \in CallTables
  BY LimitsAreNat DEF CallTables
<1>2. TelFields
  BY DEF Tel!Init, TelFields, Tel!Regs, Tel!Slots, Tel!SimStates
<1>3. calls = <<>> /\ airplane = FALSE /\ active = FALSE /\ phase = "init"
  BY DEF Tel!Init
<1> QED
  BY <1>1, <1>2, <1>3 DEF CallsInv, Tel!IdsArePlaces, Tel!InRun

\* Operations that are not about calls keep the invariant of the calls.
LEMMA OtherSteps ==
  ASSUME TelFields, CallsInv,
         \/ Tel!Register \/ Tel!Connect \/ Tel!Disconnect \/ Tel!SendSms \/ Tel!Ask
         \/ Tel!Term \/ Tel!ModemAnswers
         \/ \E on \in BOOLEAN : Tel!SetAirplane(on) \/ Tel!Power(on)
         \/ \E s \in Tel!Slots : Tel!GetSimState(s) \/ Tel!EnterPin(s) \/ Tel!SwitchSim(s)
  PROVE  TelFields' /\ CallsInv' /\ phase' = phase
<1>0. FALSE \in BOOLEAN /\ {"SEARCHING", "NOT_REGISTERED"} \subseteq Tel!Regs /\ "READY" \in Tel!SimStates
      /\ \A heard : Tel!Ok(heard) \in BOOLEAN
  BY DEF Tel!Regs, Tel!SimStates, Tel!Ok
<1>1. CASE Tel!Register
  <2>1. /\ phase = "run" /\ phase' = phase /\ running' = running /\ calls' = calls /\ lifo' = lifo
        /\ airplane' = airplane /\ active' = active /\ sim' = sim /\ slot' = slot /\ clean' = clean
        /\ reg' \in Tel!Regs
    BY <1>0, <1>1 DEF Tel!Register, Tel!InRun, Tel!voiceVars, Tel!simVars, Tel!RegAfter, TelFields
  <2> QED
    BY <2>1, SameCalls DEF TelFields
<1>2. CASE Tel!Connect
  <2>1. /\ phase = "run" /\ phase' = phase /\ running' = running /\ calls' = calls /\ lifo' = lifo
        /\ airplane' = airplane /\ reg' = reg /\ sim' = sim /\ slot' = slot /\ clean' = clean
    BY <1>2 DEF Tel!Connect, Tel!InRun, Tel!voiceVars, Tel!simVars
  <2>2. active' \in BOOLEAN
    BY <1>0, <1>2 DEF Tel!Connect, Tel!ActiveAfter
  <2> QED
    BY <2>1, <2>2, SameCalls DEF TelFields
<1>3. CASE Tel!Disconnect
  <2>1. /\ phase = "run" /\ phase' = phase /\ running' = running /\ calls' = calls /\ lifo' = lifo
        /\ airplane' = airplane /\ reg' = reg /\ sim' = sim /\ slot' = slot /\ clean' = clean
        /\ active' = FALSE
    BY <1>3 DEF Tel!Disconnect, Tel!InRun, Tel!voiceVars, Tel!simVars
  <2> QED
    BY <1>0, <2>1, SameCalls DEF TelFields
<1>4. CASE Tel!SendSms \/ Tel!Ask \/ Tel!ModemAnswers \/ \E on \in BOOLEAN : Tel!Power(on)
  <2>1. /\ phase' = phase /\ running' = running /\ calls' = calls /\ lifo' = lifo
        /\ airplane' = airplane /\ reg' = reg /\ active' = active
        /\ sim' = sim /\ slot' = slot /\ clean' = clean
    BY <1>4 DEF Tel!SendSms, Tel!Ask, Tel!ModemAnswers, Tel!Power,
                Tel!voiceVars, Tel!dataVars, Tel!simVars
  <2> QED
    BY <2>1 DEF TelFields, CallsInv, Tel!IdsArePlaces, Tel!InRun
<1>5. CASE Tel!Term
  <2>1. /\ phase' = phase /\ running' = FALSE /\ calls' = calls /\ lifo' = lifo
        /\ airplane' = airplane /\ reg' = reg /\ active' = active
        /\ sim' = sim /\ slot' = slot /\ clean' = clean
    BY <1>5 DEF Tel!Term, Tel!voiceVars, Tel!dataVars, Tel!simVars
  <2> QED
    BY <1>0, <2>1 DEF TelFields, CallsInv, Tel!IdsArePlaces, Tel!InRun
<1>6. CASE \E on \in BOOLEAN : Tel!SetAirplane(on)
  <2>1. /\ phase = "run" /\ phase' = phase /\ running' = running /\ calls' = calls /\ lifo' = lifo
        /\ active' = active /\ sim' = sim /\ slot' = slot /\ clean' = clean
    BY <1>6 DEF Tel!SetAirplane, Tel!InRun, Tel!voiceVars, Tel!simVars
  <2>2. airplane' \in BOOLEAN
    BY <1>6 DEF Tel!SetAirplane
  <2>3. reg' \in Tel!Regs
    BY <1>0, <1>6 DEF Tel!SetAirplane, Tel!RegAfter, TelFields
  <2> QED
    BY <2>1, <2>2, <2>3, SameCalls DEF TelFields
<1>7. CASE \E s \in Tel!Slots : Tel!GetSimState(s) \/ Tel!EnterPin(s)
  <2>1. /\ phase = "run" /\ phase' = phase /\ running' = running /\ calls' = calls /\ lifo' = lifo
        /\ airplane' = airplane /\ reg' = reg /\ active' = active /\ slot' = slot /\ clean' = clean
    BY <1>7 DEF Tel!GetSimState, Tel!EnterPin, Tel!InRun, Tel!voiceVars, Tel!dataVars
  <2>2. sim' \in [Tel!Slots -> Tel!SimStates]
    BY <1>0, <1>7, SimStateIs DEF Tel!GetSimState, Tel!EnterPin, TelFields
  <2> QED
    BY <2>1, <2>2, SameCalls DEF TelFields
<1>8. CASE \E s \in Tel!Slots : Tel!SwitchSim(s)
  <2>1. /\ phase = "run" /\ phase' = phase /\ running' = running /\ calls' = calls /\ lifo' = lifo
        /\ airplane' = airplane /\ reg' = reg /\ active' = active /\ sim' = sim /\ clean' = clean
        /\ slot' \in Tel!Slots
    BY <1>8 DEF Tel!SwitchSim, Tel!InRun, Tel!voiceVars, Tel!dataVars
  <2> QED
    BY <2>1, SameCalls DEF TelFields
<1> QED
  BY <1>1, <1>2, <1>3, <1>4, <1>5, <1>6, <1>7, <1>8

-----------------------------------------------------------------------------
(* Steps that change the table.                                            *)

\* A call is numbered by its place, and added at the end.
LEMMA OriginateStep ==
  ASSUME TelFields, CallsInv, Tel!Originate
  PROVE  TelFields' /\ CallsInv'
<1>1. /\ phase = "run" /\ phase' = phase /\ running' = running /\ lifo' = lifo
      /\ airplane' = airplane /\ reg' = reg /\ active' = active
      /\ sim' = sim /\ slot' = slot /\ clean' = clean
  BY DEF Tel!Originate, Tel!InRun, Tel!dataVars, Tel!simVars
<1>2. PICK n \in Nat : n = Len(calls)
  BY DEF CallsInv, CallTables
<1>3. MaxCalls \in Nat
  BY LimitsAreNat
<1>4. CASE calls' = calls
  BY <1>1, <1>4, SameCalls DEF TelFields
<1>5. CASE calls' = Append(calls, [id |-> n + 1, state |-> "DIALING"]) /\ n < MaxCalls
  <2>1. [id |-> n + 1, state |-> "DIALING"] \in Tel!Call
    BY <1>3, <1>5 DEF Tel!Call, Tel!Up
  <2>2. PICK c \in Tel!Call : c.id = n + 1 /\ calls' = Append(calls, c)
    BY <1>5, <2>1
  <2>3. /\ calls' \in CallTables /\ Len(calls') = n + 1 /\ calls'[n + 1] = c
        /\ \A i \in 1 .. n : calls'[i] = calls[i]
    BY <1>2, <2>2 DEF CallsInv, CallTables
  <2>4. lifo => \A i \in 1 .. n : calls[i].id = i
    BY <1>1, <1>2 DEF CallsInv, Tel!IdsArePlaces, Tel!InRun
  <2>5. lifo => \A i \in 1 .. n + 1 : calls'[i].id = i
    BY <2>2, <2>3, <2>4
  <2>6. Len(calls') <= MaxCalls
    BY <1>3, <1>5, <2>3
  <2> QED
    BY <1>1, <2>3, <2>5, <2>6 DEF TelFields, CallsInv, Tel!IdsArePlaces, Tel!InRun
<1> QED
  BY <1>2, <1>4, <1>5 DEF Tel!Originate

\* The state of a call is set in place.
LEMMA SetCallStep ==
  ASSUME TelFields, CallsInv, NEW id \in 1 .. MaxCalls, Tel!Answer(id) \/ Tel!Hold(id)
  PROVE  TelFields' /\ CallsInv'
<1>1. PICK st \in Tel!Up \cup {"HELD"} : Tel!SetCall(id, st)
  BY DEF Tel!Answer, Tel!Hold, Tel!Up
<1>2. /\ phase = "run" /\ phase' = phase /\ running' = running /\ lifo' = lifo
      /\ airplane' = airplane /\ reg' = reg /\ active' = active
      /\ sim' = sim /\ slot' = slot /\ clean' = clean
  BY <1>1 DEF Tel!SetCall, Tel!InRun, Tel!dataVars, Tel!simVars
<1>3. CASE calls' = calls
  BY <1>2, <1>3, SameCalls DEF TelFields
<1>4. CASE \E i \in 1 .. Len(calls) : calls' = [calls EXCEPT ![i].state = st]
  <2>1. PICK i \in 1 .. Len(calls) : calls' = [calls EXCEPT ![i].state = st]
    BY <1>4
  <2>2. calls \in CallTables /\ calls[i] \in Tel!Call
    BY CallFields DEF CallsInv
  <2>3. PICK c \in Tel!Call : c.id = calls[i].id /\ c = [calls[i] EXCEPT !.state = st]
    BY <2>2 DEF Tel!Call
  <2>4. calls' = [calls EXCEPT ![i] = c]
    BY <2>1, <2>3
  <2>5. calls' \in CallTables /\ Len(calls') = Len(calls)
    BY <2>2, <2>4 DEF CallTables
  <2>6. \A k \in 1 .. Len(calls) : calls'[k].id = calls[k].id
    BY <2>2, <2>3, <2>4 DEF CallTables
  <2> QED
    BY <1>2, <2>5, <2>6 DEF TelFields, CallsInv, Tel!IdsArePlaces, Tel!InRun
<1>5. calls' = calls \/ \E i \in 1 .. Len(calls) : calls' = [calls EXCEPT ![i].state = st]
  <2>1. calls' = calls \/ (Tel!With(id) # {} /\ calls' = [calls EXCEPT ![Tel!First(Tel!With(id))].state = st])
    BY <1>1 DEF Tel!SetCall
  <2>2. ASSUME Tel!With(id) # {} PROVE Tel!First(Tel!With(id)) \in 1 .. Len(calls)
    <3>1. PICK n \in Nat : n = Len(calls)
      BY DEF CallsInv, CallTables
    <3>2. Tel!With(id) \in SUBSET (1 .. n)
      BY <3>1 DEF Tel!With
    <3>3. PICK i \in Tel!With(id) : \A j \in Tel!With(id) : i <= j
      BY <2>2, <3>2, MinExists
    <3>4. Tel!First(Tel!With(id)) \in Tel!With(id)
      BY <3>3 DEF Tel!First
    <3> QED
      BY <3>1, <3>2, <3>4
  <2> QED
    BY <2>1, <2>2
<1> QED
  BY <1>3, <1>4, <1>5

\* Whoever hangs up only the last call keeps ids places.
LEMMA HangupStep ==
  ASSUME TelFields, CallsInv, NEW id \in 1 .. MaxCalls, Tel!Hangup(id)
  PROVE  TelFields' /\ CallsInv'
<1>1. /\ phase = "run" /\ phase' = phase /\ running' = running
      /\ airplane' = airplane /\ reg' = reg /\ active' = active
      /\ sim' = sim /\ slot' = slot /\ clean' = clean
  BY DEF Tel!Hangup, Tel!InRun, Tel!dataVars, Tel!simVars
<1>2. calls \in CallTables /\ calls' = Tel!WithoutFirst(calls, id)
  BY DEF Tel!Hangup, CallsInv
<1>3. lifo' = (lifo /\ Tel!With(id) \subseteq {Len(calls)})
  BY DEF Tel!Hangup
<1>4. lifo' \in BOOLEAN
  BY <1>3 DEF TelFields
<1>5. PICK n \in Nat : n = Len(calls)
  BY <1>2 DEF CallTables
<1>6. n <= MaxCalls /\ MaxCalls \in Nat
  BY <1>5, LimitsAreNat DEF CallsInv
<1>7. PICK u : u = calls'
  OBVIOUS
<1>8. GoesFirst(calls, id, u)
  BY <1>2, <1>7, WithoutFirstIs
<1>9. lifo => \A i \in 1 .. n : calls[i].id = i
  BY <1>1, <1>5 DEF CallsInv, Tel!IdsArePlaces, Tel!InRun
<1>10. CASE u = calls
  BY <1>1, <1>3, <1>4, <1>7, <1>10 DEF TelFields, CallsInv, Tel!IdsArePlaces, Tel!InRun
<1>11. CASE \E i \in 1 .. n : calls[i].id = id /\ Removed(calls, i, u)
  <2>1. PICK i \in 1 .. n : calls[i].id = id /\ Removed(calls, i, u)
    BY <1>11
  <2>2. /\ u \in CallTables /\ Len(u) = n - 1
        /\ \A k \in 1 .. n - 1 : u[k] = IF k < i THEN calls[k] ELSE calls[k + 1]
    BY <1>5, <2>1 DEF Removed
  <2>3. ASSUME lifo' PROVE \A k \in 1 .. n - 1 : u[k].id = k
    <3>1. i = n /\ lifo
      BY <1>3, <1>5, <2>1, <2>3 DEF Tel!With
    <3> QED
      BY <1>9, <2>2, <3>1
  <2>4. Len(u) <= MaxCalls
    BY <1>6, <2>2
  <2> QED
    BY <1>1, <1>4, <1>7, <2>2, <2>3, <2>4 DEF TelFields, CallsInv, Tel!IdsArePlaces, Tel!InRun
<1> QED
  BY <1>5, <1>8, <1>10, <1>11 DEF GoesFirst

\* Starting and dying keep the invariant of the calls.
LEMMA LifeSteps ==
  ASSUME TelFields, CallsInv, Tel!Start \/ Tel!Killed
  PROVE  TelFields' /\ CallsInv'
<1>0. MaxCalls \in Nat /\ Len(<<>>) = 0 /\ <<>> \in CallTables
  BY LimitsAreNat DEF CallTables
<1>1. CASE Tel!Start
  <2>1. /\ phase = "init" /\ phase' = "run" /\ running' = TRUE /\ calls' = calls /\ lifo' = lifo
        /\ airplane' = airplane /\ reg' = reg /\ active' = active /\ slot' = slot /\ clean' = clean
    BY <1>1 DEF Tel!Start, Tel!voiceVars, Tel!dataVars
  <2>2. sim' \in [Tel!Slots -> Tel!SimStates]
    BY <1>1, SimStateIs DEF Tel!Start
  <2>3. calls' = <<>>
    BY <2>1 DEF CallsInv
  <2>4. running' \in BOOLEAN
    BY <2>1
  <2>5. TelFields'
    BY <2>1, <2>2, <2>4 DEF TelFields
  <2>6. Len(calls') = 0 /\ calls' \in CallTables
    BY <1>0, <2>3
  <2> QED
    BY <1>0, <2>1, <2>5, <2>6 DEF CallsInv, Tel!IdsArePlaces, Tel!InRun
<1>2. CASE Tel!Killed
  <2>1. /\ phase' = "init" /\ running' = FALSE /\ calls' = <<>> /\ lifo' = TRUE
        /\ airplane' = FALSE /\ reg' = "NOT_REGISTERED" /\ active' = FALSE
        /\ sim' = [s \in Tel!Slots |-> "ABSENT"] /\ slot' = 0 /\ clean' = FALSE
    BY <1>2 DEF Tel!Killed
  <2>2. "ABSENT" \in Tel!SimStates /\ "NOT_REGISTERED" \in Tel!Regs /\ 0 \in Tel!Slots
    BY DEF Tel!SimStates, Tel!Regs, Tel!Slots
  <2>3. running' \in BOOLEAN /\ airplane' \in BOOLEAN /\ active' \in BOOLEAN /\ lifo' \in BOOLEAN
        /\ clean' \in BOOLEAN
    BY <2>1
  <2>4. TelFields'
    BY <2>1, <2>2, <2>3 DEF TelFields
  <2>5. Len(calls') = 0 /\ calls' \in CallTables
    BY <1>0, <2>1
  <2> QED
    BY <1>0, <2>1, <2>4, <2>5 DEF CallsInv, Tel!IdsArePlaces, Tel!InRun
<1> QED
  BY <1>1, <1>2

\* telephonyd_shutdown.
LEMMA ShutdownCalls ==
  ASSUME TelFields, CallsInv, Tel!Shutdown
  PROVE  TelFields' /\ CallsInv' /\ Treatment /\ Len(calls) - Len(calls') \in Nat
<1>1. /\ phase = "run" /\ phase' = "down" /\ running' = running /\ lifo' = lifo
      /\ airplane' = airplane /\ reg' = reg /\ active' = FALSE
      /\ sim' = sim /\ slot' = slot /\ clean' = clean /\ calls' = Tel!HangupLoop(calls)
  BY DEF Tel!Shutdown, Tel!InRun, Tel!simVars
<1>2. PICK u : u = calls'
  OBVIOUS
<1>3. PICK n \in Nat : n = Len(calls)
  BY DEF CallsInv, CallTables
<1>4. calls \in CallTables /\ n <= MaxCalls /\ MaxCalls \in Nat
  BY <1>3, LimitsAreNat DEF CallsInv
<1>5. u \in CallTables /\ Len(u) <= n
  BY <1>1, <1>2, <1>3, <1>4, LoopShrinks
<1>6. PICK l \in Nat : l = Len(u)
  BY <1>5 DEF CallTables
<1>7. TelFields' /\ CallsInv' /\ Len(calls) - Len(calls') \in Nat
  <2>1. active' \in BOOLEAN
    BY <1>1
  <2>2. Len(u) <= MaxCalls /\ n - Len(u) \in Nat
    BY <1>4, <1>5, <1>6
  <2> QED
    BY <1>1, <1>2, <1>3, <1>5, <2>1, <2>2 DEF TelFields, CallsInv, Tel!IdsArePlaces, Tel!InRun
<1>8. ASSUME lifo
      PROVE  \A i \in 1 .. n :
               IF calls[i].state = "HELD" THEN calls[i] \in Tel!Range(u)
               ELSE calls[i] \in Tel!Range(u) => i > 1 /\ calls[i - 1] \notin Tel!Range(u)
  <2>1. \A i \in 1 .. n : calls[i].id = i
    BY <1>1, <1>3, <1>8 DEF CallsInv, Tel!IdsArePlaces, Tel!InRun
  <2>2. Named(calls, u) /\ \A k \in 1 .. n : Treated(calls, u, k)
    BY <1>1, <1>2, <1>3, <1>4, <2>1, LoopTreats
  <2>3. \A k \in 1 .. n : calls[k] \in Tel!Range(u) <=> Kept(u, k)
    <3> TAKE k \in 1 .. n
    <3>1. calls[k] \in Tel!Range(u) <=> \E j \in 1 .. l : u[j] = calls[k]
      BY <1>5, <1>6 DEF Tel!Range, CallTables
    <3>2. \A j \in 1 .. l : u[j] = calls[k] <=> u[j].id = k
      BY <1>3, <1>6, <2>1, <2>2 DEF Named
    <3> QED
      BY <1>6, <3>1, <3>2 DEF Kept
  <2>4. \A k \in 1 .. n : k > 1 => k - 1 \in 1 .. n
    OBVIOUS
  <2> QED
    BY <2>2, <2>3, <2>4 DEF Treated
<1> QED
  BY <1>2, <1>3, <1>7, <1>8 DEF Treatment

-----------------------------------------------------------------------------
(* Every step of telephonyd.                                               *)

\* The invariant of telephonyd.
TelInv == TelFields /\ CallsInv /\ ModemInv

\* telephonyd starts in the invariant.
LEMMA TelInit == ASSUME Tel!Init PROVE TelInv
<1>1. TelFields /\ CallsInv
  BY InitIsCalls
<1>2. PICK m : m = modem
  OBVIOUS
<1>3. m \in [fd : {FALSE}, owed : {<<>>}, unread : {{}}, radio : {TRUE},
             pdp : {FALSE}, lock : {"PIN", "READY"}, late : {FALSE}, lost : {FALSE}]
  BY <1>2 DEF Tel!Init
<1>4. <<>> \in Seq(Tel!Commands) /\ Len(<<>>) = 0 /\ MaxOwed \in Nat
  BY LimitsAreNat
<1>5. Fit(m) /\ m.pdp = FALSE
  <2>1. /\ m.fd = FALSE /\ m.owed = <<>> /\ m.unread = {} /\ m.radio = TRUE /\ m.pdp = FALSE
        /\ m.lock \in {"PIN", "READY"} /\ m.late = FALSE /\ m.lost = FALSE
        /\ m = [fd |-> m.fd, owed |-> m.owed, unread |-> m.unread, radio |-> m.radio,
                pdp |-> m.pdp, lock |-> m.lock, late |-> m.late, lost |-> m.lost]
    BY <1>3
  <2>2. m.fd \in BOOLEAN /\ m.radio \in BOOLEAN /\ m.pdp \in BOOLEAN /\ m.late \in BOOLEAN
        /\ m.lost \in BOOLEAN
    BY <2>1
  <2>3. m.owed \in Seq(Tel!Commands) /\ m.unread \in SUBSET Tel!Answers /\ m.lock \in Tel!Locks
        /\ Len(m.owed) <= MaxOwed
    BY <1>4, <2>1 DEF Tel!Locks
  <2>4. m \in Modems
    BY <2>1, <2>2, <2>3 DEF Modems, Tel!Modem
  <2> QED
    BY <2>1, <2>3, <2>4 DEF Fit
<1>6. active = FALSE /\ ~SimReady
  BY DEF Tel!Init, SimReady
<1> QED
  BY <1>1, <1>2, <1>5, <1>6 DEF TelInv, ModemInv, Believed

\* Every step of telephonyd keeps the invariant, airplane mode and the loop's promise.
LEMMA TelStep ==
  ASSUME TelInv, [Tel!Next]_Tel!vars
  PROVE  TelInv' /\ Settles /\ Treatment
<1>0. TelFields /\ CallsInv /\ ModemInv
  BY DEF TelInv
<1>1. airplane \in BOOLEAN /\ active \in BOOLEAN /\ sim \in [Tel!Slots -> Tel!SimStates]
  BY <1>0 DEF TelFields
<1>2. Treatment
  <2>1. CASE Tel!Shutdown
    BY <1>0, <2>1, ShutdownCalls
  <2> QED
    BY <2>1 DEF Treatment
<1>3. CASE Tel!Originate
  BY <1>0, <1>2, <1>3, AskingSteps, OriginateStep DEF TelInv
<1>4. CASE \E id \in 1 .. MaxCalls : Tel!Answer(id) \/ Tel!Hold(id)
  <2>1. ModemInv' /\ Settles
    BY <1>0, <1>4, AskingSteps
  <2>2. TelFields' /\ CallsInv'
    BY <1>0, <1>4, SetCallStep
  <2> QED
    BY <1>2, <2>1, <2>2 DEF TelInv
<1>5. CASE \E id \in 1 .. MaxCalls : Tel!Hangup(id)
  <2>1. ModemInv' /\ Settles
    BY <1>0, <1>5, AskingSteps
  <2>2. TelFields' /\ CallsInv'
    BY <1>0, <1>5, HangupStep
  <2> QED
    BY <1>2, <2>1, <2>2 DEF TelInv
<1>6. CASE Tel!Register \/ Tel!SendSms \/ Tel!Ask \/ Tel!Term \/ \E s \in Tel!Slots : Tel!SwitchSim(s)
  <2>1. ModemInv' /\ Settles
    BY <1>0, <1>6, AskingSteps
  <2>2. TelFields' /\ CallsInv'
    BY <1>0, <1>6, OtherSteps
  <2> QED
    BY <1>2, <2>1, <2>2 DEF TelInv
<1>7. CASE \E s \in Tel!Slots : Tel!GetSimState(s) \/ Tel!EnterPin(s)
  <2>1. ModemInv' /\ Settles
    BY <1>0, <1>1, <1>7, CardSteps
  <2>2. TelFields' /\ CallsInv'
    BY <1>0, <1>7, OtherSteps
  <2> QED
    BY <1>2, <2>1, <2>2 DEF TelInv
<1>8. CASE \E on \in BOOLEAN : Tel!SetAirplane(on) \/ Tel!Power(on)
  <2>1. ModemInv' /\ Settles
    BY <1>0, <1>1, <1>8, RadioSteps
  <2>2. TelFields' /\ CallsInv'
    BY <1>0, <1>8, OtherSteps
  <2> QED
    BY <1>2, <2>1, <2>2 DEF TelInv
<1>9. CASE Tel!Connect
  <2>1. ModemInv' /\ Settles
    BY <1>0, <1>1, <1>9, ConnectStep
  <2>2. TelFields' /\ CallsInv'
    BY <1>0, <1>9, OtherSteps
  <2> QED
    BY <1>2, <2>1, <2>2 DEF TelInv
<1>10. CASE Tel!Disconnect
  BY <1>0, <1>2, <1>10, DisconnectStep, OtherSteps DEF TelInv
<1>11. CASE Tel!ModemAnswers
  BY <1>0, <1>2, <1>11, ModemAnswersStep, OtherSteps DEF TelInv
<1>12. CASE Tel!Start
  <2>1. ~airplane /\ ~active
    <3>1. phase = "init"
      BY <1>12 DEF Tel!Start
    <3> QED
      BY <1>0, <3>1 DEF CallsInv
  <2>2. ModemInv' /\ Settles
    BY <1>0, <1>12, <2>1, StartStep
  <2>3. TelFields' /\ CallsInv'
    BY <1>0, <1>12, LifeSteps
  <2> QED
    BY <1>2, <2>2, <2>3 DEF TelInv
<1>13. CASE Tel!Killed
  BY <1>0, <1>2, <1>13, KilledStep, LifeSteps DEF TelInv
<1>14. CASE Tel!Shutdown
  <2>1. TelFields' /\ CallsInv' /\ Len(calls) - Len(calls') \in Nat
    BY <1>0, <1>14, ShutdownCalls
  <2>2. ModemInv' /\ Settles
    BY <1>0, <1>14, <2>1, ShutdownStep
  <2> QED
    BY <1>2, <2>1, <2>2 DEF TelInv
<1>15. CASE UNCHANGED Tel!vars
  <2>1. /\ phase' = phase /\ running' = running /\ calls' = calls /\ lifo' = lifo
        /\ airplane' = airplane /\ reg' = reg /\ active' = active
        /\ sim' = sim /\ slot' = slot /\ clean' = clean /\ modem' = modem
    BY <1>15 DEF Tel!vars
  <2>2. TelFields' /\ CallsInv'
    BY <1>0, <2>1 DEF TelFields, CallsInv, Tel!IdsArePlaces, Tel!InRun
  <2>3. ModemInv' /\ Settles
    BY <1>0, <2>1 DEF ModemInv, Believed, SimReady, Settles
  <2> QED
    BY <1>2, <2>2, <2>3 DEF TelInv
<1>16. Tel!Voice => \/ Tel!Originate
                    \/ \E id \in 1 .. MaxCalls : Tel!Answer(id) \/ Tel!Hold(id)
                    \/ \E id \in 1 .. MaxCalls : Tel!Hangup(id)
  BY DEF Tel!Voice
<1> QED
  BY <1>3, <1>4, <1>5, <1>6, <1>7, <1>8, <1>9, <1>10, <1>11, <1>12, <1>13, <1>14, <1>15, <1>16
     DEF Tel!Next, Tel!Data, Tel!Sims, Tel!Rest

\* The invariant and the promises of steps hold in every behaviour.
LEMMA TelAlways == Tel!Spec => [](TelInv) /\ [][Settles /\ Treatment /\ TelInv']_Tel!vars
<1>1. Tel!Init => TelInv
  BY TelInit
<1>2. TelInv /\ [Tel!Next]_Tel!vars => TelInv' /\ Settles /\ Treatment
  BY TelStep
<1> QED
  BY <1>1, <1>2, PTL DEF Tel!Spec

\* What the module and the proof say of a radio that will be off is the same.
LEMMA RadioIs == TelInv => (Tel!RadioWillBeOff <=> WillBeOff(modem))
BY DEF Tel!RadioWillBeOff, WillBeOff, PowerPlaces, Powers

\* telephonyd keeps its types: the table of calls stays within calls[], and the
\* line owes no more than the bound.
THEOREM CallsFitTheTable == Tel!Spec => []Tel!TypeOK
<1>1. TelInv => Tel!TypeOK
  BY DEF TelInv, TelFields, CallsInv, CallTables, ModemInv, Fit, Modems, Tel!TypeOK
<1> QED
  BY <1>1, TelAlways, PTL

\* What telephonyd believes of card and connection is true of the modem as long
\* as no answer came late: ModemInv ties each belief to the answer it came from.
THEOREM BeliefsAreTrue == Tel!Spec => []BelievesWhatIs
<1>1. TelInv => BelievesWhatIs
  BY DEF TelInv, ModemInv, Believed, SimReady, BelievesWhatIs, Tel!BelievesWhatIs
<1> QED
  BY <1>1, TelAlways, PTL

\* Airplane mode reaches the modem behind whatever it still owes an answer to.
THEOREM AirplaneReachesTheModem == Tel!Spec => AirplaneSettles
<1>1. TelInv /\ TelInv' /\ Settles =>
        (airplane' /\ modem'.fd /\ ~modem'.lost /\ (~airplane \/ Tel!RadioWillBeOff)
          => Tel!RadioWillBeOff' \/ Tel!Power(TRUE))
  <2>1. TelInv' => (Tel!RadioWillBeOff' <=> WillBeOff(modem)')
    BY RadioIs, PTL
  <2> QED
    BY <2>1, RadioIs DEF Settles
<1> QED
  BY <1>1, TelAlways, PTL DEF AirplaneSettles, Tel!AirplaneSettles

\* The id of a call is its place, for a table of any size and any modem that
\* ends its calls last in, first out: what the loop of telephonyd_shutdown and
\* every request that names a call rely on.
THEOREM IdsStayPlaces == Tel!Spec => []IdsArePlaces
<1>1. TelInv => Tel!IdsArePlaces
  BY DEF TelInv, CallsInv
<1> QED
  BY <1>1, TelAlways, PTL DEF IdsArePlaces

\* How far the loop of telephonyd_shutdown misses what it is there for (see
\* NoActiveCallLeft), for every table whose ids are places: an active call stays
\* only if the one before it was hung up, so a call on its own never does.
THEOREM LoopSkipsSuccessors == Tel!Spec => [][Treatment]_Tel!vars
<1>1. Settles /\ Treatment /\ TelInv' => Treatment
  OBVIOUS
<1> QED
  BY <1>1, TelAlways, PTL

-----------------------------------------------------------------------------
(* How the daemons stop.                                                   *)

\* Past its initialisation a loop that reads its flag finds it cleared only by
\* the handler, which runs only where SIGTERM is not blocked.
StopInv ==
  /\ Stop!TypeOK
  /\ loop = "reads" /\ daemonPc \notin {"main", "init"} /\ flag = FALSE => byLumid = FALSE
                                                          \/ daemonPc = "killed"
  /\ daemonPc = "shutdown" => byLumid = FALSE /\ loop = "reads"
  /\ cleaned = TRUE => byLumid = FALSE /\ loop = "reads"

\* A daemon starts in the invariant.
LEMMA StopInit == ASSUME Stop!Init PROVE StopInv
<1>1. flag \in BOOLEAN /\ byLumid \in BOOLEAN
  BY Zenon DEF Stop!Init
<1>2. /\ loop \in {"reads", "endless"} /\ daemonPc = "main" /\ handler = FALSE
      /\ pending = FALSE /\ stop = "idle" /\ cleaned = FALSE /\ early = FALSE
  BY DEF Stop!Init
<1> QED
  BY <1>1, <1>2 DEF StopInv, Stop!TypeOK

\* Every step of a daemon keeps the invariant.
LEMMA StopStep == ASSUME StopInv, [Stop!Next]_(Stop!vars) PROVE StopInv'
<1>0. /\ Stop!TypeOK
      /\ loop = "reads" /\ daemonPc \notin {"main", "init"} /\ flag = FALSE => byLumid = FALSE
                                                              \/ daemonPc = "killed"
      /\ daemonPc = "shutdown" => byLumid = FALSE /\ loop = "reads"
      /\ cleaned = TRUE => byLumid = FALSE /\ loop = "reads"
  BY DEF StopInv
<1>1. /\ byLumid \in BOOLEAN /\ loop \in {"reads", "endless"} /\ handler \in BOOLEAN
      /\ daemonPc \in {"main", "init", "loop", "sleep", "shutdown", "exited", "killed"}
      /\ flag \in BOOLEAN /\ pending \in BOOLEAN /\ cleaned \in BOOLEAN
      /\ early \in BOOLEAN /\ stop \in {"idle", "termed", "killing", "done"}
  BY <1>0 DEF Stop!TypeOK
<1>2. CASE Stop!InstallHandler
  BY <1>0, <1>1, <1>2 DEF Stop!InstallHandler, StopInv, Stop!TypeOK
<1>3. CASE Stop!InitDone
  BY <1>0, <1>1, <1>3 DEF Stop!InitDone, Stop!FlagAfterInit, StopInv, Stop!TypeOK
<1>4. CASE Stop!TestFlag
  BY <1>0, <1>1, <1>4 DEF Stop!TestFlag, Stop!LoopEnds, StopInv, Stop!TypeOK
<1>5. CASE Stop!Wake
  BY <1>0, <1>1, <1>5 DEF Stop!Wake, StopInv, Stop!TypeOK
<1>6. CASE Stop!ShutdownRuns
  BY <1>0, <1>1, <1>6 DEF Stop!ShutdownRuns, StopInv, Stop!TypeOK
<1>7. CASE Stop!Deliver
  <2>1. byLumid = FALSE /\ pending' = FALSE /\ byLumid' = byLumid /\ loop' = loop
        /\ handler' = handler /\ stop' = stop /\ cleaned' = cleaned
        /\ daemonPc # "exited" /\ daemonPc # "killed"
    BY <1>1, <1>7 DEF Stop!Deliver, Stop!Blocked, Stop!Over
  <2>2. early' \in BOOLEAN
    BY <1>1, <1>7 DEF Stop!Deliver
  <2>3. \/ flag' = FALSE /\ daemonPc' = (IF daemonPc = "sleep" THEN "loop" ELSE daemonPc)
        \/ flag' = flag /\ daemonPc' = "killed"
    BY <1>7 DEF Stop!Deliver
  <2>4. flag' \in BOOLEAN /\ pending' \in BOOLEAN
    BY <1>1, <2>1, <2>3
  <2>5. daemonPc' \in {"main", "init", "loop", "sleep", "shutdown", "exited", "killed"}
        /\ (daemonPc' = "shutdown" => daemonPc = "shutdown")
    BY <1>1, <2>3
  <2>6. Stop!TypeOK'
    BY <1>1, <2>1, <2>2, <2>4, <2>5 DEF Stop!TypeOK
  <2> QED
    BY <1>0, <2>1, <2>5, <2>6 DEF StopInv
<1>8. CASE Stop!SendTerm \/ Stop!HalfASecond
  BY <1>0, <1>1, <1>8 DEF Stop!SendTerm, Stop!HalfASecond, StopInv, Stop!TypeOK
<1>9. CASE Stop!Kill
  BY <1>0, <1>1, <1>9 DEF Stop!Kill, Stop!Over, StopInv, Stop!TypeOK
<1>10. CASE UNCHANGED Stop!vars
  BY <1>0, <1>10 DEF Stop!vars, StopInv, Stop!TypeOK
<1> QED
  BY <1>2, <1>3, <1>4, <1>5, <1>6, <1>7, <1>8, <1>9, <1>10 DEF Stop!Next, Stop!Daemon

\* The invariant of a stopping daemon holds in every reachable state.
LEMMA StopAlways == Stop!Spec => []StopInv
<1>1. Stop!Init => StopInv
  BY StopInit
<1>2. StopInv /\ [Stop!Next]_(Stop!vars) => StopInv'
  BY StopStep
<1> QED
  BY <1>1, <1>2, PTL DEF Stop!Spec

\* The stopping daemon keeps its types.
THEOREM StopTypeCorrect == Stop!Spec => []Stop!TypeOK
<1>1. StopInv => Stop!TypeOK
  BY DEF StopInv
<1> QED
  BY <1>1, StopAlways, PTL

\* No daemon that lumid started, and none whose loop does not read its flag,
\* ever runs its shutdown code: SIGTERM is never more than a delay there, and
\* StopRunsCleanup fails in every such run, not only in the trace that TLC finds.
THEOREM NoCleanupUnderLumid == Stop!Spec => []Stop!CleansUpByHandOnly
<1>1. StopInv => Stop!CleansUpByHandOnly
  <2>1. StopInv => cleaned \in BOOLEAN
    BY DEF StopInv, Stop!TypeOK
  <2> QED
    BY <2>1 DEF StopInv, Stop!CleansUpByHandOnly
<1> QED
  BY <1>1, StopAlways, PTL

-----------------------------------------------------------------------------
(* All parts together.                                                     *)

\* Every part of Userland keeps its type invariant, whatever the others do.
THEOREM PartsKeepTheirTypes == Spec => []TypeOK
<1>1. Tel!Spec => []Tel!TypeOK
  BY CallsFitTheTable
<1>2. Box!Spec => []Box!TypeOK
  BY PolicyFitsItsArrays
<1>3. Conf!Spec => []Conf!TypeOK
  BY ServiceRecordsBounded
<1>4. Boot!Spec => []Boot!TypeOK
  BY BootFilesAreApart
<1>5. Setup!Spec => []Setup!TypeOK
  BY ContainerFilesAreApart
<1>6. Props!Spec => []Props!TypeOK
  BY PropertiesFit
<1>7. Exec!Spec => []Exec!TypeOK
  BY GroupHasLivingMembers
<1>8. Sense!Spec => []Sense!TypeOK
  BY SensorsFitTheTable
<1>9. Stop!Spec => []Stop!TypeOK
  BY StopTypeCorrect
<1> QED
  BY <1>1, <1>2, <1>3, <1>4, <1>5, <1>6, <1>7, <1>8, <1>9, PTL DEF Spec, TypeOK

=============================================================================
