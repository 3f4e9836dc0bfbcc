---------------------------- MODULE ServiceProofs ----------------------------
(***************************************************************************)
(* Proofs about a service from its file to its process: ServiceFile, for   *)
(* every directory, every content of its files, every order in which they  *)
(* are read and every sequence of edits and reloads; and ServiceLaunch,    *)
(* for every configuration, every interleaving of lumid and its child, and *)
(* every failing system call.                                              *)
(***************************************************************************)
EXTENDS Userland, DataInduction, FiniteSetTheorems, SequenceTheorems

Records == {services[i] : i \in DOMAIN services}
Name(i) == services[i].text["name"]

\* service_register is the only place where the list changes.
LEMMA OnlyRegisterChanges ==
  ASSUME [Conf!Next]_(Conf!vars), ~UNCHANGED services
  PROVE  Conf!Valid(parsed) /\ ~Conf!Known(parsed) /\ services' = <<parsed>> \o services
BY DEF Conf!Next, Conf!vars, Conf!LoadAll, Conf!Read, Conf!ReadLine, Conf!OverrunKey,
     Conf!EndOfFile, Conf!EndOfDir, Conf!OpenFile, Conf!Edit, Conf!Register

\* What is put in front of a list is its first element, the list is the rest.
LEMMA InFront ==
  ASSUME NEW S, NEW l \in Seq(S), NEW s
  PROVE  /\ <<s>> \o l \in Seq(S \cup {s})
         /\ <<s>> \o l # <<>> /\ (<<s>> \o l)[1] = s
         /\ Tail(<<s>> \o l) = l
         /\ Len(<<s>> \o l) = Len(l) + 1
         /\ \A i \in 2 .. Len(l) + 1 : (<<s>> \o l)[i] = l[i - 1]
OBVIOUS

\* A list is a list of the records in it.
LEMMA ListOfItsRecords ==
  ASSUME NEW S, NEW l \in Seq(S) PROVE l \in Seq({l[i] : i \in DOMAIN l})
OBVIOUS

IsList == services \in Seq(Records)

\* No name is in the list twice: service_find, the control socket and the
\* dependency search mean the same record by a name.
OneServicePerName ==
  \A i, j \in 1 .. Len(services) : Name(i) = Name(j) => i = j

\* A step that changes the list puts the parsed service in front of it.
LEMMA ListStep ==
  ASSUME IsList, [Conf!Next]_(Conf!vars), ~UNCHANGED services
  PROVE  /\ IsList'
         /\ services' # <<>> /\ services'[1] = parsed /\ Tail(services') = services
         /\ Len(services) \in Nat /\ Len(services') = Len(services) + 1
         /\ \A i \in 2 .. Len(services') : services'[i] = services[i - 1]
<1>1. services' = <<parsed>> \o services
  BY OnlyRegisterChanges
<1>2. services' \in Seq(Records \cup {parsed})
  BY <1>1, InFront DEF IsList
<1>3. services' \in Seq({services'[i] : i \in DOMAIN services'})
  BY <1>2, ListOfItsRecords
<1>4. IsList'
  BY <1>3 DEF IsList, Records
<1>5. services \in Seq(Records) /\ Len(services) \in Nat
  BY DEF IsList
<1> QED
  BY <1>1, <1>4, <1>5, InFront

\* Every step leaves a list.
LEMMA ListStays == IsList /\ [Conf!Next]_(Conf!vars) => IsList'
<1>1. IsList /\ UNCHANGED services => IsList'
  BY DEF IsList, Records
<1> QED
  BY <1>1, ListStep

\* g_services is a list in every reachable state.
LEMMA ListAlways == Conf!Spec => []IsList
<1>1. Conf!Init => IsList
  <2>1. \A S : <<>> \in Seq(S)
    OBVIOUS
  <2>2. Conf!Init => services = <<>>
    BY DEF Conf!Init
  <2> QED
    BY <2>1, <2>2 DEF IsList
<1> QED
  BY <1>1, ListStays, PTL DEF Conf!Spec

\* Whatever is in the directory, however it is edited and in whatever order
\* readdir returns its files: a load replaces and removes no service, and adds
\* only services with a command and a new name (service_load_all,
\* service_register).
THEOREM ListGrowsByNewNames == Conf!Spec => GrowsByNewNames
<1> DEFINE Grows ==
      \/ UNCHANGED services
      \/ /\ services' # <<>> /\ Tail(services') = services
         /\ Conf!Valid(services'[1])
         /\ \A i \in 1 .. Len(services) :
              services[i].text["name"] # services'[1].text["name"]
<1>1. ASSUME IsList, [Conf!Next]_(Conf!vars), ~UNCHANGED services PROVE Grows
  <2>1. Conf!Valid(parsed) /\ ~Conf!Known(parsed)
    BY <1>1, OnlyRegisterChanges
  <2>2. \A i \in 1 .. Len(services) : services[i].text["name"] # parsed.text["name"]
    BY <2>1 DEF Conf!Known
  <2>3. services' # <<>> /\ services'[1] = parsed /\ Tail(services') = services
    BY <1>1, ListStep
  <2> QED
    BY <2>1, <2>2, <2>3
<1>2. IsList /\ [Conf!Next]_(Conf!vars) => [Grows]_(Conf!vars)
  BY <1>1
<1>3. Conf!Spec => [][Grows]_(Conf!vars)
  BY <1>2, ListAlways, PTL DEF Conf!Spec
<1> QED
  BY <1>3 DEF GrowsByNewNames, Conf!GrowsByNewNames

\* So a name means one service at any time, across all reloads.
THEOREM NamesStayUnique == Conf!Spec => []OneServicePerName
<1>1. Conf!Init => OneServicePerName
  <2>1. Conf!Init => services = <<>>
    BY DEF Conf!Init
  <2>2. services = <<>> => 1 .. Len(services) = {}
    OBVIOUS
  <2> QED
    BY <2>1, <2>2 DEF OneServicePerName
<1>2. ASSUME IsList, OneServicePerName, [Conf!Next]_(Conf!vars) PROVE OneServicePerName'
  <2>1. CASE UNCHANGED services
    BY <1>2, <2>1 DEF OneServicePerName, Name
  <2>2. CASE ~UNCHANGED services
    <3>1. /\ services'[1] = parsed
          /\ Len(services) \in Nat /\ Len(services') = Len(services) + 1
          /\ \A i \in 2 .. Len(services') : services'[i] = services[i - 1]
      BY <1>2, <2>2, ListStep
    <3>2. \A i \in 1 .. Len(services) : services[i].text["name"] # parsed.text["name"]
      BY <1>2, <2>2, OnlyRegisterChanges DEF Conf!Known
    <3> SUFFICES ASSUME NEW i \in 1 .. Len(services'), NEW j \in 1 .. Len(services'),
                        services'[i].text["name"] = services'[j].text["name"]
                 PROVE  i = j
      BY DEF OneServicePerName, Name
    <3>3. ASSUME NEW k \in 1 .. Len(services'), k # 1
          PROVE  k - 1 \in 1 .. Len(services) /\ services'[k] = services[k - 1]
      BY <3>1, <3>3
    <3>4. CASE i # 1 /\ j # 1
      <4>1. i - 1 = j - 1
        BY <3>3, <3>4, <1>2 DEF OneServicePerName, Name
      <4> QED
        BY <4>1, <3>1
    <3>5. CASE i = 1 \/ j = 1
      BY <3>1, <3>2, <3>3, <3>5
    <3> QED
      BY <3>4, <3>5
  <2> QED
    BY <2>1, <2>2
<1>3. IsList /\ OneServicePerName /\ [Conf!Next]_(Conf!vars) => OneServicePerName'
  BY <1>2
<1> QED
  BY <1>1, <1>3, ListAlways, PTL DEF Conf!Spec

-----------------------------------------------------------------------------
(* The parser: what is stored after n lines is what the first n lines say. *)

SettingUpto(file, sec, key, n) ==
  {i \in 1 .. n : file[i].kind = "pair" /\ file[i].name = key /\ Conf!SectionOf(file, i) = sec}
LastUpto(file, sec, key, n) ==
  LET i == Conf!Max(SettingUpto(file, sec, key, n) \cup {0})
  IN  IF i = 0 THEN Conf!NoText ELSE file[i].value
SizesUpto(file, key, n) ==
  {i \in SettingUpto(file, "cgroup", key, n) : file[i].value.unit \in DOMAIN Conf!Factor}
EnvUpto(file, n) ==
  {i \in 1 .. n : file[i].kind = "pair" /\ Conf!SectionOf(file, i) = "environment"}

\* The greatest member of a set is its Max.
LEMMA MaxIs ==
  ASSUME NEW S \in SUBSET Int, NEW m \in S, \A x \in S : x <= m
  PROVE  Conf!Max(S) = m
<1>1. \A y \in S : m >= y
  OBVIOUS
<1>2. \A x \in S : (\A y \in S : x >= y) => x = m
  OBVIOUS
<1>3. Conf!Max(S) \in S /\ \A y \in S : Conf!Max(S) >= y
  BY <1>1 DEF Conf!Max
<1> QED
  BY <1>2, <1>3

\* A line belongs to the section of the line before it, unless that line is a
\* header.
LEMMA SectionStep ==
  ASSUME NEW file \in Seq(Conf!Lines), NEW n \in Nat, n + 1 <= Len(file)
  PROVE  Conf!SectionOf(file, n + 2) =
           IF file[n + 1].kind = "header" THEN file[n + 1].name ELSE Conf!SectionOf(file, n + 1)
<1> DEFINE H(i) == {j \in 1 .. i - 1 : file[j].kind = "header"} \cup {0}
<1>1. \A i : Conf!SectionOf(file, i) = IF Conf!Max(H(i)) = 0 THEN "" ELSE file[Conf!Max(H(i))].name
  BY DEF Conf!SectionOf
<1>2. ASSUME file[n + 1].kind = "header" PROVE Conf!Max(H(n + 2)) = n + 1
  <2>1. H(n + 2) \in SUBSET Int /\ n + 1 \in H(n + 2) /\ \A x \in H(n + 2) : x <= n + 1
    BY <1>2
  <2> QED
    BY <2>1, MaxIs
<1>3. ASSUME file[n + 1].kind # "header" PROVE H(n + 2) = H(n + 1)
  BY <1>3
<1>4. n + 1 # 0
  OBVIOUS
<1> HIDE DEF H
<1>5. CASE file[n + 1].kind = "header"
  <2>1. Conf!SectionOf(file, n + 2) =
          IF Conf!Max(H(n + 2)) = 0 THEN "" ELSE file[Conf!Max(H(n + 2))].name
    BY <1>1
  <2> QED
    BY <1>2, <1>4, <1>5, <2>1
<1>6. CASE file[n + 1].kind # "header"
  BY <1>1, <1>3, <1>6, Zenon
<1> QED
  BY <1>5, <1>6

\* Before its first line a file is in no section.
LEMMA NoSection == ASSUME NEW file PROVE Conf!SectionOf(file, 1) = ""
<1>1. {j \in 1 .. 1 - 1 : file[j].kind = "header"} \cup {0} = {0}
  OBVIOUS
<1>2. Conf!Max({0}) = 0
  BY MaxIs
<1> QED
  BY <1>1, <1>2 DEF Conf!SectionOf

\* The last line that sets a key, with one line more.
LEMMA LastStep ==
  ASSUME NEW file, NEW sec, NEW key, NEW n \in Nat
  PROVE  LastUpto(file, sec, key, n + 1) =
           IF n + 1 \in SettingUpto(file, sec, key, n + 1) THEN file[n + 1].value
           ELSE LastUpto(file, sec, key, n)
<1> DEFINE S(i) == SettingUpto(file, sec, key, i)
<1>1. CASE n + 1 \in S(n + 1)
  <2>1. S(n + 1) \cup {0} \in SUBSET Int /\ n + 1 \in S(n + 1) \cup {0}
        /\ \A x \in S(n + 1) \cup {0} : x <= n + 1
    BY <1>1 DEF SettingUpto
  <2>2. Conf!Max(S(n + 1) \cup {0}) = n + 1
    BY <2>1, MaxIs
  <2> QED
    BY <1>1, <2>2 DEF LastUpto
<1>2. CASE n + 1 \notin S(n + 1)
  <2>1. S(n + 1) = S(n)
    BY <1>2 DEF SettingUpto
  <2> QED
    BY <1>2, <2>1 DEF LastUpto
<1> QED
  BY <1>1, <1>2

\* Nothing has been said before the first line.
LEMMA LastOfNone ==
  ASSUME NEW file, NEW sec, NEW key PROVE LastUpto(file, sec, key, 0) = Conf!NoText
<1>1. SettingUpto(file, sec, key, 0) \cup {0} = {0}
  BY DEF SettingUpto
<1>2. Conf!Max({0}) = 0
  BY MaxIs
<1> QED
  BY <1>1, <1>2 DEF LastUpto

-----------------------------------------------------------------------------
\* The fields of a service_t, as Store finds them.
Shape(s) ==
  /\ DOMAIN s = {"text", "deps", "type", "policy", "env", "num"}
  /\ DOMAIN s.text = Conf!TextKeys /\ DOMAIN s.deps = Conf!DepKeys /\ DOMAIN s.num = Conf!Numbers
  /\ s.env \in Seq(STRING \X STRING)

IsInt(sec, key) == sec \in DOMAIN Conf!IntKeys /\ key \in Conf!IntKeys[sec]

\* What a "key = value" line, with its number read as n, makes of s, field by
\* field.
Means(s, sec, key, v, n, t) ==
  /\ Shape(t)
  /\ \A k \in Conf!TextKeys : t.text[k] = IF sec = "service" /\ key = k THEN v.text ELSE s.text[k]
  /\ t.type = IF sec = "service" /\ key = "type" THEN Conf!ParseType(v.text) ELSE s.type
  /\ t.policy = IF sec = "restart" /\ key = "policy" THEN Conf!ParsePolicy(v.text) ELSE s.policy
  /\ \A k \in Conf!DepKeys :
       t.deps[k] = IF sec = "dependencies" /\ key = k THEN Conf!ParseDepList(v) ELSE s.deps[k]
  /\ \A k \in Conf!Numbers :
       t.num[k] = IF key = k /\ (IsInt(sec, key) \/ (sec = "cgroup" /\ key \in Conf!SizeKeys))
                  THEN n ELSE s.num[k]
  /\ t.env = IF sec = "environment" /\ Len(s.env) < MaxEnv
             THEN Append(s.env, <<key, v.text>>) ELSE s.env

\* What parse_service_file stores for one key, field by field.
LEMMA StoreEffect ==
  ASSUME NEW s, Shape(s), NEW sec, NEW key \in STRING, NEW v, v.text \in STRING,
         NEW n, NEW t, t = Conf!Store(s, sec, key, v, n)
  PROVE  Means(s, sec, key, v, n, t)
<1> USE DEF Means
<1>0. IsInt(sec, key) => /\ sec \in {"restart", "cgroup"} /\ key \in Conf!Numbers
                         /\ key # "policy" /\ key \notin Conf!SizeKeys
  BY DEF IsInt, Conf!IntKeys, Conf!Numbers, Conf!SizeKeys
<1>1. CASE sec = "service" /\ key \in Conf!TextKeys
  <2>1. t = [s EXCEPT !.text[key] = v.text]
    BY <1>0, <1>1 DEF Conf!Store, IsInt, Conf!TextKeys
  <2> QED
    BY <1>0, <1>1, <2>1 DEF Shape, Conf!TextKeys
<1>2. CASE sec = "service" /\ key = "type"
  <2>1. t = [s EXCEPT !.type = Conf!ParseType(v.text)]
    BY <1>0, <1>2 DEF Conf!Store, IsInt, Conf!TextKeys
  <2> QED
    BY <1>0, <1>2, <2>1 DEF Shape, Conf!TextKeys
<1>3. CASE sec = "dependencies" /\ key \in Conf!DepKeys
  <2>1. t = [s EXCEPT !.deps[key] = Conf!ParseDepList(v)]
    BY <1>0, <1>3 DEF Conf!Store, IsInt
  <2> QED
    BY <1>0, <1>3, <2>1 DEF Shape
<1>4. CASE sec = "restart" /\ key = "policy"
  <2>1. t = [s EXCEPT !.policy = Conf!ParsePolicy(v.text)]
    BY <1>0, <1>4 DEF Conf!Store, IsInt
  <2> QED
    BY <1>0, <1>4, <2>1 DEF Shape
<1>5. CASE IsInt(sec, key)
  <2>1. t = [s EXCEPT !.num[key] = n]
    BY <1>0, <1>5 DEF Conf!Store, IsInt
  <2> QED
    BY <1>0, <1>5, <2>1 DEF Shape
<1>6. CASE sec = "cgroup" /\ key \in Conf!SizeKeys
  <2>1. ~IsInt(sec, key) /\ key \in Conf!Numbers
    BY <1>6 DEF IsInt, Conf!IntKeys, Conf!SizeKeys, Conf!Numbers
  <2>2. t = [s EXCEPT !.num[key] = n]
    BY <1>6, <2>1 DEF Conf!Store, IsInt
  <2> QED
    BY <1>6, <2>1, <2>2 DEF Shape
<1>7. CASE sec = "environment" /\ Len(s.env) < MaxEnv
  <2>1. t = [s EXCEPT !.env = Append(@, <<key, v.text>>)]
    BY <1>0, <1>7 DEF Conf!Store, IsInt
  <2>2. t.env \in Seq(STRING \X STRING)
    BY <2>1 DEF Shape
  <2> QED
    BY <1>0, <1>7, <2>1, <2>2 DEF Shape
<1>8. CASE ~ \/ sec = "service" /\ key \in Conf!TextKeys
             \/ sec = "service" /\ key = "type"
             \/ sec = "dependencies" /\ key \in Conf!DepKeys
             \/ sec = "restart" /\ key = "policy"
             \/ IsInt(sec, key)
             \/ sec = "cgroup" /\ key \in Conf!SizeKeys
             \/ sec = "environment" /\ Len(s.env) < MaxEnv
  <2>1. t = s
    BY <1>8 DEF Conf!Store, IsInt
  <2> QED
    BY <1>8, <2>1
<1> QED
  BY <1>1, <1>2, <1>3, <1>4, <1>5, <1>6, <1>7, <1>8

-----------------------------------------------------------------------------
(* What is stored after n lines, part by part.                             *)

TextsUpto(file, s, n) ==
  /\ \A k \in Conf!TextKeys : s.text[k] = LastUpto(file, "service", k, n).text
  /\ s.type = Conf!ParseType(LastUpto(file, "service", "type", n).text)
  /\ s.policy = Conf!ParsePolicy(LastUpto(file, "restart", "policy", n).text)

ListsUpto(file, s, n) ==
  \A k \in Conf!DepKeys :
    /\ s.deps[k] = Conf!ParseDepList(LastUpto(file, "dependencies", k, n))
    /\ LastUpto(file, "dependencies", k, n).items \in Seq(STRING)

\* m is what n lines say of a number, as far as it fits.
IntUpto(file, sec, k, n, m) ==
  IF SettingUpto(file, sec, k, n) = {} THEN m = Conf!Created.num[k]
  ELSE LastUpto(file, sec, k, n).int \in Conf!CInt => m = LastUpto(file, sec, k, n).int
SizeUpto(file, k, n, m) ==
  LET i == Conf!Max(SizesUpto(file, k, n) \cup {0})
  IN  IF i = 0 THEN m = -1
      ELSE LET number == file[i].value.int
               size   == number * Conf!Factor[file[i].value.unit]
           IN  {number, size} \subseteq Conf!Int64 => m = size
NumbersUpto(file, s, n) ==
  /\ \A sec \in DOMAIN Conf!IntKeys : \A k \in Conf!IntKeys[sec] :
       IntUpto(file, sec, k, n, s.num[k])
  /\ \A k \in Conf!SizeKeys : SizeUpto(file, k, n, s.num[k])

Place(file, n, i) == Cardinality({j \in EnvUpto(file, n) : j <= i})
EnvironmentUpto(file, s, n) ==
  /\ IsFiniteSet(EnvUpto(file, n))
  /\ Len(s.env) = IF Cardinality(EnvUpto(file, n)) <= MaxEnv
                  THEN Cardinality(EnvUpto(file, n)) ELSE MaxEnv
  /\ \A i \in EnvUpto(file, n) : Place(file, n, i) <= MaxEnv =>
       s.env[Place(file, n, i)] = <<file[i].name, file[i].value.text>>

Stored(file, s, n) ==
  /\ Shape(s)
  /\ TextsUpto(file, s, n) /\ ListsUpto(file, s, n)
  /\ NumbersUpto(file, s, n) /\ EnvironmentUpto(file, s, n)

\* What ReadLine may make of the record.
AfterLine(file, s, n, t) ==
  LET line == file[n + 1]
  IN  IF line.kind = "pair"
      THEN \E m \in Conf!NumbersRead(s, line.name, line.value) :
             t = Conf!Store(s, Conf!SectionOf(file, n + 1), line.name, line.value, m)
      ELSE t = s

\* Line n + 1 sets this key of this section.
Here(file, sec, key, n) ==
  file[n + 1].kind = "pair" /\ file[n + 1].name = key /\ Conf!SectionOf(file, n + 1) = sec

\* The last line of a key so far is this line, if it is one of that key.
LEMMA HereIsLast ==
  ASSUME NEW file, NEW sec, NEW key, NEW n \in Nat
  PROVE  /\ Here(file, sec, key, n) =>
              LastUpto(file, sec, key, n + 1) = file[n + 1].value
         /\ ~Here(file, sec, key, n) =>
              LastUpto(file, sec, key, n + 1) = LastUpto(file, sec, key, n)
<1>1. Here(file, sec, key, n) <=> n + 1 \in SettingUpto(file, sec, key, n + 1)
  BY DEF Here, SettingUpto
<1> QED
  BY <1>1, LastStep

\* What line n + 1 makes of s, field by field.
Effect(file, n, s, t) ==
  /\ Shape(t)
  /\ \A k \in Conf!TextKeys :
       t.text[k] = IF Here(file, "service", k, n) THEN file[n + 1].value.text ELSE s.text[k]
  /\ t.type = IF Here(file, "service", "type", n)
              THEN Conf!ParseType(file[n + 1].value.text) ELSE s.type
  /\ t.policy = IF Here(file, "restart", "policy", n)
                THEN Conf!ParsePolicy(file[n + 1].value.text) ELSE s.policy
  /\ \A k \in Conf!DepKeys :
       t.deps[k] = IF Here(file, "dependencies", k, n)
                   THEN Conf!ParseDepList(file[n + 1].value) ELSE s.deps[k]
  /\ \A sec \in DOMAIN Conf!IntKeys : \A k \in Conf!IntKeys[sec] :
       IF Here(file, sec, k, n) THEN t.num[k] \in Conf!Atoi(file[n + 1].value)
                                ELSE t.num[k] = s.num[k]
  /\ \A k \in Conf!SizeKeys :
       IF Here(file, "cgroup", k, n) THEN t.num[k] \in Conf!ParseSize(file[n + 1].value, s.num[k])
                                     ELSE t.num[k] = s.num[k]
  /\ t.env = IF n + 1 \in EnvUpto(file, n + 1) /\ Len(s.env) < MaxEnv
             THEN Append(s.env, <<file[n + 1].name, file[n + 1].value.text>>) ELSE s.env

\* What one line does to the service, in terms of the file.
LEMMA LineEffect ==
  ASSUME NEW file \in Seq(Conf!Lines), NEW n \in Nat, n + 1 <= Len(file),
         NEW s, Shape(s), NEW t, AfterLine(file, s, n, t)
  PROVE  Effect(file, n, s, t)
<1> USE DEF Effect
<1> DEFINE v == file[n + 1].value
<1>0. n + 1 \in EnvUpto(file, n + 1) <=>
        file[n + 1].kind = "pair" /\ Conf!SectionOf(file, n + 1) = "environment"
  BY DEF EnvUpto
<1> DEFINE sec == Conf!SectionOf(file, n + 1)
           key == file[n + 1].name
<1>1. CASE file[n + 1].kind # "pair"
  BY <1>0, <1>1 DEF AfterLine, Here
<1>2. CASE file[n + 1].kind = "pair"
  <2>1. key \in STRING /\ v.text \in STRING
    <3>1. file[n + 1] \in Conf!Lines
      OBVIOUS
    <3> QED
      BY <3>1 DEF Conf!Lines
  <2>2. PICK m \in Conf!NumbersRead(s, key, v) : t = Conf!Store(s, sec, key, v, m)
    BY <1>2 DEF AfterLine
  <2>3. \A where, k : Here(file, where, k, n) <=> key = k /\ sec = where
    BY <1>2 DEF Here
  <2>4. \A where \in DOMAIN Conf!IntKeys : \A k \in Conf!IntKeys[where] :
          /\ k \in Conf!Numbers /\ k \notin Conf!SizeKeys
          /\ IsInt(sec, k) /\ key = k <=> Here(file, where, k, n)
    <3>1. ASSUME NEW where \in DOMAIN Conf!IntKeys, NEW k \in Conf!IntKeys[where]
          PROVE  /\ k \in Conf!Numbers /\ k \notin Conf!SizeKeys
                 /\ IsInt(sec, k) <=> sec = where
      BY DEF IsInt, Conf!IntKeys, Conf!Numbers, Conf!SizeKeys
    <3> QED
      BY <2>3, <3>1
  <2>5. \A k \in Conf!SizeKeys : k \in Conf!Numbers /\ ~IsInt(sec, k)
    BY DEF IsInt, Conf!IntKeys, Conf!Numbers, Conf!SizeKeys
  <2> HIDE DEF sec, key
  <2>6. Means(s, sec, key, v, m, t)
    BY <2>1, <2>2, StoreEffect
  <2>7. \A where \in DOMAIN Conf!IntKeys : \A k \in Conf!IntKeys[where] :
          IF Here(file, where, k, n) THEN t.num[k] \in Conf!Atoi(v) ELSE t.num[k] = s.num[k]
    <3> TAKE where \in DOMAIN Conf!IntKeys
    <3> TAKE k \in Conf!IntKeys[where]
    <3>1. CASE Here(file, where, k, n)
      <4>1. key = k /\ k \notin Conf!SizeKeys /\ k \in Conf!Numbers /\ IsInt(sec, key)
        BY <2>4, <3>1
      <4>2. m \in Conf!Atoi(v)
        BY <2>2, <4>1 DEF Conf!NumbersRead
      <4> QED
        BY <2>6, <3>1, <4>1, <4>2 DEF Means
    <3>2. CASE ~Here(file, where, k, n)
      BY <2>4, <2>6, <3>2 DEF Means
    <3> QED
      BY <3>1, <3>2
  <2>8. \A k \in Conf!SizeKeys :
          IF Here(file, "cgroup", k, n) THEN t.num[k] \in Conf!ParseSize(v, s.num[k])
                                        ELSE t.num[k] = s.num[k]
    <3> TAKE k \in Conf!SizeKeys
    <3>1. CASE Here(file, "cgroup", k, n)
      <4>1. key = k /\ sec = "cgroup"
        BY <2>3, <3>1
      <4>2. m \in Conf!ParseSize(v, s.num[k])
        BY <2>2, <4>1 DEF Conf!NumbersRead
      <4> QED
        BY <2>5, <2>6, <3>1, <4>1, <4>2 DEF Means
    <3>2. CASE ~Here(file, "cgroup", k, n)
      BY <2>3, <2>5, <2>6, <3>2 DEF Means
    <3> QED
      BY <3>1, <3>2
  <2> QED
    BY <1>0, <1>2, <2>3, <2>6, <2>7, <2>8 DEF Means, sec, key
<1> QED
  BY <1>1, <1>2

\* One more line, and texts are what the file says so far.
LEMMA TextsStep ==
  ASSUME NEW file, NEW n \in Nat, NEW s, NEW t, Effect(file, n, s, t),
         TextsUpto(file, s, n)
  PROVE  TextsUpto(file, t, n + 1)
BY HereIsLast DEF TextsUpto, Effect

\* One more line, and dependencies are what the file says so far.
LEMMA ListsStep ==
  ASSUME NEW file \in Seq(Conf!Lines), NEW n \in Nat, n + 1 <= Len(file),
         NEW s, NEW t, Effect(file, n, s, t), ListsUpto(file, s, n)
  PROVE  ListsUpto(file, t, n + 1)
<1>1. file[n + 1] \in Conf!Lines
  OBVIOUS
<1>2. file[n + 1].value.items \in Seq(STRING)
  BY <1>1 DEF Conf!Lines
<1> QED
  BY <1>2, HereIsLast DEF ListsUpto, Effect

\* A size that fits, and whose number fits, is read as written.
LEMMA SizeThatFits ==
  ASSUME NEW v, v.unit \in DOMAIN Conf!Factor, NEW old, NEW m \in Conf!ParseSize(v, old),
         v.int \in Conf!Int64, v.int * Conf!Factor[v.unit] \in Conf!Int64
  PROVE  m = v.int * Conf!Factor[v.unit]
<1>1. Half \in Nat
  BY FilesAreLines DEF Conf!FilesHaveLines
<1>2. Conf!Saturated(v.int) = v.int
  BY <1>1 DEF Conf!Saturated, Conf!Int64
<1> QED
  BY <1>2, Zenon DEF Conf!ParseSize

\* One more line, and numbers are what the file says so far.
LEMMA NumbersStep ==
  ASSUME NEW file, NEW n \in Nat, NEW s, NEW t, Effect(file, n, s, t),
         NumbersUpto(file, s, n)
  PROVE  NumbersUpto(file, t, n + 1)
<1>1. ASSUME NEW sec \in DOMAIN Conf!IntKeys, NEW k \in Conf!IntKeys[sec]
      PROVE  IntUpto(file, sec, k, n + 1, t.num[k])
  <2>1. IntUpto(file, sec, k, n, s.num[k])
    BY DEF NumbersUpto
  <2>2. CASE Here(file, sec, k, n)
    <3>1. n + 1 \in SettingUpto(file, sec, k, n + 1)
      BY <2>2 DEF Here, SettingUpto
    <3>2. t.num[k] \in Conf!Atoi(file[n + 1].value)
      BY <2>2 DEF Effect
    <3>3. LastUpto(file, sec, k, n + 1) = file[n + 1].value
      BY <2>2, HereIsLast
    <3> QED
      BY <3>1, <3>2, <3>3 DEF IntUpto, Conf!Atoi
  <2>3. CASE ~Here(file, sec, k, n)
    <3>1. SettingUpto(file, sec, k, n + 1) = SettingUpto(file, sec, k, n)
      BY <2>3 DEF Here, SettingUpto
    <3>2. t.num[k] = s.num[k]
      BY <2>3 DEF Effect
    <3> QED
      BY <2>1, <2>3, <3>1, <3>2, HereIsLast DEF IntUpto
  <2> QED
    BY <2>2, <2>3
<1>2. ASSUME NEW k \in Conf!SizeKeys PROVE SizeUpto(file, k, n + 1, t.num[k])
  <2> DEFINE v == file[n + 1].value
             Z(i) == SizesUpto(file, k, i)
  <2>1. SizeUpto(file, k, n, s.num[k])
    BY DEF NumbersUpto
  <2>2. IF Here(file, "cgroup", k, n) THEN t.num[k] \in Conf!ParseSize(v, s.num[k])
                                      ELSE t.num[k] = s.num[k]
    BY DEF Effect
  <2>3. n + 1 \in Z(n + 1) <=> Here(file, "cgroup", k, n) /\ v.unit \in DOMAIN Conf!Factor
    BY DEF SizesUpto, SettingUpto, Here
  <2>4. CASE n + 1 \in Z(n + 1)
    <3>1. Z(n + 1) \cup {0} \in SUBSET Int /\ n + 1 \in Z(n + 1) \cup {0}
          /\ \A x \in Z(n + 1) \cup {0} : x <= n + 1
      BY <2>4 DEF SizesUpto, SettingUpto
    <3>2. Conf!Max(Z(n + 1) \cup {0}) = n + 1
      BY <3>1, MaxIs
    <3>3. v.int \in Conf!Int64 /\ v.int * Conf!Factor[v.unit] \in Conf!Int64 =>
            t.num[k] = v.int * Conf!Factor[v.unit]
      BY <2>2, <2>3, <2>4, SizeThatFits
    <3>4. n + 1 # 0
      OBVIOUS
    <3> QED
      BY <3>2, <3>3, <3>4, Zenon DEF SizeUpto
  <2>5. CASE n + 1 \notin Z(n + 1)
    <3>1. Z(n + 1) = Z(n)
      BY <2>5 DEF SizesUpto, SettingUpto
    <3>2. t.num[k] = s.num[k]
      BY <2>2, <2>3, <2>5 DEF Conf!ParseSize
    <3> HIDE DEF Z
    <3>3. SizesUpto(file, k, n + 1) = SizesUpto(file, k, n)
      BY <3>1 DEF Z
    <3> QED
      BY <2>1, <3>2, <3>3, Zenon DEF SizeUpto
  <2> QED
    BY <2>4, <2>5
<1> QED
  BY <1>1, <1>2 DEF NumbersUpto

\* One more line, and the environment is what the file says so far.
LEMMA EnvironmentStep ==
  ASSUME NEW file, NEW n \in Nat, NEW s, s.env \in Seq(STRING \X STRING), MaxEnv \in Nat,
         NEW t, Effect(file, n, s, t), EnvironmentUpto(file, s, n)
  PROVE  EnvironmentUpto(file, t, n + 1)
<1> DEFINE E(i) == EnvUpto(file, i)
           P(m, i) == {j \in E(m) : j <= i}
           entry == <<file[n + 1].name, file[n + 1].value.text>>
<1>1. /\ IsFiniteSet(E(n)) /\ Cardinality(E(n)) \in Nat
      /\ Len(s.env) = IF Cardinality(E(n)) <= MaxEnv THEN Cardinality(E(n)) ELSE MaxEnv
  BY FS_CardinalityType DEF EnvironmentUpto
<1>2. \A i \in E(n) : Place(file, n, i) <= MaxEnv =>
        s.env[Place(file, n, i)] = <<file[i].name, file[i].value.text>>
  BY DEF EnvironmentUpto
<1>3. t.env = IF n + 1 \in E(n + 1) /\ Len(s.env) < MaxEnv THEN Append(s.env, entry) ELSE s.env
  BY DEF Effect
<1>4. E(n) \subseteq 1 .. n /\ E(n + 1) \subseteq E(n) \cup {n + 1} /\ E(n) \subseteq E(n + 1)
  BY DEF EnvUpto
<1>5. ASSUME NEW i \in E(n)
      PROVE  /\ Place(file, n + 1, i) = Place(file, n, i)
             /\ Place(file, n, i) \in 1 .. Cardinality(E(n))
  <2>1. P(n + 1, i) = P(n, i)
    BY <1>4
  <2>2. P(n, i) \subseteq E(n) /\ i \in P(n, i)
    BY <1>4
  <2>3. IsFiniteSet(P(n, i)) /\ Cardinality(P(n, i)) <= Cardinality(E(n))
    BY <1>1, <2>2, FS_Subset
  <2>4. Cardinality(P(n, i)) \in Nat /\ Cardinality(P(n, i)) # 0
    BY <2>2, <2>3, FS_CardinalityType, FS_EmptySet
  <2> HIDE DEF P, E
  <2>5. Place(file, n, i) = Cardinality(P(n, i))
        /\ Place(file, n + 1, i) = Cardinality(P(n + 1, i))
    BY DEF Place, P, E
  <2> QED
    BY <1>1, <2>1, <2>3, <2>4, <2>5
<1>6. CASE n + 1 \notin E(n + 1)
  <2>1. E(n + 1) = E(n)
    BY <1>4, <1>6
  <2> HIDE DEF E
  <2> QED
    BY <1>1, <1>2, <1>3, <1>5, <1>6, <2>1 DEF EnvironmentUpto, E
<1>7. CASE n + 1 \in E(n + 1)
  <2>1. E(n + 1) = E(n) \cup {n + 1} /\ n + 1 \notin E(n)
    BY <1>4, <1>7
  <2>2. IsFiniteSet(E(n + 1)) /\ Cardinality(E(n + 1)) = Cardinality(E(n)) + 1
    BY <1>1, <2>1, FS_AddElement
  <2>3. P(n + 1, n + 1) = E(n + 1)
    BY <1>4
  <2>4. Place(file, n + 1, n + 1) = Cardinality(E(n)) + 1
    BY <2>2, <2>3 DEF Place
  <2> HIDE DEF E
  <2>5. Len(t.env) = IF Cardinality(E(n + 1)) <= MaxEnv THEN Cardinality(E(n + 1)) ELSE MaxEnv
    BY <1>1, <1>3, <1>7, <2>2
  <2>6. \A j \in 1 .. Len(s.env) : t.env[j] = s.env[j]
    BY <1>3
  <2>7. \A i \in E(n) : Place(file, n + 1, i) <= MaxEnv =>
          t.env[Place(file, n + 1, i)] = <<file[i].name, file[i].value.text>>
    BY <1>1, <1>2, <1>5, <2>6
  <2>8. Place(file, n + 1, n + 1) <= MaxEnv => t.env[Place(file, n + 1, n + 1)] = entry
    BY <1>1, <1>3, <1>7, <2>4
  <2> QED
    BY <2>1, <2>2, <2>5, <2>7, <2>8 DEF EnvironmentUpto, E
<1> QED
  BY <1>6, <1>7

\* A line read, all parts together.
LEMMA StoredStep ==
  ASSUME NEW file \in Seq(Conf!Lines), NEW n \in Nat, n + 1 <= Len(file), MaxEnv \in Nat,
         NEW s, Stored(file, s, n), NEW t, AfterLine(file, s, n, t)
  PROVE  Stored(file, t, n + 1)
<1>1. Shape(s) /\ s.env \in Seq(STRING \X STRING)
  BY DEF Stored, Shape
<1>2. Effect(file, n, s, t)
  BY <1>1, LineEffect
<1>3. /\ TextsUpto(file, s, n) /\ ListsUpto(file, s, n)
      /\ NumbersUpto(file, s, n) /\ EnvironmentUpto(file, s, n)
  BY DEF Stored
<1>4. Shape(t)
  BY <1>2 DEF Effect
<1>5. TextsUpto(file, t, n + 1) /\ ListsUpto(file, t, n + 1)
  BY <1>2, <1>3, TextsStep, ListsStep
<1>6. NumbersUpto(file, t, n + 1) /\ EnvironmentUpto(file, t, n + 1)
  BY <1>1, <1>2, <1>3, NumbersStep, EnvironmentStep
<1> QED
  BY <1>4, <1>5, <1>6 DEF Stored

\* What service_create fills in is what no line says.
LEMMA CreatedSaysNothing ==
  ASSUME NEW file, MaxDeps \in Nat, MaxEnv \in Nat PROVE Stored(file, Conf!Created, 0)
<1>1. /\ \A k \in Conf!TextKeys : Conf!Created.text[k] = ""
      /\ \A k \in Conf!DepKeys : Conf!Created.deps[k] = <<>>
      /\ Conf!Created.type = "SIMPLE" /\ Conf!Created.policy = "NEVER" /\ Conf!Created.env = <<>>
  BY DEF Conf!Created
<1>2. Shape(Conf!Created)
  <2>1. DOMAIN Conf!Created = {"text", "deps", "type", "policy", "env", "num"}
    BY DEF Conf!Created
  <2>2. /\ DOMAIN Conf!Created.text = Conf!TextKeys /\ DOMAIN Conf!Created.deps = Conf!DepKeys
        /\ DOMAIN Conf!Created.num = Conf!Numbers
    BY DEF Conf!Created
  <2>3. <<>> \in Seq(STRING \X STRING)
    OBVIOUS
  <2> QED
    BY <1>1, <2>1, <2>2, <2>3 DEF Shape
<1>3. /\ Conf!NoText.text = "" /\ Conf!NoText.items = <<>> /\ Conf!ParseDepList(Conf!NoText) = <<>>
      /\ Conf!ParseType("") = "SIMPLE" /\ Conf!ParsePolicy("") = "NEVER"
  BY DEF Conf!NoText, Conf!Value, Conf!ParseType, Conf!ParsePolicy, Conf!ParseDepList,
       Conf!FirstOf
<1>4. TextsUpto(file, Conf!Created, 0)
  BY <1>1, <1>3, LastOfNone DEF TextsUpto
<1>5. ListsUpto(file, Conf!Created, 0)
  <2>1. <<>> \in Seq(STRING)
    OBVIOUS
  <2> QED
    BY <1>1, <1>3, <2>1, LastOfNone DEF ListsUpto
<1>6. NumbersUpto(file, Conf!Created, 0)
  <2>1. \A sec, k : SettingUpto(file, sec, k, 0) = {}
    BY DEF SettingUpto
  <2>2. \A k : SizesUpto(file, k, 0) \cup {0} = {0}
    BY <2>1 DEF SizesUpto
  <2>3. Conf!Max({0}) = 0
    BY MaxIs
  <2>4. \A k \in Conf!SizeKeys : SizeUpto(file, k, 0, Conf!Created.num[k])
    BY <2>2, <2>3 DEF SizeUpto, Conf!Created, Conf!SizeKeys, Conf!Numbers
  <2> QED
    BY <2>1, <2>4 DEF NumbersUpto, IntUpto
<1>7. EnvironmentUpto(file, Conf!Created, 0)
  <2>1. EnvUpto(file, 0) = {}
    BY DEF EnvUpto
  <2>2. IsFiniteSet({}) /\ Cardinality({}) = 0
    BY FS_EmptySet
  <2>3. Len(<<>>) = 0
    OBVIOUS
  <2>4. Len(Conf!Created.env) = Cardinality(EnvUpto(file, 0))
    BY <1>1, <2>1, <2>2, <2>3, Zenon
  <2>5. Cardinality(EnvUpto(file, 0)) <= MaxEnv
    BY <2>1, <2>2
  <2> QED
    BY <2>1, <2>2, <2>4, <2>5 DEF EnvironmentUpto
<1> QED
  BY <1>2, <1>4, <1>5, <1>6, <1>7 DEF Stored

\* FirstOf is a prefix, of m elements or of all.
LEMMA FirstOfIsPrefix ==
  ASSUME NEW S, NEW q \in Seq(S), NEW m \in Nat
  PROVE  /\ Conf!IsPrefix(Conf!FirstOf(q, m), q)
         /\ Len(Conf!FirstOf(q, m)) = m \/ Conf!FirstOf(q, m) = q
<1> DEFINE h == IF Len(q) <= m THEN Len(q) ELSE m
           p == SubSeq(q, 1, h)
<1>1. h \in Nat /\ h <= Len(q) /\ p = Conf!FirstOf(q, m)
  BY DEF Conf!FirstOf
<1>2. p \in Seq(S) /\ Len(p) = h
  BY <1>1
<1>3. SubSeq(p, 1, h) = p
  BY <1>1, <1>2
<1>4. h = m \/ p = q
  BY <1>1
<1> QED
  BY <1>1, <1>2, <1>3, <1>4 DEF Conf!IsPrefix

\* Cardinality is the same, whoever extends FiniteSets.
LEMMA ConfCardinality == \A S : Conf!Cardinality(S) = Cardinality(S)
BY DEF Conf!Cardinality, Cardinality

\* After the last line, what is stored is what the file says as a whole.
LEMMA StoredIsSaid ==
  ASSUME NEW file \in Seq(Conf!Lines), MaxDeps \in Nat, MaxEnv \in Nat,
         NEW s, Stored(file, s, Len(file))
  PROVE  Conf!Says(file, s)
<1>1. \A sec, key : /\ SettingUpto(file, sec, key, Len(file)) = Conf!Setting(file, sec, key)
                    /\ LastUpto(file, sec, key, Len(file)) = Conf!LastLine(file, sec, key)
  BY DEF SettingUpto, Conf!Setting, LastUpto, Conf!LastLine
<1>2. Conf!SaysTexts(file, s)
  BY <1>1 DEF Stored, TextsUpto, Conf!SaysTexts
<1>3. Conf!SaysLists(file, s)
  <2> SUFFICES ASSUME NEW k \in Conf!DepKeys
               PROVE  LET items == Conf!LastLine(file, "dependencies", k).items
                      IN  /\ Conf!IsPrefix(s.deps[k], items)
                          /\ Len(s.deps[k]) = MaxDeps \/ s.deps[k] = items
    BY DEF Conf!SaysLists
  <2> DEFINE v == Conf!LastLine(file, "dependencies", k)
  <2>1. v.items \in Seq(STRING)
    BY <1>1 DEF Stored, ListsUpto
  <2>2. s.deps[k] = Conf!FirstOf(v.items, MaxDeps)
    BY <1>1 DEF Stored, ListsUpto, Conf!ParseDepList
  <2> QED
    BY <2>1, <2>2, FirstOfIsPrefix
<1>4. Conf!SaysNumbers(file, s)
  <2>1. \A k : SizesUpto(file, k, Len(file)) = Conf!Sizes(file, k)
    BY <1>1 DEF SizesUpto, Conf!Sizes
  <2> QED
    BY <1>1, <2>1 DEF Stored, NumbersUpto, IntUpto, SizeUpto, Conf!SaysNumbers
<1>5. Conf!SaysEnvironment(file, s)
  BY ConfCardinality DEF Stored, EnvironmentUpto, EnvUpto, Place, Conf!SaysEnvironment
<1> QED
  BY <1>2, <1>3, <1>4, <1>5 DEF Conf!Says

-----------------------------------------------------------------------------
(* The same as invariants of the loader.                                   *)

\* In the middle of a file the first n lines are stored and the rest is to be
\* read.
Parsing ==
  confPc = "parse" =>
    /\ source \in Seq(Conf!Lines)
    /\ \E n \in 0 .. Len(source) :
         /\ lines = SubSeq(source, n + 1, Len(source))
         /\ section = Conf!SectionOf(source, n + 1)
         /\ Stored(source, parsed, n)

DirOK == dir \in [FileNames -> Contents]

\* Every file is a sequence of lines in every reachable state.
LEMMA DirAlways == Conf!Spec => []DirOK
<1>1. Conf!Init => DirOK
  BY DEF Conf!Init, DirOK
<1>2. DirOK /\ [Conf!Next]_(Conf!vars) => DirOK'
  BY DEF DirOK, Conf!Next, Conf!vars, Conf!LoadAll, Conf!Read, Conf!ReadLine, Conf!EndOfFile,
       Conf!OverrunKey, Conf!EndOfDir, Conf!OpenFile, Conf!Edit
<1> QED
  BY <1>1, <1>2, PTL DEF Conf!Spec

\* What is left of a file when nothing of it is read, and when all of it is.
LEMMA RestOf ==
  ASSUME NEW S, NEW q \in Seq(S)
  PROVE  /\ Len(q) \in Nat /\ SubSeq(q, 1, Len(q)) = q
         /\ \A n \in 0 .. Len(q) : SubSeq(q, n + 1, Len(q)) = <<>> => n = Len(q)
<1>1. Len(q) \in Nat /\ SubSeq(q, 1, Len(q)) = q
  OBVIOUS
<1>2. ASSUME NEW n \in 0 .. Len(q), n # Len(q) PROVE SubSeq(q, n + 1, Len(q)) # <<>>
  <2>0. PICK m \in Nat : m = Len(q)
    BY <1>1
  <2>1. n + 1 <= Len(q) /\ n + 1 \in Int /\ Len(q) \in Int /\ Len(q) - (n + 1) + 1 # 0
    <3>1. n \in 0 .. m /\ n # m
      BY <1>2, <2>0
    <3>2. n + 1 <= m /\ n + 1 \in Int /\ m \in Int /\ m - (n + 1) + 1 # 0
      BY <3>1
    <3> QED
      BY <2>0, <3>2
  <2>2. \A i \in (n + 1) .. Len(q) : q[i] \in S
    BY <1>1
  <2>3. Len(SubSeq(q, n + 1, Len(q))) # 0
    BY <2>1, <2>2, SubSeqProperties
  <2>4. Len(<<>>) = 0
    OBVIOUS
  <2> QED
    BY <2>3, <2>4
<1> QED
  BY <1>1, <1>2

\* One step of the parser keeps what is parsed to the lines read.
LEMMA ParsingStep ==
  ASSUME DirOK, Parsing, [Conf!Next]_(Conf!vars) PROVE Parsing'
<1>1. CASE UNCHANGED <<source, lines, section, parsed, confPc>>
  BY <1>1 DEF Parsing
<1>2. ASSUME NEW f \in FileNames, Conf!Opens(f) PROVE Parsing'
  <2> DEFINE q == dir[f]
  <2>1. source' = q /\ lines' = q /\ section' = "" /\ parsed' = Conf!Created
    BY <1>2 DEF Conf!Opens
  <2>2. q \in Seq(Conf!Lines) /\ MaxDeps \in Nat /\ MaxEnv \in Nat
    BY FilesAreLines DEF Conf!FilesHaveLines, DirOK
  <2> HIDE DEF q
  <2>3. Len(q) \in Nat /\ lines' = SubSeq(q, 1, Len(q))
    BY <2>1, <2>2, RestOf
  <2>4. section' = Conf!SectionOf(q, 1)
    BY <2>1, NoSection
  <2>5. Stored(q, Conf!Created, 0)
    BY <2>2, CreatedSaysNothing
  <2>6. 0 \in 0 .. Len(q) /\ 0 + 1 = 1
    BY <2>3
  <2> QED
    BY <2>1, <2>2, <2>3, <2>4, <2>5, <2>6 DEF Parsing
<1>3. CASE Conf!ReadLine
  <2>1. /\ confPc = "parse" /\ lines # <<>> /\ lines' = Tail(lines) /\ source' = source
        /\ source \in Seq(Conf!Lines)
    BY <1>3 DEF Conf!ReadLine, Parsing
  <2>2. PICK n \in 0 .. Len(source) :
          /\ lines = SubSeq(source, n + 1, Len(source))
          /\ section = Conf!SectionOf(source, n + 1)
          /\ Stored(source, parsed, n)
    BY <2>1 DEF Parsing
  <2>3. n \in Nat /\ n + 1 <= Len(source) /\ MaxEnv \in Nat
    BY <2>1, <2>2, FilesAreLines DEF Conf!FilesHaveLines
  <2>4. Head(lines) = source[n + 1] /\ lines' = SubSeq(source, n + 2, Len(source))
    BY <2>1, <2>2, <2>3
  <2>5. section' = IF source[n + 1].kind = "header" THEN source[n + 1].name ELSE section
    BY <1>3, <2>4 DEF Conf!ReadLine, Conf!SectionAfter
  <2>6. section' = Conf!SectionOf(source, n + 2)
    BY <2>1, <2>2, <2>3, <2>5, SectionStep
  <2>7. AfterLine(source, parsed, n, parsed')
    BY <1>3, <2>2, <2>4 DEF Conf!ReadLine, AfterLine
  <2>8. Stored(source, parsed', n + 1)
    BY <2>1, <2>2, <2>3, <2>7, StoredStep
  <2>9. n + 1 \in 0 .. Len(source') /\ n + 2 = (n + 1) + 1
    BY <2>1, <2>3
  <2> QED
    BY <2>1, <2>4, <2>6, <2>8, <2>9 DEF Parsing
<1>4. CASE confPc' # "parse"
  BY <1>4 DEF Parsing
<1> QED
  BY <1>1, <1>2, <1>3, <1>4
  DEF Conf!Next, Conf!vars, Conf!LoadAll, Conf!Read, Conf!OverrunKey, Conf!OpenFile,
      Conf!OpenFails, Conf!EndOfFile, Conf!EndOfDir, Conf!Edit

\* What is parsed is what the lines read so far say.
LEMMA ParsingAlways == Conf!Spec => []Parsing
<1>1. Conf!Init => Parsing
  BY DEF Conf!Init, Parsing
<1>2. DirOK /\ Parsing /\ [Conf!Next]_(Conf!vars) => Parsing'
  BY ParsingStep
<1> QED
  BY <1>1, <1>2, DirAlways, PTL DEF Conf!Spec

\* At the end of its file a service is what its file says.
LEMMA ReadToTheEnd == Parsing => ParsedAsWritten
<1> SUFFICES ASSUME Parsing, confPc = "parse", lines = <<>>
             PROVE  Conf!Says(source, parsed)
  BY DEF ParsedAsWritten, Conf!ParsedAsWritten
<1>1. source \in Seq(Conf!Lines)
  BY DEF Parsing
<1>2. PICK n \in 0 .. Len(source) :
        lines = SubSeq(source, n + 1, Len(source)) /\ Stored(source, parsed, n)
  BY DEF Parsing
<1>3. n = Len(source)
  BY <1>1, <1>2, RestOf
<1>4. Stored(source, parsed, Len(source)) /\ MaxDeps \in Nat /\ MaxEnv \in Nat
  BY <1>2, <1>3, FilesAreLines DEF Conf!FilesHaveLines
<1> QED
  BY <1>1, <1>4, StoredIsSaid

\* Whatever the files contain, in whatever order they are read: what
\* config_parse_service has put into the record at the end of a file is what
\* the file says as a whole.  Of a number that does not fit, and of a file with
\* a key that overruns key[128], it says nothing.
THEOREM ParserKeepsWhatIsWritten == Conf!Spec => []ParsedAsWritten
BY ParsingAlways, ReadToTheEnd, PTL

-----------------------------------------------------------------------------
(* No file keeps another from being loaded.                                *)

NameIn(f) == Conf!LastLine(dir[f], "service", "name").text
ExecIn(f) == Conf!LastLine(dir[f], "service", "exec").text
Listed(name) == \E i \in 1 .. Len(services) : services[i].text["name"] = name
Served(f) == NameIn(f) # "" /\ ExecIn(f) # "" => Listed(NameIn(f))

\* Every file that was opened since the load began and that nobody edited is
\* served, but for the open one.
Serving ==
  /\ fresh \subseteq FileNames
  /\ confPc = "readdir" => \A f \in fresh \ todo : Served(f)
  /\ confPc = "parse" => \E open \in FileNames :
       source = dir[open] /\ \A f \in fresh \ todo : f # open => Served(f)
  /\ confPc = "idle" => \A f \in fresh : Served(f)

\* The list loses nothing.
LEMMA ListedStays ==
  ASSUME IsList, [Conf!Next]_(Conf!vars), NEW name, Listed(name) PROVE Listed(name)'
<1>1. CASE UNCHANGED services
  BY <1>1 DEF Listed
<1>2. CASE ~UNCHANGED services
  <2>1. PICK i \in 1 .. Len(services) : services[i].text["name"] = name
    BY DEF Listed
  <2>2. /\ Len(services) \in Nat /\ Len(services') = Len(services) + 1
        /\ \A j \in 2 .. Len(services') : services'[j] = services[j - 1]
    BY <1>2, ListStep
  <2>3. i + 1 \in 2 .. Len(services') /\ (i + 1) - 1 = i /\ i + 1 \in 1 .. Len(services')
    BY <2>1, <2>2
  <2> QED
    BY <2>1, <2>2, <2>3 DEF Listed
<1> QED
  BY <1>1, <1>2

\* A file that is served stays so as long as it does not change.
LEMMA ServedStays ==
  ASSUME IsList, [Conf!Next]_(Conf!vars), NEW f, dir'[f] = dir[f], Served(f) PROVE Served(f)'
<1>1. NameIn(f)' = NameIn(f) /\ ExecIn(f)' = ExecIn(f)
  BY DEF NameIn, ExecIn, Conf!LastLine, Conf!Setting, Conf!SectionOf
<1>2. PICK name : name = NameIn(f)
  OBVIOUS
<1>3. Listed(name) => Listed(name)'
  BY ListedStays
<1> QED
  BY <1>1, <1>2, <1>3 DEF Served

\* At the end of a file its service is in the list, under its name.
LEMMA FileIsServed ==
  ASSUME IsList, ParsedAsWritten, Conf!EndOfFile, NEW f \in FileNames, source = dir[f]
  PROVE  Served(f)'
<1>1. Conf!Says(dir[f], parsed)
  BY DEF ParsedAsWritten, Conf!ParsedAsWritten, Conf!EndOfFile
<1>2. parsed.text["name"] = NameIn(f) /\ parsed.text["exec"] = ExecIn(f)
  BY <1>1 DEF Conf!Says, Conf!SaysTexts, Conf!TextKeys, NameIn, ExecIn
<1>3. dir' = dir /\ services' = IF Conf!Valid(parsed) THEN Conf!Register(parsed) ELSE services
  BY DEF Conf!EndOfFile
<1>4. NameIn(f)' = NameIn(f) /\ ExecIn(f)' = ExecIn(f)
  BY <1>3 DEF NameIn, ExecIn, Conf!LastLine, Conf!Setting, Conf!SectionOf
<1>5. PICK name : name = NameIn(f)
  OBVIOUS
<1>6. ASSUME name # "", ExecIn(f) # "" PROVE Listed(name)'
  <2>1. Conf!Valid(parsed)
    BY <1>2, <1>5, <1>6 DEF Conf!Valid
  <2>2. CASE Conf!Known(parsed)
    BY <1>2, <1>3, <1>5, <2>1, <2>2 DEF Conf!Known, Conf!Register, Listed
  <2>3. CASE ~Conf!Known(parsed)
    <3>1. services' = <<parsed>> \o services
      BY <1>3, <2>1, <2>3 DEF Conf!Register
    <3>2. services'[1] = parsed /\ Len(services') = Len(services) + 1 /\ Len(services) \in Nat
      BY <3>1, InFront DEF IsList
    <3>3. 1 \in 1 .. Len(services')
      BY <3>2
    <3> QED
      BY <1>2, <1>5, <3>2, <3>3 DEF Listed
  <2> QED
    BY <2>2, <2>3
<1> QED
  BY <1>4, <1>5, <1>6 DEF Served

\* One step of the loader keeps the files behind it served.
LEMMA ServingStep ==
  ASSUME IsList, DirOK, ParsedAsWritten, Serving, [Conf!Next]_(Conf!vars) PROVE Serving'
<1>0. ASSUME UNCHANGED dir, NEW f, Served(f) PROVE Served(f)'
  BY <1>0, ServedStays
<1>1. CASE UNCHANGED Conf!vars
  <2>1. UNCHANGED <<dir, source, todo, fresh, confPc>>
    BY <1>1 DEF Conf!vars
  <2> QED
    BY <1>0, <2>1 DEF Serving
<1>2. CASE Conf!LoadAll
  <2>1. UNCHANGED <<dir, source>> /\ confPc = "idle"
    BY <1>2 DEF Conf!LoadAll
  <2>2. CASE confPc' = "readdir" /\ todo' = FileNames /\ fresh' = FileNames
    BY <2>2 DEF Serving
  <2>3. CASE UNCHANGED <<confPc, todo, fresh>>
    BY <1>0, <2>1, <2>3 DEF Serving
  <2> QED
    BY <1>2, <2>2, <2>3 DEF Conf!LoadAll
<1>3. ASSUME NEW open \in FileNames, Conf!OpenFile(open) PROVE Serving'
  <2>1. confPc = "readdir" /\ todo' = todo \ {open} /\ UNCHANGED dir
    BY <1>3 DEF Conf!OpenFile
  <2>2. \A f \in fresh \ todo : Served(f)'
    BY <1>0, <2>1 DEF Serving
  <2>3. CASE Conf!Opens(open)
    <3>1. confPc' = "parse" /\ source' = dir[open] /\ fresh' = fresh
      BY <2>3 DEF Conf!Opens
    <3> QED
      BY <2>1, <2>2, <3>1 DEF Serving
  <2>4. CASE Conf!OpenFails(open)
    <3>1. confPc' = confPc /\ fresh' = fresh \ {open}
      BY <2>4 DEF Conf!OpenFails
    <3> QED
      BY <2>1, <2>2, <3>1 DEF Serving
  <2> QED
    BY <1>3, <2>3, <2>4 DEF Conf!OpenFile
<1>4. CASE Conf!ReadLine
  <2>1. confPc = "parse" /\ UNCHANGED <<dir, source, todo, fresh, confPc>>
    BY <1>4 DEF Conf!ReadLine
  <2> QED
    BY <1>0, <2>1 DEF Serving
<1>5. CASE Conf!OverrunKey
  BY <1>5 DEF Conf!OverrunKey, Serving
<1>6. CASE Conf!EndOfFile
  <2>1. confPc = "parse" /\ confPc' = "readdir" /\ UNCHANGED <<dir, todo, fresh>>
    BY <1>6 DEF Conf!EndOfFile
  <2>2. PICK open \in FileNames :
          source = dir[open] /\ \A f \in fresh \ todo : f # open => Served(f)
    BY <2>1 DEF Serving
  <2>3. Served(open)'
    BY <1>6, <2>2, FileIsServed
  <2>4. \A f \in fresh' \ todo' : Served(f)'
    BY <1>0, <2>1, <2>2, <2>3
  <2> QED
    BY <2>1, <2>4 DEF Serving
<1>7. CASE Conf!EndOfDir
  <2>1. confPc = "readdir" /\ confPc' = "idle" /\ todo = {} /\ UNCHANGED <<dir, fresh>>
    BY <1>7 DEF Conf!EndOfDir, Conf!LoadDone
  <2> QED
    BY <1>0, <2>1 DEF Serving
<1>8. ASSUME NEW e \in FileNames, NEW c \in Contents, Conf!Edit(e, c) PROVE Serving'
  <2>1. confPc = "idle" /\ confPc' = confPc /\ fresh' = fresh \ {e}
    BY <1>8 DEF Conf!Edit
  <2>2. \A f \in fresh' : dir'[f] = dir[f]
    BY <1>8, <2>1 DEF Conf!Edit, Serving, DirOK
  <2>3. \A f \in fresh' : Served(f)'
    BY <2>1, <2>2, ServedStays DEF Serving
  <2> QED
    BY <2>1, <2>3 DEF Serving
<1> QED
  BY <1>1, <1>2, <1>3, <1>4, <1>5, <1>6, <1>7, <1>8 DEF Conf!Next, Conf!Read

\* Whatever the files contain, however they are edited, in whatever order
\* readdir returns them, and whichever cannot be opened: after a load every name
\* that one of the others gives with a command has its service
\* (service_load_all, config_parse_service, service_register).
THEOREM GoodFilesAreServed == Conf!Spec => []EveryGoodFileServed
<1>1. Conf!Init => Serving
  BY DEF Conf!Init, Serving
<1>2. IsList /\ DirOK /\ ParsedAsWritten /\ Serving /\ [Conf!Next]_(Conf!vars) => Serving'
  BY ServingStep
<1>3. Serving => EveryGoodFileServed
  BY DEF Serving, Served, Listed, NameIn, ExecIn, EveryGoodFileServed, Conf!EveryGoodFileServed
<1> QED
  BY <1>1, <1>2, <1>3, ListAlways, DirAlways, ParserKeepsWhatIsWritten, PTL DEF Conf!Spec


-----------------------------------------------------------------------------
(* Types: the bounds of the arrays and of the numbers in a record.         *)

\* A record of a service, with its two kinds of lists within their arrays and
\* its sizes within int64_t.
Bounded(s) ==
  /\ Shape(s)
  /\ Len(s.env) <= MaxEnv
  /\ \A k \in Conf!DepKeys : Len(s.deps[k]) <= MaxDeps
  /\ \A k \in Conf!SizeKeys : s.num[k] \in Conf!Int64

\* util_parse_size yields a number that fits its width.
LEMMA ParsedSizesFit ==
  ASSUME NEW v, NEW old \in Conf!Int64 PROVE Conf!ParseSize(v, old) \subseteq Conf!Int64
  BY Zenon DEF Conf!ParseSize

\* config_parse_dep_list takes the first tokens that fit.
LEMMA DepsFit ==
  ASSUME NEW v \in [text : STRING, items : Seq(STRING), int : Int, unit : STRING]
  PROVE  Conf!ParseDepList(v) \in Seq(STRING) /\ Len(Conf!ParseDepList(v)) <= MaxDeps
<1>1. MaxDeps \in Nat
  BY FilesAreLines DEF Conf!FilesHaveLines
<1>2. v.items \in Seq(STRING)
  OBVIOUS
<1> QED
  BY <1>1, <1>2 DEF Conf!ParseDepList, Conf!FirstOf

\* A line that is stored leaves the record within its bounds.
LEMMA StoreKeepsBounds ==
  ASSUME NEW s, Bounded(s), NEW sec, NEW key \in STRING,
         NEW v \in [text : STRING, items : Seq(STRING), int : Int, unit : STRING],
         NEW n \in Conf!NumbersRead(s, key, v)
  PROVE  Bounded(Conf!Store(s, sec, key, v, n))
<1> DEFINE t == Conf!Store(s, sec, key, v, n)
<1>1. Means(s, sec, key, v, n, t)
  BY StoreEffect DEF Bounded
<1> HIDE DEF t
<1>2. Shape(t)
  BY <1>1 DEF Means
<1>3. Len(t.env) <= MaxEnv
  <2>1. MaxEnv \in Nat
    BY FilesAreLines DEF Conf!FilesHaveLines
  <2>2. s.env \in Seq(STRING \X STRING) /\ Len(s.env) <= MaxEnv
    BY DEF Bounded, Shape
  <2>3. t.env = s.env \/ (Len(s.env) < MaxEnv /\ t.env = Append(s.env, <<key, v.text>>))
    BY <1>1 DEF Means
  <2> QED
    BY <2>1, <2>2, <2>3
<1>4. ASSUME NEW k \in Conf!DepKeys PROVE Len(t.deps[k]) <= MaxDeps
  <2>1. t.deps[k] = Conf!ParseDepList(v) \/ t.deps[k] = s.deps[k]
    BY <1>1 DEF Means
  <2> QED
    BY <2>1, DepsFit DEF Bounded
<1>5. ASSUME NEW k \in Conf!SizeKeys PROVE t.num[k] \in Conf!Int64
  <2>1. k \in Conf!Numbers
    BY DEF Conf!Numbers
  <2>2. ~(IsInt(sec, key) /\ key = k)
    BY DEF IsInt, Conf!IntKeys, Conf!SizeKeys
  <2>3. t.num[k] \in Conf!ParseSize(v, s.num[k]) \/ t.num[k] = s.num[k]
    BY <1>1, <2>1, <2>2 DEF Means, Conf!NumbersRead
  <2>4. s.num[k] \in Conf!Int64
    BY DEF Bounded
  <2> QED
    BY <2>3, <2>4, ParsedSizesFit
<1> QED
  BY <1>2, <1>3, <1>4, <1>5 DEF Bounded, t

\* The defaults of service_create are within bounds.
LEMMA CreatedIsBounded == Bounded(Conf!Created)
<1>1. Shape(Conf!Created)
  BY DEF Shape, Conf!Created
<1>2. Conf!Created.env = <<>> /\ \A k \in Conf!DepKeys : Conf!Created.deps[k] = <<>>
  BY DEF Conf!Created
<1>3. \A k \in Conf!SizeKeys : Conf!Created.num[k] = -1
  BY DEF Conf!Created, Conf!Numbers, Conf!SizeKeys
<1>4. Len(<<>>) = 0
  OBVIOUS
<1>5. {MaxDeps, MaxEnv} \subseteq Nat /\ Half \in Nat \ {0}
  BY FilesAreLines DEF Conf!FilesHaveLines
<1>6. -1 \in Conf!Int64
  BY <1>5 DEF Conf!Int64
<1>7. 0 <= MaxEnv /\ 0 <= MaxDeps
  BY <1>5
<1> QED
  BY <1>1, <1>2, <1>3, <1>4, <1>6, <1>7, Zenon DEF Bounded

\* The type invariant, and the records bounded.
ConfInv ==
  /\ dir \in [FileNames -> Contents] /\ todo \subseteq FileNames
  /\ fresh \subseteq FileNames /\ loads \in 0 .. MaxLoads
  /\ source \in Contents \cup {<<>>}
  /\ \E n \in 0 .. Len(source) : lines = SubSeq(source, n + 1, Len(source))
  /\ confPc \in {"idle", "readdir", "parse", "undefined"}
  /\ Bounded(parsed) /\ \A i \in DOMAIN services : Bounded(services[i])

\* The bounds are the type invariant's.
LEMMA ConfInvIsTypeOK == ConfInv => Conf!TypeOK
BY DEF ConfInv, Bounded, Conf!TypeOK, Conf!Range

\* The loader starts in its bounds.
LEMMA ConfInvStart == Conf!Init => ConfInv
<1> SUFFICES ASSUME Conf!Init PROVE ConfInv
  OBVIOUS
<1>0. lines = <<>> /\ source = <<>> /\ services = <<>>
  BY DEF Conf!Init
<1>1. lines = SubSeq(source, 0 + 1, Len(source)) /\ 0 \in 0 .. Len(source)
  BY <1>0
<1>2. DOMAIN services = {}
  BY <1>0
<1>3. 0 \in 0 .. MaxLoads
  BY FilesAreLines DEF Conf!FilesHaveLines
<1> QED
  BY <1>1, <1>2, <1>3, CreatedIsBounded DEF Conf!Init, ConfInv

\* Every step of the loader keeps its bounds.
LEMMA ConfInvStep == ConfInv /\ IsList /\ [Conf!Next]_(Conf!vars) => ConfInv'
<1> SUFFICES ASSUME ConfInv, IsList, [Conf!Next]_(Conf!vars) PROVE ConfInv'
  OBVIOUS
<1>1. Contents \subseteq Seq(Conf!Lines) /\ MaxLoads \in Nat
  BY FilesAreLines DEF Conf!FilesHaveLines
<1>2. CASE UNCHANGED Conf!vars
  BY <1>2 DEF ConfInv, Conf!vars
<1>3. CASE Conf!LoadAll
  <2>1. loads + 1 \in 0 .. MaxLoads
    BY <1>1, <1>3 DEF Conf!LoadAll, ConfInv
  <2> QED
    BY <1>3, <2>1 DEF Conf!LoadAll, ConfInv
<1>4. ASSUME NEW f \in FileNames, Conf!OpenFile(f) PROVE ConfInv'
  <2> DEFINE q == dir[f]
  <2>1. q \in Contents /\ q \in Seq(Conf!Lines)
    BY <1>1 DEF ConfInv
  <2>2. todo' = todo \ {f} /\ confPc = "readdir" /\ UNCHANGED <<dir, loads, services>>
    BY <1>4 DEF Conf!OpenFile
  <2> HIDE DEF q
  <2>3. q = SubSeq(q, 0 + 1, Len(q)) /\ 0 \in 0 .. Len(q)
    BY <2>1
  <2>4. CASE Conf!Opens(f)
    <3>1. source' = q /\ lines' = q /\ parsed' = Conf!Created /\ confPc' = "parse" /\ fresh' = fresh
      BY <2>4 DEF Conf!Opens, q
    <3> QED
      BY <2>1, <2>2, <2>3, <3>1, CreatedIsBounded DEF ConfInv
  <2>5. CASE Conf!OpenFails(f)
    BY <2>2, <2>5 DEF Conf!OpenFails, ConfInv
  <2> QED
    BY <1>4, <2>4, <2>5 DEF Conf!OpenFile
<1>5. CASE Conf!ReadLine
  <2>1. source \in Seq(Conf!Lines)
    BY <1>1 DEF ConfInv
  <2>2. PICK n \in 0 .. Len(source) : lines = SubSeq(source, n + 1, Len(source))
    BY DEF ConfInv
  <2>3. lines # <<>> /\ lines' = Tail(lines)
        /\ UNCHANGED <<dir, fresh, loads, todo, source, confPc, services>>
    BY <1>5 DEF Conf!ReadLine
  <2>4. n \in Nat /\ Len(source) \in Nat /\ n + 1 <= Len(source)
    BY <2>1, <2>2, <2>3
  <2>5. Head(lines) = source[n + 1] /\ lines' = SubSeq(source, (n + 1) + 1, Len(source))
    BY <2>1, <2>2, <2>3, <2>4
  <2>6. source[n + 1] \in Conf!Lines /\ n + 1 \in 0 .. Len(source)
    BY <2>1, <2>4
  <2> DEFINE line == source[n + 1]
  <2>7. \/ parsed' = parsed
        \/ \E n1 \in Conf!NumbersRead(parsed, line.name, line.value) :
             parsed' = Conf!Store(parsed, section, line.name, line.value, n1)
    BY <1>5, <2>5 DEF Conf!ReadLine
  <2>8. line.name \in STRING
        /\ line.value \in [text : STRING, items : Seq(STRING), int : Int, unit : STRING]
    BY <2>6 DEF Conf!Lines
  <2> HIDE DEF line
  <2>9. Bounded(parsed')
    <3>1. Bounded(parsed)
      BY DEF ConfInv
    <3>2. \A n1 \in Conf!NumbersRead(parsed, line.name, line.value) :
            Bounded(Conf!Store(parsed, section, line.name, line.value, n1))
      BY <2>8, <3>1, StoreKeepsBounds
    <3> QED
      BY <2>7, <3>1, <3>2
  <2>10. \E m \in 0 .. Len(source') : lines' = SubSeq(source', m + 1, Len(source'))
    BY <2>3, <2>5, <2>6
  <2> QED
    BY <2>3, <2>9, <2>10 DEF ConfInv
<1>6. CASE Conf!EndOfFile
  <2>1. UNCHANGED <<dir, fresh, loads, todo, lines, source, parsed>> /\ confPc' = "readdir"
    BY <1>6 DEF Conf!EndOfFile
  <2>2. \A i \in DOMAIN services' : Bounded(services'[i])
    <3>1. CASE UNCHANGED services
      BY <3>1 DEF ConfInv
    <3>2. CASE ~UNCHANGED services
      <4>1. /\ services'[1] = parsed
            /\ Len(services) \in Nat /\ Len(services') = Len(services) + 1
            /\ \A i \in 2 .. Len(services') : services'[i] = services[i - 1]
        BY <3>2, ListStep
      <4>2. DOMAIN services' = 1 .. Len(services') /\ DOMAIN services = 1 .. Len(services)
        BY <3>2, ListStep DEF IsList
      <4>3. ASSUME NEW i \in DOMAIN services' PROVE Bounded(services'[i])
        <5>1. CASE i = 1
          BY <4>1, <5>1 DEF ConfInv
        <5>2. CASE i # 1
          <6>1. i \in 2 .. Len(services') /\ i - 1 \in DOMAIN services
            BY <4>1, <4>2, <5>2
          <6> QED
            BY <4>1, <6>1 DEF ConfInv
        <5> QED
          BY <5>1, <5>2
      <4> QED
        BY <4>3
    <3> QED
      BY <3>1, <3>2
  <2> QED
    BY <2>1, <2>2 DEF ConfInv
<1>7. CASE Conf!EndOfDir
  BY <1>7 DEF Conf!EndOfDir, ConfInv
<1>8. ASSUME NEW f \in FileNames, NEW c \in Contents, Conf!Edit(f, c) PROVE ConfInv'
  BY <1>8 DEF Conf!Edit, ConfInv
<1>9. CASE Conf!OverrunKey
  BY <1>9 DEF Conf!OverrunKey, ConfInv
<1> QED
  BY <1>2, <1>3, <1>4, <1>5, <1>6, <1>7, <1>8, <1>9 DEF Conf!Next, Conf!Read

\* Whatever is in the files, and whoever edits them: dependency lists and
\* environments stay within their arrays and sizes within int64_t, in the
\* record that is being filled and in all that are registered.
THEOREM ServiceRecordsBounded == Conf!Spec => []Conf!TypeOK
<1> QED
  BY ConfInvStart, ConfInvStep, ConfInvIsTypeOK, ListAlways, PTL DEF Conf!Spec

-----------------------------------------------------------------------------
(* ServiceLaunch                                                           *)

\* The credentials of one process are what its service asks for, or something
\* was logged, or it has not got so far yet; never are they the user's without
\* the group.
Fine(p) ==
  /\ cred[p].uid # "root" => cred[p].gid = Exec!Group
  /\ config.user # "" /\ Exec!Dropped(p) /\ p[1] \notin warned =>
       cred[p] = Exec!Cred(<<config.user, Exec!Group>>, config.user)

\* All processes are fine, and a start begins when the last main process is
\* gone.
PrivInv ==
  /\ \A p \in Exec!Alive : Fine(p)
  /\ lumid = "idle" => Exec!Main \notin Exec!Alive

\* A process whose credentials stay as they are stays fine.
LEMMA StaysFine ==
  ASSUME config' = config, warned \subseteq warned', NEW p, Fine(p), cred'[p] = cred[p],
         Exec!Dropped(p)' => Exec!Dropped(p)
  PROVE  Fine(p)'
<1>1. Exec!Group' = Exec!Group
  BY DEF Exec!Group
<1>2. Exec!Cred(<<config'.user, Exec!Group'>>, config'.user)
        = Exec!Cred(<<config.user, Exec!Group>>, config.user)
  BY <1>1
<1>3. Exec!Dropped(p)' /\ p[1] \notin warned' => Exec!Dropped(p) /\ p[1] \notin warned
  OBVIOUS
<1> QED
  BY <1>1, <1>2, <1>3, Zenon DEF Fine

\* What setgid, setuid and initgroups leave is fine once the log is written.
LEMMA DropIsFine ==
  ASSUME NEW p, NEW ids \in Exec!DroppedIds, NEW groups, config' = config,
         cred'[p] = Exec!Cred(ids, groups), groups \in {"root", config.user},
         groups = "root" \/ ids # <<config.user, Exec!Group>> => p[1] \in warned'
  PROVE  Fine(p)'
<1>1. Exec!Group' = Exec!Group
  BY DEF Exec!Group
<1>2. cred'[p].uid = ids[1] /\ cred'[p].gid = ids[2]
  BY DEF Exec!Cred
<1>3. ids[1] # "root" => ids[2] = Exec!Group
  BY DEF Exec!DroppedIds, Exec!RootIds
<1>4. p[1] \notin warned' => groups = config.user /\ ids = <<config.user, Exec!Group>>
  OBVIOUS
<1> QED
  BY <1>1, <1>2, <1>3, <1>4 DEF Fine

\* Every step keeps the processes fine.
LEMMA LaunchStep == PrivInv /\ [Exec!Next]_(Exec!vars) => PrivInv'
<1> SUFFICES ASSUME PrivInv, [Exec!Next]_(Exec!vars) PROVE PrivInv'
  OBVIOUS
<1> USE DEF PrivInv
<1>1. CASE Exec!Fork
  <2>0. PICK new : new = <<starts + 1, "main">>
    OBVIOUS
  <2>1. /\ lumid = "idle" /\ lumid' # "idle" /\ child' = "workdir" /\ starts' = starts + 1
        /\ config' = config /\ warned' = warned
    BY <1>1 DEF Exec!Fork
  <2>2. /\ Exec!Alive' = Exec!Alive \cup {new}
        /\ \A p \in Exec!Alive' : cred'[p] = IF p = new THEN Exec!Root ELSE cred[p]
    BY <1>1, <2>0 DEF Exec!Fork, Exec!Start, Exec!Alive
  <2>3. Fine(new)'
    <3>1. cred'[new].uid = "root"
      BY <2>2 DEF Exec!Root, Exec!RootIds, Exec!Cred
    <3>2. ~Exec!Dropped(new)'
      BY <2>0, <2>1 DEF Exec!Dropped, Exec!Main
    <3> QED
      BY <3>1, <3>2 DEF Fine
  <2>4. ASSUME NEW p \in Exec!Alive, p # new PROVE Fine(p)'
    <3>1. Exec!Dropped(p)
      BY <2>1 DEF Exec!Dropped
    <3> QED
      BY <2>1, <2>2, <2>4, <3>1, StaysFine
  <2> QED
    BY <2>1, <2>2, <2>3, <2>4
<1>2. CASE \/ UNCHANGED Exec!vars \/ Exec!CgroupCreate \/ Exec!CgroupApply
           \/ Exec!CgroupAdd \/ Exec!Reap
  <2>1. /\ UNCHANGED <<config, cred, warned, starts>>
        /\ child' = child \/ (child' = "none" /\ Exec!Main \notin Exec!Alive)
        /\ lumid' = "idle" => lumid = "idle" \/ Exec!Main \notin Exec!Alive
    BY <1>2 DEF Exec!vars, Exec!CgroupCreate, Exec!CgroupApply, Exec!CgroupAdd, Exec!Reap
  <2>2. Exec!Main' = Exec!Main /\ Exec!Alive' = Exec!Alive
    BY <2>1 DEF Exec!Main, Exec!Alive
  <2>3. ASSUME NEW p \in Exec!Alive PROVE Fine(p)'
    <3>1. Exec!Dropped(p)' => Exec!Dropped(p)
      BY <2>1, <2>2 DEF Exec!Dropped
    <3> QED
      BY <2>1, <3>1, StaysFine
  <2> QED
    BY <2>1, <2>2, <2>3
<1>3. CASE Exec!Chdir \/ Exec!Exec
  <2>1. /\ UNCHANGED <<config, cred, warned, starts, lumid>>
        /\ child' \in {"exec", "running"} => child \in {"exec", "running"}
    BY <1>3 DEF Exec!Chdir, Exec!Exec, Exec!Child, Exec!Quiet
  <2>2. Exec!Main' = Exec!Main /\ Exec!Alive' = Exec!Alive
    BY <2>1 DEF Exec!Main, Exec!Alive
  <2>3. ASSUME NEW p \in Exec!Alive PROVE Fine(p)'
    <3>1. Exec!Dropped(p)' => Exec!Dropped(p)
      BY <2>1, <2>2 DEF Exec!Dropped
    <3> QED
      BY <2>1, <3>1, StaysFine
  <2> QED
    BY <2>1, <2>2, <2>3
<1>4. CASE Exec!Stop
  <2>1. /\ UNCHANGED <<config, warned, starts>>
        /\ Exec!Alive' = Exec!Alive \ {Exec!Main}
        /\ \A p \in Exec!Alive' : cred'[p] = cred[p]
    BY <1>4 DEF Exec!Stop, Exec!Alive
  <2>2. Exec!Main' = Exec!Main
    BY <2>1 DEF Exec!Main
  <2>3. ASSUME NEW p \in Exec!Alive' PROVE Fine(p)'
    <3>1. Exec!Dropped(p)
      BY <2>1 DEF Exec!Dropped
    <3> QED
      BY <2>1, <3>1, StaysFine
  <2> QED
    BY <2>1, <2>2, <2>3
<1>5. ASSUME NEW q \in Exec!Alive, Exec!Ends(q) PROVE PrivInv'
  <2>1. /\ UNCHANGED <<config, warned, starts, lumid, child>>
        /\ Exec!Alive' = Exec!Alive \ {q}
        /\ \A p \in Exec!Alive' : cred'[p] = cred[p]
    BY <1>5 DEF Exec!Ends, Exec!Gone, Exec!Alive
  <2>2. Exec!Main' = Exec!Main
    BY <2>1 DEF Exec!Main
  <2>3. ASSUME NEW p \in Exec!Alive' PROVE Fine(p)'
    <3>1. Exec!Dropped(p)' => Exec!Dropped(p)
      BY <2>1, <2>2 DEF Exec!Dropped
    <3> QED
      BY <2>1, <3>1, StaysFine
  <2> QED
    BY <2>1, <2>2, <2>3
<1>6. CASE Exec!DropPrivileges
  <2>1. /\ UNCHANGED <<config, starts, lumid>> /\ Exec!Main \in Exec!Alive /\ child' = "exec"
        /\ warned \subseteq warned'
    BY <1>6 DEF Exec!DropPrivileges, Exec!Child, Exec!Quiet
  <2>2. Exec!Main' = Exec!Main /\ Exec!Main[1] = starts
    BY <2>1 DEF Exec!Main
  <2>3. Exec!Alive' = Exec!Alive /\ \A p \in Exec!Alive : p # Exec!Main => cred'[p] = cred[p]
    BY <1>6, <2>1 DEF Exec!DropPrivileges, Exec!Start, Exec!Alive
  <2>4. ASSUME NEW p \in Exec!Alive, p # Exec!Main PROVE Fine(p)'
    <3>1. Exec!Dropped(p)
      BY <2>4 DEF Exec!Dropped
    <3> QED
      BY <2>1, <2>3, <2>4, <3>1, StaysFine
  <2>5. Fine(Exec!Main)'
    <3>0. PICK m : m = Exec!Main
      OBVIOUS
    <3>0a. Fine(m)
      BY <2>1, <3>0
    <3>1. CASE config.user \in {"", "unknown"}
      <4>1. cred' = cred /\ (config.user = "unknown" => starts \in warned')
        BY <1>6, <3>1 DEF Exec!DropPrivileges
      <4>2. Exec!Group' = Exec!Group
        BY <2>1 DEF Exec!Group
      <4>3. config'.user = "" \/ m[1] \in warned'
        BY <2>1, <2>2, <3>0, <3>1, <4>1
      <4>4. Fine(m)'
        BY <2>1, <3>0a, <4>1, <4>2, <4>3 DEF Fine
      <4> QED
        BY <2>2, <3>0, <4>4
    <3>2. CASE config.user \notin {"", "unknown"}
      <4>1. PICK groups \in {"root", config.user}, ids \in Exec!DroppedIds :
              /\ Exec!Start(m, Exec!Cred(ids, groups))
              /\ groups = "root" \/ ids # <<config.user, Exec!Group>> => starts \in warned'
        BY <1>6, <3>0, <3>2 DEF Exec!DropPrivileges
      <4>2. cred'[m] = Exec!Cred(ids, groups)
        BY <2>1, <3>0, <4>1 DEF Exec!Start
      <4>3. m[1] = starts
        BY <2>2, <3>0
      <4>4. Fine(m)'
        BY <2>1, <4>1, <4>2, <4>3, DropIsFine
      <4> QED
        BY <2>2, <3>0, <4>4
    <3> QED
      BY <3>1, <3>2
  <2> QED
    BY <2>1, <2>2, <2>3, <2>4, <2>5
<1>7. CASE Exec!ForkKid
  <2>1. /\ UNCHANGED <<config, starts, lumid, child, warned>> /\ Exec!Main \in Exec!Alive
        /\ child = "running"
    BY <1>7 DEF Exec!ForkKid
  <2>2. /\ Exec!Alive' = Exec!Alive \cup {Exec!Kid}
        /\ \A p \in Exec!Alive' : cred'[p] = IF p = Exec!Kid THEN cred[Exec!Main] ELSE cred[p]
    BY <1>7 DEF Exec!ForkKid, Exec!Start, Exec!Alive
  <2>3. Exec!Main' = Exec!Main /\ Exec!Kid # Exec!Main /\ Exec!Kid[1] = Exec!Main[1]
    BY <2>1 DEF Exec!Main, Exec!Kid
  <2>4. Fine(Exec!Main) /\ Exec!Dropped(Exec!Main)
    BY <2>1 DEF Exec!Dropped
  <2>5. Exec!Group' = Exec!Group
    BY <2>1 DEF Exec!Group
  <2>6. ASSUME NEW p \in Exec!Alive', p = Exec!Kid PROVE Fine(p)'
    <3>1. cred'[p] = cred[Exec!Main] /\ p[1] = Exec!Main[1]
      BY <2>2, <2>3, <2>6
    <3> QED
      BY <2>1, <2>4, <2>5, <3>1 DEF Fine, Exec!Cred
  <2>7. ASSUME NEW p \in Exec!Alive', p # Exec!Kid PROVE Fine(p)'
    <3>1. Exec!Dropped(p)
      BY <2>1 DEF Exec!Dropped
    <3>2. p \in Exec!Alive /\ cred'[p] = cred[p]
      BY <2>2, <2>7
    <3> QED
      BY <2>1, <3>1, <3>2, StaysFine
  <2> QED
    BY <2>1, <2>2, <2>3, <2>6, <2>7
<1> QED
  BY <1>1, <1>2, <1>3, <1>4, <1>5, <1>6, <1>7 DEF Exec!Next, Exec!Lumid, Exec!Children

\* Whichever call of the privilege drop fails, initgroups included, and
\* whatever the process forks at any moment: a process of a service with a user
\* has that user's credentials or its start logged why not, and a process that
\* is not root's has the service's group (util_drop_privileges, service_start).
THEOREM PrivilegesDropOrAreMissed == Exec!Spec => []PrivilegesDroppedOrSaid
<1>1. Exec!Init => PrivInv
  BY DEF Exec!Init, PrivInv, Exec!Alive
<1>2. PrivInv => PrivilegesDroppedOrSaid
  BY DEF PrivInv, Fine, PrivilegesDroppedOrSaid, Exec!PrivilegesDroppedOrSaid
<1> QED
  BY <1>1, <1>2, LaunchStep, PTL DEF Exec!Spec

-----------------------------------------------------------------------------
(* The limits: what lumid's side has achieved so far, if it logged nothing. *)
(* The child's side runs and forks meanwhile, and what a stop or an earlier *)
(* instance left is in the group when the next start begins.                *)

\* A record with the fields of a control group.
IsGroup == {"there", "files", "members"} \subseteq DOMAIN cgroup

Written == \A k \in Exec!Limits : Exec!Sets(k) => cgroup.files[k] = config.limits[k]

SoFar ==
  ~said =>
    /\ lumid = "apply" => cgroup.there
    /\ lumid = "add" => Written
    /\ lumid = "up" /\ Exec!HasGroup =>
         Written /\ (Exec!Main \in Exec!Alive => Exec!Main \in cgroup.members)

LInv == IsGroup /\ SoFar

\* lumid's own steps keep what limits and reports say.
LEMMA LumidKeepsLInv == LInv /\ Exec!Lumid => LInv'
<1> SUFFICES ASSUME LInv, Exec!Lumid PROVE LInv'
  OBVIOUS
<1> USE DEF LInv, IsGroup
<1>1. CASE Exec!Fork
  BY <1>1 DEF Exec!Fork, SoFar, Exec!HasGroup
<1>2. CASE Exec!CgroupCreate
  BY <1>2 DEF Exec!CgroupCreate, SoFar, Exec!Says
<1>3. CASE Exec!CgroupApply
  <2>1. PICK K \in SUBSET {k \in Exec!Limits : Exec!Sets(k) /\ cgroup.there} :
          /\ cgroup' = [cgroup EXCEPT !.files =
                          [k \in Exec!Limits |-> IF k \in K THEN config.limits[k] ELSE @[k]]]
          /\ said' = (said \/ \E k \in Exec!Limits \ K : Exec!Sets(k))
    BY <1>3 DEF Exec!CgroupApply
  <2>2. IsGroup' /\ cgroup'.files = [k \in Exec!Limits |-> IF k \in K THEN config.limits[k]
                                                                 ELSE cgroup.files[k]]
    BY <2>1
  <2>3. config' = config /\ lumid' = "add"
    BY <1>3 DEF Exec!CgroupApply
  <2>4. ~said' => Written'
    <3> SUFFICES ASSUME ~said', NEW k \in Exec!Limits, Exec!Sets(k)
                 PROVE  cgroup'.files[k] = config.limits[k]
      BY <2>3 DEF Written, Exec!Sets
    <3>1. k \in K
      BY <2>1
    <3> QED
      BY <2>2, <3>1
  <2> QED
    BY <2>2, <2>3, <2>4 DEF SoFar
<1>4. CASE Exec!CgroupAdd
  <2>1. config' = config /\ lumid = "add" /\ lumid' = "up" /\ UNCHANGED <<starts, cred>>
    BY <1>4 DEF Exec!CgroupAdd
  <2>2. CASE UNCHANGED cgroup /\ said'
    BY <2>1, <2>2 DEF SoFar
  <2>3. CASE cgroup' = [cgroup EXCEPT !.members = @ \cup {Exec!Main}] /\ said' = said
    <3>1. /\ IsGroup' /\ cgroup'.files = cgroup.files
          /\ Exec!Main \in cgroup'.members /\ Exec!Main' = Exec!Main
      BY <2>1, <2>3 DEF Exec!Main
    <3>2. ~said' => Written'
      BY <2>1, <2>3, <3>1 DEF SoFar, Written, Exec!Sets
    <3> QED
      BY <2>1, <3>1, <3>2 DEF SoFar
  <2> QED
    BY <1>4, <2>2, <2>3 DEF Exec!CgroupAdd, Exec!CgroupAddFails, Exec!Says
<1>5. CASE Exec!Stop
  <2>1. IsGroup' /\ lumid' = "idle"
    BY <1>5 DEF Exec!Stop, Exec!NoGroup
  <2> QED
    BY <2>1 DEF SoFar
<1>6. CASE Exec!Reap
  BY <1>6 DEF Exec!Reap, SoFar
<1> QED
  BY <1>1, <1>2, <1>3, <1>4, <1>5, <1>6 DEF Exec!Lumid

\* What the children do: the group keeps its files, and a main process that
\* is there stays a member.
LEMMA ChildrenKeepLInv == LInv /\ (Exec!Children \/ UNCHANGED Exec!vars) => LInv'
<1> SUFFICES ASSUME LInv, Exec!Children \/ UNCHANGED Exec!vars PROVE LInv'
  OBVIOUS
<1>1. /\ UNCHANGED <<config, starts, lumid, said>>
      /\ IsGroup' /\ cgroup'.there = cgroup.there /\ cgroup'.files = cgroup.files
      /\ (Exec!Main \in Exec!Alive)' => Exec!Main \in Exec!Alive
      /\ (Exec!Main \in Exec!Alive)' /\ Exec!Main \in cgroup.members =>
           Exec!Main \in cgroup'.members
  <2>1. CASE UNCHANGED Exec!vars \/ Exec!Chdir \/ Exec!Exec
    BY <2>1 DEF Exec!vars, Exec!Chdir, Exec!Exec, Exec!Quiet, Exec!Main, Exec!Alive, LInv,
         IsGroup
  <2>2. CASE Exec!DropPrivileges
    BY <2>2 DEF Exec!DropPrivileges, Exec!Child, Exec!Quiet, Exec!Main, Exec!Alive, LInv,
         IsGroup
  <2>3. CASE Exec!ForkKid
    <3>1. /\ UNCHANGED <<config, starts, lumid, said>> /\ Exec!Main \in Exec!Alive
          /\ cgroup' = [cgroup EXCEPT !.members = @ \cup {Exec!Kid : p \in @ \cap {Exec!Main}}]
      BY <2>3 DEF Exec!ForkKid
    <3>2. IsGroup' /\ cgroup'.there = cgroup.there /\ cgroup'.files = cgroup.files
          /\ cgroup.members \subseteq cgroup'.members
      BY <3>1 DEF LInv, IsGroup
    <3> QED
      BY <3>1, <3>2 DEF Exec!Main, Exec!Alive
  <2>4. ASSUME NEW p \in Exec!Alive, Exec!Ends(p)
        PROVE /\ UNCHANGED <<config, starts, lumid, said>>
              /\ IsGroup' /\ cgroup'.there = cgroup.there /\ cgroup'.files = cgroup.files
              /\ (Exec!Main \in Exec!Alive)' => Exec!Main \in Exec!Alive
              /\ (Exec!Main \in Exec!Alive)' /\ Exec!Main \in cgroup.members =>
                   Exec!Main \in cgroup'.members
    <3>1. /\ UNCHANGED <<config, starts, lumid, said>>
          /\ Exec!Alive' = Exec!Alive \ {p}
          /\ cgroup' = [cgroup EXCEPT !.members = @ \ {p}]
      BY <2>4 DEF Exec!Ends, Exec!Gone, Exec!Alive
    <3>2. /\ IsGroup' /\ cgroup'.there = cgroup.there /\ cgroup'.files = cgroup.files
          /\ cgroup'.members = cgroup.members \ {p}
      BY <3>1 DEF LInv, IsGroup
    <3> QED
      BY <3>1, <3>2 DEF Exec!Main
  <2> QED
    BY <2>1, <2>2, <2>3, <2>4 DEF Exec!Children
<1>2. Exec!Main' = Exec!Main /\ Exec!HasGroup' = Exec!HasGroup /\ (Written => Written')
  BY <1>1 DEF Exec!Main, Exec!HasGroup, Written, Exec!Sets
<1> QED
  BY <1>1, <1>2 DEF LInv, SoFar

\* Whatever fails, forks or dies on either side, and whatever an earlier
\* instance left in the group: of the limits lumid does not drop without a word
\* every one that the service file asks for is written, and the process is in
\* the group, at the end of a start that logs no failure (service_start,
\* cgroup_create, cgroup_apply_limits, cgroup_add_process).
THEOREM OtherLimitsAreInForce == Exec!Spec => []NoOtherSilentDrop
<1>1. Exec!Init => LInv
  BY DEF Exec!Init, LInv, IsGroup, SoFar, Exec!NoGroup
<1>2. LInv /\ [Exec!Next]_(Exec!vars) => LInv'
  BY LumidKeepsLInv, ChildrenKeepLInv DEF Exec!Next
<1>3. LInv => NoOtherSilentDrop
  <2>1. \A k \in Exec!Limits : config.limits[k] > 0 /\ ~Exec!SilentlyDropped(k) =>
          Exec!HasGroup /\ Exec!Sets(k)
    BY DEF Exec!SilentlyDropped, Exec!Sets
  <2> QED
    BY <2>1 DEF LInv, SoFar, Written, NoOtherSilentDrop, Exec!NoOtherSilentDrop
<1> QED
  BY <1>1, <1>2, <1>3, PTL DEF Exec!Spec

-----------------------------------------------------------------------------
(* Types of the launch: who is alive, and who is in the group.             *)

\* The type invariant, with the fields of the group.
LaunchInv == Exec!TypeOK /\ IsGroup

\* service_start begins in the invariant.
LEMMA LaunchInvStart == Exec!Init => LaunchInv
<1> SUFFICES ASSUME Exec!Init PROVE LaunchInv
  OBVIOUS
<1>1. 0 \in 0 .. MaxStarts
  BY LimitsAreNat
<1>2. /\ config \in Configs /\ starts = 0 /\ lumid = "idle" /\ child = "none" /\ said = FALSE
      /\ warned = {}
      /\ cgroup = Exec!NoGroup
  BY DEF Exec!Init
<1>3. Exec!Alive = {}
  BY DEF Exec!Init, Exec!Alive
<1>4. IsGroup /\ cgroup.members = {}
  BY <1>2 DEF Exec!NoGroup, IsGroup
<1> QED
  BY <1>1, <1>2, <1>3, <1>4 DEF LaunchInv, Exec!TypeOK

\* Every step of service_start keeps the invariant.
LEMMA LaunchInvStep == LaunchInv /\ [Exec!Next]_(Exec!vars) => LaunchInv'
<1> SUFFICES ASSUME LaunchInv, [Exec!Next]_(Exec!vars) PROVE LaunchInv'
  OBVIOUS
<1> USE DEF LaunchInv, Exec!TypeOK, IsGroup
<1>0. MaxStarts \in Nat
  BY LimitsAreNat
<1>1. CASE UNCHANGED Exec!vars
  BY <1>1 DEF Exec!vars, Exec!Alive
<1>2. CASE Exec!Fork
  <2>1. /\ starts + 1 \in 1 .. MaxStarts /\ starts' = starts + 1
        /\ UNCHANGED <<config, cgroup>> /\ warned' \subseteq 1 .. starts'
        /\ said' = FALSE /\ child' = "workdir" /\ lumid' \in {"create", "up"}
    BY <1>0, <1>2 DEF Exec!Fork
  <2>2. Exec!Alive' = Exec!Alive \cup {<<starts + 1, "main">>}
    BY <1>2 DEF Exec!Fork, Exec!Start, Exec!Alive
  <2>3. <<starts + 1, "main">> \in (1 .. MaxStarts) \X {"main", "kid"}
    BY <2>1
  <2>4. starts' \in 0 .. MaxStarts
    BY <1>0, <2>1
  <2>5. Exec!Alive' \subseteq (1 .. MaxStarts) \X {"main", "kid"}
        /\ cgroup.members \subseteq Exec!Alive'
    BY <2>2, <2>3
  <2> QED
    BY <2>1, <2>4, <2>5
<1>3. CASE Exec!CgroupCreate
  <2>1. Exec!Alive' = Exec!Alive
    BY <1>3 DEF Exec!CgroupCreate, Exec!Alive
  <2> QED
    BY <1>3, <2>1 DEF Exec!CgroupCreate, Exec!Says
<1>4. CASE Exec!CgroupApply
  <2>1. Exec!Alive' = Exec!Alive /\ UNCHANGED <<config, starts, child, warned>> /\ lumid' = "add"
    BY <1>4 DEF Exec!CgroupApply, Exec!Alive
  <2>2. said' \in BOOLEAN
    BY <1>4 DEF Exec!CgroupApply
  <2>3. /\ IsGroup' /\ cgroup'.members = cgroup.members /\ cgroup'.there = cgroup.there
    BY <1>4 DEF Exec!CgroupApply
  <2> QED
    BY <2>1, <2>2, <2>3
<1>5. CASE Exec!CgroupAdd
  <2>1. Exec!Alive' = Exec!Alive /\ UNCHANGED <<config, starts, child, warned>> /\ lumid' = "up"
    BY <1>5 DEF Exec!CgroupAdd, Exec!Alive
  <2>2. CASE UNCHANGED cgroup /\ said'
    BY <1>5, <2>1, <2>2 DEF Exec!CgroupAdd, Exec!CgroupAddFails, Exec!Says
  <2>3. CASE /\ cgroup.there /\ Exec!Main \in Exec!Alive /\ said' = said
             /\ cgroup' = [cgroup EXCEPT !.members = @ \cup {Exec!Main}]
    <3>1. /\ IsGroup' /\ cgroup'.members = cgroup.members \cup {Exec!Main}
          /\ cgroup'.there = cgroup.there
      BY <2>3
    <3> QED
      BY <2>1, <2>3, <3>1
  <2>4. /\ said' \in BOOLEAN
        /\ \/ UNCHANGED cgroup /\ said'
           \/ /\ cgroup.there /\ Exec!Main \in Exec!Alive /\ said' = said
              /\ cgroup' = [cgroup EXCEPT !.members = @ \cup {Exec!Main}]
    BY <1>5 DEF Exec!CgroupAdd, Exec!CgroupAddFails, Exec!Says
  <2> QED
    BY <2>2, <2>3, <2>4
<1>6. CASE Exec!Stop
  <2>1. Exec!Alive' = Exec!Alive \ {Exec!Main}
    BY <1>6 DEF Exec!Stop, Exec!Alive
  <2>2. UNCHANGED <<config, starts, warned, said>> /\ lumid' = "idle" /\ child' = "none"
    BY <1>6 DEF Exec!Stop
  <2>3. CASE cgroup' = Exec!NoGroup
    BY <2>1, <2>2, <2>3 DEF Exec!NoGroup
  <2>4. CASE cgroup' = [cgroup EXCEPT !.members = @ \ {Exec!Main}]
    <3>1. /\ IsGroup' /\ cgroup'.members = cgroup.members \ {Exec!Main}
          /\ cgroup'.there = cgroup.there
      BY <2>4
    <3> QED
      BY <2>1, <2>2, <3>1
  <2> QED
    BY <1>6, <2>3, <2>4 DEF Exec!Stop
<1>7. CASE Exec!Reap
  BY <1>7 DEF Exec!Reap, Exec!Alive
<1>8. CASE Exec!Chdir \/ Exec!Exec
  BY <1>8 DEF Exec!Chdir, Exec!Exec, Exec!Child, Exec!Quiet, Exec!Alive
<1>9. CASE Exec!DropPrivileges
  <2>1. Exec!Alive' = Exec!Alive /\ Exec!Main \in Exec!Alive /\ child' = "exec"
        /\ warned' \subseteq warned \cup {starts}
        /\ UNCHANGED <<config, starts, lumid, cgroup, said>>
    BY <1>9 DEF Exec!DropPrivileges, Exec!Child, Exec!Quiet, Exec!Start, Exec!Alive
  <2>2. starts \in 1 .. MaxStarts
    BY <2>1 DEF Exec!Main
  <2>3. warned' \subseteq 1 .. starts'
    BY <2>1, <2>2
  <2> QED
    BY <2>1, <2>3
<1>10. CASE Exec!ForkKid
  <2>1. /\ UNCHANGED <<config, starts, lumid, child, warned, said>> /\ Exec!Main \in Exec!Alive
        /\ Exec!Alive' = Exec!Alive \cup {Exec!Kid}
    BY <1>10 DEF Exec!ForkKid, Exec!Start, Exec!Alive
  <2>2. starts \in 1 .. MaxStarts
    BY <2>1 DEF Exec!Main
  <2>3. Exec!Kid \in (1 .. MaxStarts) \X {"main", "kid"}
    BY <2>2 DEF Exec!Kid
  <2>4. /\ IsGroup' /\ cgroup'.there = cgroup.there
        /\ cgroup'.members = cgroup.members
                               \cup {Exec!Kid : p \in cgroup.members \cap {Exec!Main}}
    BY <1>10 DEF Exec!ForkKid
  <2>5. /\ cgroup'.members \subseteq cgroup.members \cup {Exec!Kid}
        /\ cgroup'.members # {} => cgroup.members # {}
    BY <2>4
  <2> QED
    BY <2>1, <2>3, <2>4, <2>5
<1>11. ASSUME NEW p \in Exec!Alive, Exec!Ends(p) PROVE LaunchInv'
  <2>1. /\ UNCHANGED <<config, starts, lumid, child, warned, said>>
        /\ Exec!Alive' = Exec!Alive \ {p}
    BY <1>11 DEF Exec!Ends, Exec!Gone, Exec!Alive
  <2>2. /\ IsGroup' /\ cgroup'.members = cgroup.members \ {p}
        /\ cgroup'.there = cgroup.there
    BY <1>11 DEF Exec!Ends, Exec!Gone
  <2> QED
    BY <2>1, <2>2
<1> QED
  BY <1>1, <1>2, <1>3, <1>4, <1>5, <1>6, <1>7, <1>8, <1>9, <1>10, <1>11
  DEF Exec!Next, Exec!Lumid, Exec!Children

\* Whatever ends, forks or is reaped when: the service's group has only living
\* processes of the service in it, and exists while it has any.
THEOREM GroupHasLivingMembers == Exec!Spec => []Exec!TypeOK
<1>1. LaunchInv => Exec!TypeOK
  BY DEF LaunchInv
<1> QED
  BY <1>1, LaunchInvStart, LaunchInvStep, PTL DEF Exec!Spec
=============================================================================
