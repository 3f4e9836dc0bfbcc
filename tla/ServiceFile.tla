---------------------------- MODULE ServiceFile ----------------------------
(***************************************************************************)
(* lumid's service files: config_parse_service (config.c) line by line,    *)
(* util_parse_size (util.c), and service_load_all / service_register       *)
(* (service.c), at boot and again at every SIGHUP, while an administrator  *)
(* edits the directory between two loads.                                  *)
(*                                                                         *)
(* A line is what trim() and config_parse_value make of it; a value is     *)
(* what each of its readers makes of it.                                   *)
(***************************************************************************)
EXTENDS Integers, Sequences, SequencesExt

CONSTANTS
  FileNames,  \* names of files in the directory that end in ".svc"
  Contents,   \* what may be in a file
  MaxDeps,    \* LUMID_MAX_DEPS (32)
  MaxEnv,     \* LUMID_MAX_ENV (64)
  MaxLoads,   \* bound: calls of service_load_all
  Kilo,       \* 1024
  Half,       \* 2^63: int64_t is -Half .. Half - 1
  IntHalf     \* 2^31: int is -IntHalf .. IntHalf - 1

VARIABLES
  dir,      \* file name -> lines
  fresh,    \* history: the files of the last load that could be opened and that
            \* nobody has edited since
  loads,    \* number of calls of service_load_all
  todo,     \* files readdir has not returned yet
  lines,    \* lines of the open file not read yet
  source,   \* history: all lines of that file
  section, svc,   \* locals of config_parse_service and its caller
  pc,       \* "idle", "readdir", "parse", or "undefined": memory is overwritten
  services  \* g_services: a record for each, the latest first

vars == <<dir, fresh, loads, todo, lines, source, section, svc, pc, services>>

TextKeys == {"name", "description", "exec", "args", "user", "group", "workdir"}
DepKeys  == {"requires", "after", "before"}
IntKeys  == [restart |-> {"delay", "max_retries"},
             cgroup  |-> {"cpu_weight", "cpu_max", "io_weight", "pids_max"}]
SizeKeys == {"memory_max", "memory_high"}
Numbers  == IntKeys.restart \cup IntKeys.cgroup \cup SizeKeys

\* text: the characters; items: strtok's tokens; int, unit: the number at its
\* start, of any size (0 if none), and what follows it ("none" if there is no
\* number).
Value(text, items, int, unit) ==
  [text |-> text, items |-> items, int |-> int, unit |-> unit]
NoText == Value("", <<>>, 0, "none")
Word(text) == Value(text, <<text>>, 0, "none")

\* Lines: an empty line or a comment, "[name]", "[name", "key = value" with a
\* key that fits key[128] and with one that does not, and text without "=".
Blank == [kind |-> "blank", name |-> "", value |-> NoText]
Header(name) == [kind |-> "header", name |-> name, value |-> NoText]
OpenHeader(name) == [kind |-> "open header", name |-> name, value |-> NoText]
Pair(key, value) == [kind |-> "pair", name |-> key, value |-> value]
LongKey(value) == [kind |-> "long key", name |-> "", value |-> value]
NoEquals == [kind |-> "no equals", name |-> "", value |-> NoText]

\* What a file may contain, and the limits of lists and numbers.
Lines == [kind : {"blank", "header", "open header", "pair", "long key", "no equals"}, name : STRING,
          value : [text : STRING, items : Seq(STRING), int : Int, unit : STRING]]
FilesHaveLines == /\ Contents \subseteq Seq(Lines)
                  /\ {MaxDeps, MaxEnv, MaxLoads, Kilo} \subseteq Nat
                  /\ {Half, IntHalf} \subseteq Nat \ {0}

\* service_create: calloc, then the defaults.
Created ==
  [text |-> [k \in TextKeys |-> ""], deps |-> [k \in DepKeys |-> <<>>],
   type |-> "SIMPLE", policy |-> "NEVER", env |-> <<>>,
   num |-> [k \in Numbers |-> CASE k = "delay" -> 1000
                                [] k = "max_retries" -> 5
                                [] k \in {"cpu_weight", "io_weight"} -> 100
                                [] OTHER -> -1]]

-----------------------------------------------------------------------------
(* Conversions.                                                            *)

\* An unknown word is the default.
ParseType(t) ==
  CASE t = "forking" -> "FORKING" [] t = "oneshot" -> "ONESHOT"
    [] t = "notify" -> "NOTIFY"   [] OTHER -> "SIMPLE"
ParsePolicy(t) ==
  CASE t = "always" -> "ALWAYS" [] t = "on-failure" -> "ON_FAILURE"
    [] t = "on-abnormal" -> "ON_ABNORMAL" [] OTHER -> "NEVER"

FirstOf(s, n) == SubSeq(s, 1, IF Len(s) <= n THEN Len(s) ELSE n)
ParseDepList(v) == FirstOf(v.items, MaxDeps)

Int64 == -Half .. Half - 1
CInt  == -IntHalf .. IntHalf - 1
\* strtoll stays inside int64_t.
Saturated(n) == IF n < -Half THEN -Half ELSE IF n >= Half THEN Half - 1 ELSE n
Factor == [K |-> Kilo, M |-> Kilo * Kilo, G |-> Kilo * Kilo * Kilo,
           T |-> Kilo * Kilo * Kilo * Kilo, end |-> 1]
\* util_parse_size: *out keeps its value if there is no number or no known unit.
\* A product that does not fit int64_t is undefined: it may be any value.
ParseSize(v, old) ==
  IF v.unit \notin DOMAIN Factor THEN {old}
  ELSE LET product == Saturated(v.int) * Factor[v.unit]
       IN  IF product \in Int64 THEN {product} ELSE Int64
\* atoi: undefined out of int.
Atoi(v) == IF v.int \in CInt THEN {v.int} ELSE CInt
\* What a line may make of its number.
NumbersRead(s, key, v) == IF key \in SizeKeys THEN ParseSize(v, s.num[key]) ELSE Atoi(v)

\* Mutant: a key is looked up whatever the section.
StoreAnywhere(s, sec, key, v, n) ==
  IF key \in TextKeys THEN [s EXCEPT !.text[key] = v.text]
  ELSE IF key \in DepKeys THEN [s EXCEPT !.deps[key] = ParseDepList(v)] ELSE s
\* One "key = value" line, whose number is read as n: a later one replaces
\* what an earlier one stored, environment lines add up, and what nothing above
\* knows is ignored.
Store(s, sec, key, v, n) ==
  CASE sec = "service" /\ key \in TextKeys     -> [s EXCEPT !.text[key] = v.text]
    [] sec = "service" /\ key = "type"         -> [s EXCEPT !.type = ParseType(v.text)]
    [] sec = "dependencies" /\ key \in DepKeys -> [s EXCEPT !.deps[key] = ParseDepList(v)]
    [] sec = "restart" /\ key = "policy"       -> [s EXCEPT !.policy = ParsePolicy(v.text)]
    [] sec \in DOMAIN IntKeys /\ key \in IntKeys[sec] -> [s EXCEPT !.num[key] = n]
    [] sec = "cgroup" /\ key \in SizeKeys      -> [s EXCEPT !.num[key] = n]
    [] sec = "environment" /\ Len(s.env) < MaxEnv ->
         [s EXCEPT !.env = Append(@, <<key, v.text>>)]
    [] OTHER -> s

-----------------------------------------------------------------------------
Init ==
  /\ dir \in [FileNames -> Contents]
  /\ fresh = {} /\ loads = 0 /\ todo = {} /\ lines = <<>> /\ source = <<>>
  /\ section = "" /\ svc = Created /\ pc = "idle" /\ services = <<>>

\* service_load_all, at boot and from the SIGHUP handler; opendir may fail.
LoadAll ==
  /\ pc = "idle" /\ loads < MaxLoads /\ loads' = loads + 1
  /\ \/ pc' = "readdir" /\ todo' = FileNames /\ fresh' = FileNames
     \/ UNCHANGED <<pc, todo, fresh>>
  /\ UNCHANGED <<dir, lines, source, section, svc, services>>

\* service_create and the start of config_parse_service; readdir may return
\* the files in any order.
Opens(f) ==
  /\ lines' = dir[f] /\ source' = dir[f] /\ section' = "" /\ svc' = Created
  /\ pc' = "parse" /\ UNCHANGED fresh
\* calloc or fopen fails: the file is passed over.
OpenFails(f) == fresh' = fresh \ {f} /\ UNCHANGED <<lines, source, section, svc, pc>>
OpenFile(f) ==
  /\ pc = "readdir" /\ f \in todo
  /\ todo' = todo \ {f} /\ (Opens(f) \/ OpenFails(f))
  /\ UNCHANGED <<dir, loads, services>>

\* A header that is not closed is skipped: the section goes on.
SectionAfter(line) == IF line.kind = "header" THEN line.name ELSE section

ReadLine ==
  /\ pc = "parse" /\ lines # <<>> /\ Head(lines).kind # "long key"
  /\ LET line == Head(lines)
     IN  /\ section' = SectionAfter(line)
         /\ IF line.kind = "pair"
            THEN \E n \in NumbersRead(svc, line.name, line.value) :
                   svc' = Store(svc, section, line.name, line.value, n)
            ELSE UNCHANGED svc
  /\ lines' = Tail(lines)
  /\ UNCHANGED <<dir, fresh, loads, todo, source, pc, services>>

\* config_parse_value copies a key of 128 characters and more into key[128]:
\* it is given the size of value[].
OverrunKey ==
  /\ pc = "parse" /\ lines # <<>> /\ Head(lines).kind = "long key"
  /\ pc' = "undefined"
  /\ UNCHANGED <<dir, fresh, loads, todo, lines, source, section, svc, services>>

Valid(s) == s.text["name"] # "" /\ s.text["exec"] # ""

\* service_find
Known(s) == \E i \in 1 .. Len(services) : services[i].text["name"] = s.text["name"]

\* Mutant: a reload replaces what it finds.
RegisterReplacing(s) ==
  LET other(t) == t.text["name"] # s.text["name"]
  IN  <<s>> \o SelectSeq(services, other)
\* service_register: a service whose name is known is skipped.
Register(s) == IF Known(s) THEN services ELSE <<s>> \o services

\* End of the file: a file without a name or a command is skipped.
EndOfFile ==
  /\ pc = "parse" /\ lines = <<>>
  /\ services' = IF Valid(svc) THEN Register(svc) ELSE services
  /\ pc' = "readdir"
  /\ UNCHANGED <<dir, fresh, loads, todo, lines, source, section, svc>>

\* Mutant: the loop ends at the first file that cannot be registered.
LoadDoneEarly == todo = {} \/ ~Valid(svc)
LoadDone == todo = {}

EndOfDir ==
  /\ pc = "readdir" /\ LoadDone
  /\ pc' = "idle" /\ todo' = {}
  /\ UNCHANGED <<dir, fresh, loads, lines, source, section, svc, services>>

\* The administrator edits a file while lumid does something else.
Edit(f, c) ==
  /\ pc = "idle" /\ loads > 0 /\ dir[f] # c
  /\ dir' = [dir EXCEPT ![f] = c] /\ fresh' = fresh \ {f}
  /\ UNCHANGED <<loads, todo, lines, source, section, svc, pc, services>>

Read == ReadLine \/ OverrunKey \/ EndOfFile
Next == \/ LoadAll \/ Read \/ EndOfDir
        \/ \E f \in FileNames : OpenFile(f) \/ \E c \in Contents : Edit(f, c)

Spec == Init /\ [][Next]_vars

-----------------------------------------------------------------------------
(* What a file says, by looking at all of it at once.                      *)

\* The section line i is in: the name in the last closed header above it.
SectionOf(file, i) ==
  LET h == Max({j \in 1 .. i - 1 : file[j].kind = "header"} \cup {0})
  IN  IF h = 0 THEN "" ELSE file[h].name
\* The lines that set a key of a section.
Setting(file, sec, key) ==
  {i \in 1 .. Len(file) : file[i].kind = "pair" /\ file[i].name = key
                          /\ SectionOf(file, i) = sec}
LastLine(file, sec, key) ==
  LET i == Max(Setting(file, sec, key) \cup {0}) IN IF i = 0 THEN NoText ELSE file[i].value
\* The last of them from which a size can be read.
Sizes(file, key) ==
  {i \in Setting(file, "cgroup", key) : file[i].value.unit \in DOMAIN Factor}

SaysTexts(file, s) ==
  /\ \A k \in TextKeys : s.text[k] = LastLine(file, "service", k).text
  /\ s.type = ParseType(LastLine(file, "service", "type").text)
  /\ s.policy = ParsePolicy(LastLine(file, "restart", "policy").text)

\* The first MaxDeps of the names in the last line.
SaysLists(file, s) ==
  \A k \in DepKeys :
    LET items == LastLine(file, "dependencies", k).items
    IN  /\ IsPrefix(s.deps[k], items)
        /\ Len(s.deps[k]) = MaxDeps \/ s.deps[k] = items

\* The last number of a key, as far as it is one the program can hold: of a
\* number out of int, and of a size out of int64_t, nothing is said.
SaysNumbers(file, s) ==
  /\ \A sec \in DOMAIN IntKeys : \A k \in IntKeys[sec] :
       LET number == LastLine(file, sec, k).int
       IN  IF Setting(file, sec, k) = {} THEN s.num[k] = Created.num[k]
           ELSE number \in CInt => s.num[k] = number
  /\ \A k \in SizeKeys :
       LET i == Max(Sizes(file, k) \cup {0})
       IN  IF i = 0 THEN s.num[k] = -1
           ELSE LET number == file[i].value.int
                    size   == number * Factor[file[i].value.unit]
                IN  {number, size} \subseteq Int64 => s.num[k] = size

\* The first MaxEnv of the lines, each at its place among them.
SaysEnvironment(file, s) ==
  LET I == {i \in 1 .. Len(file) : file[i].kind = "pair"
                                     /\ SectionOf(file, i) = "environment"}
      Place(i) == Cardinality({j \in I : j <= i})
  IN  /\ Len(s.env) = IF Cardinality(I) <= MaxEnv THEN Cardinality(I) ELSE MaxEnv
      /\ \A i \in I : Place(i) <= MaxEnv =>
           s.env[Place(i)] = <<file[i].name, file[i].value.text>>

Says(file, s) == /\ SaysTexts(file, s) /\ SaysLists(file, s)
                 /\ SaysNumbers(file, s) /\ SaysEnvironment(file, s)

-----------------------------------------------------------------------------
(* Properties.                                                             *)

TypeOK ==
  /\ dir \in [FileNames -> Contents] /\ todo \subseteq FileNames
  /\ fresh \subseteq FileNames /\ loads \in 0 .. MaxLoads
  /\ source \in Contents \cup {<<>>}
  /\ \E n \in 0 .. Len(source) : lines = SubSeq(source, n + 1, Len(source))
  /\ pc \in {"idle", "readdir", "parse", "undefined"}
  /\ \A s \in Range(services) \cup {svc} :
       /\ Len(s.env) <= MaxEnv
       /\ \A k \in DepKeys : Len(s.deps[k]) <= MaxDeps
       /\ \A k \in SizeKeys : s.num[k] \in Int64

\* The parser reads line by line, keeping a section and a half-filled record:
\* what it has at the end of a file is what the file says as a whole, whatever
\* malformed lines, repeated sections and keys, and earlier files came between.
\* Nothing is claimed of numbers that do not fit, and a file with a key that
\* overruns key[] gets to no end.
ParsedAsWritten == pc = "parse" /\ lines = <<>> => Says(source, svc)

\* However the directory is edited and however often it is loaded, a load
\* replaces nothing and removes nothing: the list grows, one service at a time,
\* by services that have a command and a name that was not there, in front of
\* those that are there.  So no name is ever in it twice.
GrowsByNewNames ==
  [][\/ UNCHANGED services
     \/ /\ services' # <<>> /\ Tail(services') = services
        /\ Valid(services'[1])
        /\ \A i \in 1 .. Len(services) :
             services[i].text["name"] # services'[1].text["name"]]_vars

\* One bad file, one that cannot be opened, or two files that name the same
\* service do not keep the others from being loaded: after a load, even a
\* failed one, the list has a service for every name that a file gives which
\* could be opened and was not edited since.
EveryGoodFileServed ==
  pc = "idle" =>
    \A f \in fresh :
      LET name == LastLine(dir[f], "service", "name").text
      IN  name # "" /\ LastLine(dir[f], "service", "exec").text # "" =>
            \E i \in 1 .. Len(services) : services[i].text["name"] = name
=============================================================================
