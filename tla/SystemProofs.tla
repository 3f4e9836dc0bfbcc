---------------------------- MODULE SystemProofs ----------------------------
(***************************************************************************)
(* Proofs about what runs at the start of an application, of Android and of*)
(* the machine: the sandbox for every policy, policy file and filter; the  *)
(* property table for every file, every list of defaults and any number of *)
(* settings; early_boot for every mount table it may find; and the set-up  *)
(* of the Android container for every set of files on the host.            *)
(***************************************************************************)
EXTENDS Userland, DataInduction, FiniteSetTheorems, SequenceTheorems

-----------------------------------------------------------------------------
(* The filter program.                                                     *)

\* The value of V at instruction k, given its values at later ones.
Executed(V, prog, arch, nr, k) ==
  CASE prog[k].op = "ret"  -> prog[k].verdict
    [] prog[k].op = "load" -> V[k + 1]
    [] OTHER ->
         LET hit == prog[k].k = IF prog[k].what = "arch" THEN arch ELSE nr
         IN  V[k + 1 + IF hit THEN prog[k].jt ELSE prog[k].jf]
\* V holds the value of prog from each instruction on.
Interprets(V, prog, arch, nr) ==
  V = [k \in 1 .. Len(prog) |-> Executed(V, prog, arch, nr, k)]

\* Where the interpreter's equation has a solution, Verdict starts from one.
LEMMA VerdictIsInterpreted ==
  ASSUME NEW prog, NEW arch, NEW nr, NEW W, Interprets(W, prog, arch, nr)
  PROVE  \E V : Interprets(V, prog, arch, nr) /\ Box!Verdict(prog, arch, nr) = V[1]
<1> DEFINE V == CHOOSE f : Interprets(f, prog, arch, nr)
<1>1. Interprets(V, prog, arch, nr)
  OBVIOUS
<1>2. Box!Verdict(prog, arch, nr) = V[1]
  BY DEF Box!Verdict, Interprets, Executed
<1> QED
  BY <1>1, <1>2

Rules == [nr : Syscalls, action : Box!Actions]

\* Two sequences one after the other, element by element.
LEMMA Concatenated ==
  ASSUME NEW S, NEW a \in Seq(S), NEW b \in Seq(S),
         NEW m \in Nat, m = Len(a), NEW k \in Nat, k = Len(b)
  PROVE  /\ a \o b \in Seq(S) /\ Len(a \o b) = m + k
         /\ \A i \in 1 .. m : (a \o b)[i] = a[i]
         /\ \A i \in 1 .. k : (a \o b)[i + m] = b[i]
<1>1. \A i \in 1 .. k : i + m \in 1 .. m + k /\ ~(i + m <= m) /\ (i + m) - m = i
  OBVIOUS
<1>2. Len(a \o b) = m + k /\ a \o b \in Seq(S)
  OBVIOUS
<1>3. \A i \in 1 .. m : (a \o b)[i] = a[i]
  OBVIOUS
<1>4. ASSUME NEW i \in 1 .. k PROVE (a \o b)[i + m] = b[i]
  <2>1. (a \o b)[i + m] = b[(i + m) - m]
    BY <1>1
  <2> QED
    BY <1>1, <2>1
<1> QED
  BY <1>2, <1>3, <1>4

\* What rule i of n skips if it matches: the rules behind it and the default.
Skip(rules, n, i) == IF rules[i].action = "DENY" THEN n - i + 1 ELSE 0

\* The instructions by their place.
LEMMA ProgramAt ==
  ASSUME NEW rules \in Seq(Rules), NEW archIdx \in Int, NEW n \in Nat, n = Len(rules),
         NEW prog, prog = Box!Program(rules, archIdx)
  PROVE  /\ Len(prog) = n + 5
         /\ prog[1] = Box!Load /\ prog[2] = Box!Jeq("arch", "native", 0, n + 3 - archIdx)
         /\ prog[3] = Box!Load
         /\ \A i \in 1 .. n : prog[i + 3] = Box!Jeq("nr", rules[i].nr, Skip(rules, n, i), 0)
         /\ prog[n + 4] = Box!Ret("ALLOW") /\ prog[n + 5] = Box!Ret("KILL")
<1> DEFINE jump(i) == IF rules[i].action = "DENY" THEN Box!DenyJump(n, i - 1) ELSE 0
           body == [i \in 1 .. n |-> Box!Jeq("nr", rules[i].nr, jump(i), 0)]
           head == <<Box!Load, Box!Jeq("arch", "native", 0, (3 + n + 1) - archIdx - 1), Box!Load>>
           tail == <<Box!Ret("ALLOW"), Box!Ret("KILL")>>
           S == {body[i] : i \in 1 .. n} \cup {head[i] : i \in 1 .. 3} \cup {tail[i] : i \in 1 .. 2}
<1>1. prog = head \o body \o tail
  BY DEF Box!Program
<1>2. body \in Seq(S) /\ Len(body) = n /\ \A i \in 1 .. n : body[i] = Box!Jeq("nr", rules[i].nr, jump(i), 0)
  <2> HIDE DEF jump
  <2>1. \A i \in 1 .. n : body[i] \in S
    OBVIOUS
  <2> QED
    BY <2>1
<1>3. head \in Seq(S) /\ Len(head) = 3
  OBVIOUS
<1>4. tail \in Seq(S) /\ Len(tail) = 2
  OBVIOUS
<1>5. /\ head[1] = Box!Load /\ head[3] = Box!Load
      /\ head[2] = Box!Jeq("arch", "native", 0, n + 3 - archIdx)
  <2>1. (3 + n + 1) - archIdx - 1 = n + 3 - archIdx
    OBVIOUS
  <2> QED
    BY <2>1
<1>6. tail[1] = Box!Ret("ALLOW") /\ tail[2] = Box!Ret("KILL")
  OBVIOUS
<1>7. \A i \in 1 .. n : jump(i) = Skip(rules, n, i)
  BY DEF Box!DenyJump, Skip
<1> HIDE DEF body, head, tail, S, jump
<1>8. /\ head \o body \in Seq(S) /\ Len(head \o body) = n + 3
      /\ \A i \in 1 .. 3 : (head \o body)[i] = head[i]
      /\ \A i \in 1 .. n : (head \o body)[i + 3] = body[i]
  <2>1. 3 \in Nat /\ 3 + n = n + 3
    OBVIOUS
  <2>2. head \in Seq(S) /\ body \in Seq(S) /\ 3 = Len(head) /\ n = Len(body)
    BY <1>2, <1>3
  <2>3. PICK p \in Nat : p = 3
    OBVIOUS
  <2>4. /\ head \o body \in Seq(S) /\ Len(head \o body) = p + n
        /\ \A i \in 1 .. p : (head \o body)[i] = head[i]
        /\ \A i \in 1 .. n : (head \o body)[i + p] = body[i]
    <3>1. p = Len(head)
      BY <2>2, <2>3
    <3> QED
      BY <2>2, <3>1, Concatenated
  <2> QED
    BY <2>1, <2>3, <2>4
<1>9. /\ Len(prog) = n + 5
      /\ \A i \in 1 .. n + 3 : prog[i] = (head \o body)[i]
      /\ \A i \in 1 .. 2 : prog[i + (n + 3)] = tail[i]
  <2> DEFINE front == head \o body
  <2>1. 2 \in Nat /\ n + 3 \in Nat /\ (n + 3) + 2 = n + 5
    OBVIOUS
  <2>2. front \in Seq(S) /\ Len(front) = n + 3
    BY <1>8
  <2> HIDE DEF front
  <2>5. tail \in Seq(S) /\ 2 = Len(tail) /\ n + 3 = Len(front)
    BY <1>4, <2>2
  <2>3. /\ Len(front \o tail) = (n + 3) + 2
        /\ \A i \in 1 .. n + 3 : (front \o tail)[i] = front[i]
        /\ \A i \in 1 .. 2 : (front \o tail)[i + (n + 3)] = tail[i]
    <3>1. PICK q \in Nat : q = 2
      OBVIOUS
    <3>2. PICK p \in Nat : p = n + 3
      OBVIOUS
    <3>3. q = Len(tail) /\ p = Len(front)
      BY <2>5, <3>1, <3>2
    <3>4. /\ Len(front \o tail) = p + q
          /\ \A i \in 1 .. p : (front \o tail)[i] = front[i]
          /\ \A i \in 1 .. q : (front \o tail)[i + p] = tail[i]
      <4>1. front \in Seq(S) /\ tail \in Seq(S)
        BY <2>2, <2>5
      <4> QED
        BY <3>3, <4>1, Concatenated
    <3> QED
      BY <3>1, <3>2, <3>4
  <2>4. prog = front \o tail
    BY <1>1 DEF front
  <2> QED
    BY <2>1, <2>3, <2>4 DEF front
<1>10. prog[n + 4] = tail[1] /\ prog[n + 5] = tail[2]
  BY <1>9
<1>11. \A i \in 1 .. n : prog[i + 3] = body[i]
  <2>1. \A i \in 1 .. n : i + 3 \in 1 .. n + 3
    OBVIOUS
  <2> QED
    BY <1>8, <1>9, <2>1
<1>12. prog[1] = head[1] /\ prog[2] = head[2] /\ prog[3] = head[3]
  <2>1. {1, 2, 3} \subseteq 1 .. n + 3 /\ {1, 2, 3} \subseteq 1 .. 3
    OBVIOUS
  <2> QED
    BY <1>8, <1>9, <2>1
<1>13. \A i \in 1 .. n : prog[i + 3] = Box!Jeq("nr", rules[i].nr, Skip(rules, n, i), 0)
  BY <1>2, <1>7, <1>11
<1> QED
  BY <1>5, <1>6, <1>9, <1>10, <1>12, <1>13

\* The values of all instructions from the values in V of later ones.
Steps(V, prog, nr, n) == [k \in 1 .. n + 5 |-> Executed(V, prog, "native", nr, k)]
\* What E, an instruction's value from those of later ones in V, has to be.
Effects(E, V, rules, nr, n) ==
  /\ E[1] = V[2] /\ E[2] = V[3] /\ E[3] = V[4]
  /\ \A i \in 1 .. n : E[i + 3] = IF rules[i].nr = nr /\ rules[i].action = "DENY"
                                  THEN V[n + 5] ELSE V[i + 4]
  /\ E[n + 4] = "ALLOW" /\ E[n + 5] = "KILL"

\* What each instruction of seccomp_build_filter's program returns, by where it jumps.
LEMMA FlowOf ==
  ASSUME NEW rules \in Seq(Rules), NEW archIdx \in Int, NEW n \in Nat, n = Len(rules),
         NEW prog, prog = Box!Program(rules, archIdx), NEW nr, NEW V
  PROVE  Effects(Steps(V, prog, nr, n), V, rules, nr, n)
<1> DEFINE E(k) == Executed(V, prog, "native", nr, k)
<1>0. /\ Len(prog) = n + 5
      /\ prog[1] = Box!Load /\ prog[3] = Box!Load
      /\ prog[n + 4] = Box!Ret("ALLOW") /\ prog[n + 5] = Box!Ret("KILL")
  BY ProgramAt
<1>second. prog[2] = Box!Jeq("arch", "native", 0, n + 3 - archIdx)
  BY ProgramAt
<1>tests. \A i \in 1 .. n : prog[i + 3] = Box!Jeq("nr", rules[i].nr, Skip(rules, n, i), 0)
  BY ProgramAt
<1>1. E(1) = V[2]
  <2>1. prog[1].op = "load"
    BY <1>0 DEF Box!Load
  <2> QED
    BY <2>1 DEF Executed
<1>2. E(2) = V[3]
  <2>1. prog[2].op = "jeq" /\ prog[2].what = "arch" /\ prog[2].k = "native" /\ prog[2].jt = 0
    BY <1>second DEF Box!Jeq
  <2>2. E(2) = V[2 + 1 + 0]
    BY <2>1 DEF Executed
  <2> QED
    BY <2>2
<1>3. E(3) = V[4]
  <2>1. prog[3].op = "load"
    BY <1>0 DEF Box!Load
  <2> QED
    BY <2>1 DEF Executed
<1>4. ASSUME NEW i \in 1 .. n
      PROVE  E(i + 3) = IF rules[i].nr = nr /\ rules[i].action = "DENY"
                        THEN V[n + 5] ELSE V[i + 4]
  <2> DEFINE p == prog[i + 3]
             j == Skip(rules, n, i)
  <2>1. p = Box!Jeq("nr", rules[i].nr, j, 0)
    BY <1>tests
  <2>2. p.op = "jeq" /\ p.what = "nr" /\ p.k = rules[i].nr /\ p.jt = j /\ p.jf = 0
    BY <2>1 DEF Box!Jeq
  <2>3. E(i + 3) = V[(i + 3) + 1 + IF rules[i].nr = nr THEN j ELSE 0]
    <3> HIDE DEF j
    <3> QED
      BY <2>2 DEF Executed
  <2>4. (i + 3) + 1 + 0 = i + 4 /\ (i + 3) + 1 + (n - i + 1) = n + 5
    OBVIOUS
  <2> QED
    BY <2>3, <2>4 DEF Skip
<1>5. E(n + 4) = "ALLOW" /\ E(n + 5) = "KILL"
  <2>1. /\ prog[n + 4].op = "ret" /\ prog[n + 4].verdict = "ALLOW"
        /\ prog[n + 5].op = "ret" /\ prog[n + 5].verdict = "KILL"
    BY <1>0 DEF Box!Ret
  <2> QED
    BY <2>1 DEF Executed
<1>6. \A k \in 1 .. n + 5 : Steps(V, prog, nr, n)[k] = E(k)
  BY DEF Steps
<1>7. {1, 2, 3, n + 4, n + 5} \subseteq 1 .. n + 5 /\ \A i \in 1 .. n : i + 3 \in 1 .. n + 5
  OBVIOUS
<1> HIDE DEF E
<1> QED
  BY <1>1, <1>2, <1>3, <1>4, <1>5, <1>6, <1>7 DEF Effects

\* Some rule from the i-th on denies nr.
Denied(rules, nr, i) ==
  \E j \in i .. Len(rules) : rules[j].nr = nr /\ rules[j].action = "DENY"
Fate(rules, nr, i) == IF Denied(rules, nr, i) THEN "KILL" ELSE "ALLOW"

\* The fate of a call from rule i on is the rule's, or the one from the next rule on.
LEMMA FateStep ==
  ASSUME NEW rules \in Seq(Rules), NEW n \in Nat, n = Len(rules), NEW nr, NEW i \in 1 .. n
  PROVE  Fate(rules, nr, i) = IF rules[i].nr = nr /\ rules[i].action = "DENY"
                              THEN "KILL" ELSE Fate(rules, nr, i + 1)
<1>1. CASE rules[i].nr = nr /\ rules[i].action = "DENY"
  <2>1. Denied(rules, nr, i)
    BY <1>1 DEF Denied
  <2> QED
    BY <1>1, <2>1 DEF Fate
<1>2. CASE ~(rules[i].nr = nr /\ rules[i].action = "DENY")
  <2>1. \A j \in i .. n : j = i \/ j \in i + 1 .. n
    OBVIOUS
  <2>2. Denied(rules, nr, i) <=> Denied(rules, nr, i + 1)
    BY <1>2, <2>1 DEF Denied
  <2> QED
    BY <1>2, <2>2 DEF Fate
<1> QED
  BY <1>1, <1>2

\* A solution of the equations above: nothing is executed twice.
LEMMA SolutionExists ==
  ASSUME NEW rules \in Seq(Rules), NEW archIdx \in Int, NEW nr
  PROVE  \E W : Interprets(W, Box!Program(rules, archIdx), "native", nr)
<1> DEFINE prog == Box!Program(rules, archIdx)
<1>1. PICK n \in Nat : n = Len(rules)
  OBVIOUS
<1> DEFINE W == [k \in 1 .. n + 5 |-> IF k = n + 5 THEN "KILL"
                                      ELSE Fate(rules, nr, IF k <= 3 THEN 1 ELSE k - 3)]
           E == Steps(W, prog, nr, n)
<1>2. /\ Len(prog) = n + 5
  BY <1>1, ProgramAt
<1>3. /\ W[1] = Fate(rules, nr, 1) /\ W[2] = Fate(rules, nr, 1) /\ W[3] = Fate(rules, nr, 1)
      /\ \A i \in 1 .. n + 1 : W[i + 3] = Fate(rules, nr, i)
      /\ W[n + 5] = "KILL"
  <2>1. \A i \in 1 .. n + 1 : /\ i + 3 \in 1 .. n + 5 /\ i + 3 # n + 5 /\ ~(i + 3 <= 3)
                              /\ (i + 3) - 3 = i
    OBVIOUS
  <2>2. {1, 2, 3, n + 5} \subseteq 1 .. n + 5 /\ n + 5 \notin {1, 2, 3}
    OBVIOUS
  <2> QED
    BY <2>1, <2>2
<1> HIDE DEF W, prog
<1>4. /\ E[1] = W[2] /\ E[2] = W[3] /\ E[3] = W[4]
      /\ \A i \in 1 .. n : E[i + 3] = IF rules[i].nr = nr /\ rules[i].action = "DENY"
                                      THEN W[n + 5] ELSE W[i + 4]
      /\ E[n + 4] = "ALLOW" /\ E[n + 5] = "KILL"
  <2>1. prog = Box!Program(rules, archIdx)
    BY DEF prog
  <2>2. Effects(E, W, rules, nr, n)
    BY <1>1, <2>1, FlowOf
  <2> QED
    BY <2>2 DEF Effects
<1> HIDE DEF E
<1>5. W[4] = Fate(rules, nr, 1) /\ W[n + 4] = Fate(rules, nr, n + 1)
  <2>1. 1 + 3 = 4 /\ (n + 1) + 3 = n + 4 /\ 1 \in 1 .. n + 1 /\ n + 1 \in 1 .. n + 1
    OBVIOUS
  <2> QED
    BY <1>3, <2>1
<1>6. Fate(rules, nr, n + 1) = "ALLOW"
  <2>1. (n + 1) .. n = {}
    OBVIOUS
  <2> QED
    BY <1>1, <2>1 DEF Fate, Denied
<1>7. ASSUME NEW k \in 1 .. n + 5 PROVE W[k] = E[k]
  <2>1. CASE k \in {1, 2, 3}
    BY <1>3, <1>4, <1>5, <2>1
  <2>2. CASE k \in {n + 4, n + 5}
    BY <1>3, <1>4, <1>5, <1>6, <2>2
  <2>3. CASE k \notin {1, 2, 3, n + 4, n + 5}
    <3> DEFINE i == k - 3
    <3>1. i \in 1 .. n /\ i + 3 = k /\ i \in 1 .. n + 1 /\ i + 1 \in 1 .. n + 1 /\ (i + 1) + 3 = i + 4
      BY <2>3
    <3> HIDE DEF i
    <3>2. W[k] = Fate(rules, nr, i) /\ W[i + 4] = Fate(rules, nr, i + 1)
      BY <1>3, <3>1
    <3>3. E[k] = IF rules[i].nr = nr /\ rules[i].action = "DENY" THEN W[n + 5] ELSE W[i + 4]
      BY <1>4, <3>1
    <3>4. Fate(rules, nr, i) = IF rules[i].nr = nr /\ rules[i].action = "DENY"
                               THEN "KILL" ELSE Fate(rules, nr, i + 1)
      BY <1>1, <3>1, FateStep
    <3> QED
      BY <1>3, <3>2, <3>3, <3>4
  <2> QED
    BY <2>1, <2>2, <2>3
<1>8. W = [k \in 1 .. n + 5 |-> W[k]]
  BY DEF W
<1>9. W = E
  <2>1. E = [k \in 1 .. n + 5 |-> E[k]]
    BY DEF E, Steps
  <2> QED
    BY <1>7, <1>8, <2>1
<1> QED
  BY <1>2, <1>9 DEF Interprets, prog, E, Steps

\* Any solution begins with what the rules say, by induction from the end.
LEMMA VerdictIsFate ==
  ASSUME NEW rules \in Seq(Rules), NEW archIdx \in Int, NEW nr
  PROVE  Box!Verdict(Box!Program(rules, archIdx), "native", nr) = Fate(rules, nr, 1)
<1> DEFINE prog == Box!Program(rules, archIdx)
<1>1. PICK n \in Nat : n = Len(rules)
  OBVIOUS
<1>2. PICK V : Interprets(V, prog, "native", nr) /\ Box!Verdict(prog, "native", nr) = V[1]
  BY SolutionExists, VerdictIsInterpreted
<1>3. Len(prog) = n + 5
  BY <1>1, ProgramAt
<1>4. V = Steps(V, prog, nr, n)
  BY <1>2, <1>3 DEF Interprets, Steps
<1>5. Effects(V, V, rules, nr, n)
  <2>1. prog = Box!Program(rules, archIdx)
    OBVIOUS
  <2> HIDE DEF prog
  <2> QED
    <3>1. Effects(Steps(V, prog, nr, n), V, rules, nr, n)
      BY <1>1, <2>1, FlowOf
    <3> QED
      BY <1>4, <3>1
<1> HIDE DEF prog
<1>6. /\ V[1] = V[2] /\ V[2] = V[3] /\ V[3] = V[4]
      /\ V[n + 4] = "ALLOW" /\ V[n + 5] = "KILL"
  BY <1>5 DEF Effects
<1>7. \A i \in 1 .. n : V[i + 3] = IF rules[i].nr = nr /\ rules[i].action = "DENY"
                                   THEN "KILL" ELSE V[i + 4]
  BY <1>5 DEF Effects
<1> DEFINE S == {m \in 0 .. n : V[(n + 1 - m) + 3] = Fate(rules, nr, n + 1 - m)}
<1>8. 0 \in S
  <2>1. (n + 1) .. n = {} /\ (n + 1 - 0) + 3 = n + 4 /\ n + 1 - 0 = n + 1 /\ 0 \in 0 .. n
    OBVIOUS
  <2>2. Fate(rules, nr, n + 1) = "ALLOW"
    BY <1>1, <2>1 DEF Fate, Denied
  <2> QED
    BY <1>6, <2>1, <2>2
<1>9. ASSUME NEW m \in 0 .. n - 1, m \in S PROVE m + 1 \in S
  <2> DEFINE i == n - m
  <2>1. i \in 1 .. n /\ n + 1 - m = i + 1 /\ n + 1 - (m + 1) = i /\ m + 1 \in 0 .. n
    OBVIOUS
  <2>2. (i + 1) + 3 = i + 4
    OBVIOUS
  <2>3. V[i + 4] = Fate(rules, nr, i + 1)
    BY <1>9, <2>1, <2>2
  <2> HIDE DEF i
  <2>4. V[i + 3] = Fate(rules, nr, i)
    BY <1>1, <1>7, <2>1, <2>3, FateStep
  <2> QED
    BY <2>1, <2>4
<1>10. n \in S
  <2>1. \A m \in 0 .. n - 1 : m \in S => m + 1 \in S
    BY <1>9
  <2> HIDE DEF S
  <2>2. 0 .. n \subseteq S
    BY <1>8, <2>1, UpTo
  <2> QED
    BY <2>2
<1>11. V[4] = Fate(rules, nr, 1)
  <2>1. n + 1 - n = 1 /\ 1 + 3 = 4
    OBVIOUS
  <2> QED
    BY <1>10, <2>1
<1> QED
  BY <1>2, <1>6, <1>11 DEF prog

-----------------------------------------------------------------------------
(* Policies and their files.                                               *)

\* The fields of sbx_policy_t.
PolicyFields == {"level", "paths", "rules", "net", "ipc", "hw", "profile", "pids", "fds",
           "memory", "cpu"}

\* A policy that fits its arrays.
PolicyOK(p) ==
  /\ DOMAIN p = PolicyFields
  /\ p.level \in Box!AnyLevel
  /\ p.rules \in Seq(Rules) /\ Len(p.rules) <= MaxRules
  /\ \E S : p.paths \in Seq(S)
  /\ Len(p.paths) <= MaxPaths

\* A file whose level lines name levels.
FileOK(f) ==
  /\ Len(f) \in Nat
  /\ \A i \in 1 .. Len(f) : f[i].key = "level" => f[i].val \in Box!AnyLevel

\* seccomp_add_rule in a loop leaves rules that fit the array.
LEMMA AddRulesFit ==
  ASSUME NEW rules \in Seq(Rules), NEW deny \in Seq(Syscalls)
  PROVE  Box!AddRules(rules, deny) \in Seq(Rules) /\ Len(Box!AddRules(rules, deny)) <= MaxRules
<1> DEFINE more == [i \in 1 .. Len(deny) |-> Box!Rule(deny[i], "DENY")]
           all == rules \o more
<1>1. more \in Seq(Rules)
  BY DEF Box!Rule, Rules, Box!Actions
<1> HIDE DEF more
<1>2. all \in Seq(Rules)
  BY <1>1
<1> HIDE DEF all
<1>3. PICK k \in Nat : k = (IF Len(all) <= MaxRules THEN Len(all) ELSE MaxRules)
  BY <1>2, LimitsAreNat
<1>4. k <= Len(all) /\ k <= MaxRules
  BY <1>2, <1>3, LimitsAreNat
<1>5. SubSeq(all, 1, k) \in Seq(Rules) /\ Len(SubSeq(all, 1, k)) = k
  BY <1>2, <1>4
<1>6. Box!AddRules(rules, deny) = SubSeq(all, 1, k)
  BY <1>3 DEF Box!AddRules, all, more
<1> QED
  BY <1>4, <1>5, <1>6

\* The presets' rules fit the array.
LEMMA PresetsFit ==
  /\ Box!PresetNormal \in Seq(Rules) /\ Len(Box!PresetNormal) <= MaxRules
  /\ Box!PresetStrict \in Seq(Rules) /\ Len(Box!PresetStrict) <= MaxRules
<1>1. <<>> \in Seq(Rules)
  OBVIOUS
<1>2. Box!PresetNormal \in Seq(Rules) /\ Len(Box!PresetNormal) <= MaxRules
  BY <1>1, AddRulesFit, PresetsAreBlocked DEF Box!PresetNormal
<1>3. Box!PresetStrict \in Seq(Rules) /\ Len(Box!PresetStrict) <= MaxRules
  BY <1>2, AddRulesFit, PresetsAreBlocked DEF Box!PresetStrict
<1> QED
  BY <1>2, <1>3

\* The zeroed policy is one.
LEMMA EmptyOK ==
  PolicyOK(Box!Empty) /\ Box!Empty.rules = <<>> /\ Box!Empty.paths = <<>>
<1>1. /\ DOMAIN Box!Empty = PolicyFields /\ Box!Empty.level = "NONE"
      /\ Box!Empty.rules = <<>> /\ Box!Empty.paths = <<>>
  BY DEF Box!Empty, PolicyFields
<1>2. <<>> \in Seq(Rules) /\ Len(<<>>) = 0
  OBVIOUS
<1>3. <<>> \in Seq({})
  OBVIOUS
<1>4. 0 <= MaxRules /\ 0 <= MaxPaths
  BY LimitsAreNat
<1>5. "NONE" \in Box!AnyLevel
  BY DEF Box!Levels, Box!AnyLevel
<1> QED
  BY <1>1, <1>2, <1>3, <1>4, <1>5 DEF PolicyOK

\* The path rules of the levels.
LEMMA PathsFit ==
  \E S : /\ Box!System \o Box!Temp \in Seq(S) /\ Len(Box!System \o Box!Temp) = 3
         /\ Box!System \o Box!Temp \o Box!DevicePaths \in Seq(S)
         /\ Len(Box!System \o Box!Temp \o Box!DevicePaths) = 5
         /\ Box!System \o Box!DevicePaths \in Seq(S) /\ Len(Box!System \o Box!DevicePaths) = 4
<1> DEFINE S == {Box!System[i] : i \in 1 .. 2} \cup {Box!Temp[i] : i \in 1 .. 1}
                  \cup {Box!DevicePaths[i] : i \in 1 .. 2}
<1>1. Box!System \in Seq(S) /\ Len(Box!System) = 2
  BY DEF Box!System
<1>2. Box!Temp \in Seq(S) /\ Len(Box!Temp) = 1
  BY DEF Box!Temp
<1>3. Box!DevicePaths \in Seq(S) /\ Len(Box!DevicePaths) = 2
  BY DEF Box!DevicePaths
<1> HIDE DEF S
<1> DEFINE st == Box!System \o Box!Temp
           std == st \o Box!DevicePaths
           sd == Box!System \o Box!DevicePaths
<1>7. \A a, b \in Seq(S) : a \o b \in Seq(S) /\ Len(a \o b) = Len(a) + Len(b)
  OBVIOUS
<1>4. st \in Seq(S) /\ Len(st) = 3
  <2>1. Box!System \in Seq(S) /\ Box!Temp \in Seq(S)
    BY <1>1, <1>2
  <2>2. st \in Seq(S) /\ Len(st) = Len(Box!System) + Len(Box!Temp)
    BY <1>7, <2>1
  <2> HIDE DEF st
  <2> QED
    BY <1>1, <1>2, <2>2
<1>5. std \in Seq(S) /\ Len(std) = 5
  <2> HIDE DEF st
  <2>1. st \in Seq(S) /\ Box!DevicePaths \in Seq(S)
    BY <1>3, <1>4
  <2>2. std \in Seq(S) /\ Len(std) = Len(st) + Len(Box!DevicePaths)
    BY <1>7, <2>1
  <2> HIDE DEF std
  <2> QED
    BY <1>3, <1>4, <2>2
<1>6. sd \in Seq(S) /\ Len(sd) = 4
  <2>1. Box!System \in Seq(S) /\ Box!DevicePaths \in Seq(S)
    BY <1>1, <1>3
  <2>2. sd \in Seq(S) /\ Len(sd) = Len(Box!System) + Len(Box!DevicePaths)
    BY <1>7, <2>1
  <2> HIDE DEF sd
  <2> QED
    BY <1>1, <1>3, <2>2
<1> QED
  BY <1>4, <1>5, <1>6

\* What sbx_policy_default fills in fits the policy's arrays.
LEMMA DefaultOK ==
  ASSUME NEW l \in Box!Levels
  PROVE  PolicyOK(Box!Default(l))
<1> DEFINE p == Box!Default(l)
<1>1. DOMAIN p = PolicyFields /\ p.level = l
  BY DEF Box!Default, Box!Empty, PolicyFields, Box!Levels
<1>2. \/ p.rules = <<>> \/ p.rules = Box!PresetNormal \/ p.rules = Box!PresetStrict
  BY DEF Box!Default, Box!Empty, Box!Levels
<1>3. \/ p.paths = <<>> \/ p.paths = Box!System \o Box!Temp
      \/ p.paths = Box!System \o Box!Temp \o Box!DevicePaths
      \/ p.paths = Box!System \o Box!DevicePaths
      \/ p.paths = <<Box!PathRule("/usr/lib", {"READ"}),
                     Box!PathRule("/dev/null", {"READ", "WRITE"})>>
  BY DEF Box!Default, Box!Empty, Box!Levels
<1> HIDE DEF p
<1>4. p.rules \in Seq(Rules) /\ Len(p.rules) <= MaxRules
  <2>1. <<>> \in Seq(Rules) /\ Len(<<>>) = 0 /\ 0 <= MaxRules
    BY LimitsAreNat
  <2> QED
    BY <1>2, <2>1, PresetsFit
<1>5. (\E S : p.paths \in Seq(S)) /\ Len(p.paths) <= 5
  <2> DEFINE two == <<Box!PathRule("/usr/lib", {"READ"}),
                      Box!PathRule("/dev/null", {"READ", "WRITE"})>>
             T == {two[i] : i \in 1 .. 2}
  <2>1. two \in Seq(T) /\ Len(two) = 2
    OBVIOUS
  <2>2. <<>> \in Seq(T) /\ Len(<<>>) = 0
    OBVIOUS
  <2> HIDE DEF two, T
  <2>3. CASE p.paths = two
    <3>1. p.paths \in Seq(T)
      BY <2>1, <2>3
    <3>2. Len(p.paths) = 2
      BY <2>1, <2>3
    <3> QED
      BY <3>1, <3>2
  <2>4. CASE p.paths = <<>>
    BY <2>2, <2>4
  <2>5. CASE \/ p.paths = Box!System \o Box!Temp
             \/ p.paths = Box!System \o Box!Temp \o Box!DevicePaths
             \/ p.paths = Box!System \o Box!DevicePaths
    <3>1. PICK S : /\ Box!System \o Box!Temp \in Seq(S)
                   /\ Box!System \o Box!Temp \o Box!DevicePaths \in Seq(S)
                   /\ Box!System \o Box!DevicePaths \in Seq(S)
                   /\ Len(Box!System \o Box!Temp) = 3
                   /\ Len(Box!System \o Box!Temp \o Box!DevicePaths) = 5
                   /\ Len(Box!System \o Box!DevicePaths) = 4
      BY PathsFit
    <3>2. p.paths \in Seq(S)
      BY <2>5, <3>1
    <3>3. Len(p.paths) <= 5
      BY <2>5, <3>1
    <3> QED
      BY <3>2, <3>3
  <2> QED
    BY <1>3, <2>3, <2>4, <2>5 DEF two
<1>6. Len(p.paths) <= MaxPaths
  <2>1. Len(p.paths) \in Nat
    BY <1>5
  <2> QED
    BY <1>5, <2>1, PresetsAreBlocked, LimitsAreNat
<1>7. p.level \in Box!AnyLevel
  BY <1>1 DEF Box!AnyLevel
<1>8. PolicyOK(p)
  BY <1>1, <1>4, <1>5, <1>6, <1>7 DEF PolicyOK
<1> QED
  BY <1>8 DEF p

\* The instance's Cardinality is that of the library's theorems.
LEMMA BoxCardinality == \A S : Box!Cardinality(S) = Cardinality(S)
BY DEF Box!Cardinality, Cardinality

\* What sbx_policy_load reads fits the policy's arrays, whatever the file says.
LEMMA LoadedOK ==
  ASSUME NEW f, FileOK(f)
  PROVE  PolicyOK(Box!Loaded(f)) /\ Box!Loaded(f).rules = <<>>
<1> DEFINE p == Box!Loaded(f)
           I == {i \in 1 .. Len(f) : f[i].key = "path"}
           L == {i \in 1 .. Len(f) : f[i].key = "level"}
<1>1. PICK n \in Nat : n = Len(f)
  BY DEF FileOK
<1>2. Cardinality(I) \in Nat
  <2>1. IsFiniteSet(1 .. n)
    BY FS_Interval
  <2>2. I \subseteq 1 .. n
    BY <1>1
  <2> QED
    BY <2>1, <2>2, FS_Subset, FS_CardinalityType
<1>3. PICK m \in Nat : m = (IF Cardinality(I) <= MaxPaths THEN Cardinality(I) ELSE MaxPaths)
  BY <1>2, LimitsAreNat
<1>4. m <= MaxPaths
  BY <1>2, <1>3, LimitsAreNat
<1> DEFINE nth(k) == CHOOSE i \in I : Box!Cardinality({j \in I : j < i}) = k - 1
<1>5. p.paths = [k \in 1 .. m |-> f[nth(k)].val]
  <2>1. m = (IF Box!Cardinality(I) <= MaxPaths THEN Box!Cardinality(I) ELSE MaxPaths)
    BY <1>3, BoxCardinality
  <2>2. p.paths = [k \in 1 .. (IF Box!Cardinality(I) <= MaxPaths
                                THEN Box!Cardinality(I) ELSE MaxPaths) |-> f[nth(k)].val]
    BY DEF Box!Loaded
  <2> HIDE DEF p, nth, I
  <2> QED
    BY <2>1, <2>2
<1>6. p.paths \in Seq({f[nth(k)].val : k \in 1 .. m}) /\ Len(p.paths) = m
  <2> HIDE DEF nth, p
  <2> QED
    BY <1>5
<1>7. /\ DOMAIN p = PolicyFields /\ p.rules = <<>>
      /\ p.level = Box!LastOf(f, "level", "NONE")
  BY DEF Box!Loaded, PolicyFields
<1>8. Box!LastOf(f, "level", "NONE") \in Box!AnyLevel
  <2>1. CASE L = {}
    BY <2>1 DEF Box!LastOf, Box!Levels, Box!AnyLevel
  <2>2. CASE L # {}
    <3>1. L \subseteq 1 .. n
      BY <1>1
    <3> DEFINE i == CHOOSE i \in L : \A j \in L : j <= i
    <3>2. i \in L
      <4> HIDE DEF L
      <4>1. \E k \in L : \A j \in L : j <= k
        BY <2>2, <3>1, MaxExists
      <4> QED
        BY <4>1
    <3>3. Box!LastOf(f, "level", "NONE") = f[i].val
      BY <2>2 DEF Box!LastOf
    <3> HIDE DEF i
    <3> QED
      BY <3>2, <3>3 DEF FileOK
  <2> QED
    BY <2>1, <2>2
<1>9. <<>> \in Seq(Rules) /\ Len(<<>>) = 0 /\ 0 <= MaxRules
  BY LimitsAreNat
<1> HIDE DEF p
<1>10. \E S : p.paths \in Seq(S)
  BY <1>6
<1>11. PolicyOK(p) /\ p.rules = <<>>
  BY <1>4, <1>6, <1>7, <1>8, <1>9, <1>10 DEF PolicyOK
<1> QED
  BY <1>11 DEF p

\* sbx_policy_save writes a file that says a level.
LEMMA SavedOK ==
  ASSUME NEW p, PolicyOK(p)
  PROVE  FileOK(Box!Saved(p))
<1> DEFINE others == {"net", "ipc", "hw", "apparmor", "max_memory", "max_pids", "max_fds", "path"}
           V == {p.net, p.ipc, p.hw, TRUE, p.memory, p.pids, p.fds}
                  \cup {p.paths[i] : i \in 1 .. Len(p.paths)}
           L == {Box!Line("level", p.level)} \cup {Box!Line(k, v) : k \in others, v \in V}
           one == <<Box!Line("level", p.level), Box!Line("net", p.net), Box!Line("ipc", p.ipc),
                    Box!Line("hw", p.hw)>>
           two   == Box!LineIf(p.profile, "apparmor", TRUE)
           three == Box!LineIf(p.memory # 0, "max_memory", p.memory)
           four  == Box!LineIf(p.pids # 0, "max_pids", p.pids)
           five  == Box!LineIf(p.fds # 0, "max_fds", p.fds)
           six   == [i \in 1 .. Len(p.paths) |-> Box!Line("path", p.paths[i])]
<1>1. \A k \in others, v \in V : Box!Line(k, v) \in L
  <2> HIDE DEF others, V
  <2> QED
    OBVIOUS
<1>2. one \in Seq(L)
  <2>1. /\ Box!Line("level", p.level) \in L /\ Box!Line("net", p.net) \in L
        /\ Box!Line("ipc", p.ipc) \in L /\ Box!Line("hw", p.hw) \in L
    <3>1. {"net", "ipc", "hw"} \subseteq others /\ {p.net, p.ipc, p.hw} \subseteq V
      OBVIOUS
    <3>2. Box!Line("level", p.level) \in L
      OBVIOUS
    <3> HIDE DEF L, others, V
    <3> QED
      BY <1>1, <3>1, <3>2
  <2> HIDE DEF L
  <2> QED
    BY <2>1
<1>3. \A k \in others, v \in V : \A b : Box!LineIf(b, k, v) \in Seq(L)
  <2> HIDE DEF L, others, V
  <2>1. <<>> \in Seq(L)
    OBVIOUS
  <2>2. \A l \in L : <<l>> \in Seq(L)
    OBVIOUS
  <2> QED
    BY <1>1, <2>1, <2>2 DEF Box!LineIf
<1>4. two \in Seq(L) /\ three \in Seq(L) /\ four \in Seq(L) /\ five \in Seq(L)
  <2>1. {"apparmor", "max_memory", "max_pids", "max_fds"} \subseteq others
    OBVIOUS
  <2>2. {TRUE, p.memory, p.pids, p.fds} \subseteq V
    OBVIOUS
  <2> HIDE DEF L, others, V
  <2> QED
    BY <1>3, <2>1, <2>2
<1>5. six \in Seq(L)
  <2>1. Len(p.paths) \in Nat
    BY DEF PolicyOK
  <2>2. \A i \in 1 .. Len(p.paths) : Box!Line("path", p.paths[i]) \in L
    <3>1. "path" \in others /\ \A i \in 1 .. Len(p.paths) : p.paths[i] \in V
      OBVIOUS
    <3> HIDE DEF L, others, V
    <3> QED
      BY <1>1, <3>1
  <2> HIDE DEF L
  <2> QED
    BY <2>1, <2>2
<1>6. Box!Saved(p) = one \o two \o three \o four \o five \o six
  BY DEF Box!Saved
<1>7. Box!Saved(p) \in Seq(L)
  <2> HIDE DEF L, one, two, three, four, five, six
  <2>1. \A a, b \in Seq(L) : a \o b \in Seq(L)
    OBVIOUS
  <2> QED
    BY <1>2, <1>4, <1>5, <1>6, <2>1
<1>8. \A l \in L : l.key = "level" => l.val \in Box!AnyLevel
  <2>1. \A k, v : Box!Line(k, v).key = k /\ Box!Line(k, v).val = v
    BY DEF Box!Line
  <2>2. "level" \notin others
    OBVIOUS
  <2>3. p.level \in Box!AnyLevel
    BY DEF PolicyOK
  <2> HIDE DEF others, V
  <2> QED
    BY <2>1, <2>2, <2>3
<1> HIDE DEF L
<1> QED
  BY <1>7, <1>8 DEF FileOK

-----------------------------------------------------------------------------
(* The inductive invariant.                                                *)

\* Where the launch is behind a layer.
PastAppArmor == {"exec", "running", "exit 127"}
PastSeccomp  == PastAppArmor \cup {"apparmor"}
PastLandlock == PastSeccomp \cup {"seccomp"}

\* Each layer the launch is behind is in force or reported, if it was asked for.
LayersInv ==
  /\ boxPc \in {"build", "landlock", "seccomp", "apparmor", "exec", "running", "exit 127"}
  /\ inForce \subseteq Box!Layers /\ reported \subseteq Box!Layers
  /\ granted \subseteq Box!Range(policy.paths)
  /\ boxPc \in {"build", "landlock"} => inForce = {} /\ granted = {}
  /\ boxPc # "build" => {"landlock", "apparmor"} \ kernel \subseteq reported
  /\ policy.level # "NONE" =>
       /\ boxPc \in PastLandlock /\ policy.paths # <<>> => "landlock" \in inForce \cup reported
       /\ boxPc \in PastSeccomp /\ policy.rules # <<>> => "seccomp" \in inForce \cup reported
       /\ boxPc \in PastAppArmor /\ policy.profile => "apparmor" \in inForce \cup reported

\* The invariant of the sandbox.
BoxInv == PolicyOK(policy) /\ FileOK(policyFile) /\ LayersInv

\* A sandbox starts in the invariant.
LEMMA BoxInit == Box!Init => BoxInv
<1> SUFFICES ASSUME Box!Init PROVE BoxInv
  OBVIOUS
<1>1. PolicyOK(policy)
  BY EmptyOK DEF Box!Init
<1>2. FileOK(policyFile)
  BY PoliciesAreLines DEF Box!Init, FileOK
<1>3. LayersInv
  BY DEF Box!Init, LayersInv, PastLandlock, PastSeccomp, PastAppArmor
<1> QED
  BY <1>1, <1>2, <1>3 DEF BoxInv

\* A policy built from one that fits keeps the invariant.
LEMMA BoxBuild ==
  ASSUME BoxInv, NEW p, PolicyOK(p), Box!Built(p)
  PROVE  BoxInv'
<1>1. /\ boxPc = "build" /\ boxPc' = "build" /\ policy' = p
      /\ policyFile' = policyFile /\ kernel' = kernel
      /\ inForce' = inForce /\ granted' = granted /\ reported' = reported
  BY DEF Box!Built
<1>2. PolicyOK(policy')
  BY <1>1
<1>3. LayersInv'
  BY <1>1 DEF BoxInv, LayersInv, PastLandlock, PastSeccomp, PastAppArmor
<1> QED
  BY <1>1, <1>2, <1>3 DEF BoxInv, PolicyOK, FileOK

\* Composing a policy, or its filter, keeps the invariant.
LEMMA BoxCompose ==
  ASSUME BoxInv, Box!Compose \/ Box!Filter
  PROVE  BoxInv'
<1>1. CASE Box!UseFile
  BY <1>1, LoadedOK, BoxBuild DEF Box!UseFile, BoxInv
<1>2. ASSUME NEW l \in Box!Levels, Box!UseLevel(l) PROVE BoxInv'
  BY <1>2, DefaultOK, BoxBuild DEF Box!UseLevel
<1>3. CASE Box!SetProfile
  <2> DEFINE p == [policy EXCEPT !.profile = TRUE]
  <2>1. /\ DOMAIN p = DOMAIN policy /\ p.level = policy.level /\ p.rules = policy.rules
        /\ p.paths = policy.paths
    BY DEF BoxInv, PolicyOK, PolicyFields
  <2>2. Box!Built(p)
    BY <1>3 DEF Box!SetProfile
  <2> HIDE DEF p
  <2>3. PolicyOK(p)
    BY <2>1 DEF BoxInv, PolicyOK
  <2> QED
    BY <2>2, <2>3, BoxBuild
<1>4. ASSUME NEW a, NEW r, Box!AddPath(a, r) PROVE BoxInv'
  <2> DEFINE rule == Box!PathRule(a, r)
             p == [policy EXCEPT !.paths = Append(@, rule)]
  <2>1. /\ DOMAIN p = DOMAIN policy /\ p.level = policy.level /\ p.rules = policy.rules
        /\ p.paths = Append(policy.paths, rule)
    BY DEF BoxInv, PolicyOK, PolicyFields
  <2>2. Box!Built(p) /\ Len(policy.paths) < MaxPaths
    BY <1>4 DEF Box!AddPath
  <2> HIDE DEF p, rule
  <2>3. PICK S : policy.paths \in Seq(S)
    BY DEF BoxInv, PolicyOK
  <2>4. policy.paths \in Seq(S \cup {rule})
    BY <2>3
  <2>5. Append(policy.paths, rule) \in Seq(S \cup {rule})
    BY <2>4
  <2>6. Len(Append(policy.paths, rule)) <= MaxPaths
    <3>1. PICK n \in Nat : n = Len(policy.paths)
      BY <2>3
    <3>2. Len(Append(policy.paths, rule)) = n + 1
      BY <2>4, <3>1
    <3> QED
      BY <2>2, <3>1, <3>2, LimitsAreNat
  <2>7. PolicyOK(p)
    BY <2>1, <2>5, <2>6 DEF BoxInv, PolicyOK
  <2> QED
    BY <2>2, <2>7, BoxBuild
<1>5. ASSUME NEW nr \in Syscalls, NEW a \in Box!Actions, Box!AddRule(nr, a) PROVE BoxInv'
  <2> DEFINE rule == Box!Rule(nr, a)
             p == [policy EXCEPT !.rules = Append(@, rule)]
  <2>1. /\ DOMAIN p = DOMAIN policy /\ p.level = policy.level /\ p.paths = policy.paths
        /\ p.rules = Append(policy.rules, rule)
    BY DEF BoxInv, PolicyOK, PolicyFields
  <2>2. Box!Built(p) /\ Len(policy.rules) < MaxRules
    BY <1>5 DEF Box!AddRule
  <2>3. rule \in Rules
    BY DEF Box!Rule, Rules
  <2> HIDE DEF p, rule
  <2>4. policy.rules \in Seq(Rules)
    BY DEF BoxInv, PolicyOK
  <2>5. Append(policy.rules, rule) \in Seq(Rules)
    BY <2>3, <2>4
  <2>6. Len(Append(policy.rules, rule)) <= MaxRules
    <3>1. PICK n \in Nat : n = Len(policy.rules)
      BY <2>4
    <3>2. Len(Append(policy.rules, rule)) = n + 1
      BY <2>3, <2>4, <3>1
    <3> QED
      BY <2>2, <3>1, <3>2, LimitsAreNat
  <2>7. PolicyOK(p)
    BY <2>1, <2>5, <2>6 DEF BoxInv, PolicyOK
  <2> QED
    BY <2>2, <2>7, BoxBuild
<1> QED
  BY <1>1, <1>2, <1>3, <1>4, <1>5 DEF Box!Compose, Box!Filter

\* Saving a policy keeps the invariant.
LEMMA BoxSave ==
  ASSUME BoxInv, Box!SavePolicy
  PROVE  BoxInv'
<1>1. /\ policyFile' = Box!Saved(policy) /\ boxPc' = boxPc /\ policy' = policy
      /\ kernel' = kernel /\ inForce' = inForce /\ granted' = granted /\ reported' = reported
  BY DEF Box!SavePolicy
<1>2. FileOK(policyFile')
  BY <1>1, SavedOK DEF BoxInv
<1>3. LayersInv'
  BY <1>1 DEF BoxInv, LayersInv, PastLandlock, PastSeccomp, PastAppArmor
<1> QED
  BY <1>1, <1>2, <1>3 DEF BoxInv, PolicyOK, FileOK

\* Every layer that sbx_apply tries keeps the invariant.
LEMMA BoxLaunch ==
  ASSUME BoxInv, Box!Launch
  PROVE  BoxInv'
<1> SUFFICES ASSUME policy' = policy, policyFile' = policyFile, kernel' = kernel, LayersInv
             PROVE  LayersInv'
  <2>1. policy' = policy /\ policyFile' = policyFile /\ kernel' = kernel
    BY DEF Box!Launch, Box!Apply, Box!ApplyLandlock, Box!ApplySeccomp, Box!ApplyAppArmor,
           Box!Exec, Box!Goto
  <2> QED
    BY <2>1 DEF BoxInv, PolicyOK, FileOK
<1>3. CASE Box!Apply
  BY <1>3 DEF Box!Apply, LayersInv, PastLandlock, PastSeccomp, PastAppArmor, Box!Layers
<1>4. CASE Box!ApplyLandlock
  BY <1>4 DEF Box!ApplyLandlock, Box!Goto, Box!Skipped, Box!Fails, Box!Enters,
     LayersInv, PastLandlock, PastSeccomp, PastAppArmor, Box!Layers
<1>5. CASE Box!ApplySeccomp
  BY <1>5 DEF Box!ApplySeccomp, Box!Goto, Box!Skipped, Box!SeccompFails, Box!Fails,
     Box!Enters, LayersInv, PastLandlock, PastSeccomp, PastAppArmor, Box!Layers
<1>6. CASE Box!ApplyAppArmor
  <2>1. Box!May("WRITE", "/proc") =>
          \/ "landlock" \notin inForce
          \/ \E r \in granted : r.path = "/proc" /\ "WRITE" \in r.rights
    BY DEF Box!May, Box!Beneath
  <2> QED
    BY <1>6, <2>1 DEF Box!ApplyAppArmor, Box!Goto, Box!Skipped, Box!Fails,
       Box!Enters, LayersInv, PastLandlock, PastSeccomp, PastAppArmor, Box!Layers
<1>7. CASE Box!Exec
  BY <1>7 DEF Box!Exec, Box!Goto, LayersInv, PastLandlock, PastSeccomp, PastAppArmor
<1> QED
  BY <1>3, <1>4, <1>5, <1>6, <1>7 DEF Box!Launch

\* The invariant of the sandbox holds in every reachable state.
LEMMA BoxInductive == Box!Spec => []BoxInv
<1>1. ASSUME BoxInv, [Box!Next]_(Box!vars) PROVE BoxInv'
  <2>1. CASE UNCHANGED Box!vars
    BY <1>1, <2>1 DEF Box!vars, BoxInv, PolicyOK, FileOK, LayersInv, PastLandlock, PastSeccomp, PastAppArmor
  <2> QED
    BY <1>1, <2>1, BoxCompose, BoxSave, BoxLaunch DEF Box!Next
<1> QED
  BY <1>1, BoxInit, PTL DEF Box!Spec

\* Types of the application sandbox.
THEOREM PolicyFitsItsArrays == Box!Spec => []Box!TypeOK
<1>1. BoxInv => Box!TypeOK
  BY DEF BoxInv, PolicyOK, LayersInv, Box!TypeOK
<1> QED
  BY <1>1, BoxInductive, PTL

\* The filter program, for all rules and every system call.
THEOREM FilterDeniesTheDenied == Box!Spec => []FilterMeansPolicy
<1>1. ASSUME BoxInv PROVE Box!FilterMeansPolicy
  <2>1. policy.rules \in Seq(Rules)
    BY <1>1 DEF BoxInv, PolicyOK
  <2>2. ASSUME NEW nr \in Syscalls, NEW archIdx \in {1, 2}
        PROVE  Box!Verdict(Box!Program(policy.rules, archIdx), "native", nr) =
                 IF \E i \in 1 .. Len(policy.rules) : policy.rules[i] = Box!Rule(nr, "DENY")
                 THEN "KILL" ELSE "ALLOW"
    <3>1. archIdx \in Int
      OBVIOUS
    <3>2. Box!Verdict(Box!Program(policy.rules, archIdx), "native", nr)
            = Fate(policy.rules, nr, 1)
      BY <2>1, <3>1, VerdictIsFate
    <3>3. \A i \in 1 .. Len(policy.rules) :
            policy.rules[i] = Box!Rule(nr, "DENY")
              <=> policy.rules[i].nr = nr /\ policy.rules[i].action = "DENY"
      <4>1. \A r \in Rules : r = Box!Rule(nr, "DENY") <=> r.nr = nr /\ r.action = "DENY"
        BY DEF Rules, Box!Rule
      <4> QED
        BY <2>1, <4>1
    <3> QED
      BY <3>2, <3>3 DEF Fate, Denied
  <2> QED
    BY <2>2 DEF Box!FilterMeansPolicy
<1> QED
  BY <1>1, BoxInductive, PTL DEF FilterMeansPolicy

\* No layer that the policy asks for is missing in silence.
THEOREM LayersInForceOrReported == Box!Spec => []AskedOrReported
<1>1. BoxInv => Box!AskedOrReported
  BY DEF BoxInv, LayersInv, PastLandlock, PastSeccomp, PastAppArmor, Box!AskedOrReported
<1> QED
  BY <1>1, BoxInductive, PTL DEF AskedOrReported

-----------------------------------------------------------------------------
(* The property table.                                                     *)

\* All settings that can be asked for.
Asks == {Props!Setting(k, v) : k \in Keys, v \in Vals} \cup PropLines
          \cup {Defaults[i] : i \in 1 .. Len(Defaults)}
KeysOf(s) == {s[i].key : i \in 1 .. Len(s)}
KeysTo(s, j) == {s[i].key : i \in 1 .. j - 1}

\* Table t is what the settings in log have made of the empty table.
TableOf(t, log) ==
  /\ t \in Seq(Asks) /\ log \in Seq(Asks)
  /\ Len(t) <= MaxProps
  /\ IsFiniteSet(KeysOf(t)) /\ Cardinality(KeysOf(t)) = Len(t) /\ IsFiniteSet(KeysOf(log))
  /\ \A i, j \in 1 .. Len(t) : t[i].key = t[j].key => i = j
  /\ \A i \in 1 .. Len(t) : \E j \in 1 .. Len(log) :
       /\ log[j].key = t[i].key /\ log[j].val = t[i].val
       /\ \A l \in 1 .. Len(log) : log[l].key = t[i].key => l <= j
  /\ Len(t) < MaxProps => \A j \in 1 .. Len(log) : log[j].key \in KeysOf(t)
  /\ \A j \in 1 .. Len(log) :
       (\A l \in 1 .. j - 1 : log[l].key # log[j].key) =>
          (log[j].key \in KeysOf(t) <=> Cardinality(KeysTo(log, j)) < MaxProps)

\* The keys of a list with one more entry.
LEMMA KeysOfAppend ==
  ASSUME NEW S, NEW s \in Seq(S), NEW e \in S
  PROVE  /\ KeysOf(Append(s, e)) = KeysOf(s) \cup {e.key}
         /\ KeysTo(Append(s, e), Len(s) + 1) = KeysOf(s)
         /\ \A j \in 1 .. Len(s) : KeysTo(Append(s, e), j) = KeysTo(s, j)
<1>1. PICK n \in Nat : n = Len(s)
  OBVIOUS
<1> DEFINE u == Append(s, e)
<1>2. Len(u) = n + 1 /\ u[n + 1] = e /\ \A i \in 1 .. n : u[i] = s[i]
  BY <1>1
<1> HIDE DEF u
<1>3. KeysOf(u) = {u[i].key : i \in 1 .. n} \cup {u[n + 1].key}
  <2>1. 1 .. n + 1 = (1 .. n) \cup {n + 1}
    OBVIOUS
  <2> QED
    BY <1>2, <2>1 DEF KeysOf
<1>4. {u[i].key : i \in 1 .. n} = KeysOf(s)
  BY <1>1, <1>2 DEF KeysOf
<1>5. KeysTo(u, n + 1) = KeysOf(s)
  BY <1>4 DEF KeysTo
<1>6. \A j \in 1 .. n : KeysTo(u, j) = KeysTo(s, j)
  BY <1>2 DEF KeysTo
<1> QED
  BY <1>1, <1>2, <1>3, <1>4, <1>5, <1>6 DEF u

\* The table's place of a key is the only one.
LEMMA PlaceIs ==
  ASSUME NEW t \in Seq(Asks), NEW k, NEW i \in 1 .. Len(t), t[i].key = k,
         \A a, b \in 1 .. Len(t) : t[a].key = t[b].key => a = b
  PROVE  Props!FirstPlace(t, k) = i /\ Props!Places(t, k) # {}
<1>1. \A j \in Props!Places(t, k) : j = i
  BY DEF Props!Places
<1>2. i \in Props!Places(t, k)
  BY DEF Props!Places
<1>3. \A j \in Props!Places(t, k) : i <= j
  BY <1>1
<1> QED
  BY <1>1, <1>2, <1>3 DEF Props!FirstPlace

\* A key has no place in a table that does not have it.
LEMMA NoPlace ==
  ASSUME NEW t, NEW k
  PROVE  Props!Places(t, k) = {} <=> k \notin KeysOf(t)
BY DEF Props!Places, KeysOf

\* One android_prop_set keeps the table to what the log of all settings says.
LEMMA SetKeepsTable ==
  ASSUME NEW t, NEW log, TableOf(t, log), NEW s \in Asks
  PROVE  TableOf(Props!Set(t, s), Append(log, s))
<1> DEFINE u == Props!Set(t, s)
           more == Append(log, s)
<1>1. PICK n \in Nat : n = Len(t)
  BY DEF TableOf
<1>2. PICK m \in Nat : m = Len(log)
  BY DEF TableOf
<1>3. /\ t \in Seq(Asks) /\ log \in Seq(Asks)
  BY DEF TableOf
<1>4. /\ more \in Seq(Asks) /\ Len(more) = m + 1 /\ more[m + 1] = s
      /\ \A i \in 1 .. m : more[i] = log[i]
  BY <1>2, <1>3
<1>5. /\ KeysOf(more) = KeysOf(log) \cup {s.key} /\ KeysTo(more, m + 1) = KeysOf(log)
      /\ \A j \in 1 .. m : KeysTo(more, j) = KeysTo(log, j)
  BY <1>2, <1>3, KeysOfAppend
<1>6. IsFiniteSet(KeysOf(more))
  BY <1>5, FS_AddElement DEF TableOf
<1>old. /\ \A i, j \in 1 .. n : t[i].key = t[j].key => i = j
        /\ \A i \in 1 .. n : \E j \in 1 .. m :
             /\ log[j].key = t[i].key /\ log[j].val = t[i].val
             /\ \A l \in 1 .. m : log[l].key = t[i].key => l <= j
        /\ n < MaxProps => \A j \in 1 .. m : log[j].key \in KeysOf(t)
        /\ \A j \in 1 .. m :
             (\A l \in 1 .. j - 1 : log[l].key # log[j].key) =>
               (log[j].key \in KeysOf(t) <=> Cardinality(KeysTo(log, j)) < MaxProps)
        /\ n <= MaxProps
        /\ IsFiniteSet(KeysOf(t)) /\ Cardinality(KeysOf(t)) = n /\ IsFiniteSet(KeysOf(log))
  BY <1>1, <1>2 DEF TableOf
<1>inlog. KeysOf(t) \subseteq KeysOf(log)
  BY <1>1, <1>2, <1>old DEF KeysOf
<1> HIDE DEF more
<1>7. CASE s.key \in KeysOf(t)
  <2>1. PICK p \in 1 .. n : t[p].key = s.key
    BY <1>1, <1>7 DEF KeysOf
  <2>2. u = [t EXCEPT ![p] = s]
    <3>1. Props!FirstPlace(t, s.key) = p
      BY <1>1, <1>3, <1>old, <2>1, PlaceIs
    <3>2. Props!Places(t, s.key) # {}
      BY <1>7, NoPlace
    <3> QED
      BY <3>1, <3>2 DEF Props!Set
  <2>3. /\ u \in Seq(Asks) /\ Len(u) = n /\ u[p] = s
        /\ \A i \in 1 .. n : i # p => u[i] = t[i]
    BY <1>1, <1>3, <2>1, <2>2
  <2> HIDE DEF u
  <2>4. \A i \in 1 .. n : u[i].key = t[i].key
    BY <2>1, <2>3
  <2>5. KeysOf(u) = KeysOf(t)
    BY <1>1, <2>3, <2>4 DEF KeysOf
  <2>6. \A i, j \in 1 .. n : u[i].key = u[j].key => i = j
    BY <1>old, <2>4
  <2>7. ASSUME NEW i \in 1 .. n
        PROVE  \E j \in 1 .. m + 1 :
                 /\ more[j].key = u[i].key /\ more[j].val = u[i].val
                 /\ \A l \in 1 .. m + 1 : more[l].key = u[i].key => l <= j
    <3>1. CASE i = p
      <4>1. /\ more[m + 1].key = u[i].key /\ more[m + 1].val = u[i].val
            /\ m + 1 \in 1 .. m + 1 /\ \A l \in 1 .. m + 1 : l <= m + 1
        BY <1>4, <2>3, <3>1
      <4> QED
        BY <4>1
    <3>2. CASE i # p
      <4>1. u[i] = t[i] /\ t[i].key # s.key
        BY <1>old, <2>1, <2>3, <3>2
      <4>2. PICK j \in 1 .. m : /\ log[j].key = t[i].key /\ log[j].val = t[i].val
                                /\ \A l \in 1 .. m : log[l].key = t[i].key => l <= j
        BY <1>old
      <4>3. \A l \in 1 .. m + 1 : l \in 1 .. m \/ l = m + 1
        OBVIOUS
      <4>4. \A l \in 1 .. m + 1 : more[l].key = u[i].key => l <= j
        BY <1>4, <4>1, <4>2, <4>3
      <4>5. j \in 1 .. m + 1 /\ more[j].key = u[i].key /\ more[j].val = u[i].val
        BY <1>4, <4>1, <4>2
      <4> QED
        BY <4>4, <4>5
    <3> QED
      BY <3>1, <3>2
  <2>8. n < MaxProps => \A j \in 1 .. m + 1 : more[j].key \in KeysOf(u)
    <3>1. \A j \in 1 .. m + 1 : j \in 1 .. m \/ j = m + 1
      OBVIOUS
    <3> QED
      BY <1>4, <1>7, <1>old, <2>5, <3>1
  <2>9. ASSUME NEW j \in 1 .. m + 1, \A l \in 1 .. j - 1 : more[l].key # more[j].key
        PROVE  more[j].key \in KeysOf(u) <=> Cardinality(KeysTo(more, j)) < MaxProps
    <3>1. CASE j \in 1 .. m
      <4>1. \A l \in 1 .. j - 1 : l \in 1 .. m
        BY <3>1
      <4>2. \A l \in 1 .. j - 1 : log[l].key # log[j].key
        BY <1>4, <2>9, <3>1, <4>1
      <4> QED
        BY <1>4, <1>5, <1>old, <2>5, <3>1, <4>2
    <3>2. CASE j = m + 1
      <4>1. (m + 1) - 1 = m
        OBVIOUS
      <4>2. s.key \notin KeysOf(log)
        BY <1>2, <1>4, <2>9, <3>2, <4>1 DEF KeysOf
      <4> QED
        BY <1>7, <1>inlog, <4>2
    <3> QED
      BY <3>1, <3>2
  <2>10. TableOf(u, more)
    BY <1>4, <1>6, <1>old, <2>3, <2>5, <2>6, <2>7, <2>8, <2>9 DEF TableOf
  <2> QED
    BY <2>10 DEF u, more
<1>8. CASE s.key \notin KeysOf(t) /\ n >= MaxProps
  <2>1. u = t
    BY <1>1, <1>8, NoPlace DEF Props!Set
  <2> HIDE DEF u
  <2>2. ~(n < MaxProps)
    BY <1>8, LimitsAreNat
  <2>3. ASSUME NEW i \in 1 .. n
        PROVE  \E j \in 1 .. m + 1 :
                 /\ more[j].key = t[i].key /\ more[j].val = t[i].val
                 /\ \A l \in 1 .. m + 1 : more[l].key = t[i].key => l <= j
    <3>1. t[i].key # s.key
      BY <1>1, <1>8 DEF KeysOf
    <3>2. PICK j \in 1 .. m : /\ log[j].key = t[i].key /\ log[j].val = t[i].val
                              /\ \A l \in 1 .. m : log[l].key = t[i].key => l <= j
      BY <1>old
    <3>3. \A l \in 1 .. m + 1 : l \in 1 .. m \/ l = m + 1
      OBVIOUS
    <3>4. \A l \in 1 .. m + 1 : more[l].key = t[i].key => l <= j
      BY <1>4, <3>1, <3>2, <3>3
    <3>5. j \in 1 .. m + 1 /\ more[j].key = t[i].key /\ more[j].val = t[i].val
      BY <1>4, <3>1, <3>2
    <3> QED
      BY <3>4, <3>5
  <2>4. ASSUME NEW j \in 1 .. m + 1, \A l \in 1 .. j - 1 : more[l].key # more[j].key
        PROVE  more[j].key \in KeysOf(t) <=> Cardinality(KeysTo(more, j)) < MaxProps
    <3>1. CASE j \in 1 .. m
      <4>1. \A l \in 1 .. j - 1 : l \in 1 .. m
        BY <3>1
      <4>2. \A l \in 1 .. j - 1 : log[l].key # log[j].key
        BY <1>4, <2>4, <3>1, <4>1
      <4> QED
        BY <1>4, <1>5, <1>old, <3>1, <4>2
    <3>2. CASE j = m + 1
      <4>1. Cardinality(KeysOf(t)) <= Cardinality(KeysOf(log))
        BY <1>old, <1>inlog, FS_Subset
      <4>2. Cardinality(KeysOf(log)) \in Nat
        BY <1>old, FS_CardinalityType
      <4>3. ~(Cardinality(KeysTo(more, j)) < MaxProps)
        BY <1>5, <1>8, <1>old, <3>2, <4>1, <4>2, LimitsAreNat
      <4> QED
        BY <1>4, <1>8, <3>2, <4>3
    <3> QED
      BY <3>1, <3>2
  <2>5. TableOf(t, more)
    BY <1>1, <1>3, <1>4, <1>6, <1>old, <2>2, <2>3, <2>4 DEF TableOf
  <2> QED
    BY <2>1, <2>5 DEF u, more
<1>9. CASE s.key \notin KeysOf(t) /\ n < MaxProps
  <2>1. u = Append(t, s)
    BY <1>1, <1>9, NoPlace, LimitsAreNat DEF Props!Set
  <2> HIDE DEF u
  <2>2. /\ u \in Seq(Asks) /\ Len(u) = n + 1 /\ u[n + 1] = s
        /\ \A i \in 1 .. n : u[i] = t[i]
    BY <1>1, <1>3, <2>1
  <2>3. KeysOf(u) = KeysOf(t) \cup {s.key}
    BY <1>3, <2>1, KeysOfAppend
  <2>4. \A i \in 1 .. n : t[i].key # s.key
    BY <1>1, <1>9 DEF KeysOf
  <2>5. \A i \in 1 .. n + 1 : i \in 1 .. n \/ i = n + 1
    OBVIOUS
  <2>6. \A i, j \in 1 .. n + 1 : u[i].key = u[j].key => i = j
    BY <1>old, <2>2, <2>4, <2>5
  <2>7. IsFiniteSet(KeysOf(u)) /\ Cardinality(KeysOf(u)) = n + 1
    BY <1>9, <1>old, <2>3, FS_AddElement
  <2>8. KeysOf(log) = KeysOf(t)
    <3>1. \A j \in 1 .. m : log[j].key \in KeysOf(t)
      BY <1>9, <1>old
    <3>2. KeysOf(log) \subseteq KeysOf(t)
      BY <1>2, <3>1 DEF KeysOf
    <3> QED
      BY <1>inlog, <3>2
  <2>9. \A j \in 1 .. m + 1 : more[j].key \in KeysOf(u)
    <3>1. KeysOf(more) = KeysOf(u)
      BY <1>5, <2>3, <2>8
    <3>2. \A j \in 1 .. m + 1 : more[j].key \in KeysOf(more)
      BY <1>4 DEF KeysOf
    <3> QED
      BY <3>1, <3>2
  <2>11. \A l \in 1 .. m + 1 : l \in 1 .. m \/ l = m + 1
    OBVIOUS
  <2>12. ASSUME NEW i \in 1 .. n + 1
        PROVE  \E j \in 1 .. m + 1 :
                 /\ more[j].key = u[i].key /\ more[j].val = u[i].val
                 /\ \A l \in 1 .. m + 1 : more[l].key = u[i].key => l <= j
    <3>1. CASE i = n + 1
      <4>1. /\ more[m + 1].key = u[i].key /\ more[m + 1].val = u[i].val
            /\ m + 1 \in 1 .. m + 1 /\ \A l \in 1 .. m + 1 : l <= m + 1
        BY <1>4, <2>2, <3>1
      <4> QED
        BY <4>1
    <3>2. CASE i \in 1 .. n
      <4>1. u[i] = t[i] /\ t[i].key # s.key
        BY <2>2, <2>4, <3>2
      <4>2. PICK j \in 1 .. m : /\ log[j].key = t[i].key /\ log[j].val = t[i].val
                                /\ \A l \in 1 .. m : log[l].key = t[i].key => l <= j
        BY <1>old, <3>2
      <4>4. \A l \in 1 .. m + 1 : more[l].key = u[i].key => l <= j
        BY <1>4, <4>1, <4>2, <2>11
      <4>5. j \in 1 .. m + 1 /\ more[j].key = u[i].key /\ more[j].val = u[i].val
        BY <1>4, <4>1, <4>2
      <4> QED
        BY <4>4, <4>5
    <3> QED
      BY <2>5, <3>1, <3>2
  <2>13. ASSUME NEW j \in 1 .. m + 1, \A l \in 1 .. j - 1 : more[l].key # more[j].key
        PROVE  more[j].key \in KeysOf(u) <=> Cardinality(KeysTo(more, j)) < MaxProps
    <3>1. CASE j \in 1 .. m
      <4>1. \A l \in 1 .. j - 1 : l \in 1 .. m
        BY <3>1
      <4>2. \A l \in 1 .. j - 1 : log[l].key # log[j].key
        BY <1>4, <2>13, <3>1, <4>1
      <4>3. log[j].key \in KeysOf(t)
        BY <1>9, <1>old, <3>1
      <4> QED
        BY <1>4, <1>5, <1>old, <2>3, <3>1, <4>2, <4>3
    <3>2. CASE j = m + 1
      <4>1. KeysTo(more, j) = KeysOf(t)
        BY <1>5, <2>8, <3>2
      <4>2. Cardinality(KeysTo(more, j)) < MaxProps
        BY <1>9, <1>old, <4>1
      <4> QED
        BY <2>9, <4>2
    <3> QED
      BY <2>11, <3>1, <3>2
  <2>14. n + 1 <= MaxProps
    BY <1>9, LimitsAreNat
  <2>15. TableOf(u, more)
    BY <1>4, <1>6, <2>2, <2>6, <2>7, <2>9, <2>12, <2>13, <2>14 DEF TableOf
  <2> QED
    BY <2>15 DEF u, more
<1> QED
  BY <1>7, <1>8, <1>9, LimitsAreNat

\* SetAll's recursive function, by its equation.
Applies(W, t, ss) ==
  W = [i \in 0 .. Len(ss) |-> IF i = 0 THEN t ELSE Props!Set(W[i - 1], ss[i])]

\* One android_prop_set leaves a list of settings.
LEMMA SetTypes ==
  ASSUME NEW t \in Seq(Asks), NEW s \in Asks
  PROVE  Props!Set(t, s) \in Seq(Asks)
<1>1. CASE Props!Places(t, s.key) = {}
  BY <1>1 DEF Props!Set
<1>2. CASE Props!Places(t, s.key) # {}
  <2>1. \A i : [t EXCEPT ![i] = s] \in Seq(Asks)
    <3>1. PICK n \in Nat : n = Len(t)
      OBVIOUS
    <3>2. t \in [1 .. n -> Asks]
      BY <3>1
    <3>3. \A i : [t EXCEPT ![i] = s] \in [1 .. n -> Asks]
      BY <3>2
    <3> QED
      BY <3>3
  <2> QED
    BY <1>2, <2>1 DEF Props!Set
<1> QED
  BY <1>1, <1>2

\* A list of settings, one after another, keeps the table to the log.
LEMMA SetAllKeepsTable ==
  ASSUME NEW t, NEW log, TableOf(t, log), NEW ss \in Seq(Asks)
  PROVE  TableOf(Props!SetAll(t, ss), log \o ss)
<1>1. PICK n \in Nat : n = Len(ss)
  OBVIOUS
<1>0. t \in Seq(Asks) /\ log \in Seq(Asks)
  BY DEF TableOf
<1>2. \E W : Applies(W, t, ss)
  <2> DEFINE step == [x \in Seq(Asks) \X (1 .. n) |-> Props!Set(x[1], ss[x[2]])]
  <2>1. step \in [Seq(Asks) \X (1 .. n) -> Seq(Asks)]
    BY <1>1, SetTypes
  <2>2. \A x \in Seq(Asks), i \in 1 .. n : step[<<x, i>>] = Props!Set(x, ss[i])
    OBVIOUS
  <2> HIDE DEF step
  <2>4. PICK g \in [0 .. n -> Seq(Asks)] :
          g[0] = t /\ \A i \in 1 .. n : g[i] = step[<<g[i - 1], i>>]
    <3>1. Recursion(n, Seq(Asks), t, step)
      BY <1>0, <2>1, RecursionExists
    <3> QED
      BY <3>1 DEF Recursion
  <2>5. \A i \in 1 .. n : g[i] = Props!Set(g[i - 1], ss[i])
    <3>1. \A i \in 1 .. n : g[i - 1] \in Seq(Asks)
      BY <2>4
    <3> QED
      BY <2>2, <2>4, <3>1
  <2>6. g = [i \in 0 .. n |-> g[i]]
    BY <2>4
  <2>7. \A i \in 0 .. n : g[i] = IF i = 0 THEN t ELSE Props!Set(g[i - 1], ss[i])
    BY <2>4, <2>5
  <2>8. g = [i \in 0 .. n |-> IF i = 0 THEN t ELSE Props!Set(g[i - 1], ss[i])]
    BY <2>6, <2>7
  <2> QED
    BY <1>1, <2>8 DEF Applies
<1> DEFINE V == CHOOSE f : Applies(f, t, ss)
<1>3. Applies(V, t, ss)
  BY <1>2
<1>4. Props!SetAll(t, ss) = V[n]
  BY <1>1 DEF Props!SetAll, Applies
<1> HIDE DEF V
<1>5. V[0] = t /\ \A i \in 1 .. n : V[i] = Props!Set(V[i - 1], ss[i])
  BY <1>1, <1>3 DEF Applies
<1> DEFINE upto(i) == log \o SubSeq(ss, 1, i)
           S == {i \in 0 .. n : TableOf(V[i], upto(i))}
<1>6. 0 \in S
  <2>1. SubSeq(ss, 1, 0) = <<>>
    BY <1>1
  <2>2. log \o <<>> = log
    BY <1>0
  <2>3. upto(0) = log
    BY <2>1, <2>2
  <2> HIDE DEF upto
  <2>4. TableOf(V[0], upto(0))
    BY <1>5, <2>3
  <2> QED
    BY <2>4
<1>7. ASSUME NEW i \in 0 .. n - 1, i \in S PROVE i + 1 \in S
  <2>1. i + 1 \in 1 .. n /\ (i + 1) - 1 = i /\ ss[i + 1] \in Asks
    BY <1>1
  <2>2. upto(i + 1) = Append(upto(i), ss[i + 1])
    <3>1. SubSeq(ss, 1, i) \in Seq(Asks)
      BY <1>1, <2>1
    <3>2. SubSeq(ss, 1, i + 1) = Append(SubSeq(ss, 1, i), ss[i + 1])
      BY <1>1, <2>1
    <3>3. \A a, b \in Seq(Asks), e \in Asks : a \o Append(b, e) = Append(a \o b, e)
      OBVIOUS
    <3> QED
      BY <1>0, <2>1, <3>1, <3>2, <3>3
  <2>3. TableOf(Props!Set(V[i], ss[i + 1]), Append(upto(i), ss[i + 1]))
    <3>1. TableOf(V[i], upto(i))
      BY <1>7
    <3> HIDE DEF upto
    <3> QED
      BY <2>1, <3>1, SetKeepsTable
  <2> HIDE DEF upto
  <2>4. V[i + 1] = Props!Set(V[i], ss[i + 1])
    BY <1>5, <2>1
  <2>5. TableOf(V[i + 1], upto(i + 1))
    BY <2>2, <2>3, <2>4
  <2> QED
    BY <2>1, <2>5
<1>8. n \in S
  <2>1. \A i \in 0 .. n - 1 : i \in S => i + 1 \in S
    BY <1>7
  <2> HIDE DEF S
  <2>2. 0 .. n \subseteq S
    BY <1>6, <2>1, UpTo
  <2> QED
    BY <2>2
<1>9. SubSeq(ss, 1, n) = ss
  BY <1>1
<1> QED
  BY <1>4, <1>8, <1>9

\* Settings' recursive function, by its equation.
Read(x, l) == IF l = Props!Skipped THEN x ELSE Append(x, l)
\* W[i] is what the first i lines of the file f are read as.
Reads(W, f) ==
  W = [i \in 0 .. Len(f) |-> IF i = 0 THEN <<>> ELSE Read(W[i - 1], f[i])]

\* What android_prop_load_file reads of a file are settings.
LEMMA SettingsAreLines ==
  ASSUME NEW n \in Nat, NEW f \in [1 .. n -> PropLines]
  PROVE  Props!Settings(f) \in Seq(Asks)
<1>1. Len(f) = n /\ \A i \in 1 .. n : f[i] \in Asks
  BY DEF Asks
<1>7. \A a \in Seq(Asks), i \in 1 .. n : Read(a, f[i]) \in Seq(Asks)
  BY <1>1 DEF Read
<1>2. \E W : Reads(W, f) /\ W \in [0 .. n -> Seq(Asks)]
  <2> DEFINE step == [x \in Seq(Asks) \X (1 .. n) |->
                        Read(x[1], f[x[2]])]
  <2>1. step \in [Seq(Asks) \X (1 .. n) -> Seq(Asks)]
    BY <1>7
  <2>2. \A a \in Seq(Asks), i \in 1 .. n :
          step[<<a, i>>] = Read(a, f[i])
    OBVIOUS
  <2> HIDE DEF step
  <2>0. <<>> \in Seq(Asks)
    OBVIOUS
  <2>4. PICK g \in [0 .. n -> Seq(Asks)] :
          g[0] = <<>> /\ \A i \in 1 .. n : g[i] = step[<<g[i - 1], i>>]
    <3>1. Recursion(n, Seq(Asks), <<>>, step)
      BY <2>0, <2>1, RecursionExists
    <3> QED
      BY <3>1 DEF Recursion
  <2>5. \A i \in 1 .. n : g[i] = Read(g[i - 1], f[i])
    <3>1. \A i \in 1 .. n : g[i - 1] \in Seq(Asks)
      BY <2>4
    <3> QED
      BY <2>2, <2>4, <3>1
  <2>6. g = [i \in 0 .. n |-> g[i]]
    BY <2>4
  <2>7. \A i \in 0 .. n : g[i] = IF i = 0 THEN <<>> ELSE Read(g[i - 1], f[i])
    <3>1. \A i \in 0 .. n : i = 0 \/ i \in 1 .. n
      OBVIOUS
    <3>2. g[0] = <<>>
      BY <2>4
    <3> QED
      BY <2>5, <3>1, <3>2
  <2>8. g = [i \in 0 .. n |-> IF i = 0 THEN <<>> ELSE Read(g[i - 1], f[i])]
    BY <2>6, <2>7
  <2> QED
    BY <1>1, <2>4, <2>8 DEF Reads
<1> DEFINE V == CHOOSE g : Reads(g, f)
<1>3. Reads(V, f)
  BY <1>2
<1>4. Props!Settings(f) = V[n]
  BY <1>1 DEF Props!Settings, Reads, Read
<1> HIDE DEF V
<1>5. /\ V[0] = <<>>
      /\ \A i \in 1 .. n : V[i] = Read(V[i - 1], f[i])
  BY <1>1, <1>3 DEF Reads
<1>10. <<>> \in Seq(Asks)
  OBVIOUS
<1> DEFINE S == {i \in 0 .. n : V[i] \in Seq(Asks)}
<1>6. 0 \in S
  <2>1. V[0] \in Seq(Asks)
    BY <1>5, <1>10
  <2> QED
    BY <2>1
<1>8. \A i \in 0 .. n - 1 : i \in S => i + 1 \in S
  <2>1. \A i \in 0 .. n - 1 : i + 1 \in 1 .. n /\ (i + 1) - 1 = i
    OBVIOUS
  <2> QED
    BY <1>5, <1>7, <2>1
<1> HIDE DEF S
<1>9. 0 .. n \subseteq S
  BY <1>6, <1>8, UpTo
<1> QED
  BY <1>4, <1>9 DEF S

\* The table is what the log of all settings made of the empty one.
PropsInv == TableOf(props, asked) /\ Len(asked) <= MaxAsked

\* The empty table is what an empty log says.
LEMMA EmptyTable == TableOf(<<>>, <<>>)
<1>1. KeysOf(<<>>) = {}
  BY DEF KeysOf
<1>2. IsFiniteSet({}) /\ Cardinality({}) = 0
  BY FS_EmptySet
<1>3. <<>> \in Seq(Asks) /\ Len(<<>>) = 0 /\ 0 <= MaxProps
  BY LimitsAreNat
<1> QED
  BY <1>1, <1>2, <1>3 DEF TableOf

\* Asking for settings keeps the invariant.
LEMMA AskKeeps ==
  ASSUME PropsInv, NEW ss \in Seq(Asks), Props!Ask(ss)
  PROVE  PropsInv'
<1>1. props' = Props!SetAll(props, ss) /\ asked' = asked \o ss
  BY DEF Props!Ask
<1>2. TableOf(Props!SetAll(props, ss), asked \o ss)
  BY SetAllKeepsTable DEF PropsInv
<1>3. TableOf(props', asked')
  BY <1>1, <1>2
<1>4. Len(asked \o ss) <= MaxAsked
  <2>1. asked \in Seq(Asks)
    BY DEF PropsInv, TableOf
  <2>2. Len(asked \o ss) = Len(asked) + Len(ss)
    BY <2>1
  <2> QED
    BY <2>2 DEF Props!Ask
<1> QED
  BY <1>1, <1>3, <1>4 DEF PropsInv, TableOf

\* The invariant of the property table holds in every reachable state.
LEMMA PropsInductive == Props!Spec => []PropsInv
<1>1. Props!Init => PropsInv
  <2>1. 0 <= MaxAsked /\ Len(<<>>) = 0
    BY LimitsAreNat
  <2> QED
    BY <2>1, EmptyTable DEF Props!Init, PropsInv
<1>2. ASSUME PropsInv, [Props!Next]_(Props!vars) PROVE PropsInv'
  <2>1. CASE UNCHANGED Props!vars
    BY <1>2, <2>1 DEF Props!vars, PropsInv, TableOf
  <2>2. CASE Props!PropsInit
    <3>1. props' = <<>> /\ asked' = <<>>
      BY <2>2 DEF Props!PropsInit
    <3>2. Len(<<>>) <= MaxAsked
      BY LimitsAreNat
    <3>3. TableOf(props', asked')
      BY <3>1, EmptyTable
    <3> QED
      BY <3>1, <3>2, <3>3 DEF PropsInv, TableOf
  <2>3. ASSUME NEW k \in Keys, NEW v \in Vals, Props!PropsSet(Props!Setting(k, v))
        PROVE  PropsInv'
    <3>1. <<Props!Setting(k, v)>> \in Seq(Asks)
      <4>1. Props!Setting(k, v) \in Asks
        BY DEF Asks
      <4> QED
        BY <4>1
    <3> QED
      BY <1>2, <2>3, <3>1, AskKeeps DEF Props!PropsSet
  <2>4. ASSUME NEW n \in 0 .. MaxLines, NEW f \in [1 .. n -> PropLines], Props!LoadDefaults(f)
        PROVE  PropsInv'
    <3>1. Props!Settings(f) \in Seq(Asks)
      BY SettingsAreLines
    <3>2. Defaults \in Seq(Asks)
      <4>1. Defaults \in Seq({Defaults[i] : i \in 1 .. Len(Defaults)})
        BY DefaultsAreSettings
      <4>2. {Defaults[i] : i \in 1 .. Len(Defaults)} \subseteq Asks
        BY DEF Asks
      <4> HIDE DEF Asks
      <4> QED
        BY <4>1, <4>2
    <3>3. Defaults \o Props!Settings(f) \in Seq(Asks)
      BY <3>1, <3>2
    <3> QED
      BY <1>2, <2>4, <3>3, AskKeeps DEF Props!LoadDefaults
  <2> QED
    BY <1>2, <2>1, <2>2, <2>3, <2>4 DEF Props!Next
<1> QED
  BY <1>1, <1>2, PTL DEF Props!Spec

\* The table of properties fits its array.
THEOREM PropertiesFit == Props!Spec => []Props!TypeOK
<1>1. PropsInv => Props!TypeOK
  BY DEF PropsInv, TableOf, Props!TypeOK
<1> QED
  BY <1>1, PropsInductive, PTL

\* The instance's Cardinality is that of the library's theorems.
LEMMA PropsCardinality == \A S : Props!Cardinality(S) = Cardinality(S)
BY DEF Props!Cardinality, Cardinality

\* A property's value is the one set last, for the first MaxProps keys.
THEOREM PropertyIsLastSet == Props!Spec => []GetIsLastSet
<1>1. ASSUME PropsInv, NEW k \in Keys PROVE Props!Get(k) = Props!Wanted(k)
  <2>1. PICK n \in Nat : n = Len(props)
    BY <1>1 DEF PropsInv, TableOf
  <2>2. PICK m \in Nat : m = Len(asked)
    BY <1>1 DEF PropsInv, TableOf
  <2>t. /\ props \in Seq(Asks) /\ asked \in Seq(Asks)
        /\ \A i, j \in 1 .. n : props[i].key = props[j].key => i = j
        /\ \A i \in 1 .. n : \E j \in 1 .. m :
             /\ asked[j].key = props[i].key /\ asked[j].val = props[i].val
             /\ \A l \in 1 .. m : asked[l].key = props[i].key => l <= j
        /\ \A j \in 1 .. m :
             (\A l \in 1 .. j - 1 : asked[l].key # asked[j].key) =>
               (asked[j].key \in KeysOf(props) <=> Cardinality(KeysTo(asked, j)) < MaxProps)
    BY <1>1, <2>1, <2>2 DEF PropsInv, TableOf
  <2> DEFINE P == Props!Places(asked, k)
  <2>3. P \in SUBSET (1 .. m) /\ \A j \in 1 .. m : j \in P <=> asked[j].key = k
    BY <2>2 DEF Props!Places
  <2>4. CASE P = {}
    <3>1. k \notin KeysOf(props)
      <4>1. \A i \in 1 .. n : props[i].key # k
        BY <2>t, <2>3, <2>4
      <4> QED
        BY <2>1, <4>1 DEF KeysOf
    <3>2. Props!Get(k) = ""
      BY <3>1, NoPlace DEF Props!Get
    <3>3. Props!Wanted(k) = ""
      BY <2>4 DEF Props!Wanted
    <3> QED
      BY <3>2, <3>3, Zenon
  <2>5. CASE P # {}
    <3>1. PICK j \in P : \A l \in P : j <= l
      <4> HIDE DEF P
      <4> QED
        BY <2>3, <2>5, MinExists
    <3>2. Props!FirstAsked(k) = j
      <4>1. \A a \in P : (\A l \in P : a <= l) => a = j
        BY <2>3, <3>1
      <4> QED
        BY <3>1, <4>1 DEF Props!FirstAsked
    <3>3. Props!Before(k) = KeysTo(asked, j)
      BY <3>2 DEF Props!Before, KeysTo
    <3>4. j \in 1 .. m /\ asked[j].key = k /\ \A l \in 1 .. j - 1 : asked[l].key # asked[j].key
      <4>1. j \in 1 .. m
        BY <2>3, <3>1
      <4>2. \A l \in 1 .. j - 1 : l \in 1 .. m /\ ~(j <= l)
        BY <4>1
      <4> QED
        BY <2>3, <3>1, <4>1, <4>2
    <3>5. k \in KeysOf(props) <=> Cardinality(KeysTo(asked, j)) < MaxProps
      BY <2>t, <3>4
    <3>6. Cardinality(KeysTo(asked, j)) \in Nat
      <4>1. KeysTo(asked, j) \subseteq KeysOf(asked)
        BY <2>2, <3>4 DEF KeysTo, KeysOf
      <4>2. IsFiniteSet(KeysOf(asked))
        BY <1>1 DEF PropsInv, TableOf
      <4> QED
        BY <4>1, <4>2, FS_Subset, FS_CardinalityType
    <3>7. CASE k \in KeysOf(props)
      <4>1. PICK i \in 1 .. n : props[i].key = k
        BY <2>1, <3>7 DEF KeysOf
      <4>2. Props!Get(k) = props[i].val
        <5>1. Props!FirstPlace(props, k) = i /\ Props!Places(props, k) # {}
          BY <2>1, <2>t, <4>1, PlaceIs
        <5> QED
          BY <5>1 DEF Props!Get
      <4>3. PICK e \in 1 .. m : /\ asked[e].key = k /\ asked[e].val = props[i].val
                                /\ \A l \in 1 .. m : asked[l].key = k => l <= e
        BY <2>t, <4>1
      <4>4. Props!LastAsked(k) = e
        <5>1. e \in P /\ \A l \in P : l <= e
          BY <2>3, <4>3
        <5>2. \A a \in P : (\A l \in P : l <= a) => a = e
          BY <2>3, <5>1
        <5> QED
          BY <5>1, <5>2 DEF Props!LastAsked
      <4>5. ~(Props!Cardinality(Props!Before(k)) >= MaxProps)
        BY <3>3, <3>5, <3>6, <3>7, PropsCardinality, LimitsAreNat
      <4>6. Props!Wanted(k) = asked[e].val
        BY <2>5, <4>4, <4>5, Zenon DEF Props!Wanted
      <4> QED
        BY <4>2, <4>3, <4>6
    <3>8. CASE k \notin KeysOf(props)
      <4>1. Props!Get(k) = ""
        BY <3>8, NoPlace, Zenon DEF Props!Get
      <4>2. Props!Cardinality(Props!Before(k)) >= MaxProps
        BY <3>3, <3>5, <3>6, <3>8, PropsCardinality, LimitsAreNat
      <4>3. Props!Wanted(k) = ""
        BY <4>2, Zenon DEF Props!Wanted
      <4> QED
        BY <4>1, <4>3, Zenon
    <3> QED
      BY <3>7, <3>8
  <2> QED
    BY <2>4, <2>5
<1>2. PropsInv => Props!GetIsLastSet
  BY <1>1 DEF Props!GetIsLastSet
<1> QED
  BY <1>2, PropsInductive, PTL DEF GetIsLastSet

-----------------------------------------------------------------------------
\* Strings.  The provers do not know that literals are, so those that the code
\* uses are named.
NodeNames == {"null", "zero", "random", "urandom", "console", "tty"}
LinkNames == {"fd", "stdin", "stdout", "stderr"}
PathNames == {"proc", "sys", "dev", "pts", "shm", "run", "tmp", "fs", "cgroup", "lumid",
              "lumid.pid", "var", "log", "user"}
AndroidNames == {"android", "sdcard", "data", "shared", "binder", "dri", "card0", "mali0"}
Names  == STRING \cup PathNames \cup NodeNames \cup LinkNames \cup AndroidNames
            \cup {"rootfs", "sysfs", "devtmpfs", "devpts", "tmpfs", "cgroup2", "host"}
Path   == Seq(Names)
\* The entries of a mount table; the first one is the root.
AMount == [at : Path, fs : Names]
ATable(t) == t \in Seq(AMount) /\ Len(t) \in Nat \ {0} /\ t[1].at = <<>>

\* Up to four names are a path.
LEMMA PathsOfNames ==
  \A a, b, c, d \in Names : <<a>> \in Path /\ <<a, b>> \in Path /\ <<a, b, c>> \in Path
                            /\ <<a, b, c, d>> \in Path
<1> HIDE DEF Names
<1> QED
  BY DEF Path

\* The entries of a mount table, and of one with one mount more.
LEMMA EntriesOf ==
  ASSUME NEW t, ATable(t)
  PROVE  /\ \A i \in 1 .. Len(t) : t[i] \in AMount /\ t[i].at \in Path
         /\ \A m \in AMount : /\ ATable(Append(t, m))
                              /\ Len(Append(t, m)) = Len(t) + 1
                              /\ Append(t, m)[Len(t) + 1] = m
                              /\ \A i \in 1 .. Len(t) : Append(t, m)[i] = t[i]
<1>1. t \in Seq(AMount) /\ 1 \in 1 .. Len(t)
  BY DEF ATable
<1>2. \A i \in 1 .. Len(t) : t[i] \in AMount
  BY <1>1 DEF ATable
<1>3. ASSUME NEW m \in AMount
      PROVE  /\ ATable(Append(t, m)) /\ Len(Append(t, m)) = Len(t) + 1
             /\ Append(t, m)[Len(t) + 1] = m
             /\ \A i \in 1 .. Len(t) : Append(t, m)[i] = t[i]
  <2>1. /\ Append(t, m) \in Seq(AMount) /\ Len(Append(t, m)) = Len(t) + 1
        /\ Append(t, m)[Len(t) + 1] = m
        /\ \A i \in 1 .. Len(t) : Append(t, m)[i] = t[i]
    BY <1>1, <1>3 DEF ATable
  <2> QED
    BY <1>1, <2>1 DEF ATable
<1>4. \A m \in AMount : m.at \in Path
  BY DEF AMount
<1> QED
  BY <1>2, <1>3, <1>4

\* The mounts a path could be looked up on.
Above(t, p) == {i \in 1 .. Len(t) : Boot!IsPrefix(t[i].at, p)}

\* The mount a path is on is the last one at or above the path.
LEMMA OnIsTop ==
  ASSUME NEW t, NEW p, NEW k \in Above(t, p), \A i \in Above(t, p) : i <= k, Len(t) \in Nat
  PROVE  Boot!On(t, p) = k
<1>1. Boot!On(t, p) = CHOOSE x \in Above(t, p) : \A y \in Above(t, p) : x >= y
  BY DEF Boot!On, Boot!Max, Above
<1>2. \A i \in Above(t, p) : i \in Nat
  BY DEF Above
<1>3. \A x \in Above(t, p) : (\A y \in Above(t, p) : x >= y) => x = k
  BY <1>2
<1>4. \A y \in Above(t, p) : k >= y
  BY <1>2
<1> QED
  BY <1>1, <1>3, <1>4

\* Every path is on some mount: on the root, if on no other.
LEMMA OnAMount ==
  ASSUME NEW t, ATable(t), NEW p \in Path
  PROVE  Boot!On(t, p) \in 1 .. Len(t) /\ Boot!On(t, p) \in Above(t, p)
<1>1. Boot!IsPrefix(<<>>, p)
  BY DEF Boot!IsPrefix, Path
<1>2. Len(t) \in Nat /\ 1 \in Above(t, p) /\ Above(t, p) \in SUBSET (1 .. Len(t))
  BY <1>1 DEF Above, ATable
<1>3. PICK k \in Above(t, p) : \A i \in Above(t, p) : i <= k
  BY <1>2, MaxExists
<1>4. Boot!On(t, p) = k
  BY <1>2, <1>3, OnIsTop
<1> QED
  BY <1>2, <1>4

\* A new mount covers what is at or below its place, and nothing else.
LEMMA OnAppended ==
  ASSUME NEW t, ATable(t), NEW m \in AMount, NEW p
  PROVE  /\ Boot!IsPrefix(m.at, p) => Boot!On(Append(t, m), p) = Len(t) + 1
         /\ ~Boot!IsPrefix(m.at, p) => Boot!On(Append(t, m), p) = Boot!On(t, p)
<1> DEFINE u == Append(t, m)
<1>1. /\ Len(u) = Len(t) + 1 /\ u[Len(t) + 1] = m /\ Len(t) \in Nat
      /\ \A i \in 1 .. Len(t) : u[i] = t[i]
  BY EntriesOf DEF ATable
<1> HIDE DEF u
<1>2. CASE Boot!IsPrefix(m.at, p)
  <2>1. Len(t) + 1 \in Above(u, p) /\ \A i \in Above(u, p) : i <= Len(t) + 1
    BY <1>1, <1>2 DEF Above
  <2> QED
    BY <1>1, <1>2, <2>1, OnIsTop DEF u
<1>3. CASE ~Boot!IsPrefix(m.at, p)
  <2>1. \A i : i \in Above(u, p) <=> i \in Above(t, p)
    BY <1>1, <1>3 DEF Above
  <2>2. Above(u, p) = Above(t, p)
    BY <2>1
  <2>3. Boot!On(u, p) = Boot!On(t, p)
    BY <2>2 DEF Boot!On, Boot!Max, Above
  <2> QED
    BY <1>3, <2>3 DEF u
<1> QED
  BY <1>2, <1>3

\* No early mount is made at or above the place of an earlier one.
LEMMA EarlyMountsInOrder ==
  /\ Len(Boot!EarlyMounts) = 8
  /\ \A i \in 1 .. 8 : Boot!EarlyMounts[i] \in AMount /\ Boot!EarlyMounts[i].at \in Path
  /\ \A i \in 1 .. 8 : Boot!IsPrefix(Boot!EarlyMounts[i].at, Boot!EarlyMounts[i].at)
  /\ \A i, j \in 1 .. 8 :
       i < j => ~Boot!IsPrefix(Boot!EarlyMounts[j].at, Boot!EarlyMounts[i].at)
<1> DEFINE E == Boot!EarlyMounts
<1>1. /\ E[1].at = <<"proc">> /\ E[2].at = <<"sys">> /\ E[3].at = <<"dev">>
      /\ E[4].at = <<"dev", "pts">> /\ E[5].at = <<"dev", "shm">> /\ E[6].at = <<"run">>
      /\ E[7].at = <<"tmp">> /\ E[8].at = <<"sys", "fs", "cgroup">>
  BY DEF Boot!EarlyMounts, Boot!Mnt
<1>2. Len(E) = 8
  BY DEF Boot!EarlyMounts
<1>3. \A i \in 1 .. 8 : i \in {1, 2, 3, 4, 5, 6, 7, 8}
  OBVIOUS
<1>4. \A i \in 1 .. 8 : E[i] \in AMount /\ E[i].at \in Path
  <2>1. \A p \in Path, f \in Names : Boot!Mnt(p, f) \in AMount /\ Boot!Mnt(p, f).at = p
    BY DEF Boot!Mnt, AMount
  <2>2. /\ <<"proc">> \in Path /\ <<"sys">> \in Path /\ <<"dev">> \in Path
        /\ <<"dev", "pts">> \in Path /\ <<"dev", "shm">> \in Path /\ <<"run">> \in Path
        /\ <<"tmp">> \in Path /\ <<"sys", "fs", "cgroup">> \in Path
    <3>1. PathNames \subseteq Names
      BY DEF Names
    <3>2. \A a, b, c \in PathNames : <<a>> \in Path /\ <<a, b>> \in Path /\ <<a, b, c>> \in Path
      BY <3>1, PathsOfNames
    <3> QED
      BY <3>2 DEF PathNames
  <2>3. /\ E[1] = Boot!Mnt(<<"proc">>, "proc") /\ E[2] = Boot!Mnt(<<"sys">>, "sysfs")
        /\ E[3] = Boot!Mnt(<<"dev">>, "devtmpfs") /\ E[4] = Boot!Mnt(<<"dev", "pts">>, "devpts")
        /\ E[5] = Boot!Mnt(<<"dev", "shm">>, "tmpfs") /\ E[6] = Boot!Mnt(<<"run">>, "tmpfs")
        /\ E[7] = Boot!Mnt(<<"tmp">>, "tmpfs")
        /\ E[8] = Boot!Mnt(<<"sys", "fs", "cgroup">>, "cgroup2")
    BY DEF Boot!EarlyMounts
  <2> HIDE DEF E
  <2>4. \A k \in {1, 2, 3, 4, 5, 6, 7, 8} : E[k] \in AMount /\ E[k].at \in Path
    <3>1. /\ "proc" \in Names /\ "sysfs" \in Names /\ "devtmpfs" \in Names /\ "devpts" \in Names
          /\ "tmpfs" \in Names /\ "cgroup2" \in Names
      BY DEF Names, PathNames
    <3> QED
      BY <2>1, <2>2, <2>3, <3>1
  <2> QED
    BY <1>3, <2>4
<1>5. \A p \in Path : Boot!IsPrefix(p, p)
  BY DEF Path, Boot!IsPrefix
\* A prefix is no longer, and starts with the same name.
<1>6. \A p, q \in Path : Boot!IsPrefix(p, q) =>
        /\ Len(p) <= Len(q) /\ \A k \in 1 .. Len(p) : p[k] = q[k]
  <2> SUFFICES ASSUME NEW p \in Path, NEW q \in Path, Boot!IsPrefix(p, q)
               PROVE  Len(p) <= Len(q) /\ \A k \in 1 .. Len(p) : p[k] = q[k]
    OBVIOUS
  <2>1. Len(p) <= Len(q) /\ SubSeq(p, 1, Len(p)) = SubSeq(q, 1, Len(p))
    BY DEF Boot!IsPrefix
  <2>2. \A k \in 1 .. Len(p) : SubSeq(p, 1, Len(p))[k] = p[k] /\ SubSeq(q, 1, Len(p))[k] = q[k]
    BY <2>1 DEF Path
  <2> QED
    BY <2>1, <2>2
<1> HIDE DEF E
<1>7. ASSUME NEW i \in 1 .. 8, NEW j \in 1 .. 8, i < j, Boot!IsPrefix(E[j].at, E[i].at)
      PROVE  FALSE
  <2>1. /\ Len(E[j].at) <= Len(E[i].at)
        /\ \A k \in 1 .. Len(E[j].at) : E[j].at[k] = E[i].at[k]
    BY <1>4, <1>6, <1>7
  <2>2. \A k \in 1 .. 8 : Len(E[k].at) = (IF k \in {4, 5} THEN 2 ELSE IF k = 8 THEN 3 ELSE 1)
    <3>1. /\ Len(E[1].at) = 1 /\ Len(E[2].at) = 1 /\ Len(E[3].at) = 1
          /\ Len(E[4].at) = 2 /\ Len(E[5].at) = 2 /\ Len(E[6].at) = 1
          /\ Len(E[7].at) = 1 /\ Len(E[8].at) = 3
      BY <1>1
    <3> QED
      BY <1>3, <3>1
  <2>3. E[j].at[1] = E[i].at[1] /\ (j = 5 => E[j].at[2] = E[i].at[2] \/ Len(E[i].at) = 1)
    BY <2>1, <2>2
  <2>4. \A k \in 1 .. 8 : E[k].at[1] =
          (IF k = 1 THEN "proc" ELSE IF k \in {2, 8} THEN "sys" ELSE
           IF k \in {3, 4, 5} THEN "dev" ELSE IF k = 6 THEN "run" ELSE "tmp")
    BY <1>1
  <2>5. E[5].at[2] = "shm" /\ E[4].at[2] = "pts"
    BY <1>1
  <2>6. \/ i = 2 /\ j = 8
        \/ i = 3 /\ j = 4
        \/ i = 3 /\ j = 5
        \/ i = 4 /\ j = 5
    BY <1>7, <2>3, <2>4
  <2>11. Len(E[j].at) <= Len(E[i].at)
    BY <2>1
  <2>7. Len(E[j].at) <= Len(E[i].at) /\ (Len(E[j].at) = 2 => E[j].at[2] = E[i].at[2])
    BY <2>1, <2>2
  <2>8. Len(E[2].at) = 1 /\ Len(E[3].at) = 1 /\ Len(E[4].at) = 2 /\ Len(E[5].at) = 2
        /\ Len(E[8].at) = 3
    BY <2>2
  <2> DEFINE l(k) == Len(E[k].at)
  <2>12. l(2) = 1 /\ l(3) = 1 /\ l(4) = 2 /\ l(5) = 2 /\ l(8) = 3 /\ l(j) <= l(i)
    BY <2>8, <2>11
  <2> HIDE DEF l
  <2>9. ~(i = 2 /\ j = 8) /\ ~(i = 3 /\ j = 4) /\ ~(i = 3 /\ j = 5)
    BY <2>12
  <2>10. ~(i = 4 /\ j = 5)
    BY <2>5, <2>7, <2>8
  <2> QED
    BY <2>6, <2>9, <2>10
<1> QED
  BY <1>2, <1>4, <1>5, <1>7 DEF E

-----------------------------------------------------------------------------
\* Every file is on a mount, and no two have one place.
FilesOn(t, F) == /\ \A f \in F : f.on \in 1 .. Len(t)
                 /\ \A f, g \in F : f.path = g.path /\ f.on = g.on => f = g

\* A file of MadeAll was there or is made for one of the paths.
LEMMA MadeAllIs ==
  ASSUME NEW t, NEW F, NEW P, NEW kind
  PROVE  \A f : f \in Boot!MadeAll(t, F, P, kind)
                <=> f \in F \/ \E p \in P : f \in Boot!Made(t, F, p, kind)
<1> DEFINE G == {Boot!Made(t, F, p, kind) : p \in P}
<1>1. \A f : f \in UNION G <=> \E S \in G : f \in S
  OBVIOUS
<1>2. \A f : f \in UNION G <=> \E p \in P : f \in Boot!Made(t, F, p, kind)
  <2>1. \A S : S \in G <=> \E p \in P : S = Boot!Made(t, F, p, kind)
    OBVIOUS
  <2> HIDE DEF G
  <2> QED
    BY <1>1, <2>1
<1>3. Boot!MadeAll(t, F, P, kind) = F \cup UNION G
  BY DEF Boot!MadeAll
<1> HIDE DEF G
<1> QED
  BY <1>2, <1>3

\* Making files leaves those that are there, and puts none where one is.
LEMMA MadeAllFits ==
  ASSUME NEW t, ATable(t), NEW F, FilesOn(t, F), NEW P \in SUBSET Path, NEW kind
  PROVE  /\ FilesOn(t, Boot!MadeAll(t, F, P, kind))
         /\ F \subseteq Boot!MadeAll(t, F, P, kind)
         /\ \A f \in Boot!MadeAll(t, F, P, kind) \ F :
              /\ f.path \in P /\ f.on = Boot!On(t, f.path) /\ f.kind = kind
<1> DEFINE G == Boot!MadeAll(t, F, P, kind)
<1>1. \A p, k, q : Boot!File(p, k, q).path = p /\ Boot!File(p, k, q).on = k /\ Boot!File(p, k, q).kind = q
  BY DEF Boot!File
<1>2. \A f \in G : f \in F \/ \E p \in P : f = Boot!File(p, Boot!On(t, p), kind)
                                            /\ ~Boot!Exists(t, F, p)
  <2> TAKE f \in G
  <2>1. CASE f \in F
    BY <2>1
  <2>2. CASE f \notin F
    <3>1. PICK p \in P : f \in Boot!Made(t, F, p, kind)
      BY <2>2, MadeAllIs
    <3> QED
      BY <2>2, <3>1 DEF Boot!Made
  <2> QED
    BY <2>1, <2>2
<1>3. F \subseteq G
  BY MadeAllIs
<1> HIDE DEF G
<1>4. \A f \in G \ F : /\ f.path \in P /\ f.on = Boot!On(t, f.path) /\ f.kind = kind
                       /\ f = Boot!File(f.path, Boot!On(t, f.path), kind)
                       /\ ~Boot!Exists(t, F, f.path)
  BY <1>1, <1>2
<1>5. \A f \in G : f.on \in 1 .. Len(t)
  <2>1. \A f \in G \ F : f.path \in Path
    BY <1>4
  <2>2. \A f \in G \ F : f.on \in 1 .. Len(t)
    BY <1>4, <2>1, OnAMount
  <2> QED
    BY <2>2 DEF FilesOn
<1>6. \A f \in G \ F, g \in F : ~(f.path = g.path /\ f.on = g.on)
  BY <1>4 DEF Boot!Exists, Boot!Found
<1>7. \A f, g \in G : f.path = g.path /\ f.on = g.on => f = g
  <2> TAKE f, g \in G
  <2> SUFFICES ASSUME f.path = g.path, f.on = g.on PROVE f = g
    OBVIOUS
  <2>1. CASE f \in F /\ g \in F
    BY <2>1 DEF FilesOn
  <2>2. CASE f \notin F /\ g \notin F
    BY <1>4, <2>2
  <2>3. CASE f \in F /\ g \notin F
    BY <1>6, <2>3
  <2>4. CASE f \notin F /\ g \in F
    BY <1>6, <2>4
  <2> QED
    BY <2>1, <2>2, <2>3, <2>4
<1>8. FilesOn(t, G)
  BY <1>5, <1>7 DEF FilesOn
<1> QED
  BY <1>3, <1>4, <1>8 DEF G

\* A made file is on the mount its path is on, and nothing goes away.
LEMMA MadeFits ==
  ASSUME NEW t, ATable(t), NEW F, FilesOn(t, F), NEW p \in Path, NEW kind
  PROVE  /\ FilesOn(t, Boot!Made(t, F, p, kind))
         /\ F \subseteq Boot!Made(t, F, p, kind)
         /\ \A f \in Boot!Made(t, F, p, kind) \ F : f.path = p /\ f.on = Boot!On(t, p)
<1>1. Boot!MadeAll(t, F, {p}, kind) = Boot!Made(t, F, p, kind)
  <2>1. F \subseteq Boot!Made(t, F, p, kind)
    BY DEF Boot!Made
  <2>2. \A f : f \in Boot!MadeAll(t, F, {p}, kind) <=> f \in Boot!Made(t, F, p, kind)
    BY <2>1, MadeAllIs
  <2> QED
    BY <2>2
<1>2. {p} \in SUBSET Path
  OBVIOUS
<1>3. /\ FilesOn(t, Boot!MadeAll(t, F, {p}, kind))
      /\ F \subseteq Boot!MadeAll(t, F, {p}, kind)
      /\ \A f \in Boot!MadeAll(t, F, {p}, kind) \ F :
           /\ f.path \in {p} /\ f.on = Boot!On(t, f.path) /\ f.kind = kind
  BY <1>2, MadeAllFits
<1> QED
  BY <1>1, <1>3

\* What a new file system brings is on it, and on no older one.
LEMMA ProvidedFits ==
  ASSUME NEW t, ATable(t), NEW F, FilesOn(t, F), NEW m \in AMount
  PROVE  FilesOn(Append(t, m), F \cup {Boot!File(p, Len(t) + 1, "dir") : p \in Boot!Provided(m)})
<1> DEFINE N == {Boot!File(p, Len(t) + 1, "dir") : p \in Boot!Provided(m)}
<1>1. \A f \in N : f.on = Len(t) + 1 /\ \A g \in N : f.path = g.path => f = g
  BY DEF Boot!File
<1>2. Len(t) \in Nat /\ Len(Append(t, m)) = Len(t) + 1
  BY EntriesOf DEF ATable
<1> HIDE DEF N
<1>3. \A f \in F : f.on \in 1 .. Len(t) /\ f.on # Len(t) + 1
  BY <1>2 DEF FilesOn
<1>4. FilesOn(Append(t, m), F \cup N)
  <2>1. \A f \in F \cup N : f.on \in 1 .. Len(t) + 1
    BY <1>1, <1>2, <1>3
  <2>2. \A f, g \in F \cup N : f.path = g.path /\ f.on = g.on => f = g
    BY <1>1, <1>3 DEF FilesOn
  <2> QED
    BY <1>2, <2>1, <2>2 DEF FilesOn
<1> QED
  BY <1>4 DEF N

-----------------------------------------------------------------------------
E1At(i) == Boot!EarlyMounts[i].at

\* A file that can be seen, or that a later mount was made on.
SeenOrUnder(t, f) ==
  Boot!FileSeen(t, f) \/ \E i \in f.on + 1 .. Len(t) : t[i].at = f.path

\* Whatever lumid has made so far is a mount point of an entry it has tried, and
\* the entries that did not fail are on top at their places: as no entry lies
\* at or above an earlier one, none of the mounts to come can change that.
BootInv ==
  /\ bootPc \in {"mounts", "nodes", "dirs", "ready", "shell"}
  /\ next \in 1 .. 9 /\ failed \in 0 .. next - 1
  /\ ATable(mounts) /\ FilesOn(mounts, made) /\ own \subseteq made
  /\ \A f \in own : SeenOrUnder(mounts, f)
  /\ bootPc = "mounts" => \A f \in own : \E i \in 1 .. next - 1 : f.path = E1At(i)
  /\ bootPc # "mounts" => next = 9
  /\ failed = 0 => \A i \in 1 .. next - 1 :
                     mounts[Boot!On(mounts, E1At(i))] = Boot!EarlyMounts[i]
  /\ bootPc \in {"dirs", "ready"} => failed = 0

\* early_boot starts in the invariant.
LEMMA BootStarts == Boot!Init => BootInv
<1> SUFFICES ASSUME Boot!Init PROVE BootInv
  OBVIOUS
<1>1. ATable(mounts)
  <2>1. mounts \in Seq([at : Seq(STRING), fs : STRING]) /\ mounts # <<>> /\ mounts[1].at = <<>>
    BY TablesHaveARoot DEF Boot!Init
  <2>2. [at : Seq(STRING), fs : STRING] \subseteq AMount
    <3> DEFINE S == STRING
    <3>1. S \subseteq Names
      BY DEF Names
    <3>2. Seq(S) \subseteq Path
      <4> HIDE DEF S
      <4> QED
        BY <3>1 DEF Path
    <3> QED
      BY <3>1, <3>2 DEF AMount
  <2> DEFINE R == [at : Seq(STRING), fs : STRING]
  <2> HIDE DEF R
  <2>4. mounts \in Seq(R) /\ R \subseteq AMount
    BY <2>1, <2>2 DEF R
  <2>3. mounts \in Seq(AMount) /\ Len(mounts) \in Nat /\ Len(mounts) # 0
    BY <2>1, <2>4
  <2> QED
    BY <2>1, <2>3 DEF ATable
<1>2. PICK dirs \in Present :
        made = {Boot!File(d, 1, "dir") : d \in dirs}
                 \cup UNION {{Boot!File(p, i, "dir") : p \in Boot!Provided(mounts[i])} :
                               i \in 1 .. Len(mounts)}
  BY DEF Boot!Init
<1>3. \A f \in made : \E p : \E i \in 1 .. Len(mounts) : f = Boot!File(p, i, "dir")
  <2> DEFINE G(i) == {Boot!File(p, i, "dir") : p \in Boot!Provided(mounts[i])}
             U == UNION {G(i) : i \in 1 .. Len(mounts)}
             D == {Boot!File(d, 1, "dir") : d \in dirs}
  <2>1. \A f \in D : \E p : f = Boot!File(p, 1, "dir")
    OBVIOUS
  <2>2. \A i : \A f \in G(i) : \E p : f = Boot!File(p, i, "dir")
    OBVIOUS
  <2>3. \A f \in U : \E i \in 1 .. Len(mounts) : f \in G(i)
    <3> HIDE DEF G
    <3> QED
      OBVIOUS
  <2>4. made = D \cup U
    BY <1>2
  <2>5. 1 \in 1 .. Len(mounts)
    BY <1>1 DEF ATable
  <2> HIDE DEF G, U, D
  <2>6. ASSUME NEW f \in U PROVE \E p : \E i \in 1 .. Len(mounts) : f = Boot!File(p, i, "dir")
    <3>1. PICK i \in 1 .. Len(mounts) : f \in G(i)
      BY <2>3, <2>6
    <3>2. PICK p : f = Boot!File(p, i, "dir")
      BY <2>2, <3>1
    <3> QED
      BY <3>2
  <2>7. ASSUME NEW f \in D PROVE \E p : \E i \in 1 .. Len(mounts) : f = Boot!File(p, i, "dir")
    BY <2>1, <2>5, <2>7
  <2> QED
    BY <2>4, <2>6, <2>7
<1>4. FilesOn(mounts, made)
  BY <1>3 DEF FilesOn, Boot!File
<1> QED
  BY <1>1, <1>4 DEF BootInv, Boot!Init

\* A mount at no file's place or above it leaves the file to be seen; a file at
\* its place becomes a mount point.
LEMMA StaysSeenOrUnder ==
  ASSUME NEW t, ATable(t), NEW m \in AMount, NEW f, f.on \in 1 .. Len(t),
         \/ SeenOrUnder(t, f) /\ ~Boot!IsPrefix(m.at, f.path)
         \/ f.path = m.at
  PROVE  SeenOrUnder(Append(t, m), f)
<1> DEFINE u == Append(t, m)
<1>1. /\ Len(u) = Len(t) + 1 /\ u[Len(t) + 1] = m /\ Len(t) \in Nat
      /\ \A i \in 1 .. Len(t) : u[i] = t[i]
      /\ ~Boot!IsPrefix(m.at, f.path) => Boot!On(u, f.path) = Boot!On(t, f.path)
  BY EntriesOf, OnAppended DEF ATable
<1> HIDE DEF u
<1>2. CASE f.path = m.at
  <2>1. Len(t) + 1 \in f.on + 1 .. Len(u) /\ u[Len(t) + 1].at = f.path
    BY <1>1, <1>2
  <2> QED
    BY <2>1 DEF SeenOrUnder, u
<1>3. CASE SeenOrUnder(t, f) /\ ~Boot!IsPrefix(m.at, f.path)
  <2>1. CASE Boot!FileSeen(t, f)
    <3>1. Boot!FileSeen(u, f)
      BY <1>1, <1>3, <2>1 DEF Boot!FileSeen
    <3> QED
      BY <3>1 DEF SeenOrUnder, u
  <2>2. CASE \E i \in f.on + 1 .. Len(t) : t[i].at = f.path
    <3>1. PICK i \in f.on + 1 .. Len(t) : t[i].at = f.path
      BY <2>2
    <3>2. i \in f.on + 1 .. Len(u) /\ u[i].at = f.path
      BY <1>1, <3>1
    <3> QED
      BY <3>2 DEF SeenOrUnder, u
  <2> QED
    BY <1>3, <2>1, <2>2 DEF SeenOrUnder
<1> QED
  BY <1>2, <1>3

\* The entries of mount_initial_filesystems, one after another.
LEMMA BootMounts ==
  ASSUME BootInv, Boot!MountNext
  PROVE  BootInv'
<1> DEFINE m == Boot!EarlyMounts[next]
           target == Boot!Made(mounts, made, m.at, "dir")
           top == mounts[Boot!On(mounts, m.at)] = m /\ m.fs \in Boot!Single
<1>0. next \in 1 .. 8 /\ next' = next + 1 /\ bootPc = "mounts" /\ bootPc' = "mounts"
  BY EarlyMountsInOrder DEF BootInv, Boot!MountNext
<1>1. m \in AMount /\ m.at \in Path
  BY <1>0, EarlyMountsInOrder
<1>2. ATable(mounts) /\ FilesOn(mounts, made) /\ Len(mounts) \in Nat
  BY DEF BootInv, ATable
<1>3. /\ FilesOn(mounts, target) /\ made \subseteq target
      /\ \A f \in target \ made : f.path = m.at /\ f.on = Boot!On(mounts, m.at)
  <2> HIDE DEF m
  <2> QED
    BY <1>1, <1>2, MadeFits
<1>4. \A f \in target : f.on \in 1 .. Len(mounts)
  BY <1>3 DEF FilesOn
<1>5. \A f \in own : f \in target /\ SeenOrUnder(mounts, f)
                     /\ \E i \in 1 .. next - 1 : f.path = E1At(i)
  BY <1>0, <1>3 DEF BootInv
<1>6. \A f \in own : (\E i \in 1 .. next : f.path = E1At(i)) /\ ~Boot!IsPrefix(m.at, f.path)
  <2> TAKE f \in own
  <2>1. PICK i \in 1 .. next - 1 : f.path = E1At(i)
    BY <1>5
  <2>2. i \in 1 .. next /\ i \in 1 .. 8 /\ i < next
    BY <1>0
  <2>3. ~Boot!IsPrefix(m.at, E1At(i))
    BY <1>0, <2>2, EarlyMountsInOrder DEF E1At
  <2> QED
    BY <2>1, <2>2, <2>3
<1>7. \A f \in target \ made : SeenOrUnder(mounts, f) /\ f.path = E1At(next)
  BY <1>3 DEF SeenOrUnder, Boot!FileSeen, E1At
<1>8. \/ /\ failed' = failed + 1 /\ made' = made /\ own' = own /\ mounts' = mounts
      \/ /\ failed' = failed + 1 /\ made' = target /\ own' = own \cup (target \ made)
         /\ mounts' = mounts
      \/ /\ failed' = failed /\ made' = target /\ own' = own \cup (target \ made)
         /\ mounts' = mounts /\ top
      \/ /\ failed' = failed /\ mounts' = Append(mounts, m)
         /\ own' = own \cup (target \ made)
         /\ made' = target \cup {Boot!File(p, Len(mounts'), "dir") : p \in Boot!Provided(m)}
  BY DEF Boot!MountNext, Boot!NoMountPoint, Boot!Fails, Boot!MakeNothing, Boot!Make
<1> HIDE DEF target
<1>9. CASE mounts' = mounts /\ made' \in {made, target} /\ own' \in {own, own \cup (target \ made)}
           /\ (made' = made => own' = own)
  <2>1. FilesOn(mounts', made') /\ own' \subseteq made' /\ \A f \in own' : SeenOrUnder(mounts', f)
    <3>1. own \subseteq made
      BY DEF BootInv
    <3> QED
      BY <1>2, <1>3, <1>5, <1>7, <1>9, <3>1
  <2>2. \A f \in own' : \E i \in 1 .. next : f.path = E1At(i)
    BY <1>0, <1>6, <1>7, <1>9
  <2>3. failed' = failed + 1 \/ (failed' = failed /\ top)
    <3>1. mounts # Append(mounts, m)
      BY <1>1, <1>2, EntriesOf
    <3> QED
      BY <1>8, <1>9, <3>1
  <2>4. failed' = 0 => failed = 0 /\ top
    BY <2>3 DEF BootInv
  <2>5. ASSUME failed' = 0, NEW i \in 1 .. next' - 1
        PROVE  mounts'[Boot!On(mounts', E1At(i))] = Boot!EarlyMounts[i]
    <3>1. CASE i = next
      BY <1>9, <2>4, <2>5, <3>1 DEF E1At
    <3>2. CASE i # next
      <4>1. i \in 1 .. next - 1
        BY <1>0, <3>2
      <4> QED
        BY <1>9, <2>4, <2>5, <4>1 DEF BootInv
    <3> QED
      BY <3>1, <3>2
  <2>6. failed' \in 0 .. next' - 1 /\ next' \in 1 .. 9
    BY <1>0, <2>3 DEF BootInv
  <2>7. next' - 1 = next
    BY <1>0
  <2> QED
    BY <1>0, <1>2, <1>9, <2>1, <2>2, <2>5, <2>6, <2>7 DEF BootInv
<1>10. CASE /\ failed' = failed /\ mounts' = Append(mounts, m)
            /\ own' = own \cup (target \ made)
            /\ made' = target \cup {Boot!File(p, Len(mounts'), "dir") : p \in Boot!Provided(m)}
  <2> HIDE DEF m
  <2>1. /\ ATable(mounts') /\ Len(mounts') = Len(mounts) + 1 /\ mounts'[Len(mounts) + 1] = m
        /\ \A i \in 1 .. Len(mounts) : mounts'[i] = mounts[i]
    BY <1>1, <1>2, <1>10, EntriesOf
  <2>2. FilesOn(mounts', made') /\ own' \subseteq made'
    <3>1. FilesOn(Append(mounts, m),
            target \cup {Boot!File(p, Len(mounts) + 1, "dir") : p \in Boot!Provided(m)})
      BY <1>1, <1>2, <1>3, ProvidedFits
    <3>2. made' = target \cup {Boot!File(p, Len(mounts) + 1, "dir") : p \in Boot!Provided(m)}
      BY <1>10, <2>1
    <3> QED
      BY <1>5, <1>10, <3>1, <3>2
  <2>3. ASSUME NEW f \in own' PROVE SeenOrUnder(mounts', f)
    <3>1. f.on \in 1 .. Len(mounts)
      BY <1>4, <1>5, <1>10, <2>3
    <3>2. \/ SeenOrUnder(mounts, f) /\ ~Boot!IsPrefix(m.at, f.path)
          \/ f.path = m.at
      BY <1>3, <1>5, <1>6, <1>10, <2>3
    <3> QED
      BY <1>1, <1>2, <1>10, <3>1, <3>2, StaysSeenOrUnder
  <2>4. \A f \in own' : \E i \in 1 .. next : f.path = E1At(i)
    BY <1>0, <1>6, <1>7, <1>10
  <2>5. ASSUME failed' = 0, NEW i \in 1 .. next
        PROVE  mounts'[Boot!On(mounts', E1At(i))] = Boot!EarlyMounts[i]
    <3>1. CASE i = next
      <4>1. Boot!IsPrefix(m.at, E1At(i))
        BY <1>0, <3>1, EarlyMountsInOrder DEF E1At, m
      <4>2. Boot!On(mounts', E1At(i)) = Len(mounts) + 1
        BY <1>1, <1>2, <1>10, <4>1, OnAppended
      <4> QED
        BY <2>1, <3>1, <4>2 DEF m
    <3>2. CASE i # next
      <4>1. i \in 1 .. next - 1 /\ i \in 1 .. 8 /\ i < next
        BY <1>0, <3>2
      <4>2. ~Boot!IsPrefix(m.at, E1At(i))
        BY <1>0, <4>1, EarlyMountsInOrder DEF E1At, m
      <4>3. Boot!On(mounts', E1At(i)) = Boot!On(mounts, E1At(i))
        BY <1>1, <1>2, <1>10, <4>2, OnAppended
      <4>4. Boot!On(mounts, E1At(i)) \in 1 .. Len(mounts)
        BY <1>2, <4>1, OnAMount, EarlyMountsInOrder DEF E1At
      <4>5. mounts[Boot!On(mounts, E1At(i))] = Boot!EarlyMounts[i]
        BY <1>10, <2>5, <4>1 DEF BootInv
      <4> QED
        BY <2>1, <4>3, <4>4, <4>5
    <3> QED
      BY <3>1, <3>2
  <2>6. failed' \in 0 .. next' - 1 /\ next' \in 1 .. 9 /\ next' - 1 = next
    BY <1>0, <1>10 DEF BootInv
  <2> QED
    BY <1>0, <2>1, <2>2, <2>3, <2>4, <2>5, <2>6 DEF BootInv
<1> QED
  BY <1>8, <1>9, <1>10

\* Making nodes and directories, where they can be seen.
LEMMA BootMakes ==
  ASSUME BootInv, NEW P \in SUBSET Path, NEW kind,
         Boot!Make(Boot!MadeAll(mounts, made, P, kind)), mounts' = mounts
  PROVE  /\ FilesOn(mounts', made') /\ own' \subseteq made'
         /\ \A f \in own' : SeenOrUnder(mounts', f)
<1> DEFINE G == Boot!MadeAll(mounts, made, P, kind)
<1>1. /\ ATable(mounts) /\ FilesOn(mounts, made) /\ own \subseteq made
      /\ \A f \in own : SeenOrUnder(mounts, f)
  BY DEF BootInv
<1>2. /\ FilesOn(mounts, G) /\ made \subseteq G
      /\ \A f \in G \ made : f.on = Boot!On(mounts, f.path)
  BY <1>1, MadeAllFits
<1>3. made' = G /\ own' = own \cup (G \ made)
  BY DEF Boot!Make
<1> HIDE DEF G
<1>4. \A f \in G \ made : SeenOrUnder(mounts, f)
  BY <1>2 DEF SeenOrUnder, Boot!FileSeen
<1> QED
  BY <1>1, <1>2, <1>3, <1>4

\* The paths that early_boot makes are paths.
LEMMA BootPathsArePaths ==
  /\ Boot!Nodes \subseteq Path /\ Boot!Links \subseteq Path /\ Boot!Dirs \subseteq Path
  /\ Boot!Lumid \in Path /\ Boot!PidFile \in Path
<1>1. NodeNames \subseteq Names /\ LinkNames \subseteq Names /\ "dev" \in Names
  BY DEF Names, PathNames
<1>2. /\ "run" \in Names /\ "lumid" \in Names /\ "var" \in Names /\ "log" \in Names
      /\ "user" \in Names /\ "tmp" \in Names /\ "sys" \in Names /\ "fs" \in Names
      /\ "cgroup" \in Names /\ "lumid.pid" \in Names
  BY DEF Names, PathNames
<1>3. Boot!Nodes = {<<"dev", n>> : n \in NodeNames} /\ Boot!Links = {<<"dev", n>> : n \in LinkNames}
  BY DEF Boot!Nodes, Boot!Links, NodeNames, LinkNames
<1>4. \A n \in NodeNames \cup LinkNames : <<"dev", n>> \in Path
  BY <1>1, PathsOfNames
<1>5. /\ <<"run", "lumid">> \in Path /\ <<"var", "log", "lumid">> \in Path
      /\ <<"run", "user">> \in Path /\ <<"tmp">> \in Path
      /\ <<"sys", "fs", "cgroup", "lumid">> \in Path /\ <<"run", "lumid.pid">> \in Path
  BY <1>2, PathsOfNames
<1> QED
  BY <1>3, <1>4, <1>5 DEF Boot!Dirs, Boot!Lumid, Boot!PidFile

\* Every step of early_boot keeps the invariant.
LEMMA BootStep ==
  ASSUME BootInv, [Boot!Next]_(Boot!vars)
  PROVE  BootInv'
<1>1. CASE UNCHANGED Boot!vars
  BY <1>1 DEF Boot!vars, BootInv
<1>2. CASE Boot!MountNext
  BY <1>2, BootMounts
<1>3. CASE Boot!MountDone
  <2>1. next = 9
    BY <1>3, EarlyMountsInOrder DEF BootInv, Boot!MountDone
  <2> QED
    BY <1>3, <2>1 DEF BootInv, Boot!MountDone
<1>4. CASE Boot!MakeNodes
  <2>1. PICK P \in SUBSET Path : Boot!Make(Boot!MadeAll(mounts, made, P, "node"))
    <3>1. \A X \in {{}, IF Boot!Exists(mounts, made, <<"dev", "null">>) THEN {} ELSE Boot!Nodes} :
            \A Y \in {{}, Boot!Links} : (X \cup Y) \in SUBSET Path
      BY BootPathsArePaths
    <3> QED
      BY <1>4, <3>1 DEF Boot!MakeNodes
  <2>2. mounts' = mounts /\ next' = next /\ failed' = failed /\ bootPc = "nodes"
        /\ bootPc' = IF failed > 0 THEN "shell" ELSE "dirs"
    BY <1>4 DEF Boot!MakeNodes
  <2>3. /\ FilesOn(mounts', made') /\ own' \subseteq made'
        /\ \A f \in own' : SeenOrUnder(mounts', f)
    BY <2>1, <2>2, BootMakes
  <2>4. failed > 0 \/ failed = 0
    BY DEF BootInv
  <2>5. bootPc' \in {"shell", "dirs"} /\ (bootPc' = "dirs" => failed = 0)
    BY <2>2, <2>4
  <2> QED
    BY <2>2, <2>3, <2>5 DEF BootInv
<1>5. CASE Boot!MakeDirs
  <2>1. PICK P \in SUBSET Path : Boot!Make(Boot!MadeAll(mounts, made, P, "dir"))
    <3> DEFINE C == IF Boot!Exists(mounts, made, <<"sys", "fs", "cgroup", "cgroup.controllers">>)
                    THEN {Boot!Lumid} ELSE {}
    <3>1. C \subseteq Path /\ {Boot!PidFile} \subseteq Path /\ Boot!Dirs \subseteq Path
      BY BootPathsArePaths
    <3>2. PICK some \in SUBSET (Boot!Dirs \cup C \cup {Boot!PidFile}) :
            Boot!Make(Boot!MadeAll(mounts, made, some, "dir"))
      BY <1>5 DEF Boot!MakeDirs
    <3> HIDE DEF C
    <3> QED
      BY <3>1, <3>2
  <2>2. mounts' = mounts /\ next' = next /\ failed' = failed /\ bootPc = "dirs" /\ bootPc' = "ready"
    BY <1>5 DEF Boot!MakeDirs
  <2>3. /\ FilesOn(mounts', made') /\ own' \subseteq made'
        /\ \A f \in own' : SeenOrUnder(mounts', f)
    BY <2>1, <2>2, BootMakes
  <2> QED
    BY <2>2, <2>3 DEF BootInv
<1> QED
  BY <1>1, <1>2, <1>3, <1>4, <1>5 DEF Boot!Next

\* The invariant of early_boot holds in every reachable state.
LEMMA BootAlways == Boot!Spec => []BootInv
<1>1. BootInv /\ [Boot!Next]_(Boot!vars) => BootInv'
  BY BootStep
<1> QED
  BY <1>1, BootStarts, PTL DEF Boot!Spec

\* Whatever the initramfs left and whichever calls fail, no file lies at the
\* place of another one, and each is on a mount there is.
THEOREM BootFilesAreApart == Boot!Spec => []Boot!TypeOK
<1>1. BootInv => Boot!TypeOK
  <2> SUFFICES ASSUME BootInv PROVE Boot!TypeOK
    OBVIOUS
  <2>1. next \in 1 .. Len(Boot!EarlyMounts) + 1 /\ failed \in 0 .. Len(Boot!EarlyMounts)
    BY EarlyMountsInOrder DEF BootInv
  <2> QED
    BY <2>1 DEF BootInv, FilesOn, Boot!TypeOK
<1> QED
  BY <1>1, BootAlways, PTL

\* For every mount table an initramfs may leave, and every choice of calls that
\* fail: no early mount buries what lumid made before it, and when lumid goes
\* on to its services all eight file systems are on top at their places.
THEOREM BootBuriesNothing == Boot!Spec => []NothingBuried
<1>1. BootInv => NothingBuried
  <2> SUFFICES ASSUME BootInv PROVE NothingBuried
    OBVIOUS
  <2>1. \A f \in own : \/ Boot!FileSeen(mounts, f)
                       \/ \E i \in f.on + 1 .. Len(mounts) : mounts[i].at = f.path
    BY DEF BootInv, SeenOrUnder
  <2>2. ASSUME bootPc = "ready", NEW i \in 1 .. 8
        PROVE  mounts[Boot!On(mounts, E1At(i))] = Boot!EarlyMounts[i]
    <3>1. next = 9 /\ failed = 0 /\ i \in 1 .. next - 1
      BY <2>2 DEF BootInv
    <3> QED
      BY <3>1 DEF BootInv
  <2> QED
    BY <2>1, <2>2, EarlyMountsInOrder DEF NothingBuried, Boot!NothingBuried, E1At
<1> QED
  BY <1>1, BootAlways, PTL

-----------------------------------------------------------------------------
(* The container's set-up.                                                 *)

\* Both instances of the mount table mean the same.
LEMMA SameTables ==
  /\ \A p, q : Setup!IsPrefix(p, q) <=> Boot!IsPrefix(p, q)
  /\ \A t, p : Setup!On(t, p) = Boot!On(t, p)
  /\ \A t, F, p : Setup!Found(t, F, p) = Boot!Found(t, F, p)
  /\ \A t, F, p : Setup!Exists(t, F, p) <=> Boot!Exists(t, F, p)
  /\ \A t, F, P, k : Setup!MadeAll(t, F, P, k) = Boot!MadeAll(t, F, P, k)
<1>1. \A p, q : Setup!IsPrefix(p, q) <=> Boot!IsPrefix(p, q)
  BY DEF Setup!IsPrefix, Boot!IsPrefix
<1>2. \A t, p : Setup!On(t, p) = Boot!On(t, p)
  BY DEF Setup!On, Boot!On, Setup!Max, Boot!Max, Setup!IsPrefix, Boot!IsPrefix
<1>3. \A t, F, p : Setup!Found(t, F, p) = Boot!Found(t, F, p)
  BY <1>2 DEF Setup!Found, Boot!Found
<1>4. \A t, F, p : Setup!Exists(t, F, p) <=> Boot!Exists(t, F, p)
  BY <1>2, <1>3 DEF Setup!Exists, Boot!Exists, Setup!IsTarget, Boot!IsTarget
<1>5. \A p, k, q : Setup!File(p, k, q) = Boot!File(p, k, q)
  BY DEF Setup!File, Boot!File
<1>6. \A t, F, p, k : Setup!Made(t, F, p, k) = Boot!Made(t, F, p, k)
  BY <1>2, <1>4, <1>5 DEF Setup!Made, Boot!Made
<1>7. \A t, F, P, k : Setup!MadeAll(t, F, P, k) = Boot!MadeAll(t, F, P, k)
  BY <1>6 DEF Setup!MadeAll, Boot!MadeAll
<1> QED
  BY <1>1, <1>2, <1>3, <1>4, <1>7

\* The nodes that the set-up makes, and where it binds what is the host's.
MadeNodes == {Setup!In(Setup!Dev) \o <<n>> : n \in {"null", "random"}}
Gpu == {<<"dev", "dri", "card0">>, <<"dev", "mali0">>}
BindPoints == {Setup!In(d) : d \in {Setup!Binder} \cup Gpu \cup {<<"sdcard">>}}

\* A path in the container is the host's one under ANDROID_ROOTFS.
LEMMA InAndroid ==
  ASSUME NEW p \in Path
  PROVE  /\ Setup!In(p) \in Path /\ Len(Setup!In(p)) = Len(p) + 1
         /\ Setup!In(p)[1] = "android"
         /\ \A i \in 1 .. Len(p) : Setup!In(p)[i + 1] = p[i]
<1>1. PICK h : h = <<"android">>
  OBVIOUS
<1>2. h \in Path /\ Len(h) = 1 /\ h[1] = "android"
  <2>1. "android" \in Names
    BY DEF Names, AndroidNames
  <2>2. h \in Path
    BY <1>1, <2>1, PathsOfNames
  <2> QED
    BY <1>1, <2>2
<1>3. p \in Seq(Names) /\ h \in Seq(Names)
  BY <1>2 DEF Path
<1>4. /\ h \o p \in Seq(Names) /\ Len(h \o p) = Len(h) + Len(p)
      /\ \A i \in 1 .. Len(h) + Len(p) : (h \o p)[i] = IF i <= Len(h) THEN h[i] ELSE p[i - Len(h)]
  BY <1>3, ConcatProperties
<1>5. Setup!In(p) = h \o p
  BY <1>1 DEF Setup!In, Setup!Android
<1>6. Len(p) \in Nat
  BY <1>3
<1>7. \A i \in 1 .. Len(p) : (h \o p)[i + 1] = p[i]
  <2> TAKE i \in 1 .. Len(p)
  <2>1. i + 1 \in 1 .. Len(h) + Len(p) /\ ~(i + 1 <= Len(h)) /\ (i + 1) - Len(h) = i
    BY <1>2, <1>6
  <2> QED
    BY <1>4, <2>1
<1>8. (h \o p)[1] = "android"
  <2>1. 1 \in 1 .. Len(h) + Len(p) /\ 1 <= Len(h)
    BY <1>2, <1>6
  <2> QED
    BY <1>2, <1>4, <2>1
<1>9. Len(h \o p) = Len(p) + 1 /\ h \o p \in Path
  BY <1>2, <1>4, <1>6 DEF Path
<1> QED
  BY <1>5, <1>7, <1>8, <1>9

\* Paths on the host that the set-up names.
LEMMA HostPaths ==
  /\ \A d \in {Setup!Binder} \cup Gpu : d \in Path /\ Len(d) \in {2, 3}
                                        /\ d[2] \in {"binder", "dri", "mali0"}
  /\ \A a \in {"proc", "dev", "sys", "tmp", "sdcard"} : <<a>> \in Path
  /\ <<"dev", "dri">> \in Path /\ Setup!Dev \in Path
<1>1. /\ "proc" \in Names /\ "dev" \in Names /\ "sys" \in Names /\ "tmp" \in Names
      /\ "sdcard" \in Names /\ "binder" \in Names
      /\ "dri" \in Names /\ "card0" \in Names /\ "mali0" \in Names
  BY DEF Names, PathNames, AndroidNames
<1>2. /\ <<"dev", "binder">> \in Path /\ <<"dev", "dri", "card0">> \in Path
      /\ <<"dev", "mali0">> \in Path
      /\ <<"dev", "dri">> \in Path /\ Setup!Dev \in Path
  BY <1>1, PathsOfNames DEF Setup!Dev
<1>3. ASSUME NEW d \in {Setup!Binder} \cup Gpu
      PROVE  d \in Path /\ Len(d) \in {2, 3} /\ d[2] \in {"binder", "dri", "mali0"}
  <2>1. d = <<"dev", "binder">> \/ d = <<"dev", "dri", "card0">> \/ d = <<"dev", "mali0">>
    BY <1>3 DEF Setup!Binder, Gpu
  <2>2. d \in Path
    BY <1>2, <2>1
  <2>3. Len(d) \in {2, 3} /\ d[2] \in {"binder", "dri", "mali0"}
    BY <2>1
  <2> QED
    BY <2>2, <2>3
<1>4. \A a \in {"proc", "dev", "sys", "tmp", "sdcard"} : <<a>> \in Path
  BY <1>1, PathsOfNames
<1> QED
  BY <1>2, <1>3, <1>4

\* The paths below ANDROID_ROOTFS that the set-up names, and where they differ.
LEMMA AndroidPaths ==
  /\ \A a \in {"proc", "dev", "sys", "tmp", "sdcard"} :
       Setup!In(<<a>>) \in Path /\ Len(Setup!In(<<a>>)) = 2 /\ Setup!In(<<a>>)[2] = a
  /\ Setup!In(<<"dev", "dri">>) \in Path
  /\ \A e \in BindPoints : /\ e \in Path
                           /\ \/ Len(e) = 2 /\ e[2] = "sdcard"
                              \/ Len(e) \in {3, 4} /\ e[3] \in {"binder", "dri", "mali0"}
  /\ \A p \in MadeNodes : p \in Path /\ Len(p) = 3 /\ p[2] = "dev" /\ p[3] \in {"null", "random"}
<1>1. ASSUME NEW a \in {"proc", "dev", "sys", "tmp", "sdcard"}
      PROVE  Setup!In(<<a>>) \in Path /\ Len(Setup!In(<<a>>)) = 2 /\ Setup!In(<<a>>)[2] = a
  <2>1. PICK p : p = <<a>>
    OBVIOUS
  <2>2. p \in Path /\ Len(p) = 1 /\ p[1] = a
    BY <2>1, HostPaths
  <2>3. /\ Setup!In(p) \in Path /\ Len(Setup!In(p)) = Len(p) + 1
        /\ \A i \in 1 .. Len(p) : Setup!In(p)[i + 1] = p[i]
    BY <2>2, InAndroid
  <2>4. Setup!In(p)[2] = p[1]
    <3>1. 1 \in 1 .. Len(p) /\ 1 + 1 = 2
      BY <2>2
    <3> QED
      BY <2>3, <3>1
  <2> QED
    BY <2>1, <2>2, <2>3, <2>4
<1>2. Setup!In(<<"dev", "dri">>) \in Path
  BY HostPaths, InAndroid
<1>3. ASSUME NEW e \in BindPoints
      PROVE  /\ e \in Path
             /\ \/ Len(e) = 2 /\ e[2] = "sdcard"
                \/ Len(e) \in {3, 4} /\ e[3] \in {"binder", "dri", "mali0"}
  <2>1. PICK d \in {Setup!Binder} \cup Gpu \cup {<<"sdcard">>} : e = Setup!In(d)
    BY <1>3 DEF BindPoints
  <2>2. CASE d = <<"sdcard">>
    <3>1. "sdcard" \in {"proc", "dev", "sys", "tmp", "sdcard"}
      OBVIOUS
    <3> QED
      BY <1>1, <2>1, <2>2, <3>1
  <2>3. CASE d \in {Setup!Binder} \cup Gpu
    <3>1. d \in Path /\ Len(d) \in {2, 3} /\ d[2] \in {"binder", "dri", "mali0"}
      BY <2>3, HostPaths
    <3>2. /\ e \in Path /\ Len(e) = Len(d) + 1
          /\ \A i \in 1 .. Len(d) : e[i + 1] = d[i]
      BY <2>1, <3>1, InAndroid
    <3>3. 2 \in 1 .. Len(d) /\ 2 + 1 = 3
      BY <3>1
    <3>4. e[3] = d[2] /\ Len(e) \in {3, 4}
      BY <3>1, <3>2, <3>3
    <3> QED
      BY <3>1, <3>2, <3>4
  <2> QED
    BY <2>2, <2>3
<1>4. ASSUME NEW p \in MadeNodes
      PROVE  p \in Path /\ Len(p) = 3 /\ p[2] = "dev" /\ p[3] \in {"null", "random"}
  <2>1. PICK n \in {"null", "random"} : p = Setup!In(Setup!Dev) \o <<n>>
    BY <1>4 DEF MadeNodes
  <2>2. PICK a, b : a = Setup!In(Setup!Dev) /\ b = <<n>>
    OBVIOUS
  <2>3. a \in Seq(Names) /\ Len(a) = 2 /\ a[2] = "dev"
    <3>1. "dev" \in {"proc", "dev", "sys", "tmp", "sdcard"} /\ Setup!Dev = <<"dev">>
      BY DEF Setup!Dev
    <3> QED
      BY <1>1, <2>2, <3>1 DEF Path
  <2>4. b \in Seq(Names) /\ Len(b) = 1 /\ b[1] = n
    <3>1. n \in Names
      BY DEF Names, NodeNames
    <3>2. b \in Path
      BY <2>2, <3>1, PathsOfNames
    <3> QED
      BY <2>2, <3>2 DEF Path
  <2>5. /\ a \o b \in Seq(Names) /\ Len(a \o b) = Len(a) + Len(b)
        /\ \A i \in 1 .. Len(a) + Len(b) : (a \o b)[i] = IF i <= Len(a) THEN a[i] ELSE b[i - Len(a)]
    BY <2>3, <2>4, ConcatProperties
  <2>6. /\ 2 \in 1 .. Len(a) + Len(b) /\ 2 <= Len(a)
        /\ 3 \in 1 .. Len(a) + Len(b) /\ ~(3 <= Len(a)) /\ 3 - Len(a) = 1
    BY <2>3, <2>4
  <2>7. (a \o b)[2] = "dev" /\ (a \o b)[3] = n /\ Len(a \o b) = 3
    BY <2>3, <2>4, <2>5, <2>6
  <2> QED
    BY <2>1, <2>2, <2>5, <2>7 DEF Path
<1> QED
  BY <1>1, <1>2, <1>3, <1>4

\* Nothing is bound at or above a node that was made.
LEMMA BindsAreBeside ==
  ASSUME NEW e \in BindPoints, NEW p \in MadeNodes
  PROVE  ~Boot!IsPrefix(e, p)
<1>1. /\ e \in Path /\ p \in Path /\ Len(p) = 3
      /\ \/ Len(e) = 2 /\ e[2] = "sdcard"
         \/ Len(e) \in {3, 4} /\ e[3] \in {"binder", "dri", "mali0"}
      /\ p[2] = "dev" /\ p[3] \in {"null", "random"}
  BY AndroidPaths
<1>2. ASSUME Boot!IsPrefix(e, p), NEW i \in 1 .. Len(e) PROVE e[i] = p[i]
  <2>1. SubSeq(e, 1, Len(e)) = SubSeq(p, 1, Len(e)) /\ Len(e) <= Len(p)
    BY <1>2 DEF Boot!IsPrefix
  <2>2. SubSeq(e, 1, Len(e))[i] = e[i] /\ SubSeq(p, 1, Len(e))[i] = p[i]
    BY <1>1, <1>2, <2>1 DEF Path
  <2> QED
    BY <2>1, <2>2
<1>3. CASE Len(e) = 2 /\ e[2] = "sdcard"
  <2>1. 2 \in 1 .. Len(e) /\ "sdcard" # "dev"
    BY <1>3
  <2> QED
    BY <1>1, <1>2, <1>3, <2>1
<1>4. CASE Len(e) \in {3, 4} /\ e[3] \in {"binder", "dri", "mali0"}
  <2>1. 3 \in 1 .. Len(e) /\ e[3] \notin {"null", "random"}
    BY <1>4
  <2> QED
    BY <1>1, <1>2, <2>1
<1> QED
  BY <1>1, <1>3, <1>4

-----------------------------------------------------------------------------
\* Files are directories or nodes.
KindsOf(F) == \A f \in F : f.kind \in {"dir", "node"}

\* Made files are apart from those there.
LEMMA MakeFits ==
  ASSUME NEW t, ATable(t), NEW F, FilesOn(t, F), KindsOf(F), NEW P \in SUBSET Path,
         NEW kind \in {"dir", "node"}
  PROVE  /\ FilesOn(t, Setup!Make(t, F, P, kind)) /\ KindsOf(Setup!Make(t, F, P, kind))
         /\ F \subseteq Setup!Make(t, F, P, kind)
         /\ \A f \in Setup!Make(t, F, P, kind) \ F :
              f.path \in P /\ f.kind = kind /\ f.on = Boot!On(t, f.path)
<1> DEFINE Q == {p \in P : Setup!Exists(t, F, Setup!Front(p))}
           G == Boot!MadeAll(t, F, Q, kind)
<1>1. Setup!Make(t, F, P, kind) = G
  BY SameTables DEF Setup!Make
<1>2. Q \in SUBSET Path /\ Q \subseteq P
  OBVIOUS
<1> HIDE DEF Q
<1>3. /\ FilesOn(t, G) /\ F \subseteq G
      /\ \A f \in G \ F : f.path \in Q /\ f.on = Boot!On(t, f.path) /\ f.kind = kind
  BY <1>2, MadeAllFits
<1> HIDE DEF G
<1>4. \A f \in G : f \in F \/ f.kind = kind
  BY <1>3
<1>5. KindsOf(G)
  BY <1>4 DEF KindsOf
<1> QED
  BY <1>1, <1>2, <1>3, <1>5

\* Tables that more mounts may have made of t.
Grown(t, u) == ATable(u) /\ Len(t) <= Len(u)

\* A mount that may fail leaves each table it is tried on, or makes it longer.
LEMMA TriedGrows ==
  ASSUME NEW t, NEW T, \A u \in T : Grown(t, u), NEW m \in AMount, Len(t) \in Nat
  PROVE  \A u \in Setup!Tried(T, m) : Grown(t, u)
<1> TAKE u \in Setup!Tried(T, m)
<1>1. CASE u \in T
  BY <1>1
<1>2. CASE u \notin T
  <2>1. PICK v \in T : u = Append(v, m)
    BY <1>2 DEF Setup!Tried
  <2>2. ATable(v) /\ Len(t) <= Len(v)
    BY <2>1 DEF Grown
  <2>3. ATable(u) /\ Len(u) = Len(v) + 1
    BY <2>1, <2>2, EntriesOf
  <2>4. Len(v) \in Nat
    BY <2>2 DEF ATable
  <2> QED
    BY <2>2, <2>3, <2>4 DEF Grown
<1> QED
  BY <1>1, <1>2

\* Files stay on mounts of a table that grew.
LEMMA GrownFits ==
  ASSUME NEW t, NEW u, Grown(t, u), NEW F, FilesOn(t, F), Len(t) \in Nat
  PROVE  FilesOn(u, F)
<1>1. Len(u) \in Nat /\ Len(t) <= Len(u)
  BY DEF Grown, ATable
<1> QED
  BY <1>1 DEF FilesOn

\* What the set-up mounts are mounts.
LEMMA MountPoints ==
  /\ Setup!Mnt(<<"proc">>, "proc") \in AMount /\ Setup!Mnt(Setup!Dev, "tmpfs") \in AMount
  /\ Setup!Mnt(Setup!In(Setup!Dev), "tmpfs") \in AMount
  /\ Setup!Mnt(Setup!In(<<"proc">>), "proc") \in AMount
  /\ Setup!Mnt(Setup!In(<<"sys">>), "sysfs") \in AMount
  /\ Setup!Mnt(Setup!In(<<"tmp">>), "tmpfs") \in AMount
  /\ \A e \in BindPoints : Setup!Mnt(e, "host") \in AMount
<1>1. "proc" \in Names /\ "tmpfs" \in Names /\ "sysfs" \in Names /\ "host" \in Names
  BY DEF Names, PathNames
<1>2. \A p \in Path, f \in Names : Setup!Mnt(p, f) \in AMount
  BY DEF AMount, Setup!Mnt
<1>3. Setup!Dev = <<"dev">>
  BY DEF Setup!Dev
<1>4. \A a \in {"proc", "dev", "sys", "tmp", "sdcard"} : <<a>> \in Path /\ Setup!In(<<a>>) \in Path
  BY HostPaths, AndroidPaths
<1>5. \A e \in BindPoints : e \in Path
  BY AndroidPaths
<1> QED
  BY <1>1, <1>2, <1>3, <1>4, <1>5

\* bind_mount: at most a directory more and a mount over no node that was made.
LEMMA BoundFits ==
  ASSUME NEW t, ATable(t), NEW F, FilesOn(t, F), KindsOf(F), NEW src, NEW dst \in BindPoints,
         NEW b \in Setup!Bound(t, F, src, dst)
  PROVE  /\ ATable(b.table) /\ FilesOn(b.table, b.files) /\ KindsOf(b.files)
         /\ F \subseteq b.files /\ \A f \in b.files \ F : f.kind = "dir"
         /\ \A p \in MadeNodes : Boot!On(b.table, p) = Boot!On(t, p)
<1> DEFINE g == Setup!Make(t, F, {dst}, "dir")
           m == Setup!Mnt(dst, "host")
           fits == Setup!Exists(t, g, dst) /\ Setup!KindOf(t, g, dst) = Setup!KindOf(t, g, src)
           tables == {t} \cup IF fits THEN {Append(t, m)} ELSE {}
<1>1. CASE ~Setup!Exists(t, F, src)
  <2>1. b = [table |-> t, files |-> F]
    BY <1>1 DEF Setup!Bound
  <2> QED
    BY <2>1
<1>2. CASE Setup!Exists(t, F, src)
  <2>1. b.files = g /\ b.table \in {t, Append(t, m)}
    <3>1. b \in {[table |-> u, files |-> g] : u \in tables}
      BY <1>2 DEF Setup!Bound
    <3>2. tables \subseteq {t, Append(t, m)}
      OBVIOUS
    <3> HIDE DEF g, tables, m
    <3> QED
      BY <3>1, <3>2
  <2>2. FilesOn(t, g) /\ KindsOf(g) /\ F \subseteq g /\ \A f \in g \ F : f.kind = "dir"
    <3>1. {dst} \in SUBSET Path /\ "dir" \in {"dir", "node"}
      BY AndroidPaths
    <3> QED
      BY <3>1, MakeFits
  <2> HIDE DEF g
  <2>3. m \in AMount /\ m.at = dst
    BY MountPoints DEF Setup!Mnt
  <2> HIDE DEF m
  <2>4. /\ ATable(Append(t, m)) /\ Len(t) \in Nat
        /\ Grown(t, Append(t, m))
    <3>1. ATable(Append(t, m)) /\ Len(Append(t, m)) = Len(t) + 1 /\ Len(t) \in Nat
      BY <2>3, EntriesOf DEF ATable
    <3> QED
      BY <3>1 DEF Grown
  <2>5. FilesOn(Append(t, m), g)
    BY <2>2, <2>4, GrownFits
  <2>6. \A p \in MadeNodes : Boot!On(Append(t, m), p) = Boot!On(t, p)
    BY <2>3, BindsAreBeside, OnAppended
  <2> QED
    BY <2>1, <2>2, <2>4, <2>5, <2>6
<1> QED
  BY <1>1, <1>2

\* Nodes are made when nothing more will be mounted at or above them.
SetupInv ==
  /\ at \in 1 .. 8 /\ pc \in {"setup", "init", "failed"}
  /\ gpu \in BOOLEAN /\ private \in BOOLEAN /\ (at # 1 => private)
  /\ ATable(table) /\ FilesOn(table, files) /\ KindsOf(files)
  /\ \A f \in files \ before :
       f.kind = "node" => at > 5 /\ f.path \in MadeNodes /\ Boot!FileSeen(table, f)

\* The set-up starts in the invariant.
LEMMA SetupStarts == Setup!Init => SetupInv
<1> SUFFICES ASSUME Setup!Init PROVE SetupInv
  OBVIOUS
<1>1. table = <<Setup!Mnt(<<>>, "rootfs"), Setup!Mnt(Setup!Dev, "devtmpfs")>>
  BY DEF Setup!Init
<1>2. <<>> \in Path /\ Setup!Dev \in Path
  <2>1. <<>> \in Path
    BY DEF Path
  <2> QED
    BY <2>1, HostPaths
<1>3. /\ Setup!Mnt(<<>>, "rootfs") \in AMount /\ Setup!Mnt(Setup!Dev, "devtmpfs") \in AMount
      /\ Setup!Mnt(<<>>, "rootfs").at = <<>>
  <2>1. "rootfs" \in Names /\ "devtmpfs" \in Names
    BY DEF Names
  <2> QED
    BY <1>2, <2>1 DEF AMount, Setup!Mnt
<1>4. /\ Len(table) = 2 /\ table[1] = Setup!Mnt(<<>>, "rootfs") /\ table \in Seq(AMount)
  <2>1. \A a, b : Len(<<a, b>>) = 2 /\ <<a, b>>[1] = a
    OBVIOUS
  <2>2. \A a, b \in AMount : <<a, b>> \in Seq(AMount)
    OBVIOUS
  <2> QED
    BY <1>1, <1>3, <2>1, <2>2
<1>5. ATable(table)
  BY <1>3, <1>4 DEF ATable
<1>6. files \in HostFiles /\ before = files
  BY DEF Setup!Init
<1>7. FilesOn(table, files)
  BY <1>4, <1>6, HostFilesAreFiles DEF FilesOn
<1>8. KindsOf(files)
  BY <1>6, HostFilesAreFiles DEF KindsOf
<1>9. at = 1 /\ pc = "setup" /\ private = FALSE /\ gpu \in BOOLEAN
  BY DEF Setup!Init
<1>10. private \in BOOLEAN
  BY <1>9, Zenon
<1>11. at \in 1 .. 8 /\ (at # 1 => private) /\ pc \in {"setup", "init", "failed"}
  BY <1>9
<1>12. files \ before = {}
  BY <1>6
<1> QED
  BY <1>5, <1>7, <1>8, <1>9, <1>10, <1>11, <1>12 DEF SetupInv

\* The step that runs says how far the set-up has come.
LEMMA AtWhichStep ==
  ASSUME SetupInv, NEW s, Setup!AtStep(s)
  PROVE  /\ s = "private" <=> at = 1
         /\ s = "nodes" => at = 5
         /\ s = "storage" => at = 6
         /\ s = "gpu" => at = 7
         /\ s \in {"proc", "dev", "rootfs"} => at < 5
         /\ s # "exec" => at + 1 \in 1 .. 8
         /\ pc = "setup"
<1> DEFINE S == Setup!Steps
<1>1. /\ S[1] = "private" /\ S[2] = "proc" /\ S[3] = "dev" /\ S[4] = "rootfs" /\ S[5] = "nodes"
      /\ S[6] = "storage" /\ S[7] = "gpu" /\ S[8] = "exec"
  BY DEF Setup!Steps
<1>2. at \in {1, 2, 3, 4, 5, 6, 7, 8} /\ S[at] = s /\ pc = "setup"
  BY DEF SetupInv, Setup!AtStep
<1> HIDE DEF S
<1> QED
  BY <1>1, <1>2

\* What the steps up to the device nodes do.
LEMMA BeforeNodes ==
  ASSUME SetupInv, at < 5, Grown(table, table'), FilesOn(table, files'), KindsOf(files'),
         \A f \in files' \ files : f.kind = "dir", at' = at + 1, before' = before,
         pc' = pc, gpu' = gpu, private' = private, private
  PROVE  SetupInv'
<1>1. Len(table) \in Nat /\ ATable(table') /\ at \in 1 .. 8
  BY DEF SetupInv, ATable, Grown
<1>2. FilesOn(table', files')
  BY <1>1, GrownFits
<1>3. \A f \in files' \ before' : f.kind # "node"
  BY <1>1 DEF SetupInv
<1>4. at' \in 1 .. 8 /\ at' # 1
  BY <1>1
<1> QED
  BY <1>1, <1>2, <1>3, <1>4 DEF SetupInv

\* One mount step keeps the invariant and the host's table.
LEMMA OneMount ==
  ASSUME SetupInv, NEW s, NEW m \in AMount, Setup!MountStep(s, m), s \in {"proc", "dev"}
  PROVE  SetupInv' /\ host' = host
<1>1. at < 5 /\ at # 1 /\ pc = "setup"
  BY AtWhichStep DEF Setup!MountStep
<1>2. private
  BY <1>1 DEF SetupInv
<1>3. PICK t \in Setup!Tried({table}, m) : Setup!Propagate(t)
  BY DEF Setup!MountStep
<1>4. Grown(table, t)
  <2>1. Grown(table, table) /\ Len(table) \in Nat
    BY DEF Grown, SetupInv, ATable
  <2>2. \A u \in {table} : Grown(table, u)
    BY <2>1
  <2> QED
    BY <1>3, <2>1, <2>2, TriedGrows
<1>5. table' = t /\ host' = host
  BY <1>2, <1>3 DEF Setup!Propagate
<1>6. at' = at + 1 /\ pc' = pc /\ gpu' = gpu /\ private' = private /\ files' = files
      /\ before' = before
  BY DEF Setup!MountStep, Setup!Goto
<1>7. FilesOn(table, files') /\ KindsOf(files')
  BY <1>6 DEF SetupInv
<1>8. \A f \in files' \ files : f.kind = "dir"
  BY <1>6
<1>9. Grown(table, table')
  BY <1>4, <1>5
<1> QED
  BY <1>1, <1>2, <1>5, <1>6, <1>7, <1>8, <1>9, BeforeNodes

\* mounts_setup_android_rootfs keeps the invariant and the host's table.
LEMMA RootfsMounts ==
  ASSUME SetupInv, Setup!SetupRootfs
  PROVE  SetupInv' /\ host' = host
<1>1. at < 5 /\ at # 1 /\ pc = "setup"
  BY AtWhichStep DEF Setup!SetupRootfs
<1>2. private
  BY <1>1 DEF SetupInv
<1> DEFINE T1 == Setup!Tried({table}, Setup!Mnt(Setup!In(Setup!Dev), "tmpfs"))
           T2 == Setup!Tried(T1, Setup!Mnt(Setup!In(<<"proc">>), "proc"))
           T3 == Setup!Tried(T2, Setup!Mnt(Setup!In(<<"sys">>), "sysfs"))
           T4 == Setup!Tried(T3, Setup!Mnt(Setup!In(<<"tmp">>), "tmpfs"))
<1>3. PICK t \in T4 : Setup!Propagate(t)
  BY DEF Setup!SetupRootfs
<1>4. Grown(table, t)
  <2>1. Grown(table, table) /\ Len(table) \in Nat
    BY DEF Grown, SetupInv, ATable
  <2>2. \A u \in {table} : Grown(table, u)
    BY <2>1
  <2>3. \A u \in T1 : Grown(table, u)
    BY <2>1, <2>2, MountPoints, TriedGrows
  <2> HIDE DEF T1
  <2>4. \A u \in T2 : Grown(table, u)
    BY <2>1, <2>3, MountPoints, TriedGrows
  <2> HIDE DEF T2
  <2>5. \A u \in T3 : Grown(table, u)
    BY <2>1, <2>4, MountPoints, TriedGrows
  <2> HIDE DEF T3
  <2>6. \A u \in T4 : Grown(table, u)
    BY <2>1, <2>5, MountPoints, TriedGrows
  <2> QED
    BY <1>3, <2>6
<1> HIDE DEF T4
<1>5. table' = t /\ host' = host
  BY <1>2, <1>3 DEF Setup!Propagate
<1>6. at' = at + 1 /\ pc' = pc /\ gpu' = gpu /\ private' = private /\ before' = before
  BY DEF Setup!SetupRootfs, Setup!Goto
<1>7. PICK P \in SUBSET {Setup!In(<<d>>) : d \in {"dev", "proc", "sys", "tmp"}} :
        files' = Setup!Make(table, files, P, "dir")
  BY DEF Setup!SetupRootfs
<1>8. P \in SUBSET Path
  BY AndroidPaths
<1>9. /\ FilesOn(table, files') /\ KindsOf(files')
      /\ \A f \in files' \ files : f.kind = "dir"
  <2>1. ATable(table) /\ FilesOn(table, files) /\ KindsOf(files) /\ "dir" \in {"dir", "node"}
    BY DEF SetupInv
  <2>2. /\ FilesOn(table, Setup!Make(table, files, P, "dir"))
        /\ KindsOf(Setup!Make(table, files, P, "dir"))
        /\ \A f \in Setup!Make(table, files, P, "dir") \ files : f.kind = "dir"
    BY <1>8, <2>1, MakeFits
  <2> QED
    BY <1>7, <2>2
<1>10. Grown(table, table')
  BY <1>4, <1>5
<1> QED
  BY <1>1, <1>2, <1>5, <1>6, <1>9, <1>10, BeforeNodes

\* What the steps from the device nodes on do: nodes are made where they are
\* seen, directories besides, and mounts over none of the nodes.
LEMMA FromNodes ==
  ASSUME SetupInv, at >= 5, at + 1 \in 1 .. 8, at' = at + 1, before' = before,
         pc' = pc, gpu' = gpu, private' = private, private,
         ATable(table'), FilesOn(table', files'), KindsOf(files'),
         \A p \in MadeNodes : Boot!On(table', p) = Boot!On(table, p),
         \A f \in files' \ files :
           f.kind = "node" => f.path \in MadeNodes /\ f.on = Boot!On(table, f.path)
  PROVE  SetupInv'
<1>1. at' > 5 /\ at' # 1 /\ at' \in 1 .. 8
  BY DEF SetupInv
<1>2. ASSUME NEW f \in files' \ before', f.kind = "node"
      PROVE  f.path \in MadeNodes /\ Boot!FileSeen(table', f)
  <2>1. f.path \in MadeNodes /\ f.on = Boot!On(table, f.path)
    BY <1>2 DEF SetupInv, Boot!FileSeen
  <2> QED
    BY <2>1 DEF Boot!FileSeen
<1> QED
  BY <1>1, <1>2 DEF SetupInv

\* The binder and device nodes keep the invariant and the host's table.
LEMMA NodesAreMade ==
  ASSUME SetupInv, Setup!BindNodes
  PROVE  SetupInv' /\ host' = host
<1>1. at = 5 /\ at >= 5 /\ at + 1 \in 1 .. 8 /\ private
  BY AtWhichStep DEF Setup!BindNodes, SetupInv
<1>2. PICK P \in SUBSET MadeNodes :
        \E b \in Setup!Bound(table, Setup!Make(table, files, P, "node"), Setup!Binder,
                             Setup!In(Setup!Binder)) : Setup!Become(b)
  BY DEF Setup!BindNodes, MadeNodes
<1> DEFINE G == Setup!Make(table, files, P, "node")
<1>3. PICK b \in Setup!Bound(table, G, Setup!Binder, Setup!In(Setup!Binder)) : Setup!Become(b)
  BY <1>2
<1>4. P \in SUBSET Path
  BY AndroidPaths
<1>5. ATable(table) /\ FilesOn(table, files) /\ KindsOf(files) /\ "node" \in {"dir", "node"}
  BY DEF SetupInv
<1>6. /\ FilesOn(table, G) /\ KindsOf(G) /\ files \subseteq G
      /\ \A f \in G \ files : f.path \in P /\ f.kind = "node" /\ f.on = Boot!On(table, f.path)
  BY <1>4, <1>5, MakeFits
<1> HIDE DEF G
<1>7. Setup!In(Setup!Binder) \in BindPoints
  BY DEF BindPoints
<1>8. /\ ATable(b.table) /\ FilesOn(b.table, b.files) /\ KindsOf(b.files)
      /\ \A f \in b.files \ G : f.kind = "dir"
      /\ \A p \in MadeNodes : Boot!On(b.table, p) = Boot!On(table, p)
  BY <1>3, <1>5, <1>6, <1>7, BoundFits
<1>9. table' = b.table /\ files' = b.files /\ host' = host
  BY <1>1, <1>3 DEF Setup!Become, Setup!Propagate
<1>10. at' = at + 1 /\ pc' = pc /\ gpu' = gpu /\ private' = private /\ before' = before
  BY DEF Setup!BindNodes, Setup!Goto
<1>11. \A f \in files' \ files :
         f.kind = "node" => f.path \in MadeNodes /\ f.on = Boot!On(table, f.path)
  BY <1>6, <1>8, <1>9
<1> QED
  BY <1>1, <1>8, <1>9, <1>10, <1>11, FromNodes

\* The shared storage keeps the invariant and the host's table.
LEMMA StorageIsBound ==
  ASSUME SetupInv, Setup!BindShared
  PROVE  SetupInv' /\ host' = host
<1> DEFINE dst == Setup!In(<<"sdcard">>)
           F == Setup!Make(table, files, {dst}, "dir")
<1>1. at = 6 /\ at >= 5 /\ at + 1 \in 1 .. 8 /\ private
  BY AtWhichStep DEF Setup!BindShared, SetupInv
<1>2. PICK b \in Setup!Bound(table, F, Setup!Shared, dst) : Setup!Become(b)
  BY DEF Setup!BindShared
<1>3. dst \in BindPoints /\ {dst} \in SUBSET Path /\ "dir" \in {"dir", "node"}
  <2>1. dst \in BindPoints
    BY DEF BindPoints
  <2> HIDE DEF dst
  <2> QED
    BY <2>1, AndroidPaths
<1>4. ATable(table) /\ FilesOn(table, files) /\ KindsOf(files)
  BY DEF SetupInv
<1> HIDE DEF dst
<1>5. /\ FilesOn(table, F) /\ KindsOf(F) /\ \A f \in F \ files : f.kind = "dir"
  BY <1>3, <1>4, MakeFits
<1> HIDE DEF F
<1>6. /\ ATable(b.table) /\ FilesOn(b.table, b.files) /\ KindsOf(b.files)
      /\ \A f \in b.files \ F : f.kind = "dir"
      /\ \A p \in MadeNodes : Boot!On(b.table, p) = Boot!On(table, p)
  BY <1>2, <1>3, <1>4, <1>5, BoundFits
<1>7. table' = b.table /\ files' = b.files /\ host' = host
  BY <1>1, <1>2 DEF Setup!Become, Setup!Propagate
<1>8. at' = at + 1 /\ pc' = pc /\ gpu' = gpu /\ private' = private /\ before' = before
  BY DEF Setup!BindShared, Setup!Goto
<1>9. \A f \in files' \ files : f.kind # "node"
  BY <1>5, <1>6, <1>7
<1> QED
  BY <1>1, <1>6, <1>7, <1>8, <1>9, FromNodes

\* The GPU's nodes keep the invariant and the host's table.
LEMMA GpuIsBound ==
  ASSUME SetupInv, Setup!BindGpu
  PROVE  SetupInv' /\ host' = host
<1> DEFINE dri == Setup!In(<<"dev", "dri">>)
           F == Setup!Make(table, files, {dri}, "dir")
<1>1. at = 7 /\ at >= 5 /\ at + 1 \in 1 .. 8 /\ private
  BY AtWhichStep DEF Setup!BindGpu, SetupInv
<1>2. PICK b \in Setup!Bound(table, F, <<"dev", "dri", "card0">>, Setup!In(<<"dev", "dri", "card0">>)) :
        \E c \in Setup!Bound(b.table, b.files, <<"dev", "mali0">>, Setup!In(<<"dev", "mali0">>)) :
          Setup!Become(c)
  BY DEF Setup!BindGpu
<1>3. PICK c \in Setup!Bound(b.table, b.files, <<"dev", "mali0">>, Setup!In(<<"dev", "mali0">>)) :
        Setup!Become(c)
  BY <1>2
<1>4. {dri} \in SUBSET Path /\ "dir" \in {"dir", "node"}
  BY AndroidPaths
<1>5. ATable(table) /\ FilesOn(table, files) /\ KindsOf(files)
  BY DEF SetupInv
<1> HIDE DEF dri
<1>6. /\ FilesOn(table, F) /\ KindsOf(F) /\ \A f \in F \ files : f.kind = "dir"
  BY <1>4, <1>5, MakeFits
<1> HIDE DEF F
<1>7. /\ Setup!In(<<"dev", "dri", "card0">>) \in BindPoints
      /\ Setup!In(<<"dev", "mali0">>) \in BindPoints
  BY DEF BindPoints, Gpu
<1>8. /\ ATable(b.table) /\ FilesOn(b.table, b.files) /\ KindsOf(b.files)
      /\ \A f \in b.files \ F : f.kind = "dir"
      /\ \A p \in MadeNodes : Boot!On(b.table, p) = Boot!On(table, p)
  BY <1>2, <1>5, <1>6, <1>7, BoundFits
<1>9. /\ ATable(c.table) /\ FilesOn(c.table, c.files) /\ KindsOf(c.files)
      /\ \A f \in c.files \ b.files : f.kind = "dir"
      /\ \A p \in MadeNodes : Boot!On(c.table, p) = Boot!On(b.table, p)
  BY <1>3, <1>7, <1>8, BoundFits
<1>10. table' = c.table /\ files' = c.files /\ host' = host
  BY <1>1, <1>3 DEF Setup!Become, Setup!Propagate
<1>11. at' = at + 1 /\ pc' = pc /\ gpu' = gpu /\ private' = private /\ before' = before
  BY DEF Setup!BindGpu, Setup!Goto
<1>12. \A p \in MadeNodes : Boot!On(table', p) = Boot!On(table, p)
  BY <1>8, <1>9, <1>10
<1>13. \A f \in files' \ files : f.kind # "node"
  BY <1>6, <1>8, <1>9, <1>10
<1> QED
  BY <1>1, <1>9, <1>10, <1>11, <1>12, <1>13, FromNodes

\* Every step of the set-up keeps the invariant and the host's table.
LEMMA SetupStep ==
  ASSUME SetupInv, [Setup!Next]_(Setup!vars)
  PROVE  SetupInv' /\ host' = host
<1>1. CASE UNCHANGED Setup!vars
  BY <1>1 DEF Setup!vars, SetupInv
<1>2. CASE Setup!MakePrivate
  <2>1. CASE private' = TRUE /\ Setup!Goto /\ UNCHANGED <<host, table, files>>
    <3>1. at = 1 /\ at' = 2 /\ pc' = pc /\ gpu' = gpu /\ before' = before
      BY <1>2, <2>1, AtWhichStep DEF Setup!MakePrivate, Setup!Goto
    <3>2. \A f \in files \ before : f.kind # "node"
      BY <3>1 DEF SetupInv
    <3>3. private' \in BOOLEAN /\ private'
      BY <2>1, Zenon
    <3>4. at' \in 1 .. 8
      BY <3>1
    <3> QED
      BY <2>1, <3>1, <3>2, <3>3, <3>4 DEF SetupInv
  <2>2. CASE Setup!PrivateFails
    BY <2>2 DEF Setup!PrivateFails, Setup!Stop, SetupInv
  <2> QED
    BY <1>2, <2>1, <2>2 DEF Setup!MakePrivate
<1>3. CASE Setup!MountProc
  BY <1>3, OneMount, MountPoints DEF Setup!MountProc
<1>4. CASE Setup!MountDev
  BY <1>4, OneMount, MountPoints DEF Setup!MountDev
<1>5. CASE Setup!SetupRootfs
  BY <1>5, RootfsMounts
<1>6. CASE Setup!BindNodes
  BY <1>6, NodesAreMade
<1>7. CASE Setup!BindShared
  BY <1>7, StorageIsBound
<1>8. CASE Setup!BindGpu
  BY <1>8, GpuIsBound
<1>9. CASE Setup!NoGpu
  <2>1. at = 7 /\ at' = 8 /\ pc' = pc /\ gpu' = gpu /\ before' = before
        /\ UNCHANGED <<host, table, files, private>>
    BY <1>9, AtWhichStep DEF Setup!NoGpu, Setup!Goto
  <2> QED
    BY <2>1 DEF SetupInv
<1>10. CASE Setup!Exec
  BY <1>10 DEF Setup!Exec, Setup!Stop, SetupInv
<1> QED
  BY <1>1, <1>2, <1>3, <1>4, <1>5, <1>6, <1>7, <1>8, <1>9, <1>10 DEF Setup!Next

\* The invariant of the set-up holds in every reachable state.
LEMMA SetupAlways == Setup!Spec => []SetupInv
<1>1. SetupInv /\ [Setup!Next]_(Setup!vars) => SetupInv'
  BY SetupStep
<1> QED
  BY <1>1, SetupStarts, PTL DEF Setup!Spec

\* Whatever files the host has and whichever calls fail: every file is on a
\* mount of the container, and no two are at one place.
THEOREM ContainerFilesAreApart == Setup!Spec => []Setup!TypeOK
<1>1. Len(Setup!Steps) = 8
  BY DEF Setup!Steps
<1>2. SetupInv => Setup!TypeOK
  BY <1>1 DEF SetupInv, FilesOn, KindsOf, Setup!TypeOK
<1> QED
  BY <1>2, SetupAlways, PTL

\* Whatever the host's files are and whichever calls fail: no mount of the
\* container appears in the host's mount table (ns_setup_mount, mounts.c).
THEOREM HostStaysUntouched == Setup!Spec => HostUntouched
<1>1. SetupInv /\ [Setup!Next]_(Setup!vars) => [UNCHANGED host]_(Setup!vars)
  BY SetupStep
<1>2. Setup!Spec => [][UNCHANGED host]_(Setup!vars)
  BY <1>1, SetupAlways, PTL DEF Setup!Spec
<1> QED
  BY <1>2 DEF HostUntouched, Setup!HostUntouched

\* Whatever files the host has, below ANDROID_ROOTFS and its /dev too, and
\* whichever calls fail: a device node that the set-up makes for Android is not
\* hidden by a mount, so Android finds it where mounts_bind_device_nodes made it.
THEOREM AndroidNodesAreInPlace == Setup!Spec => []NodesInPlace
<1>1. SetupInv => NodesInPlace
  BY SameTables DEF SetupInv, Boot!FileSeen, NodesInPlace, Setup!NodesInPlace, Setup!FileSeen
<1> QED
  BY <1>1, SetupAlways, PTL
=============================================================================
