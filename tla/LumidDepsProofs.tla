-------------------------- MODULE LumidDepsProofs --------------------------
(***************************************************************************)
(* Proofs about LumidDeps, for every set of services, dependency graph,    *)
(* array length and sequence of reloads: what service_resolve_deps leaves  *)
(* behind is what Lumid assumes in OrderContract, neither array overflows  *)
(* and the recursion is bounded.                                           *)
(***************************************************************************)
EXTENDS LumidDeps, SequenceTheorems, FiniteSetTheorems, TLAPS

Frame == [svc : Services, todo : SUBSET Services]

\* The part of DepsTypeOK that does not count.
Types ==
  /\ deps \in [Services -> SUBSET Services]
  /\ loaded \subseteq Services /\ array \subseteq loaded
  /\ visit \in [Services -> {"none", "temp", "perm"}]
  /\ \A s \in Services : visit[s] # "none" => s \in array
  /\ stack \in Seq(Frame) /\ order \in Seq(Services)
  /\ result \in {"busy", "ok", "cycle"}
  /\ result # "busy" => stack = <<>>

\* The active calls are for different services, all VISIT_TEMP.
Calls ==
  /\ \A k \in 1 .. Len(stack) : /\ visit[stack[k].svc] = "temp"
                                /\ stack[k].todo \subseteq deps[stack[k].svc] \cap array
  /\ \A j, k \in 1 .. Len(stack) : stack[j].svc = stack[k].svc => j = k

\* While the search runs nothing else is VISIT_TEMP.
OnlyCalls ==
  result = "busy" => \A s \in Services : visit[s] = "temp" =>
    \E k \in 1 .. Len(stack) : stack[k].svc = s

\* Each call was made for a dependency of the one before it, and a call is done
\* with a dependency when that is placed, or is the call it waits for.
Path ==
  \A k \in 1 .. Len(stack) :
    /\ k < Len(stack) => stack[k + 1].svc \in deps[stack[k].svc]
    /\ \A d \in deps[stack[k].svc] \cap array :
         \/ d \in stack[k].todo
         \/ visit[d] = "perm"
         \/ k < Len(stack) /\ stack[k + 1].svc = d

\* What is VISIT_PERM is in g_start_order, once, after its dependencies.
Placement ==
  /\ \A i \in DOMAIN order : visit[order[i]] = "perm"
  /\ \A s \in Services : visit[s] = "perm" => \E i \in DOMAIN order : order[i] = s
  /\ NoRepeat(order)
  /\ Sound(order, deps, array)

Outcome ==
  /\ result = "ok" => \A s \in array : visit[s] = "perm"
  /\ result = "cycle" => Cyclic(deps, array)

DInv == Types /\ Calls /\ OnlyCalls /\ Path /\ Placement /\ Outcome

-----------------------------------------------------------------------------
(* Sequences.                                                              *)

\* A pushed call is on top of the others.
LEMMA PushFacts ==
  ASSUME NEW S, NEW q \in Seq(S), NEW e \in S
  PROVE  /\ Append(q, e) \in Seq(S)
         /\ Len(Append(q, e)) = Len(q) + 1
         /\ \A i \in 1 .. Len(q) : Append(q, e)[i] = q[i]
         /\ Append(q, e)[Len(q) + 1] = e
OBVIOUS

\* Popping leaves the others as they were.
LEMMA PopFacts ==
  ASSUME NEW S, NEW q \in Seq(S), q # <<>>
  PROVE  /\ Len(q) \in Nat \ {0}
         /\ SubSeq(q, 1, Len(q) - 1) \in Seq(S)
         /\ Len(SubSeq(q, 1, Len(q) - 1)) = Len(q) - 1
         /\ \A i \in 1 .. (Len(q) - 1) : SubSeq(q, 1, Len(q) - 1)[i] = q[i]
<1> DEFINE n == Len(q)
           r == SubSeq(q, 1, n - 1)
<1>1. n \in Nat /\ n # 0 /\ \A i \in 1 .. n : q[i] \in S
  OBVIOUS
<1>2. n \in Nat \ {0} /\ n - 1 \in Int /\ (1 <= n - 1 \/ n - 1 = 0)
      /\ \A i \in 1 .. (n - 1) : q[i] \in S
  <2> HIDE DEF n
  <2>1. \A i \in 1 .. (n - 1) : i \in 1 .. n
    BY <1>1
  <2>2. n \in Nat \ {0} /\ n - 1 \in Int /\ (1 <= n - 1 \/ n - 1 = 0)
    BY <1>1
  <2> QED
    BY <1>1, <2>1, <2>2
<1> HIDE DEF n
<1>3. /\ r \in Seq(S)
      /\ Len(r) = IF 1 <= n - 1 THEN (n - 1) - 1 + 1 ELSE 0
      /\ \A i \in 1 .. ((n - 1) - 1 + 1) : r[i] = q[1 + i - 1]
  BY <1>2, SubSeqProperties
<1>4. Len(r) = n - 1
  <2> HIDE DEF r
  <2> QED
    BY <1>2, <1>3
<1>5. \A i \in 1 .. (n - 1) : r[i] = q[i]
  <2> HIDE DEF r
  <2> SUFFICES ASSUME NEW i \in 1 .. (n - 1) PROVE r[i] = q[i]
    OBVIOUS
  <2>1. i \in 1 .. ((n - 1) - 1 + 1) /\ 1 + i - 1 = i
    BY <1>2
  <2>2. r[i] = q[1 + i - 1]
    BY <1>3, <2>1
  <2> QED
    BY <2>1, <2>2
<1> QED
  BY <1>2, <1>3, <1>4, <1>5 DEF n

\* What the invariant says of an active call.
LEMMA StackFacts ==
  ASSUME DInv
  PROVE  /\ stack \in Seq(Frame) /\ Len(stack) \in Nat
         /\ \A k \in 1 .. Len(stack) :
              /\ stack[k] \in Frame
              /\ stack[k].svc \in Services /\ stack[k].svc \in array
              /\ visit[stack[k].svc] = "temp"
              /\ stack[k].todo \subseteq deps[stack[k].svc] \cap array
              /\ deps[stack[k].svc] \subseteq Services
<1>1. stack \in Seq(Frame) /\ Len(stack) \in Nat /\ \A k \in 1 .. Len(stack) : stack[k] \in Frame
  BY DEF DInv, Types
<1>2. \A k \in 1 .. Len(stack) : stack[k].svc \in Services
  BY <1>1 DEF Frame
<1>3. \A k \in 1 .. Len(stack) : /\ visit[stack[k].svc] = "temp"
                                 /\ stack[k].todo \subseteq deps[stack[k].svc] \cap array
  BY DEF DInv, Calls
<1>4. \A s \in Services : visit[s] = "temp" => s \in array
  BY DEF DInv, Types
<1>5. \A s \in Services : deps[s] \subseteq Services
  BY DEF DInv, Types
<1> QED
  BY <1>1, <1>2, <1>3, <1>4, <1>5

\* Advance changes the innermost call only, and only what it has to do.
LEMMA AdvanceFacts ==
  ASSUME stack \in Seq(Frame), stack # <<>>, NEW d
  PROVE  /\ Len(stack) \in Nat \ {0}
         /\ Advance(d) \in Seq(Frame)
         /\ Len(Advance(d)) = Len(stack)
         /\ \A i \in 1 .. Len(stack) :
              /\ Advance(d)[i].svc = stack[i].svc
              /\ i # Len(stack) => Advance(d)[i].todo = stack[i].todo
         /\ Advance(d)[Len(stack)].todo = stack[Len(stack)].todo \ {d}
<1> DEFINE n == Len(stack)
           f == stack[n]
           g == [f EXCEPT !.todo = @ \ {d}]
<1>1. n \in Nat /\ n # 0
  OBVIOUS
<1>2. n \in Nat \ {0} /\ n \in 1 .. n
  BY <1>1
<1>3. f \in Frame
  BY <1>2
<1>4. g \in Frame /\ g.svc = f.svc /\ g.todo = f.todo \ {d}
  <2> HIDE DEF f
  <2> QED
    BY <1>3 DEF Frame
<1>5. Advance(d) = [stack EXCEPT ![n] = g]
  BY DEF Advance
<1> HIDE DEF g
<1>6. /\ Advance(d) \in Seq(Frame) /\ Len(Advance(d)) = n
      /\ \A j \in 1 .. n : Advance(d)[j] = IF j = n THEN g ELSE stack[j]
  BY <1>2, <1>4, <1>5, ExceptSeq
<1> QED
  BY <1>2, <1>4, <1>6

\* A call starts with a frame of the right type.
LEMMA CallFrame == ASSUME Types, NEW s \in Services PROVE Call(s) \in Frame
BY DEF Types, Call, Frame

-----------------------------------------------------------------------------
\* service_resolve_deps starts in the invariant.
LEMMA InitDInv == DepsInit => DInv
BY DEF DepsInit, DInv, Types, Calls, OnlyCalls, Path, Placement, Outcome, Unvisited,
       Arrays, NoRepeat, IsInjective, Sound, Frame

\* A reload starts the search all over, like DepsInit.
LEMMA ReloadStep == DInv /\ Reload => DInv'
BY DEF Reload, DInv, Types, Calls, OnlyCalls, Path, Placement, Outcome, Unvisited,
       OrderReset, Arrays, NoRepeat, IsInjective, Sound, Frame

\* The next service of the array: the stack holds just its call.
LEMMA VisitStep == ASSUME DInv, NEW s \in Services, Visit(s) PROVE DInv'
<1>1. /\ stack' \in Seq(Frame) /\ Len(stack') = 1
      /\ stack'[1].svc = s /\ stack'[1].todo = deps[s] \cap array
  BY CallFrame DEF Visit, DInv, Call
<1>2. Types'
  BY <1>1 DEF Visit, DInv, Types
<1>3. Calls' /\ OnlyCalls' /\ Path'
  BY <1>1 DEF Visit, DInv, Types, Calls, OnlyCalls, Path
<1>4. Placement' /\ Outcome'
  BY DEF Visit, DInv, Types, Placement, Outcome, NoRepeat, IsInjective, Sound
<1> QED
  BY <1>2, <1>3, <1>4 DEF DInv

\* Skipping a dependency keeps the invariant.
LEMMA PassOverStep == ASSUME DInv, NEW d \in Services, PassOver(d) PROVE DInv'
<1>1. /\ stack # <<>> /\ stack \in Seq(Frame) /\ visit[d] = "perm"
      /\ stack' = Advance(d)
      /\ UNCHANGED <<deps, loaded, array, visit, order, result>>
  BY DEF PassOver, Considering, AlreadyPlaced, DInv, Types
<1>2. /\ Len(stack) \in Nat \ {0}
      /\ stack' \in Seq(Frame) /\ Len(stack') = Len(stack)
      /\ \A i \in 1 .. Len(stack) :
           /\ stack'[i].svc = stack[i].svc
           /\ i # Len(stack) => stack'[i].todo = stack[i].todo
      /\ stack'[Len(stack)].todo = stack[Len(stack)].todo \ {d}
  BY <1>1, AdvanceFacts
<1>3. Types' /\ Placement' /\ Outcome'
  BY <1>1, <1>2 DEF PassOver, Considering, DInv, Types, Placement, Outcome, NoRepeat, IsInjective, Sound
<1>4. \A i \in 1 .. Len(stack) :
        /\ stack'[i].todo \subseteq stack[i].todo
        /\ stack[i].todo \subseteq stack'[i].todo \cup {d}
  BY <1>2
<1>5. Calls'
  <2>1. \A k \in 1 .. Len(stack) : visit[stack[k].svc] = "temp"
                             /\ stack[k].todo \subseteq deps[stack[k].svc] \cap array
    BY DEF DInv, Calls
  <2>2. \A j, k \in 1 .. Len(stack) : stack[j].svc = stack[k].svc => j = k
    BY DEF DInv, Calls
  <2> QED
    BY <1>1, <1>2, <1>4, <2>1, <2>2 DEF Calls
<1>6. OnlyCalls'
  BY <1>1, <1>2 DEF DInv, OnlyCalls
<1>7. Path'
  <2> SUFFICES ASSUME NEW k \in 1 .. Len(stack)
               PROVE  /\ k < Len(stack) => stack'[k + 1].svc \in deps[stack'[k].svc]
                      /\ \A e \in deps[stack'[k].svc] \cap array :
                           \/ e \in stack'[k].todo
                           \/ visit[e] = "perm"
                           \/ k < Len(stack) /\ stack'[k + 1].svc = e
    BY <1>1, <1>2 DEF Path
  <2>1. k < Len(stack) => k + 1 \in 1 .. Len(stack)
    BY <1>2
  <2>2. k < Len(stack) => stack[k + 1].svc \in deps[stack[k].svc]
    BY DEF DInv, Path
  <2>3. \A e \in deps[stack[k].svc] \cap array :
           \/ e \in stack[k].todo
           \/ visit[e] = "perm"
           \/ k < Len(stack) /\ stack[k + 1].svc = e
    BY DEF DInv, Path
  <2> QED
    BY <2>1, <2>2, <2>3, <1>1, <1>2, <1>4
<1> QED
  BY <1>3, <1>5, <1>6, <1>7 DEF DInv

\* A nested call: one more service becomes VISIT_TEMP and goes on the stack.
LEMMA DescendStep == ASSUME DInv, NEW d \in Services, Descend(d) PROVE DInv'
<1> DEFINE n == Len(stack)
<1>1. /\ stack # <<>> /\ stack \in Seq(Frame) /\ visit[d] = "none" /\ result = "busy"
      /\ visit' = [visit EXCEPT ![d] = "temp"]
      /\ stack' = Append(Advance(d), Call(d))
      /\ UNCHANGED <<deps, loaded, array, order, result>>
      /\ d \in stack[n].todo
  BY DEF Descend, Considering, Top, DInv, Types
<1>2. /\ n \in Nat \ {0}
      /\ Advance(d) \in Seq(Frame) /\ Len(Advance(d)) = n
      /\ \A i \in 1 .. n :
           /\ Advance(d)[i].svc = stack[i].svc
           /\ i # n => Advance(d)[i].todo = stack[i].todo
      /\ Advance(d)[n].todo = stack[n].todo \ {d}
  BY <1>1, AdvanceFacts
<1>3. Call(d) \in Frame /\ Call(d).svc = d /\ Call(d).todo = deps[d] \cap array
  BY CallFrame DEF Call, DInv
<1>4. /\ stack' \in Seq(Frame) /\ Len(stack') = n + 1
      /\ \A i \in 1 .. n :
           /\ stack'[i].svc = stack[i].svc
           /\ i # n => stack'[i].todo = stack[i].todo
      /\ stack'[n].todo = stack[n].todo \ {d}
      /\ stack'[n + 1].svc = d /\ stack'[n + 1].todo = deps[d] \cap array
  <2> HIDE DEF n
  <2>1. /\ Append(Advance(d), Call(d)) \in Seq(Frame)
        /\ Len(Append(Advance(d), Call(d))) = n + 1
        /\ \A i \in 1 .. n : Append(Advance(d), Call(d))[i] = Advance(d)[i]
        /\ Append(Advance(d), Call(d))[n + 1] = Call(d)
    BY <1>2, <1>3, PushFacts
  <2> QED
    BY <2>1, <1>1, <1>2, <1>3
<1>5. /\ d \in array /\ d \in deps[stack[n].svc]
      /\ visit' \in [Services -> {"none", "temp", "perm"}]
      /\ visit'[d] = "temp" /\ \A s \in Services \ {d} : visit'[s] = visit[s]
  BY <1>1, <1>2 DEF DInv, Types, Calls
<1>6. /\ \A k \in 1 .. n :
           /\ stack[k].svc \in Services \ {d}
           /\ visit[stack[k].svc] = "temp"
           /\ stack[k].todo \subseteq deps[stack[k].svc] \cap array
      /\ \A j, k \in 1 .. n : stack[j].svc = stack[k].svc => j = k
  BY <1>1, StackFacts DEF DInv, Calls
<1> HIDE DEF n
<1>7. Types'
  BY <1>1, <1>4, <1>5 DEF DInv, Types
<1>8. Calls'
  <2>1. \A k \in 1 .. (n + 1) : k = n + 1 \/ k \in 1 .. n
    BY <1>2
  <2>2. \A k \in 1 .. n : stack'[k].todo \subseteq stack[k].todo
    BY <1>2, <1>4
  <2>3. \A k \in 1 .. (n + 1) :
          /\ visit'[stack'[k].svc] = "temp"
          /\ stack'[k].todo \subseteq deps[stack'[k].svc] \cap array
    BY <2>1, <2>2, <1>4, <1>5, <1>6
  <2>4. \A j, k \in 1 .. (n + 1) : stack'[j].svc = stack'[k].svc => j = k
    BY <2>1, <1>4, <1>6
  <2> QED
    BY <2>3, <2>4, <1>1, <1>4 DEF Calls
<1>9. OnlyCalls'
  <2> SUFFICES ASSUME NEW s \in Services, visit'[s] = "temp"
               PROVE  \E k \in 1 .. (n + 1) : stack'[k].svc = s
    BY <1>4 DEF OnlyCalls
  <2>1. CASE s = d
    BY <2>1, <1>2, <1>4
  <2>2. CASE s # d
    <3>1. PICK k \in 1 .. n : stack[k].svc = s
      BY <2>2, <1>1, <1>5 DEF DInv, OnlyCalls, n
    <3>2. k \in 1 .. (n + 1)
      BY <1>2
    <3> QED
      BY <3>1, <3>2, <1>4
  <2> QED
    BY <2>1, <2>2
<1>10. Path'
  <2> SUFFICES ASSUME NEW k \in 1 .. (n + 1)
               PROVE  /\ k < n + 1 => stack'[k + 1].svc \in deps[stack'[k].svc]
                      /\ \A e \in deps[stack'[k].svc] \cap array :
                           \/ e \in stack'[k].todo
                           \/ visit'[e] = "perm"
                           \/ k < n + 1 /\ stack'[k + 1].svc = e
    BY <1>1, <1>4 DEF Path
  <2>0. \A e \in array : visit[e] = "perm" => visit'[e] = "perm"
    BY <1>1, <1>5 DEF DInv, Types
  <2>1. CASE k = n + 1
    BY <2>1, <1>2, <1>4
  <2>2. CASE k = n
    <3>1. n \in 1 .. n /\ n < n + 1 /\ ~(n < n)
      BY <1>2
    <3>2. \A e \in deps[stack[n].svc] \cap array : e \in stack[n].todo \/ visit[e] = "perm"
      BY <3>1 DEF DInv, Path, n
    <3>3. /\ stack'[n + 1].svc \in deps[stack'[n].svc]
          /\ \A e \in deps[stack'[n].svc] \cap array :
               e \in stack'[n].todo \/ visit[e] = "perm" \/ stack'[n + 1].svc = e
      BY <3>1, <3>2, <1>4, <1>5
    <3> QED
      BY <2>2, <3>1, <3>3, <2>0
  <2>3. CASE k \in 1 .. (n - 1)
    <3>1. k + 1 \in 1 .. n /\ k \in 1 .. n /\ k < n /\ k # n
      BY <2>3, <1>2
    <3>2. stack'[k + 1].svc = stack[k + 1].svc /\ stack'[k].svc = stack[k].svc
          /\ stack'[k].todo = stack[k].todo
      BY <3>1, <1>4
    <3>3. /\ stack[k + 1].svc \in deps[stack[k].svc]
          /\ \A e \in deps[stack[k].svc] \cap array :
               e \in stack[k].todo \/ visit[e] = "perm" \/ stack[k + 1].svc = e
      BY <3>1 DEF DInv, Path, n
    <3>4. k < n + 1
      BY <3>1, <1>2
    <3> QED
      BY <3>2, <3>3, <3>4, <2>0
  <2> QED
    BY <2>1, <2>2, <2>3, <1>2
<1>11. Placement' /\ Outcome'
  BY <1>1, <1>5 DEF DInv, Types, Placement, Outcome, NoRepeat, IsInjective, Sound
<1> QED
  BY <1>7, <1>8, <1>9, <1>10, <1>11 DEF DInv

\* The calls from the one for d on form a knot of dependencies.
LEMMA FindCycleStep == ASSUME DInv, NEW d \in Services, FindCycle(d) PROVE DInv'
<1> DEFINE n == Len(stack)
<1>1. /\ stack # <<>> /\ stack \in Seq(Frame) /\ result = "busy" /\ visit[d] = "temp"
      /\ d \in stack[n].todo
      /\ result' = "cycle" /\ stack' = <<>>
      /\ UNCHANGED <<deps, loaded, array, visit, order>>
  BY DEF FindCycle, Considering, OnStack, Top, DInv, Types
<1>2. PICK i \in 1 .. n : stack[i].svc = d
  BY <1>1 DEF DInv, OnlyCalls
<1> DEFINE C == {stack[k].svc : k \in i .. n}
<1>3. d \in deps[stack[n].svc]
  BY <1>1, <1>2 DEF DInv, Calls
<1>4. C # {} /\ C \subseteq array
  <2>1. n \in Nat /\ \A k \in 1 .. n : stack[k].svc \in array
    BY StackFacts
  <2>2. i \in i .. n /\ \A k \in i .. n : k \in 1 .. n
    BY <2>1
  <2> QED
    BY <2>1, <2>2
<1>5. ASSUME NEW s \in C PROVE deps[s] \cap C # {}
  <2>1. PICK k \in i .. n : s = stack[k].svc
    OBVIOUS
  <2>2. CASE k = n
    BY <2>1, <2>2, <1>2, <1>3
  <2>3. CASE k # n
    BY <2>1, <2>3, <1>1, <1>2 DEF DInv, Path
  <2> QED
    BY <2>2, <2>3
<1>6. Cyclic(deps, array)
  BY <1>4, <1>5 DEF Cyclic, IsKnot
<1> QED
  BY <1>1, <1>6 DEF DInv, Types, Calls, OnlyCalls, Path, Placement, Outcome,
     NoRepeat, IsInjective, Sound, Cyclic, IsKnot

\* The innermost call returns: its service goes to the end of the order.
LEMMA PlaceStep == ASSUME DInv, Place PROVE DInv'
<1> DEFINE n == Len(stack)
           t == stack[n].svc
<1>1. /\ stack # <<>> /\ stack \in Seq(Frame) /\ result = "busy" /\ stack[n].todo = {}
      /\ visit' = [visit EXCEPT ![t] = "perm"]
      /\ order' = Append(order, t)
      /\ stack' = SubSeq(stack, 1, n - 1)
      /\ UNCHANGED <<deps, loaded, array, result>>
  BY DEF Place, CallDone, Top, Pop, DInv, Types
<1>2. /\ n \in Nat \ {0}
      /\ stack' \in Seq(Frame) /\ Len(stack') = n - 1
      /\ \A k \in 1 .. (n - 1) : stack'[k] = stack[k]
  BY <1>1, PopFacts
<1>3. /\ t \in Services /\ t \in array /\ visit[t] = "temp"
      /\ visit' \in [Services -> {"none", "temp", "perm"}]
      /\ visit'[t] = "perm" /\ \A s \in Services \ {t} : visit'[s] = visit[s]
  <2>1. n \in 1 .. n
    BY <1>2
  <2>2. t \in Services /\ t \in array /\ visit[t] = "temp"
    BY <2>1, StackFacts
  <2> HIDE DEF t
  <2> QED
    BY <2>2, <1>1 DEF DInv, Types
<1>4. /\ \A k \in 1 .. (n - 1) :
           /\ stack[k].svc \in Services \ {t}
           /\ visit[stack[k].svc] = "temp"
           /\ stack[k].todo \subseteq deps[stack[k].svc] \cap array
      /\ \A j, k \in 1 .. (n - 1) : stack[j].svc = stack[k].svc => j = k
  <2>1. \A k \in 1 .. (n - 1) : k \in 1 .. n /\ k # n /\ n \in 1 .. n
    BY <1>2
  <2>2. \A j, k \in 1 .. n : stack[j].svc = stack[k].svc => j = k
    BY DEF DInv, Calls
  <2> QED
    BY <2>1, <2>2, StackFacts
<1>5. /\ order \in Seq(Services) /\ order' \in Seq(Services)
      /\ Len(order') = Len(order) + 1
      /\ \A j \in 1 .. Len(order) : order'[j] = order[j]
      /\ order'[Len(order) + 1] = t
  BY <1>1, <1>3, PushFacts DEF DInv, Types
<1>6. \A d \in deps[t] \cap array : visit[d] = "perm"
  BY <1>1, <1>2 DEF DInv, Path
<1>7. Types'
  BY <1>1, <1>2, <1>3, <1>5 DEF DInv, Types
<1> HIDE DEF n, t
<1>8. Calls' /\ OnlyCalls'
  <2>1. Calls'
    BY <1>1, <1>2, <1>3, <1>4 DEF Calls
  <2>2. ASSUME NEW s \in Services, visit'[s] = "temp"
        PROVE  \E k \in 1 .. Len(stack') : stack'[k].svc = s
    <3>1. s # t /\ visit[s] = "temp"
      BY <2>2, <1>3
    <3>2. PICK k \in 1 .. n : stack[k].svc = s
      BY <3>1, <1>1 DEF DInv, OnlyCalls, n
    <3>3. k # n
      BY <3>1, <3>2 DEF t
    <3> QED
      BY <3>2, <3>3, <1>2
  <2> QED
    BY <2>1, <2>2 DEF OnlyCalls
<1>9. Path'
  <2> SUFFICES ASSUME NEW k \in 1 .. (n - 1)
               PROVE  /\ k < n - 1 => stack'[k + 1].svc \in deps[stack'[k].svc]
                      /\ \A e \in deps[stack'[k].svc] \cap array :
                           \/ e \in stack'[k].todo
                           \/ visit'[e] = "perm"
                           \/ k < n - 1 /\ stack'[k + 1].svc = e
    BY <1>1, <1>2 DEF Path
  <2>1. /\ k \in 1 .. n /\ k + 1 \in 1 .. n /\ k < n /\ stack'[k] = stack[k]
        /\ k < n - 1 => stack'[k + 1] = stack[k + 1]
        /\ k = n - 1 => stack[k + 1].svc = t
    BY <1>2 DEF t
  <2>2. /\ stack[k + 1].svc \in deps[stack[k].svc]
        /\ \A e \in deps[stack[k].svc] \cap array :
             e \in stack[k].todo \/ visit[e] = "perm" \/ stack[k + 1].svc = e
    BY <2>1 DEF DInv, Path, n
  <2>3. \A e \in array : visit[e] = "perm" => visit'[e] = "perm"
    BY <1>3 DEF DInv, Types
  <2>4. k < n - 1 \/ k = n - 1
    BY <1>2
  <2> QED
    BY <2>1, <2>2, <2>3, <2>4, <1>3
<1>10. Placement'
  <2>1. DOMAIN order = 1 .. Len(order) /\ DOMAIN order' = 1 .. (Len(order) + 1) /\ Len(order) \in Nat
    BY <1>5
  <2>2. \A j \in 1 .. Len(order) : order[j] \in Services /\ visit[order[j]] = "perm"
    BY <2>1, <1>5 DEF DInv, Placement
  <2>3. \A j \in 1 .. Len(order) : order[j] # t
    BY <2>2, <1>3
  <2>4. \A j \in DOMAIN order' : visit'[order'[j]] = "perm"
    BY <2>1, <2>2, <1>3, <1>5
  <2>5. \A s \in Services : visit'[s] = "perm" => \E j \in DOMAIN order' : order'[j] = s
    BY <2>1, <1>3, <1>5 DEF DInv, Placement
  <2>6. NoRepeat(order')
    BY <2>1, <2>3, <1>5 DEF DInv, Placement, NoRepeat, IsInjective
  <2>7. Sound(order', deps, array)
    <3> SUFFICES ASSUME NEW j \in DOMAIN order', NEW d \in deps[order'[j]] \cap array
                 PROVE  \E i \in 1 .. (j - 1) : order'[i] = d
      BY DEF Sound
    <3>1. CASE j = Len(order) + 1
      <4>1. d \in Services /\ visit[d] = "perm"
        BY <3>1, <1>5, <1>6 DEF DInv, Types
      <4>2. PICK i \in DOMAIN order : order[i] = d
        BY <4>1 DEF DInv, Placement
      <4> QED
        BY <4>2, <3>1, <2>1, <1>5
    <3>2. CASE j \in 1 .. Len(order)
      <4>1. PICK i \in 1 .. (j - 1) : order[i] = d
        BY <3>2, <2>1, <1>5 DEF DInv, Placement, Sound
      <4> QED
        BY <4>1, <3>2, <2>1, <1>5
    <3> QED
      BY <3>1, <3>2, <2>1
  <2> QED
    BY <2>4, <2>5, <2>6, <2>7, <1>1 DEF Placement
<1>11. Outcome'
  BY <1>1 DEF Outcome
<1> QED
  BY <1>7, <1>8, <1>9, <1>10, <1>11 DEF DInv

\* Nothing is unvisited and no call is active: everything is placed.
LEMMA FinishStep == DInv /\ Finish => DInv'
BY DEF Finish, DInv, Types, Calls, OnlyCalls, Path, Placement, Outcome, NoRepeat,
       IsInjective, Sound

\* Every step of the search keeps the invariant.
LEMMA StepDInv == DInv /\ [DepsNext]_depsVars => DInv'
<1> SUFFICES ASSUME DInv, [DepsNext]_depsVars PROVE DInv'
  OBVIOUS
<1>1. CASE UNCHANGED depsVars
  BY <1>1 DEF depsVars, DInv, Types, Calls, OnlyCalls, Path, Placement, Outcome,
     NoRepeat, IsInjective, Sound, Cyclic, IsKnot
<1>2. CASE Reload
  BY <1>2, ReloadStep
<1>3. CASE Search
  BY <1>3, VisitStep, PassOverStep, DescendStep, FindCycleStep, PlaceStep, FinishStep DEF Search
<1> QED
  BY <1>1, <1>2, <1>3 DEF DepsNext

\* What topo_visit and service_resolve_deps leave behind, for any number of
\* services: a sound order without repetitions, complete if 0 is returned, and
\* -1 only if there is a cycle.
THEOREM SearchKeepsPromise == DepsSpec => []Promise
<1>1. DInv => Promise
  <2> SUFFICES ASSUME DInv, result # "busy" PROVE ResolvedAs(order, result = "ok", deps, array)
    BY DEF Promise
  <2>1. Placed(order) \subseteq array
    BY DEF DInv, Types, Placement, Placed, Range
  <2>2. result = "ok" => Complete(order, array)
    BY DEF DInv, Types, Placement, Outcome, Complete, Placed, Range
  <2>3. result # "ok" => Cyclic(deps, array)
    BY DEF DInv, Types, Outcome
  <2> QED
    BY <2>1, <2>2, <2>3 DEF DInv, Placement, ResolvedAs
<1> QED
  BY InitDInv, StepDInv, <1>1, PTL DEF DepsSpec

-----------------------------------------------------------------------------
(* Counting: neither array overflows, and the recursion is bounded.        *)

\* svc_array never holds more than it has room for.
Fits == Cardinality(array) <= ArrayLimit

\* g_start_order fits its services in every reachable state.
LEMMA ArrayFits == DepsSpec => []Fits
<1>1. DepsInit => Fits
  BY DEF DepsInit, Arrays, Fits
<1>2. Fits /\ [DepsNext]_depsVars => Fits'
  BY DEF Fits, DepsNext, depsVars, Search, Reload, Arrays, Visit, PassOver, Descend, FindCycle,
         Place, Finish
<1> QED
  BY <1>1, <1>2, PTL DEF DepsSpec

\* A list without repetitions is no longer than the set it is drawn from.
LEMMA NoLongerThan ==
  ASSUME NEW A, IsFiniteSet(A), NEW m \in Nat, NEW f \in [1 .. m -> A],
         \A j, k \in 1 .. m : f[j] = f[k] => j = k
  PROVE  m <= Cardinality(A)
<1>1. IsFiniteSet(1 .. m) /\ Cardinality(1 .. m) = m
  <2>1. IsFiniteSet(1 .. m) /\ Cardinality(1 .. m) = IF 1 > m THEN 0 ELSE m - 1 + 1
    BY FS_Interval
  <2> QED
    BY <2>1
<1>2. Cardinality(A) \in Nat
  BY FS_CardinalityType
<1>3. ~(Cardinality(A) < Cardinality(1 .. m))
  BY <1>1, FS_PigeonHole
<1> QED
  BY <1>1, <1>2, <1>3

\* The order holds finitely many services.
LEMMA ArrayFinite == DInv => IsFiniteSet(array)
BY DepsConstants, FS_Subset DEF DInv, Types

\* The recursion of topo_visit is at most as deep as svc_array is long,
\* whatever the graph: a service is never visited inside its own visit.
THEOREM RecursionBounded == DepsSpec => []DepthBounded
<1>1. DInv => DepthBounded
  <2> SUFFICES ASSUME DInv PROVE Len(stack) <= Cardinality(array)
    BY DEF DepthBounded
  <2> DEFINE n == Len(stack)
             f == [k \in 1 .. n |-> stack[k].svc]
  <2>1. n \in Nat /\ \A k \in 1 .. n : stack[k].svc \in array
    BY StackFacts
  <2>2. \A j, k \in 1 .. n : stack[j].svc = stack[k].svc => j = k
    BY DEF DInv, Calls
  <2> HIDE DEF n
  <2>3. f \in [1 .. n -> array] /\ \A j, k \in 1 .. n : f[j] = f[k] => j = k
    BY <2>1, <2>2
  <2> HIDE DEF f
  <2>4. n <= Cardinality(array)
    BY <2>1, <2>3, ArrayFinite, NoLongerThan
  <2> QED
    BY <2>4 DEF n
<1> QED
  BY InitDInv, StepDInv, <1>1, PTL DEF DepsSpec

\* Every variable keeps its type; g_start_order never gets more entries than
\* svc_array has, nor svc_array more than LUMID_MAX_SERVICES.
THEOREM SearchTypeCorrect == DepsSpec => []DepsTypeOK
<1>1. DInv => Len(order) <= Cardinality(array)
  <2> SUFFICES ASSUME DInv PROVE Len(order) <= Cardinality(array)
    OBVIOUS
  <2>1. order \in Seq(Services) /\ Len(order) \in Nat /\ DOMAIN order = 1 .. Len(order)
    BY DEF DInv, Types
  <2>2. \A i \in DOMAIN order : order[i] \in Services /\ visit[order[i]] = "perm"
    BY <2>1 DEF DInv, Placement
  <2>3. \A i \in DOMAIN order : order[i] \in array
    BY <2>2 DEF DInv, Types
  <2>4. \A j, k \in DOMAIN order : order[j] = order[k] => j = k
    BY DEF DInv, Placement, NoRepeat, IsInjective
  <2>5. order \in [1 .. Len(order) -> array]
    BY <2>1, <2>3
  <2> QED
    BY <2>1, <2>4, <2>5, ArrayFinite, NoLongerThan
<1>2. DInv /\ Fits => DepsTypeOK
  BY <1>1 DEF DInv, Types, Fits, DepsTypeOK, Frame
<1> QED
  BY InitDInv, StepDInv, ArrayFits, <1>2, PTL DEF DepsSpec
-----------------------------------------------------------------------------
(* Termination: every step of a running search leaves less to do.          *)

\* What the calls of st still have to look at.
ToDo(st) == {t \in (DOMAIN st) \X Services : t[2] \in st[t[1]].todo}
ServicesFew == Cardinality(Services)

\* There are finitely many such pairs.
LEMMA ToDoFinite ==
  ASSUME NEW st \in Seq(Frame)
  PROVE  IsFiniteSet(ToDo(st)) /\ Cardinality(ToDo(st)) \in Nat
<1>1. PICK n \in Nat : n = Len(st) /\ DOMAIN st = 1 .. n
  OBVIOUS
<1>2. IsFiniteSet(1 .. n) /\ IsFiniteSet(Services)
  BY FS_Interval, DepsConstants
<1>3. IsFiniteSet((1 .. n) \X Services)
  BY <1>2, FS_Product
<1>4. ToDo(st) \in SUBSET ((1 .. n) \X Services)
  BY <1>1 DEF ToDo
<1>5. IsFiniteSet(ToDo(st))
  BY <1>3, <1>4, FS_Subset
<1> QED
  BY <1>5, FS_CardinalityType

\* A new call looks at no more than there are services.
LEMMA ToDoOfPush ==
  ASSUME NEW st \in Seq(Frame), NEW f \in Frame
  PROVE  Cardinality(ToDo(Append(st, f))) <= Cardinality(ToDo(st)) + ServicesFew
<1>1. PICK n \in Nat : n = Len(st) /\ DOMAIN st = 1 .. n
  OBVIOUS
<1> DEFINE u == Append(st, f)
           A == ToDo(st)
           B == {n + 1} \X Services
<1>2. u \in Seq(Frame) /\ DOMAIN u = 1 .. n + 1 /\ \A i \in 1 .. n : u[i] = st[i]
  BY <1>1
<1>3. IsFiniteSet(A) /\ Cardinality(A) \in Nat /\ IsFiniteSet(ToDo(u)) /\ Cardinality(ToDo(u)) \in Nat
  BY <1>2, ToDoFinite
<1>4. IsFiniteSet(B) /\ Cardinality(B) = ServicesFew /\ ServicesFew \in Nat
  <2>1. IsFiniteSet({n + 1}) /\ Cardinality({n + 1}) = 1
    BY FS_Singleton
  <2>2. ServicesFew \in Nat
    BY DepsConstants, FS_CardinalityType DEF ServicesFew
  <2>3. IsFiniteSet(B) /\ Cardinality(B) = Cardinality({n + 1}) * Cardinality(Services)
    BY <2>1, DepsConstants, FS_Product
  <2> QED
    BY <2>1, <2>2, <2>3 DEF ServicesFew
<1>5. ToDo(u) \subseteq A \cup B
  <2> SUFFICES ASSUME NEW t \in ToDo(u) PROVE t \in A \cup B
    OBVIOUS
  <2>1. t \in (1 .. n + 1) \X Services /\ t[2] \in u[t[1]].todo
    BY <1>2 DEF ToDo
  <2>2. t[1] \in 1 .. n \/ t[1] = n + 1
    BY <2>1
  <2>3. CASE t[1] \in 1 .. n
    BY <1>1, <1>2, <2>1, <2>3 DEF ToDo
  <2>4. CASE t[1] = n + 1
    BY <2>1, <2>4
  <2> QED
    BY <2>2, <2>3, <2>4
<1> HIDE DEF u, A, B
<1>6. /\ IsFiniteSet(A \cup B)
      /\ Cardinality(A \cup B) = Cardinality(A) + Cardinality(B) - Cardinality(A \cap B)
  BY <1>3, <1>4, FS_Union
<1>7. Cardinality(A \cap B) \in Nat
  <2>1. A \cap B \in SUBSET A
    OBVIOUS
  <2>2. IsFiniteSet(A \cap B)
    BY <1>3, <2>1, FS_Subset
  <2> QED
    BY <2>2, FS_CardinalityType
<1>8. Cardinality(ToDo(u)) <= Cardinality(A \cup B)
  <2>1. ToDo(u) \in SUBSET (A \cup B)
    BY <1>5
  <2> QED
    BY <1>6, <2>1, FS_Subset
<1>9. Cardinality(ToDo(u)) <= Cardinality(A) + ServicesFew
  BY <1>3, <1>4, <1>6, <1>7, <1>8
<1> QED
  BY <1>9 DEF u, A

\* One dependency dealt with is one pair less.
LEMMA ToDoOfAdvance ==
  ASSUME stack \in Seq(Frame), stack # <<>>, NEW d \in Services, d \in Top.todo
  PROVE  Cardinality(ToDo(Advance(d))) = Cardinality(ToDo(stack)) - 1
<1>1. PICK n \in Nat : n = Len(stack) /\ DOMAIN stack = 1 .. n /\ n # 0
  OBVIOUS
<1>2. PICK u : u = Advance(d)
  OBVIOUS
<1>3. /\ u \in Seq(Frame) /\ Len(u) = n
      /\ \A i \in 1 .. n : i # n => u[i].todo = stack[i].todo
      /\ u[n].todo = stack[n].todo \ {d}
  BY <1>1, <1>2, AdvanceFacts
<1>4. DOMAIN u = 1 .. n /\ n \in 1 .. n
  BY <1>1, <1>3
<1>5. <<n, d>> \in ToDo(stack)
  BY <1>1, <1>4 DEF ToDo, Top
<1>6. ToDo(u) = ToDo(stack) \ {<<n, d>>}
  <2>1. \A i \in 1 .. n, s \in Services :
          s \in u[i].todo <=> s \in stack[i].todo /\ ~(i = n /\ s = d)
    BY <1>3
  <2>2. \A i \in 1 .. n, s \in Services : <<i, s>> = <<n, d>> <=> i = n /\ s = d
    OBVIOUS
  <2>3. \A t : t \in (1 .. n) \X Services => t = <<t[1], t[2]>> /\ t[1] \in 1 .. n /\ t[2] \in Services
    OBVIOUS
  <2>4. \A t : t \in ToDo(u) <=> t \in (1 .. n) \X Services /\ t[2] \in u[t[1]].todo
    BY <1>4 DEF ToDo
  <2>5. \A t : t \in ToDo(stack) <=> t \in (1 .. n) \X Services /\ t[2] \in stack[t[1]].todo
    BY <1>1 DEF ToDo
  <2>6. \A t : t \in ToDo(u) <=> t \in ToDo(stack) /\ t # <<n, d>>
    BY <2>1, <2>2, <2>3, <2>4, <2>5
  <2> QED
    BY <2>6
<1>7. IsFiniteSet(ToDo(stack)) /\ Cardinality(ToDo(stack)) \in Nat
  BY ToDoFinite
<1> QED
  BY <1>2, <1>5, <1>6, <1>7, FS_RemoveElement

\* Marking a service moves it from one kind to another.
LEMMA HavingOf ==
  ASSUME Types, NEW s \in Services, NEW old, old = visit[s],
         NEW w \in {"none", "temp", "perm"}, w # old,
         visit' = [visit EXCEPT ![s] = w]
  PROVE  /\ \A v \in {"none", "temp", "perm"} : Cardinality(Having(v)) \in Nat
         /\ Cardinality(Having(old)') = Cardinality(Having(old)) - 1
         /\ Cardinality(Having(w)') = Cardinality(Having(w)) + 1
         /\ \A v \in {"none", "temp", "perm"} : v # w /\ v # old =>
              Cardinality(Having(v)') = Cardinality(Having(v))
<1>1. visit \in [Services -> {"none", "temp", "perm"}] /\ visit[s] \in {"none", "temp", "perm"}
  BY DEF Types
<1>2. \A v : Having(v) \in SUBSET Services
  BY DEF Having
<1>3. \A v : IsFiniteSet(Having(v)) /\ Cardinality(Having(v)) \in Nat
  <2> TAKE v
  <2>1. IsFiniteSet(Having(v))
    BY <1>2, DepsConstants, FS_Subset
  <2> QED
    BY <2>1, FS_CardinalityType
<1>4. \A r \in Services : visit'[r] = IF r = s THEN w ELSE visit[r]
  BY <1>1
<1>5. \A v : Having(v)' = {r \in Services : visit'[r] = v}
  BY DEF Having
<1>6. \A v : Having(v) = {r \in Services : visit[r] = v}
  BY DEF Having
<1>7. /\ Having(old)' = Having(old) \ {s} /\ s \in Having(old)
      /\ Having(w)' = Having(w) \cup {s} /\ s \notin Having(w)
  <2>1. {r \in Services : visit'[r] = old} = {r \in Services : visit[r] = old} \ {s}
    BY <1>4
  <2>2. {r \in Services : visit'[r] = w} = {r \in Services : visit[r] = w} \cup {s}
    BY <1>4
  <2> QED
    BY <1>5, <1>6, <2>1, <2>2
<1>8. \A v : v # w /\ v # old => Having(v)' = Having(v)
  <2>1. \A v : v # w /\ v # old =>
          {r \in Services : visit'[r] = v} = {r \in Services : visit[r] = v}
    BY <1>4
  <2> QED
    BY <1>5, <1>6, <2>1
<1>9. Cardinality(Having(old)') = Cardinality(Having(old)) - 1
  BY <1>3, <1>7, FS_RemoveElement
<1>10. Cardinality(Having(w)') = Cardinality(Having(w)) + 1
  BY <1>3, <1>7, FS_AddElement
<1> QED
  BY <1>3, <1>8, <1>9, <1>10

\* Marking an unvisited service makes room for the dependencies of its call.
LEMMA LessToVisit ==
  ASSUME NEW a \in Nat, NEW b \in Nat, NEW c \in Nat, NEW d \in Nat, NEW e \in Nat, NEW f \in Nat,
         NEW N \in Nat, d = a - 1, e = b + 1, f <= c + N
  PROVE  (N + 2) * d + e + f < (N + 2) * a + b + c
<1>1. (N + 2) * d = (N + 2) * a - (N + 2)
  BY Z3
<1>2. PICK x \in Int : x = (N + 2) * a
  OBVIOUS
<1> QED
  BY <1>1, <1>2

\* The work that is left, in the library's numbers.
LEMMA WorkIs ==
  Work = (ServicesFew + 2) * Cardinality(Having("none")) + Cardinality(Having("temp"))
           + Cardinality(ToDo(stack))
BY DEF Work, ToDo, ServicesFew

\* The work that is left after a step, in the library's numbers.
LEMMA WorkIsNext ==
  Work' = (ServicesFew + 2) * Cardinality(Having("none")') + Cardinality(Having("temp")')
            + Cardinality(ToDo(stack'))
BY DEF Work, ToDo, ServicesFew, Having

\* Each step of the search.
LEMMA SearchLessens ==
  ASSUME DInv, Search, result' = "busy"
  PROVE  Work' < Work
<1>0. Types /\ Types' /\ stack \in Seq(Frame) /\ stack' \in Seq(Frame)
  <2>1. DInv'
    BY StepDInv DEF DepsNext
  <2> QED
    BY <2>1 DEF DInv, Types
<1>1. /\ ServicesFew \in Nat
      /\ \A v : Cardinality(Having(v)) \in Nat /\ Cardinality(Having(v)') \in Nat
      /\ Cardinality(ToDo(stack)) \in Nat /\ Cardinality(ToDo(stack')) \in Nat
  <2>1. ServicesFew \in Nat
    BY DepsConstants, FS_CardinalityType DEF ServicesFew
  <2>2. ASSUME NEW A \in SUBSET Services PROVE Cardinality(A) \in Nat
    <3>1. IsFiniteSet(A)
      BY DepsConstants, FS_Subset
    <3> QED
      BY <3>1, FS_CardinalityType
  <2>3. \A v : Having(v) \in SUBSET Services /\ Having(v)' \in SUBSET Services
    BY DEF Having
  <2>4. Cardinality(ToDo(stack)) \in Nat /\ Cardinality(ToDo(stack')) \in Nat
    BY <1>0, ToDoFinite
  <2> QED
    BY <2>1, <2>2, <2>3, <2>4
<1> DEFINE N == ServicesFew
           a == Cardinality(Having("none"))
           b == Cardinality(Having("temp"))
           c == Cardinality(ToDo(stack))
           d == Cardinality(Having("none")')
           e == Cardinality(Having("temp")')
           f == Cardinality(ToDo(stack'))
<1>2. Work = (N + 2) * a + b + c /\ Work' = (N + 2) * d + e + f
  BY WorkIs, WorkIsNext
<1>3. a \in Nat /\ b \in Nat /\ c \in Nat /\ d \in Nat /\ e \in Nat /\ f \in Nat /\ N \in Nat
  BY <1>1
<1>4. ASSUME NEW s \in Services, visit[s] = "none", visit' = [visit EXCEPT ![s] = "temp"], f <= c + N
      PROVE  Work' < Work
  <2>1. d = a - 1 /\ e = b + 1
    <3>1. "none" \in {"none", "temp", "perm"} /\ "temp" \in {"none", "temp", "perm"} /\ "temp" # "none"
      OBVIOUS
    <3> QED
      BY <1>0, <1>4, <3>1, HavingOf
  <2> HIDE DEF N, a, b, c, d, e, f
  <2> QED
    BY <1>2, <1>3, <1>4, <2>1, LessToVisit
<1>5. ASSUME NEW s \in Services, Visit(s) PROVE Work' < Work
  <2>1. stack = <<>> /\ stack' = <<Call(s)>> /\ Call(s) \in Frame /\ stack' = Append(stack, Call(s))
    BY <1>0, <1>5, CallFrame DEF Visit
  <2>2. f <= c + N
    BY <1>0, <2>1, ToDoOfPush
  <2> QED
    BY <1>4, <1>5, <2>2 DEF Visit
<1>6. ASSUME NEW s \in Services, PassOver(s) PROVE Work' < Work
  <2>1. stack # <<>> /\ s \in Top.todo /\ stack' = Advance(s) /\ visit' = visit
    BY <1>6 DEF PassOver, Considering
  <2>2. f = c - 1
    BY <1>0, <2>1, ToDoOfAdvance
  <2>3. d = a /\ e = b
    BY <2>1 DEF Having
  <2> HIDE DEF N, a, b, c, d, e, f
  <2>4. PICK x \in Int : x = (N + 2) * a
    BY <1>3
  <2> QED
    BY <1>2, <1>3, <2>2, <2>3, <2>4
<1>7. ASSUME NEW s \in Services, Descend(s) PROVE Work' < Work
  <2>1. stack # <<>> /\ s \in Top.todo /\ stack' = Append(Advance(s), Call(s))
    BY <1>7 DEF Descend, Considering
  <2>2. PICK u : u = Advance(s)
    OBVIOUS
  <2>3. u \in Seq(Frame) /\ Call(s) \in Frame
    BY <1>0, <2>1, <2>2, AdvanceFacts, CallFrame
  <2>4. Cardinality(ToDo(u)) = c - 1
    BY <1>0, <2>1, <2>2, ToDoOfAdvance
  <2>5. f <= Cardinality(ToDo(u)) + N
    BY <2>1, <2>2, <2>3, ToDoOfPush
  <2>6. f <= c + N
    <3> HIDE DEF N, c, f
    <3> QED
      BY <1>3, <2>4, <2>5
  <2> QED
    BY <1>4, <1>7, <2>6 DEF Descend
<1>8. ASSUME Place PROVE Work' < Work
  <2>1. PICK n : n = Len(stack)
    OBVIOUS
  <2>2. /\ stack # <<>> /\ stack[n].todo = {} /\ stack' = SubSeq(stack, 1, n - 1)
        /\ visit' = [visit EXCEPT ![stack[n].svc] = "perm"]
    BY <1>8, <2>1 DEF Place, CallDone, Top, Pop
  <2>3. n \in Nat \ {0} /\ Len(stack') = n - 1 /\ \A i \in 1 .. n - 1 : stack'[i] = stack[i]
    BY <1>0, <2>1, <2>2, PopFacts
  <2>4. visit[stack[n].svc] = "temp" /\ stack[n].svc \in Services
    <3>1. n \in 1 .. n
      BY <2>3
    <3> QED
      BY <2>1, <3>1, StackFacts
  <2>5. d = a /\ e = b - 1
    <3>1. {"none", "temp", "perm"} \subseteq {"none", "temp", "perm"} /\ "perm" # "temp"
          /\ "none" # "perm" /\ "none" # "temp"
      OBVIOUS
    <3>2. PICK s \in Services : s = stack[n].svc
      BY <2>4
    <3> QED
      BY <1>0, <2>2, <2>4, <3>1, <3>2, HavingOf
  <2>6. ToDo(stack') = ToDo(stack)
    <3>1. DOMAIN stack = 1 .. n /\ DOMAIN stack' = 1 .. n - 1
      BY <1>0, <2>1, <2>3
    <3>2. \A t : t \in ToDo(stack) <=> t \in (1 .. n) \X Services /\ t[2] \in stack[t[1]].todo
      BY <3>1 DEF ToDo
    <3>3. \A t : t \in ToDo(stack') <=> t \in (1 .. n - 1) \X Services /\ t[2] \in stack'[t[1]].todo
      BY <3>1 DEF ToDo
    <3>4. \A i \in 1 .. n : i \in 1 .. n - 1 \/ i = n
      BY <2>3
    <3>5. \A i \in 1 .. n - 1 : i \in 1 .. n
      BY <2>3
    <3>6. \A t : t \in ToDo(stack') <=> t \in ToDo(stack)
      BY <2>2, <2>3, <3>2, <3>3, <3>4, <3>5
    <3> QED
      BY <3>6
  <2>7. f = c
    BY <2>6
  <2> HIDE DEF N, a, b, c, d, e, f
  <2>8. PICK x \in Int : x = (N + 2) * a
    BY <1>3
  <2> QED
    BY <1>2, <1>3, <2>5, <2>7, <2>8
<1>9. ~Finish /\ \A s \in Services : ~FindCycle(s)
  BY DEF Finish, FindCycle
<1> QED
  BY <1>5, <1>6, <1>7, <1>8, <1>9 DEF Search

\* service_resolve_deps terminates, whatever the graph: with Work a natural
\* number, a running search has only so many steps.
THEOREM SearchTerminates == DepsSpec => WorkShrinks
<1>1. DInv /\ [DepsNext]_depsVars => [result' = "busy" => result # "busy" \/ Work' < Work]_depsVars
  <2> SUFFICES ASSUME DInv, DepsNext, result' = "busy", result = "busy" PROVE Work' < Work
    OBVIOUS
  <2>1. ~Reload
    BY DEF Reload
  <2> QED
    BY <2>1, SearchLessens DEF DepsNext
<1> QED
  BY InitDInv, StepDInv, <1>1, PTL DEF DepsSpec, WorkShrinks

=============================================================================
