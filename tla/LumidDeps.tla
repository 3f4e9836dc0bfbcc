----------------------------- MODULE LumidDeps -----------------------------
(***************************************************************************)
(* Dependency resolution of lumid: service_resolve_deps() and the          *)
(* recursive topo_visit() (system/core/lumid/src/service.c), step by step  *)
(* with the call stack made explicit, run at boot and again by every       *)
(* reload.  The order in which readdir listed the services and in which a  *)
(* service names its dependencies is left open.                            *)
(***************************************************************************)
EXTENDS Naturals, Sequences, FiniteSets, StartOrder

CONSTANTS
  Services,     \* service names, loaded now or by a later reload
  ArrayLimit    \* LUMID_MAX_SERVICES, the length of svc_array

ASSUME DepsConstants == IsFiniteSet(Services) /\ ArrayLimit \in Nat

VARIABLES
  deps,     \* deps[s]: services named in "after" or "requires" of s
  loaded,   \* g_services
  array,    \* svc_array: the loaded services the search looks at
  visit,    \* visit_state
  stack,    \* active calls of topo_visit, innermost last
  order,    \* g_start_order[0 .. g_start_order_count - 1]
  result    \* of service_resolve_deps: "busy" while it runs, "ok" 0, "cycle" -1

depsVars == <<deps, loaded, array, visit, stack, order, result>>

Top      == stack[Len(stack)]
Pop      == SubSeq(stack, 1, Len(stack) - 1)

\* A call of topo_visit(s): names svc_index does not find are passed over.
Call(s)  == [svc |-> s, todo |-> deps[s] \cap array]

\* The call in progress has dealt with its dependency d.
Advance(d) == [stack EXCEPT ![Len(stack)].todo = @ \ {d}]

\* svc_array takes the first ArrayLimit services of the list.
Arrays(L) == {A \in SUBSET L : Cardinality(A) <= ArrayLimit
                                 /\ (A # L => Cardinality(A) = ArrayLimit)}

\* Mutant: VISIT_TEMP is not set.
VisitUnmarked(s) ==
  /\ result = "busy" /\ stack = <<>> /\ s \in array /\ visit[s] = "none"
  /\ stack' = <<Call(s)>>
  /\ UNCHANGED <<deps, loaded, array, visit, order, result>>

\* The main loop of service_resolve_deps visits the next unvisited service.
Visit(s) ==
  /\ result = "busy" /\ stack = <<>> /\ s \in array /\ visit[s] = "none"
  /\ visit' = [visit EXCEPT ![s] = "temp"]
  /\ stack' = <<Call(s)>>
  /\ UNCHANGED <<deps, loaded, array, order, result>>

Considering(d) == result = "busy" /\ stack # <<>> /\ d \in Top.todo

\* topo_visit(d) returns 0 at once: d is already placed.
AlreadyPlaced(d) == visit[d] = "perm"
PassOver(d) ==
  /\ Considering(d) /\ AlreadyPlaced(d)
  /\ stack' = Advance(d)
  /\ UNCHANGED <<deps, loaded, array, visit, order, result>>

\* Mutant: VISIT_TEMP is not set.
DescendUnmarked(d) ==
  /\ Considering(d) /\ visit[d] = "none"
  /\ stack' = Append(Advance(d), Call(d))
  /\ UNCHANGED <<deps, loaded, array, visit, order, result>>

\* The recursive call proper.
Descend(d) ==
  /\ Considering(d) /\ visit[d] = "none"
  /\ visit' = [visit EXCEPT ![d] = "temp"]
  /\ stack' = Append(Advance(d), Call(d))
  /\ UNCHANGED <<deps, loaded, array, order, result>>

\* d is being visited: -1 is returned through all active calls, and what has
\* been placed so far stays in g_start_order.
OnStack(d) == visit[d] = "temp"
FindCycle(d) ==
  /\ Considering(d) /\ OnStack(d)
  /\ result' = "cycle" /\ stack' = <<>>
  /\ UNCHANGED <<deps, loaded, array, visit, order>>

\* Mutant: a service is placed before its dependencies.
CallDoneEarly == stack # <<>>

\* All dependencies visited: the service is placed and the call returns 0.
CallDone == stack # <<>> /\ Top.todo = {}
Place ==
  /\ result = "busy" /\ CallDone
  /\ visit' = [visit EXCEPT ![Top.svc] = "perm"]
  /\ order' = Append(order, Top.svc)
  /\ stack' = Pop
  /\ UNCHANGED <<deps, loaded, array, result>>

Finish ==
  /\ result = "busy" /\ stack = <<>> /\ \A s \in array : visit[s] # "none"
  /\ result' = "ok"
  /\ UNCHANGED <<deps, loaded, array, visit, stack, order>>

\* Mutant: g_start_order_count is not reset.
OrderKept  == order
OrderReset == <<>>

\* SIGHUP: more services may be registered, then everything is redone.
Unvisited == [s \in Services |-> "none"]
Reload ==
  /\ result # "busy"
  /\ \E L \in SUBSET Services : loaded \subseteq L /\ loaded' = L
  /\ array' \in Arrays(loaded')
  /\ visit' = Unvisited /\ stack' = <<>> /\ order' = OrderReset /\ result' = "busy"
  /\ UNCHANGED deps

DepsInit ==
  /\ deps \in [Services -> SUBSET Services]
  /\ loaded \in SUBSET Services
  /\ array \in Arrays(loaded)
  /\ visit = Unvisited /\ stack = <<>> /\ order = <<>> /\ result = "busy"

Search == Place \/ Finish \/ \E s \in Services :
            Visit(s) \/ PassOver(s) \/ Descend(s) \/ FindCycle(s)

DepsNext == Search \/ Reload

DepsSpec == DepsInit /\ [][DepsNext]_depsVars

-----------------------------------------------------------------------------
\* Every variable keeps its type; svc_array and g_start_order never overflow.
DepsTypeOK ==
  /\ deps \in [Services -> SUBSET Services]
  /\ loaded \subseteq Services /\ array \subseteq loaded
  /\ Cardinality(array) <= ArrayLimit
  /\ visit \in [Services -> {"none", "temp", "perm"}]
  /\ stack \in Seq([svc : Services, todo : SUBSET Services])
  /\ order \in Seq(Services) /\ Len(order) <= Cardinality(array)
  /\ result \in {"busy", "ok", "cycle"}

\* What service_resolve_deps leaves behind, which Lumid takes for granted:
\* dependencies come first even in a partial order, nothing is placed twice,
\* success means everything is placed (so there is no cycle among the services
\* in svc_array), failure means there is a cycle.
Promise == result # "busy" => ResolvedAs(order, result = "ok", deps, array)

\* The recursion never gets deeper than svc_array is long.
DepthBounded == Len(stack) <= Cardinality(array)

\* Termination, on cyclic graphs too: every step of a running search leaves
\* less to do.  (A running search always has a step: a service to visit, a
\* dependency to look at, a call to end, or Finish.)
Having(v) == {s \in Services : visit[s] = v}
Work ==
  (Cardinality(Services) + 2) * Cardinality(Having("none")) + Cardinality(Having("temp"))
    + Cardinality({t \in (DOMAIN stack) \X Services : t[2] \in stack[t[1]].todo})
WorkShrinks == [][result' = "busy" => result # "busy" \/ Work' < Work]_depsVars
=============================================================================
