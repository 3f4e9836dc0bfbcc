----------------------------- MODULE StartOrder -----------------------------
(***************************************************************************)
(* What service_resolve_deps() promises about g_start_order, the array it  *)
(* leaves behind (system/core/lumid/src/service.c).  LumidDeps models the  *)
(* depth-first search and is proved to meet these operators; Lumid assumes *)
(* them of the start order it is given.  They speak of the services in     *)
(* svc_array, the first LUMID_MAX_SERVICES of those loaded.                *)
(***************************************************************************)
EXTENDS Naturals, Sequences, Functions

Placed(order) == Range(order)

\* No service is placed twice.
NoRepeat(order) == IsInjective(order)

\* Every dependency of a placed service is placed before it.
Sound(order, deps, array) ==
  \A j \in DOMAIN order : \A d \in deps[order[j]] \cap array :
    \E i \in 1 .. (j - 1) : order[i] = d

\* Every service is placed.
Complete(order, array) == array \subseteq Placed(order)

\* A set of services each of which depends on another of the set is
\* a dependency cycle (or contains one).
IsKnot(C, deps) == C # {} /\ \A s \in C : deps[s] \cap C # {}
Cyclic(deps, array) == \E C \in SUBSET array : IsKnot(C, deps)

\* The whole promise: ok is whether service_resolve_deps returned 0.
ResolvedAs(order, ok, deps, array) ==
  /\ Placed(order) \subseteq array
  /\ NoRepeat(order)
  /\ Sound(order, deps, array)
  /\ IF ok THEN Complete(order, array) ELSE Cyclic(deps, array)
=============================================================================
