---------------------------- MODULE StartingOrder ----------------------------
(***************************************************************************)
(* In which order units are started (libsystemd/src/serviceapi.c,          *)
(* libsystemd_resolve_starting_order() and the sort that follows it).      *)
(*                                                                         *)
(* Passes over the registry raise the starting_order of every unit past    *)
(* the units it requires or comes after, in place, until a pass changes    *)
(* nothing or there was one pass per unit.  Orders are never lowered, and  *)
(* a registry that is resolved again (a configuration directory was added) *)
(* starts from the orders left by the last time.                           *)
(*                                                                         *)
(* All of it happens under the registry lock; the steps are those of the   *)
(* algorithm.                                                              *)
(***************************************************************************)
EXTENDS Naturals, Sequences, FiniteSets, Functions

CONSTANTS
    Unit,   \* unit names
    Deps,   \* dependency graphs: required and after, taken together
    Older   \* highest order a unit may have kept from an earlier resolution

ASSUME Assumptions ==
    /\ IsFiniteSet(Unit)
    /\ Deps \subseteq [Unit -> SUBSET Unit]
    /\ Older \in Nat

VARIABLES
    deps,      \* deps[u]: the names in u's required and after lists
    older,     \* older[u]: the starting_order u had before (never changes)
    registry,  \* the list of services
    order,     \* order[u]: u's starting_order
    pass,      \* number of the pass
    idx,       \* position of the unit the pass visits
    changed,   \* whether this pass raised an order
    pc         \* "pass", "sort" or "sorted"

vars == <<deps, older, registry, order, pass, idx, changed, pc>>

\* The units in the registry; a dependency on any other name is ignored.
Known == {registry[i] : i \in 1..Len(registry)}
Needs(u) == deps[u] \cap Known

\* The lists that hold each unit of S once.
Lists(S) == Bijection(1..Cardinality(S), S)

Init ==
    /\ deps \in Deps
    /\ \E S \in SUBSET Unit : registry \in Lists(S)
    /\ older \in [Unit -> 0..Older]
    /\ \A u \in Unit \ Known : older[u] = 0
    /\ order = older
    /\ pass = 1
    /\ idx = 1
    /\ changed = FALSE
    /\ pc = "pass"

\* Mutant: a unit is put level with what it depends on.
CandidatesLevel(u) == {0} \cup {order[d] : d \in Needs(u)}

\* libsystemd_dependency_order_visitor(): what the dependencies of u ask for.
Candidates(u) == {0} \cup {order[d] + 1 : d \in Needs(u)}

\* Mutant: the first dependency found decides.
VisitAny ==
    /\ pc = "pass"
    /\ idx <= Len(registry)
    /\ LET u == registry[idx] IN
         \E m \in Candidates(u) :
           /\ order' = [order EXCEPT ![u] = IF m > @ THEN m ELSE @]
           /\ changed' = (changed \/ m > order[u])
    /\ idx' = idx + 1
    /\ UNCHANGED <<deps, older, registry, pass, pc>>

\* Mutant: a unit that depends on itself is waited for.
VisitSelfWait ==
    /\ pc = "pass"
    /\ idx <= Len(registry)
    /\ LET u == registry[idx] IN
         /\ u \notin Needs(u)
         /\ \E m \in Candidates(u) :
              /\ \A k \in Candidates(u) : k <= m
              /\ order' = [order EXCEPT ![u] = IF m > @ THEN m ELSE @]
              /\ changed' = (changed \/ m > order[u])
    /\ idx' = idx + 1
    /\ UNCHANGED <<deps, older, registry, pass, pc>>

\* libsystemd_resolve_service_order_visitor(): the highest one raises u.
Visit ==
    /\ pc = "pass"
    /\ idx <= Len(registry)
    /\ LET u == registry[idx] IN
         \E m \in Candidates(u) :
           /\ \A k \in Candidates(u) : k <= m
           /\ order' = [order EXCEPT ![u] = IF m > @ THEN m ELSE @]
           /\ changed' = (changed \/ m > order[u])
    /\ idx' = idx + 1
    /\ UNCHANGED <<deps, older, registry, pass, pc>>

\* A pass is over: another one, up to one per unit, if it changed anything.
AnotherPass ==
    /\ pc = "pass"
    /\ idx > Len(registry)
    /\ changed /\ pass < Len(registry)
    /\ pass' = pass + 1
    /\ idx' = 1
    /\ changed' = FALSE
    /\ UNCHANGED <<deps, older, registry, order, pc>>

\* Mutant: one pass has to do.
LastPassFirst ==
    /\ pc = "pass"
    /\ idx > Len(registry)
    /\ pc' = "sort"
    /\ UNCHANGED <<deps, older, registry, order, pass, idx, changed>>

LastPass ==
    /\ pc = "pass"
    /\ idx > Len(registry)
    /\ ~changed \/ pass >= Len(registry)
    /\ pc' = "sort"
    /\ UNCHANGED <<deps, older, registry, order, pass, idx, changed>>

\* dmlist_sort() by libsystemd_compare_by_starting_order(); units of the same
\* order may end up either way round.
Sort ==
    /\ pc = "sort"
    /\ registry' \in Lists(Known)
    /\ \A i, j \in 1..Len(registry') : i < j => order[registry'[i]] <= order[registry'[j]]
    /\ pc' = "sorted"
    /\ UNCHANGED <<deps, older, order, pass, idx, changed>>

Next == Visit \/ AnotherPass \/ LastPass \/ Sort

Spec == Init /\ [][Next]_vars

\* The loops run to their end.
FairSpec == Spec /\ WF_vars(Next)

-----------------------------------------------------------------------------
(* Properties                                                              *)

\* Every variable keeps its type.
TypeOK ==
    /\ deps \in [Unit -> SUBSET Unit]
    /\ older \in [Unit -> Nat]
    /\ registry \in Seq(Unit)
    /\ order \in [Unit -> Nat]
    /\ pass \in Nat /\ idx \in Nat \ {0}
    /\ changed \in BOOLEAN
    /\ pc \in {"pass", "sort", "sorted"}

\* The units on a dependency cycle, or that depend on one.
Cyclic == UNION {S \in SUBSET Known : \A u \in S : deps[u] \cap S # {}}

Past(u) == \A d \in Needs(u) : order[d] < order[u]

\* The bounded number of passes is enough for every unit that depends on no
\* cycle, wherever the cycles are in the rest of the registry and whatever
\* orders were left from before.
Converges == pc # "pass" => \A u \in Known \ Cyclic : Past(u)

\* The sorted registry has every unit after all it requires or comes after,
\* but for the units that depend on a cycle.
DependenciesFirst ==
    pc = "sorted" =>
        \A i, j \in 1..Len(registry) :
            i < j /\ registry[j] \in deps[registry[i]] => registry[i] \in Cyclic

\* Level of u: its old order, or the length of the longest chain of dependencies
\* below it, counted from the old orders along it.
Level ==
    LET level[u \in Known \ Cyclic] ==
          LET below == {older[u]} \cup {level[d] + 1 : d \in Needs(u)}
          IN  CHOOSE m \in below : \A k \in below : k <= m
    IN  level

\* Resolved, a unit has the least order that its dependencies and its old order
\* allow: units are not pushed back further than that.
OrderIsLeast == pc # "pass" => \A u \in Known \ Cyclic : order[u] = Level[u]

\* Resolving ends, dependency cycles or not.
Terminates == <>(pc = "sorted")

\* A pass that changed nothing leaves every unit past its dependencies (and
\* then the dependencies have no cycle); changed speaks of the last pass.
FixpointIsSound == pc # "pass" /\ ~changed => \A u \in Known : Past(u)

\* A registry resolved by a fixpoint is sorted dependencies first.
FixpointSorted ==
    pc = "sorted" /\ ~changed =>
        \A i, j \in 1..Len(registry) : i < j => registry[j] \notin deps[registry[i]]

\* Inductive: the units a pass has visited without a change are past theirs.
PassInv ==
    /\ TypeOK
    /\ pc = "pass" /\ ~changed =>
         \A i \in 1..Len(registry) : i < idx => Past(registry[i])
    /\ FixpointIsSound
    /\ FixpointSorted
=============================================================================
