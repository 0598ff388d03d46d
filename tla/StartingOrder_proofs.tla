------------------------ MODULE StartingOrder_proofs -------------------------
(***************************************************************************)
(* What holds of StartingOrder for any units and any dependency graph: a   *)
(* bounded number of passes suffices, the sorted registry starts every     *)
(* unit after its dependencies, and no further back than they ask.  Units  *)
(* that depend on a cycle are excepted.                                    *)
(***************************************************************************)
EXTENDS StartingOrder, FiniteSetTheorems, TLAPS

\* A list of the units of S is a sequence of units that holds all of S.
LEMMA ListsType ==
  ASSUME NEW S \in SUBSET Unit, NEW l \in Lists(S)
  PROVE  /\ l \in Seq(Unit)
         /\ {l[i] : i \in 1..Len(l)} = S
<1>1. l \in [1..Cardinality(S) -> S]
  BY DEF Lists, Bijection, Injection
<1>2. \A t \in S : \E i \in 1..Cardinality(S) : l[i] = t
  BY DEF Lists, Bijection, Surjection
<1>3. Cardinality(S) \in Nat
  BY Assumptions, FS_Subset, FS_CardinalityType
<1>4. l \in Seq(S) /\ Len(l) = Cardinality(S)
  BY <1>1, <1>3
<1> QED
  BY <1>1, <1>2, <1>4

\* A fresh resolution has visited no unit.
LEMMA PassInit == Init => PassInv
<1> SUFFICES ASSUME Init
             PROVE  PassInv
  OBVIOUS
<1>1. PICK S \in SUBSET Unit : registry \in Lists(S)
  BY DEF Init
<1>2. registry \in Seq(Unit)
  BY <1>1, ListsType
<1>3. order \in [Unit -> Nat] /\ older \in [Unit -> Nat]
  BY Assumptions DEF Init
<1>4. TypeOK
  <2>1. changed \in BOOLEAN
    BY DEF Init
  <2>2. deps \in [Unit -> SUBSET Unit]
    BY Assumptions DEF Init
  <2>3. pass \in Nat /\ idx \in Nat \ {0}
    BY DEF Init
  <2> QED
    BY <1>2, <1>3, <2>1, <2>2, <2>3 DEF Init, TypeOK
<1>5. pc = "pass" /\ \A i \in 1..Len(registry) : ~(i < idx)
  <2>1. idx = 1 /\ pc = "pass" /\ Len(registry) \in Nat
    BY <1>2 DEF Init
  <2> QED
    BY <2>1
<1> QED
  BY <1>4, <1>5 DEF PassInv, FixpointIsSound, FixpointSorted

\* What dependencies ask for are natural numbers.
LEMMA CandidatesType ==
  ASSUME TypeOK, NEW u \in Unit
  PROVE  Candidates(u) \subseteq Nat
BY DEF TypeOK, Candidates, Needs

\* A visit that changes nothing shows the unit to be past its dependencies.
LEMMA VisitPast ==
  ASSUME TypeOK, Visit, ~changed'
  PROVE  order' = order /\ Past(registry[idx])
<1> DEFINE u == registry[idx]
<1>1. u \in Unit
  BY DEF TypeOK, Visit
<1>2. PICK m \in Candidates(u) :
         /\ \A k \in Candidates(u) : k <= m
         /\ order' = [order EXCEPT ![u] = IF m > @ THEN m ELSE @]
         /\ ~(m > order[u])
  BY DEF Visit
<1>3. order' = order
  BY <1>1, <1>2 DEF TypeOK
<1>4. ASSUME NEW d \in Needs(u)
      PROVE  order[d] < order[u]
  <2>1. d \in Unit /\ order[d] \in Nat /\ order[u] \in Nat
    BY <1>1, <1>4 DEF TypeOK, Needs
  <2>2. order[d] + 1 \in Candidates(u)
    BY <1>4 DEF Candidates
  <2>3. m \in Nat
    BY <1>1, <1>2, CandidatesType
  <2> QED
    BY <1>2, <2>1, <2>2, <2>3
<1> QED
  BY <1>3, <1>4 DEF Past

\* Every step of the algorithm preserves the invariant.
LEMMA PassNext == PassInv /\ [Next]_vars => PassInv'
<1> SUFFICES ASSUME PassInv, [Next]_vars
             PROVE  PassInv'
  OBVIOUS
<1> USE DEF PassInv, FixpointIsSound, FixpointSorted
<1>1. CASE Visit
  <2>1. /\ deps' = deps /\ older' = older /\ registry' = registry
        /\ pc = "pass" /\ pc' = "pass"
        /\ idx <= Len(registry) /\ idx' = idx + 1 /\ pass' = pass
    BY <1>1 DEF Visit
  <2>2. registry[idx] \in Unit
    BY <1>1 DEF Visit, TypeOK
  <2>3. TypeOK'
    <3>1. PICK m \in Candidates(registry[idx]) :
             /\ order' = [order EXCEPT ![registry[idx]] = IF m > @ THEN m ELSE @]
             /\ changed' = (changed \/ m > order[registry[idx]])
      BY <1>1 DEF Visit
    <3>2. m \in Nat
      BY <2>2, <3>1, CandidatesType
    <3> QED
      BY <2>1, <2>2, <3>1, <3>2 DEF TypeOK
  <2>4. ASSUME ~changed', NEW i \in 1..Len(registry), i < idx'
        PROVE  Past(registry[i])'
    <3>1. order' = order /\ Past(registry[idx])
      BY <1>1, <2>4, VisitPast
    <3>2. ~changed
      BY <1>1, <2>4 DEF Visit
    <3>3. i < idx \/ i = idx
      BY <2>1, <2>4 DEF TypeOK
    <3>4. Past(registry[i])
      BY <2>1, <3>1, <3>2, <3>3
    <3> QED
      BY <2>1, <3>1, <3>4 DEF Past, Needs, Known
  <2> QED
    BY <2>1, <2>3, <2>4
<1>2. CASE AnotherPass
  <2>1. TypeOK'
    <3>1. changed' \in BOOLEAN
      BY <1>2 DEF AnotherPass
    <3>2. pass' \in Nat /\ idx' \in Nat \ {0}
      BY <1>2 DEF AnotherPass, TypeOK
    <3> QED
      BY <1>2, <3>1, <3>2 DEF AnotherPass, TypeOK
  <2>2. pc' = "pass" /\ \A i \in 1..Len(registry') : ~(i < idx')
    <3>1. idx' = 1 /\ pc' = "pass" /\ Len(registry') \in Nat
      BY <1>2 DEF AnotherPass, TypeOK
    <3> QED
      BY <3>1
  <2> QED
    BY <2>1, <2>2
<1>3. CASE LastPass
  <2>1. TypeOK' /\ pc' = "sort"
    BY <1>3 DEF LastPass, TypeOK
  <2>2. idx > Len(registry) /\ UNCHANGED <<deps, registry, order, idx, changed>> /\ pc = "pass"
    BY <1>3 DEF LastPass
  <2>3. ASSUME ~changed, NEW u \in Known
        PROVE  Past(u)
    <3>1. PICK i \in 1..Len(registry) : registry[i] = u
      BY DEF Known
    <3>2. i < idx
      BY <2>2 DEF TypeOK
    <3> QED
      BY <2>2, <2>3, <3>1, <3>2
  <2> QED
    BY <2>1, <2>2, <2>3 DEF Past, Needs, Known
<1>4. CASE Sort
  <2>1. /\ registry' \in Lists(Known)
        /\ \A i, j \in 1..Len(registry') : i < j => order[registry'[i]] <= order[registry'[j]]
        /\ pc = "sort" /\ pc' = "sorted"
        /\ UNCHANGED <<deps, older, order, pass, idx, changed>>
    BY <1>4 DEF Sort
  <2>2. Known \in SUBSET Unit
    BY DEF TypeOK, Known
  <2>3. registry' \in Seq(Unit) /\ Known' = Known
    BY <2>1, <2>2, ListsType DEF Known
  <2>4. TypeOK'
    BY <2>1, <2>3 DEF TypeOK
  <2>5. ASSUME ~changed, NEW i \in 1..Len(registry'), NEW j \in 1..Len(registry'), i < j
        PROVE  registry'[j] \notin deps[registry'[i]]
    <3>1. registry'[i] \in Known /\ registry'[j] \in Known
      BY <2>3 DEF Known
    <3>2. order[registry'[i]] <= order[registry'[j]]
      BY <2>1, <2>5
    <3>3. order[registry'[i]] \in Nat /\ order[registry'[j]] \in Nat
      BY <2>2, <3>1 DEF TypeOK
    <3>4. Past(registry'[i])
      BY <2>1, <2>5, <3>1
    <3> QED
      BY <3>1, <3>2, <3>3, <3>4 DEF Past, Needs
  <2>6. ASSUME ~changed, NEW u \in Known
        PROVE  Past(u)'
    <3>1. Past(u)
      BY <2>1, <2>6
    <3> QED
      BY <2>1, <2>3, <3>1 DEF Past, Needs
  <2> QED
    BY <2>1, <2>3, <2>4, <2>5, <2>6
<1>5. CASE UNCHANGED vars
  <2>1. PassInv' = PassInv
    BY <1>5 DEF vars, TypeOK, Past, Needs, Known
  <2> QED
    BY <2>1
<1> QED
  BY <1>1, <1>2, <1>3, <1>4, <1>5 DEF Next

(***************************************************************************)
(* The invariant of the passes, for any units and dependency graph.        *)
(***************************************************************************)
THEOREM PassesInvariant == Spec => []PassInv
BY PassInit, PassNext, PTL DEF Spec

(***************************************************************************)
(* A pass that changes nothing ends the resolution with every unit past    *)
(* all it requires or comes after.                                         *)
(***************************************************************************)
THEOREM FixpointPast == Spec => []FixpointIsSound
BY PassesInvariant, PTL DEF PassInv

(***************************************************************************)
(* And the registry sorted from it has no unit before one it depends on.   *)
(***************************************************************************)
THEOREM FixpointOrder == Spec => []FixpointSorted
BY PassesInvariant, PTL DEF PassInv

-----------------------------------------------------------------------------
(***************************************************************************)
(* Cycles or not, the bounded number of passes suffices.  A set of units   *)
(* that holds all they depend on, each past it, never changes again; every *)
(* pass adds a unit to the largest such set, until it has all units that   *)
(* depend on no cycle.                                                     *)
(***************************************************************************)
SettledSets == {S \in SUBSET Known : \A u \in S : Needs(u) \subseteq S /\ Past(u)}
Settled == UNION SettledSets

\* The next unit to settle.
Ready(u) == u \notin Settled /\ Needs(u) \subseteq Settled

Distinct ==
    \A i, j \in 1..Len(registry) : registry[i] = registry[j] => i = j

Progress ==
    pc = "pass" =>
        \/ Known \ Cyclic \subseteq Settled
        \/ pass <= Cardinality(Settled)
        \/ /\ pass <= Cardinality(Settled) + 1
           /\ \E i \in idx..Len(registry) : Ready(registry[i])

Resolved == pc # "pass" => Known \ Cyclic \subseteq Settled

\* The reason for an order: it is the old one, or a dependency asks for it.
Reason(u) ==
    /\ older[u] <= order[u]
    /\ order[u] = older[u] \/ \E d \in Needs(u) : order[u] <= order[d] + 1

OrderInv ==
    /\ PassInv
    /\ Distinct
    /\ pass > 0
    /\ Progress
    /\ Resolved
    /\ \A u \in Known : Reason(u)
    /\ DependenciesFirst

LEMMA KnownFinite ==
  ASSUME TypeOK
  PROVE  /\ Known \in SUBSET Unit
         /\ IsFiniteSet(Known)
         /\ \A S \in SUBSET Known : IsFiniteSet(S) /\ Cardinality(S) \in Nat
<1>1. Known \in SUBSET Unit
  BY DEF TypeOK, Known
<1> QED
  BY <1>1, Assumptions, FS_Subset, FS_CardinalityType

\* The settled units are such a set themselves.
LEMMA SettledIsSettled == Settled \in SettledSets
BY DEF Settled, SettledSets

\* The units that depend on a cycle are all that have one of them below them.
LEMMA NotCyclic ==
  ASSUME TypeOK, NEW u \in Known \ Cyclic
  PROVE  Needs(u) \cap Cyclic = {}
<1> SUFFICES ASSUME NEW d \in Needs(u) \cap Cyclic
             PROVE  FALSE
  OBVIOUS
<1> DEFINE C == Cyclic \cup {u}
<1>1. C \in SUBSET Known
  BY DEF Cyclic
<1>2. \A v \in C : deps[v] \cap C # {}
  BY DEF Cyclic, Needs
<1>3. C \subseteq Cyclic
  BY <1>1, <1>2 DEF Cyclic
<1> QED
  BY <1>3

\* While a unit that depends on no cycle is not settled, there is one to settle
\* next: otherwise those units would keep each other up.
LEMMA SomeReady ==
  ASSUME TypeOK, ~(Known \ Cyclic \subseteq Settled)
  PROVE  \E i \in 1..Len(registry) : Ready(registry[i])
<1> DEFINE A == (Known \ Cyclic) \ Settled
<1>1. A # {} /\ A \in SUBSET Known
  OBVIOUS
<1>2. \E u \in A : Needs(u) \cap A = {}
  <2> SUFFICES ASSUME \A u \in A : Needs(u) \cap A # {}
               PROVE  FALSE
    OBVIOUS
  <2>1. \A u \in A : deps[u] \cap A # {}
    BY DEF Needs
  <2>2. A \subseteq Cyclic
    BY <1>1, <2>1 DEF Cyclic
  <2> QED
    BY <1>1, <2>2
<1>3. PICK u \in A : Needs(u) \cap A = {}
  BY <1>2
<1>4. Needs(u) \subseteq Settled
  BY <1>3, NotCyclic DEF Needs
<1>5. PICK i \in 1..Len(registry) : registry[i] = u
  BY DEF Known
<1> QED
  BY <1>3, <1>4, <1>5 DEF Ready

\* What a visit does to the orders.
LEMMA VisitFacts ==
  ASSUME TypeOK, Visit
  PROVE  /\ UNCHANGED <<deps, older, registry, pass, pc>>
         /\ Known' = Known
         /\ \A v \in Known : Needs(v)' = Needs(v)
         /\ registry[idx] \in Known /\ idx \in 1..Len(registry) /\ idx' = idx + 1
         /\ \A v \in Unit : order[v] \in Nat /\ order'[v] \in Nat
         /\ \A v \in Unit : order[v] <= order'[v]
         /\ \A v \in Unit \ {registry[idx]} : order'[v] = order[v]
         /\ \A d \in Needs(registry[idx]) : order[d] + 1 <= order'[registry[idx]]
         /\ Past(registry[idx]) => order' = order
         /\ \/ order' = order
            \/ \E d \in Needs(registry[idx]) : order'[registry[idx]] = order[d] + 1
<1> DEFINE u == registry[idx]
<1>1. /\ UNCHANGED <<deps, older, registry, pass, pc>>
      /\ idx <= Len(registry) /\ idx' = idx + 1
  BY DEF Visit
<1>2. Known' = Known /\ \A v \in Known : Needs(v)' = Needs(v)
  BY <1>1 DEF Known, Needs
<1>3. u \in Known /\ u \in Unit /\ idx \in 1..Len(registry)
  BY <1>1 DEF TypeOK, Known
<1>4. PICK m \in Candidates(u) :
         /\ \A k \in Candidates(u) : k <= m
         /\ order' = [order EXCEPT ![u] = IF m > @ THEN m ELSE @]
  BY DEF Visit
<1>5. m \in Nat /\ order \in [Unit -> Nat]
  BY <1>3, CandidatesType DEF TypeOK
<1>6. /\ \A v \in Unit : order[v] \in Nat /\ order'[v] \in Nat /\ order[v] <= order'[v]
      /\ \A v \in Unit \ {u} : order'[v] = order[v]
      /\ m <= order'[u]
      /\ m <= order[u] => order' = order
      /\ m > order[u] => order'[u] = m
  BY <1>3, <1>4, <1>5
<1>7. \A d \in Needs(u) : order[d] + 1 <= order'[u]
  <2> SUFFICES ASSUME NEW d \in Needs(u)
               PROVE  order[d] + 1 <= order'[u]
    OBVIOUS
  <2>1. order[d] + 1 \in Candidates(u) /\ d \in Unit
    BY <1>3 DEF Candidates, Needs, TypeOK
  <2> QED
    BY <1>4, <1>5, <1>6, <1>3, <2>1
<1>8. m = 0 \/ \E d \in Needs(u) : m = order[d] + 1
  BY <1>4 DEF Candidates
<1>9. Past(u) => m <= order[u]
  <2> SUFFICES ASSUME Past(u), NEW d \in Needs(u), m = order[d] + 1
               PROVE  m <= order[u]
    BY <1>3, <1>5, <1>8
  <2>1. order[d] < order[u] /\ d \in Unit
    BY <1>3 DEF Past, Needs, TypeOK
  <2> QED
    BY <1>3, <1>5, <2>1
<1>10. order' = order \/ \E d \in Needs(u) : order'[u] = order[d] + 1
  BY <1>3, <1>5, <1>6, <1>8
<1> QED
  BY <1>1, <1>2, <1>3, <1>6, <1>7, <1>9, <1>10

\* Settled units stay settled.
LEMMA VisitSettled ==
  ASSUME TypeOK, Visit
  PROVE  Settled \subseteq Settled' /\ Settled' \in SUBSET Known
<1>1. Settled \in SettledSets
  BY SettledIsSettled
<1>2. \A v \in Settled : Needs(v) \subseteq Settled /\ Past(v) /\ v \in Known /\ v \in Unit
  BY <1>1, KnownFinite DEF SettledSets
<1>3. \A v \in Settled : order'[v] = order[v]
  BY <1>2, VisitFacts
<1>4. \A v \in Settled : Needs(v)' \subseteq Settled /\ Past(v)'
  BY <1>2, <1>3, VisitFacts DEF Past
<1>5. Settled \in SettledSets'
  BY <1>2, <1>4, VisitFacts DEF SettledSets
<1> QED
  BY <1>5, VisitFacts DEF Settled, SettledSets

\* A unit that was next to settle is settled by its visit.
LEMMA VisitSettles ==
  ASSUME TypeOK, Visit, Ready(registry[idx])
  PROVE  registry[idx] \in Settled'
<1>0. PICK u \in Known : u = registry[idx]
  BY VisitFacts
<1> DEFINE S == Settled \cup {u}
<1>1. \A v \in Settled : Needs(v) \subseteq Settled /\ Past(v) /\ v \in Known /\ v \in Unit
  BY SettledIsSettled, KnownFinite DEF SettledSets
<1>2. \A v \in Settled : order'[v] = order[v]
  BY <1>1, VisitFacts
<1>3. \A v \in Settled : Needs(v)' \subseteq Settled /\ Past(v)'
  BY <1>1, <1>2, VisitFacts DEF Past
<1>4. u \notin Settled /\ Needs(u) \subseteq Settled /\ Needs(u)' = Needs(u)
  BY <1>0, VisitFacts DEF Ready
<1>5. Past(u)'
  <2> SUFFICES ASSUME NEW d \in Needs(u)'
               PROVE  order'[d] < order'[u]
    BY DEF Past
  <2>1. d \in Needs(u) /\ d \in Settled /\ d \in Unit /\ u \in Unit
    BY <1>1, <1>4, KnownFinite
  <2>2. order[d] + 1 <= order'[u] /\ order[d] \in Nat /\ order'[u] \in Nat
    BY <1>0, <2>1, VisitFacts
  <2> QED
    BY <1>2, <2>1, <2>2
<1>6. S \in SettledSets'
  BY <1>1, <1>3, <1>4, <1>5, VisitFacts DEF SettledSets
<1> QED
  BY <1>0, <1>6 DEF Settled

LEMMA ProgressVisit ==
  ASSUME PassInv, Progress, pass > 0, Visit
  PROVE  Progress'
<1> SUFFICES ASSUME ~(Known \ Cyclic \subseteq Settled')
             PROVE  \/ pass <= Cardinality(Settled')
                    \/ /\ pass <= Cardinality(Settled') + 1
                       /\ \E i \in idx'..Len(registry) : Ready(registry[i])'
  <2>1. Cyclic' = Cyclic /\ Known' = Known /\ UNCHANGED <<registry, pass, pc>>
    BY VisitFacts DEF PassInv, Cyclic
  <2> QED
    BY <2>1 DEF Progress
<1>1. TypeOK /\ Settled \subseteq Settled' /\ Settled' \in SUBSET Known
  BY VisitSettled DEF PassInv
<1>2. /\ IsFiniteSet(Settled') /\ Cardinality(Settled') \in Nat
      /\ Cardinality(Settled) \in Nat /\ Cardinality(Settled) <= Cardinality(Settled')
      /\ Cardinality(Settled) = Cardinality(Settled') => Settled = Settled'
  BY <1>1, KnownFinite, FS_Subset
<1>3. pass \in Nat /\ idx \in Nat /\ Len(registry) \in Nat
  BY <1>1 DEF TypeOK
<1>4. CASE pass <= Cardinality(Settled)
  BY <1>2, <1>3, <1>4
<1>5. CASE /\ pass <= Cardinality(Settled) + 1
           /\ \E i \in idx..Len(registry) : Ready(registry[i])
  <2>1. PICK i \in idx..Len(registry) : Ready(registry[i])
    BY <1>5
  <2>2. CASE registry[i] \in Settled'
    <3>1. Settled # Settled'
      BY <2>1, <2>2 DEF Ready
    <3> QED
      BY <1>2, <1>3, <1>5, <3>1
  <2>3. CASE registry[i] \notin Settled'
    <3>1. i # idx
      BY <1>1, <2>1, <2>3, VisitSettles
    <3>2. i \in idx'..Len(registry)
      BY <1>1, <1>3, <2>1, <3>1, VisitFacts
    <3>3. registry[i] \in Known /\ registry'[i] = registry[i]
      <4>1. i \in 1..Len(registry)
        BY <1>1, <1>3, <2>1 DEF TypeOK
      <4> QED
        BY <1>1, <4>1, VisitFacts DEF Known
    <3>4. Ready(registry[i])'
      BY <1>1, <2>1, <2>3, <3>3, VisitFacts DEF Ready
    <3> QED
      BY <1>2, <1>3, <1>5, <3>2, <3>4
  <2> QED
    BY <2>2, <2>3
<1>6. pc = "pass" /\ ~(Known \ Cyclic \subseteq Settled)
  BY <1>1 DEF Visit
<1> QED
  BY <1>4, <1>5, <1>6 DEF Progress

LEMMA ReasonVisit ==
  ASSUME TypeOK, Visit, \A u \in Known : Reason(u)
  PROVE  \A u \in Known' : Reason(u)'
<1> SUFFICES ASSUME NEW u \in Known
             PROVE  Reason(u)'
  BY VisitFacts
<1>1. u \in Unit /\ Needs(u) \subseteq Unit /\ Needs(u)' = Needs(u) /\ older' = older
  BY KnownFinite, VisitFacts DEF Needs
<1>2. \A v \in Unit : order[v] \in Nat /\ order'[v] \in Nat /\ order[v] <= order'[v]
  BY VisitFacts
<1>3. older[u] \in Nat /\ older[u] <= order'[u]
  BY <1>1, <1>2 DEF Reason, TypeOK
<1>4. CASE order'[u] = order[u]
  BY <1>1, <1>2, <1>3, <1>4 DEF Reason
<1>5. CASE u = registry[idx] /\ \E d \in Needs(u) : order'[u] = order[d] + 1
  BY <1>1, <1>2, <1>3, <1>5 DEF Reason
<1> QED
  BY <1>1, <1>4, <1>5, VisitFacts

\* A list of the units of S holds none of them twice.
LEMMA ListsDistinct ==
  ASSUME NEW S \in SUBSET Unit, NEW l \in Lists(S)
  PROVE  /\ \A i, j \in 1..Len(l) : l[i] = l[j] => i = j
         /\ Len(l) = Cardinality(S)
<1>1. l \in [1..Cardinality(S) -> S] /\ Cardinality(S) \in Nat
  BY Assumptions, FS_Subset, FS_CardinalityType DEF Lists, Bijection, Injection
<1>2. Len(l) = Cardinality(S)
  BY <1>1
<1>3. \A i, j \in 1..Cardinality(S) : l[i] = l[j] => i = j
  BY <1>1 DEF Lists, Bijection, Injection, IsInjective
<1> QED
  BY <1>2, <1>3

\* So the registry is as long as it has units.
LEMMA RegistryLength ==
  ASSUME TypeOK, Distinct
  PROVE  Len(registry) = Cardinality(Known)
<1> DEFINE D == 1..Len(registry)
<1>1. Len(registry) \in Nat /\ registry \in [D -> Known]
  BY DEF TypeOK, Known
<1>2. registry \in Bijection(D, Known)
  BY <1>1 DEF Distinct, Known, Bijection, Injection, Surjection, IsInjective
<1>3. ExistsBijection(D, Known)
  BY <1>2 DEF ExistsBijection
<1> QED
  BY <1>1, <1>3, FS_CountingElements

LEMMA OrderInit == Init => OrderInv
<1> SUFFICES ASSUME Init
             PROVE  OrderInv
  OBVIOUS
<1>1. PassInv /\ TypeOK
  BY PassInit DEF PassInv
<1>2. pc = "pass" /\ pass = 1 /\ idx = 1 /\ order = older
  BY DEF Init
<1>3. PICK S \in SUBSET Unit : registry \in Lists(S)
  BY DEF Init
<1>4. Distinct
  BY <1>3, ListsDistinct DEF Distinct
<1>5. Cardinality(Settled) \in Nat
  BY <1>1, KnownFinite, SettledIsSettled DEF SettledSets
<1>6. Progress
  BY <1>1, <1>2, <1>5, SomeReady DEF Progress
<1>7. \A u \in Known : Reason(u)
  <2>1. \A u \in Known : older[u] \in Nat
    BY <1>1, KnownFinite DEF TypeOK
  <2> QED
    BY <1>2, <2>1 DEF Reason
<1> QED
  BY <1>1, <1>2, <1>4, <1>6, <1>7 DEF OrderInv, Resolved, DependenciesFirst

\* The next pass begins with a unit to settle.
LEMMA ProgressAnother ==
  ASSUME PassInv, Progress, pass > 0, AnotherPass
  PROVE  Progress'
<1>1. /\ UNCHANGED <<deps, older, registry, order, pc>>
      /\ idx > Len(registry) /\ idx' = 1 /\ pass' = pass + 1 /\ pc = "pass"
  BY DEF AnotherPass
<1>2. Settled' = Settled /\ Cyclic' = Cyclic /\ Known' = Known
  BY <1>1 DEF Settled, SettledSets, Cyclic, Known, Needs, Past
<1>3. TypeOK /\ pass \in Nat /\ idx \in Nat /\ Len(registry) \in Nat
  BY DEF PassInv, TypeOK
<1>4. Cardinality(Settled) \in Nat
  BY <1>3, KnownFinite, SettledIsSettled DEF SettledSets
<1>5. idx..Len(registry) = {}
  BY <1>1, <1>3
<1>6. Known \ Cyclic \subseteq Settled \/ pass <= Cardinality(Settled)
  BY <1>1, <1>5 DEF Progress
<1>7. Known \ Cyclic \subseteq Settled \/ \E i \in 1..Len(registry) : Ready(registry[i])
  BY <1>3, SomeReady
<1>8. \A i \in 1..Len(registry) : Ready(registry[i])' <=> Ready(registry[i])
  BY <1>1, <1>2 DEF Ready, Needs
<1> QED
  BY <1>1, <1>2, <1>3, <1>4, <1>6, <1>7, <1>8 DEF Progress

\* After the last pass every unit is settled, or those that depend on no cycle.
LEMMA ResolvedLast ==
  ASSUME OrderInv, LastPass
  PROVE  Resolved'
<1>1. /\ UNCHANGED <<deps, older, registry, order, changed>>
      /\ idx > Len(registry) /\ pc = "pass" /\ pc' = "sort"
      /\ ~changed \/ pass >= Len(registry)
  BY DEF LastPass
<1>2. Settled' = Settled /\ Cyclic' = Cyclic /\ Known' = Known
  BY <1>1 DEF Settled, SettledSets, Cyclic, Known, Needs, Past
<1>3. TypeOK /\ pass \in Nat /\ idx \in Nat /\ Len(registry) \in Nat
  BY DEF OrderInv, PassInv, TypeOK
<1>4. idx..Len(registry) = {}
  BY <1>1, <1>3
<1>5. Known \ Cyclic \subseteq Settled \/ pass <= Cardinality(Settled)
  BY <1>1, <1>4 DEF OrderInv, Progress
<1>6. CASE ~changed
  <2>1. \A u \in Known : Past(u)
    <3>1. PassInv'
      BY PassNext DEF OrderInv, Next
    <3> QED
      BY <1>1, <1>2, <1>6, <3>1 DEF PassInv, FixpointIsSound, Past, Needs
  <2>2. Known \in SettledSets
    BY <2>1 DEF SettledSets, Needs
  <2> QED
    BY <1>2, <2>2 DEF Resolved, Settled
<1>7. CASE pass >= Len(registry) /\ pass <= Cardinality(Settled)
  <2>1. Settled \in SUBSET Known
    BY SettledIsSettled DEF SettledSets
  <2>2. Cardinality(Known) <= Cardinality(Settled)
    BY <1>3, <1>7, <2>1, KnownFinite, RegistryLength DEF OrderInv
  <2>3. Settled = Known
    BY <1>3, <2>1, <2>2, KnownFinite, FS_Subset
  <2> QED
    BY <1>2, <2>3 DEF Resolved
<1> QED
  BY <1>1, <1>2, <1>5, <1>6, <1>7 DEF Resolved

\* Settled units are past what they depend on.
LEMMA SettledPast == \A u \in Settled : Past(u)
BY SettledIsSettled DEF SettledSets

LEMMA SortFirst ==
  ASSUME OrderInv, Sort
  PROVE  /\ DependenciesFirst' /\ Distinct' /\ Resolved'
         /\ \A u \in Known' : Reason(u)'
<1>1. /\ UNCHANGED <<deps, older, order>> /\ pc = "sort" /\ pc' = "sorted"
      /\ registry' \in Lists(Known)
      /\ \A i, j \in 1..Len(registry') : i < j => order[registry'[i]] <= order[registry'[j]]
  BY DEF Sort
<1>2. TypeOK /\ Known \in SUBSET Unit
  BY KnownFinite DEF OrderInv, PassInv
<1>3. Known' = Known /\ Distinct'
  <2>1. \A l \in Lists(Known) : {l[i] : i \in 1..Len(l)} = Known
    BY <1>2, ListsType
  <2>2. \A l \in Lists(Known) : \A i, j \in 1..Len(l) : l[i] = l[j] => i = j
    BY <1>2, ListsDistinct
  <2> QED
    BY <1>1, <2>1, <2>2 DEF Known, Distinct
<1>4. Settled' = Settled /\ Cyclic' = Cyclic
  BY <1>1, <1>3 DEF Settled, SettledSets, Cyclic, Needs, Past
<1>5. Known \ Cyclic \subseteq Settled
  BY <1>1 DEF OrderInv, Resolved
<1>6. ASSUME NEW i \in 1..Len(registry'), NEW j \in 1..Len(registry'), i < j,
             registry'[j] \in deps[registry'[i]], registry'[i] \notin Cyclic
      PROVE  FALSE
  <2>1. registry'[i] \in Known /\ registry'[j] \in Known
    BY <1>3 DEF Known
  <2>2. Past(registry'[i])
    BY <1>5, <1>6, <2>1, SettledPast
  <2>3. order[registry'[j]] < order[registry'[i]]
    BY <1>6, <2>1, <2>2 DEF Past, Needs
  <2>4. order[registry'[i]] \in Nat /\ order[registry'[j]] \in Nat
    BY <1>2, <2>1 DEF TypeOK
  <2> QED
    BY <1>1, <1>6, <2>3, <2>4
<1>7. DependenciesFirst'
  BY <1>1, <1>4, <1>6 DEF DependenciesFirst
<1>8. Resolved'
  BY <1>3, <1>4, <1>5 DEF Resolved
<1>9. \A u \in Known' : Reason(u)'
  BY <1>1, <1>3 DEF OrderInv, Reason, Needs
<1> QED
  BY <1>3, <1>7, <1>8, <1>9

LEMMA OrderNext == OrderInv /\ [Next]_vars => OrderInv'
<1> SUFFICES ASSUME OrderInv, [Next]_vars
             PROVE  OrderInv'
  OBVIOUS
<1>1. PassInv' /\ PassInv /\ TypeOK
  BY PassNext DEF OrderInv, PassInv
<1>2. CASE Visit
  <2>1. UNCHANGED <<registry, pass, pc>> /\ pc = "pass"
    BY <1>1, <1>2, VisitFacts DEF Visit
  <2>2. Distinct' /\ Resolved' /\ DependenciesFirst' /\ pass' > 0
    BY <2>1 DEF OrderInv, Distinct, Resolved, DependenciesFirst
  <2>3. Progress' /\ \A u \in Known' : Reason(u)'
    BY <1>1, <1>2, ProgressVisit, ReasonVisit DEF OrderInv
  <2> QED
    BY <1>1, <2>2, <2>3 DEF OrderInv
<1>3. CASE AnotherPass
  <2>1. UNCHANGED <<deps, older, registry, order, pc>> /\ pc = "pass" /\ pass' = pass + 1
    BY <1>3 DEF AnotherPass
  <2>2. Distinct' /\ Resolved' /\ DependenciesFirst' /\ pass' > 0
    BY <1>1, <2>1 DEF OrderInv, Distinct, Resolved, DependenciesFirst, TypeOK
  <2>3. Progress'
    BY <1>1, <1>3, ProgressAnother DEF OrderInv
  <2>4. \A u \in Known' : Reason(u)'
    BY <2>1 DEF OrderInv, Reason, Needs, Known
  <2> QED
    BY <1>1, <2>2, <2>3, <2>4 DEF OrderInv
<1>4. CASE LastPass
  <2>1. UNCHANGED <<deps, older, registry, order, pass>> /\ pc' = "sort"
    BY <1>4 DEF LastPass
  <2>2. Distinct' /\ Progress' /\ DependenciesFirst' /\ pass' > 0
    BY <2>1 DEF OrderInv, Distinct, Progress, DependenciesFirst
  <2>3. Resolved'
    BY <1>4, ResolvedLast
  <2>4. \A u \in Known' : Reason(u)'
    BY <2>1 DEF OrderInv, Reason, Needs, Known
  <2> QED
    BY <1>1, <2>2, <2>3, <2>4 DEF OrderInv
<1>5. CASE Sort
  <2>1. Progress' /\ pass' > 0
    BY <1>5 DEF Sort, Progress, OrderInv
  <2> QED
    BY <1>1, <1>5, <2>1, SortFirst DEF OrderInv
<1>6. CASE UNCHANGED vars
  <2>1. Distinct' /\ Progress' /\ pass' > 0 /\ Resolved'
    <3>1. Settled' = Settled /\ Cyclic' = Cyclic /\ Known' = Known
      BY <1>6 DEF vars, Settled, SettledSets, Cyclic, Known, Needs, Past
    <3>2. \A i \in idx..Len(registry) : Ready(registry[i])' <=> Ready(registry[i])
      BY <1>6, <3>1 DEF vars, Ready, Needs
    <3> QED
      BY <1>6, <3>1, <3>2 DEF vars, OrderInv, Distinct, Progress, Resolved
  <2>2. \A u \in Known' : Reason(u)'
    BY <1>6 DEF vars, OrderInv, Reason, Needs, Known
  <2>3. DependenciesFirst'
    BY <1>6 DEF vars, OrderInv, DependenciesFirst, Cyclic, Known
  <2> QED
    BY <1>1, <2>1, <2>2, <2>3 DEF OrderInv
<1> QED
  BY <1>2, <1>3, <1>4, <1>5, <1>6 DEF Next

LEMMA OrderInvariant == Spec => []OrderInv
BY OrderInit, OrderNext, PTL DEF Spec

(***************************************************************************)
(* One pass for each unit is enough for all units that depend on no cycle, *)
(* whatever cycles there are and whatever orders were left from before.    *)
(***************************************************************************)
THEOREM PassesSuffice == Spec => []Converges
<1>1. OrderInv => Converges
  BY SettledPast DEF OrderInv, Resolved, Converges
<1> QED
  BY <1>1, OrderInvariant, PTL

(***************************************************************************)
(* Sorted, no unit comes before one it depends on, but for the units that  *)
(* depend on a cycle.                                                      *)
(***************************************************************************)
THEOREM SortedFirst == Spec => []DependenciesFirst
<1>1. OrderInv => DependenciesFirst
  BY DEF OrderInv
<1> QED
  BY <1>1, OrderInvariant, PTL

\* The greatest of the old order and what the dependencies ask for, given levels.
Above(u, level) ==
    LET below == {older[u]} \cup {level[d] + 1 : d \in Needs(u)}
    IN  CHOOSE m \in below : \A k \in below : k <= m

\* Resolved orders are levels,
LEMMA OrderIsLevel ==
  ASSUME OrderInv, pc # "pass"
  PROVE  \A u \in Known \ Cyclic : order[u] = Above(u, order)
<1> SUFFICES ASSUME NEW u \in Known \ Cyclic
             PROVE  order[u] = Above(u, order)
  OBVIOUS
<1> DEFINE below == {older[u]} \cup {order[d] + 1 : d \in Needs(u)}
<1>1. TypeOK /\ Past(u) /\ Reason(u)
  BY SettledPast DEF OrderInv, PassInv, Resolved
<1>2. u \in Unit /\ Needs(u) \subseteq Unit
  BY <1>1, KnownFinite DEF Needs
<1>3. /\ order[u] \in Nat /\ older[u] \in Nat
      /\ \A d \in Needs(u) : order[d] \in Nat
  BY <1>1, <1>2 DEF TypeOK
<1>4. below \subseteq Nat /\ \A k \in below : k <= order[u]
  BY <1>1, <1>3 DEF Reason, Past
<1>5. order[u] \in below
  BY <1>1, <1>3 DEF Reason, Past
<1>6. order[u] = CHOOSE m \in below : \A k \in below : k <= m
  <2> HIDE DEF below
  <2>1. \A m \in below : (\A k \in below : k <= m) => m = order[u]
    BY <1>3, <1>4, <1>5
  <2> QED
    BY <1>4, <1>5, <2>1
<1> QED
  BY <1>6 DEF Above

\* and there is only one way to have levels where no cycle is: the units whose
\* levels differed would keep each other up.
LEMMA LevelsUnique ==
  ASSUME TypeOK, NEW f, NEW g,
         \A u \in Known \ Cyclic : f[u] = Above(u, f) /\ g[u] = Above(u, g)
  PROVE  \A u \in Known \ Cyclic : f[u] = g[u]
<1> DEFINE D == {u \in Known \ Cyclic : f[u] # g[u]}
<1>1. ASSUME NEW u \in D
      PROVE  Needs(u) \cap D # {}
  <2> SUFFICES ASSUME Needs(u) \cap D = {}
               PROVE  FALSE
    OBVIOUS
  <2>1. \A d \in Needs(u) : f[d] = g[d]
    BY NotCyclic DEF Needs
  <2>2. Above(u, f) = Above(u, g)
    <3>1. {f[d] + 1 : d \in Needs(u)} = {g[d] + 1 : d \in Needs(u)}
      BY <2>1
    <3> QED
      BY <3>1 DEF Above
  <2> QED
    BY <2>2
<1>2. \A u \in D : deps[u] \cap D # {}
  BY <1>1 DEF Needs
<1>3. D \subseteq Cyclic
  BY <1>2 DEF Cyclic
<1> QED
  BY <1>3

LEMMA LevelsAreLevels ==
  ASSUME OrderInv, pc # "pass"
  PROVE  Level = [u \in Known \ Cyclic |-> Above(u, Level)]
<1> DEFINE K == Known \ Cyclic
           o == [u \in K |-> order[u]]
<1>1. \A u \in K : Needs(u) \subseteq K
  BY NotCyclic DEF Needs, OrderInv, PassInv
<1>2. ASSUME NEW u \in K
      PROVE  Above(u, o) = Above(u, order)
  <2>1. {o[d] + 1 : d \in Needs(u)} = {order[d] + 1 : d \in Needs(u)}
    BY <1>1
  <2> QED
    BY <2>1 DEF Above
<1>3. o = [u \in K |-> Above(u, o)]
  BY <1>2, OrderIsLevel
<1>4. \E level : level = [u \in K |-> Above(u, level)]
  BY <1>3
<1>5. Level = CHOOSE level : level = [u \in K |-> Above(u, level)]
  BY DEF Level, Above
<1>6. Level = [u \in K |-> Above(u, Level)]
  <2> HIDE DEF K
  <2> QED
    BY <1>4, <1>5
<1> QED
  BY <1>6

(***************************************************************************)
(* Resolved, a unit has the least order its dependencies and its old order *)
(* allow, if it depends on no cycle.                                       *)
(***************************************************************************)
THEOREM OrdersAreLeast == Spec => []OrderIsLeast
<1>1. OrderInv => OrderIsLeast
  <2> SUFFICES ASSUME OrderInv, pc # "pass"
               PROVE  \A u \in Known \ Cyclic : order[u] = Level[u]
    BY DEF OrderIsLeast
  <2>1. \A u \in Known \ Cyclic : Level[u] = Above(u, Level)
    <3>1. \A f : f = [u \in Known \ Cyclic |-> Above(u, Level)]
             => \A u \in Known \ Cyclic : f[u] = Above(u, Level)
      OBVIOUS
    <3> QED
      BY <3>1, LevelsAreLevels
  <2> QED
    BY <2>1, OrderIsLevel, LevelsUnique DEF OrderInv, PassInv
<1> QED
  BY <1>1, OrderInvariant, PTL
=============================================================================
