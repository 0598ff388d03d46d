-------------------------- MODULE LibraryUnit_proofs --------------------------
(***************************************************************************)
(* What holds of LibraryUnit for any units, modules and failures, as long  *)
(* as nobody else disables a module that has instances and no service is   *)
(* destroyed that could not be stopped.                                    *)
(***************************************************************************)
EXTENDS LibraryUnit, TLAPS

\* At first there is no instance, and no flag.
LEMMA FlagInit == Init => FlagInv
BY Assumptions DEF Init, FlagInv, TypeOK, ArgumentsMatch

\* Expanding a unit again leaves the arguments of those with an instance.
LEMMA RefreshKeeps ==
  ASSUME FlagInv, NEW u \in Unit, NEW v \in Value \cup {NULL}, Refresh(u, v)
  PROVE  /\ argv' \in [Unit -> Value]
         /\ \A w \in Unit : w # u => argv'[w] = argv[w]
         /\ bound[u] # NULL /\ u \notin left => argv' = argv
BY DEF FlagInv, TypeOK, Refresh, Refreshed

\* A start that gets past the refresh, whatever fails in it, preserves the
\* invariant.
LEMMA RefreshedStartKeeps ==
  ASSUME FlagInv, NEW u \in Unit, NEW v \in Value \cup {NULL}, Start(u, v), ~RefreshFails(u, v)
  PROVE  FlagInv'
<1>1. exec[u] \in Module /\ Paired \cap Partial = {}
  BY Assumptions
<1>2. Refresh(u, v)
  BY DEF Start, StartNotEnabled, StartPartial, StartPlain, StartAlready, StartCallback
<1>3. /\ argv' \in [Unit -> Value]
      /\ \A w \in Unit : w # u => argv'[w] = argv[w]
      /\ bound[u] # NULL /\ u \notin left => argv' = argv
  BY <1>2, RefreshKeeps
<1> USE DEF FlagInv, TypeOK, ArgumentsMatch, history
<1>4. ASSUME UNCHANGED <<library_started, bound, taken, left>>,
             loaded' \in SUBSET Module, enabled' \in SUBSET loaded', enabled \subseteq enabled'
      PROVE  FlagInv'
  BY <1>3, <1>4
<1>5. CASE StartNotEnabled(u, v)
  BY <1>4, <1>5 DEF StartNotEnabled, moduleVars
<1>6. CASE StartPartial(u, v)
  BY <1>1, <1>4, <1>6 DEF StartPartial, moduleVars
<1>7. CASE StartPlain(u, v)
  BY <1>1, <1>4, <1>7 DEF StartPlain
<1>8. CASE StartAlready(u, v)
  BY <1>4, <1>8 DEF StartAlready, moduleVars
<1>9. CASE StartCallback(u, v)
  <2>1. /\ exec[u] \in Paired
        /\ loaded' = loaded \cup {exec[u]} /\ enabled' = enabled \cup {exec[u]}
        /\ taken' = taken \ {u}
    BY <1>9 DEF StartCallback
  <2>2. bound[u] = NULL \/ u \in left
    BY <1>9 DEF StartCallback
  <2>3. CASE /\ bound' = [bound EXCEPT ![u] = argv'[u]]
             /\ library_started' = library_started \cup {u}
             /\ left' = left \ {u}
    <3>1. /\ bound' \in [Unit -> Value \cup {NULL}] /\ bound'[u] = argv'[u] /\ bound'[u] # NULL
          /\ \A w \in Unit \ {u} : bound'[w] = bound[w]
      BY <1>3, <2>3, Assumptions
    <3> QED
      BY <1>1, <1>3, <2>1, <2>3, <3>1
  <2>4. CASE library_started' = library_started \ {u} /\ UNCHANGED <<bound, left>>
    BY <1>1, <1>3, <2>1, <2>2, <2>4
  <2> QED
    BY <1>9, <2>3, <2>4 DEF StartCallback
<1> QED
  BY <1>5, <1>6, <1>7, <1>8, <1>9 DEF Start

\* So does one whose refresh fails: it changes nothing.
LEMMA StartKeeps ==
  ASSUME FlagInv, NEW u \in Unit, NEW v \in Value \cup {NULL}, Start(u, v)
  PROVE  FlagInv'
<1>1. CASE RefreshFails(u, v)
  BY <1>1 DEF RefreshFails, FlagInv, TypeOK, ArgumentsMatch, vars, moduleVars, history
<1> QED
  BY <1>1, RefreshedStartKeeps

\* So does a stop.
LEMMA StopKeeps ==
  ASSUME FlagInv, NEW u \in Unit, Stop(u)
  PROVE  FlagInv'
<1> USE DEF FlagInv, TypeOK, ArgumentsMatch, history
<1>1. CASE StopInactive(u)
  BY <1>1 DEF StopInactive
<1>2. CASE StopCallback(u)
  BY <1>2 DEF StopCallback, moduleVars
<1>3. CASE StopPlain(u)
  BY <1>3 DEF StopPlain, moduleVars, HasStop
<1> QED
  BY <1>1, <1>2, <1>3 DEF Stop

\* And whatever others do with the module: the units whose instances go when it
\* is disabled are remembered.
LEMMA OthersKeep ==
  ASSUME FlagInv, NEW m \in Module, Others(m)
  PROVE  FlagInv'
<1> USE DEF FlagInv, TypeOK, ArgumentsMatch, history
<1>1. CASE loaded' = loaded \cup {m} /\ enabled \subseteq enabled'
           /\ enabled' \subseteq enabled \cup {m} /\ UNCHANGED <<bound, taken, left>>
  BY <1>1 DEF Others
<1>2. CASE /\ enabled' = enabled \ {m}
           /\ loaded' \in {loaded, loaded \ {m}}
           /\ bound' = Without(m)
           /\ taken' = taken \cup {u \in library_started : bound[u] # bound'[u]}
           /\ left' = {u \in left : exec[u] # m}
  <2>1. UNCHANGED <<library_started, argv>>
    BY DEF Others
  <2>2. /\ bound' \in [Unit -> Value \cup {NULL}]
        /\ \A u \in Unit : bound'[u] = IF exec[u] = m THEN NULL ELSE bound[u]
    BY <1>2 DEF Without
  <2>3. TypeOK' /\ ArgumentsMatch'
    BY <1>2, <2>1, <2>2
  <2>4. ASSUME NEW u \in Unit
        PROVE  /\ \/ u \in taken' \ left' /\ u \in library_started' /\ bound'[u] = NULL
                  \/ u \in left' \ taken' /\ u \notin library_started' /\ bound'[u] # NULL
                  \/ u \notin taken' \cup left' /\ (u \in library_started' <=> bound'[u] # NULL)
               /\ bound'[u] # NULL => exec[u] \in Paired \cap enabled'
    <3>1. CASE exec[u] = m
      BY <1>2, <2>1, <2>2, <3>1
    <3>2. CASE exec[u] # m
      BY <1>2, <2>1, <2>2, <3>2
    <3> QED
      BY <3>1, <3>2
  <2> QED
    BY <2>3, <2>4
<1> QED
  BY <1>1, <1>2 DEF Others

\* A service is replaced by one without flag; an instance it leaves behind is
\* remembered.
LEMMA ReplaceKeeps ==
  ASSUME FlagInv, NEW u \in Unit, NEW v \in Value, Replace(u, v)
  PROVE  FlagInv'
BY DEF FlagInv, TypeOK, ArgumentsMatch, Replace, moduleVars

LEMMA FlagNext == FlagInv /\ [Next]_vars => FlagInv'
<1>1. FlagInv /\ UNCHANGED vars => FlagInv'
  BY DEF FlagInv, TypeOK, ArgumentsMatch, vars, moduleVars, history
<1> QED
  BY <1>1, StartKeeps, StopKeeps, ReplaceKeeps, OthersKeep DEF Next

(***************************************************************************)
(* The flag and the instances stay in step.                                *)
(***************************************************************************)
THEOREM FlagsFollowInstances == Spec => []FlagInv
BY FlagInit, FlagNext, PTL DEF Spec

(***************************************************************************)
(* A callback-backed unit is reported RUNNING exactly while its module has *)
(* an instance for it, whatever fails, but for one whose module somebody   *)
(* else disabled and enabled again, and for an instance left behind by a   *)
(* service that was destroyed before it could be stopped.                  *)
(***************************************************************************)
THEOREM StatusIsTrue == Spec => []StatusTrue
<1>1. FlagInv => StatusTrue
  BY DEF FlagInv, StatusTrue, Status, HasStart
<1> QED
  BY <1>1, FlagsFollowInstances, PTL

(***************************************************************************)
(* An active unit keeps the arguments its instance was started with.       *)
(***************************************************************************)
THEOREM ArgumentsStay == Spec => []ArgumentsMatch
BY FlagsFollowInstances, PTL DEF FlagInv

(***************************************************************************)
(* A start that makes a template's instance runs it with the value of this *)
(* very event, and not with that of a device that is gone.                 *)
(***************************************************************************)
THEOREM ValueIsFresh == Spec => FreshValue
<1>1. ASSUME FlagInv, NEW u \in Template, NEW v \in Value, MakesInstance(u, v), u \notin taken
      PROVE  bound'[u] = v
  <2>1. Start(u, v) /\ ((bound[u] = NULL /\ bound'[u] # NULL) \/ u \in left \ left')
    BY <1>1 DEF MakesInstance
  <2>2. StartCallback(u, v) /\ bound' = [bound EXCEPT ![u] = argv'[u]]
    BY <2>1 DEF Start, RefreshFails, StartNotEnabled, StartPartial, StartPlain, StartAlready,
                StartCallback, vars, history
  <2>3. u \in Unit /\ u \notin library_started /\ v # NULL
    BY <1>1, <2>1, Assumptions DEF FlagInv
  <2>4. Refreshed(u, v)
    BY <1>1, <2>2, <2>3 DEF Refreshed, StartCallback, HasStart
  <2>5. argv' = [argv EXCEPT ![u] = v]
    BY <2>2, <2>4 DEF StartCallback, Refresh
  <2> QED
    BY <1>1, <2>2, <2>3, <2>5 DEF FlagInv, TypeOK
<1>2. FlagInv /\ [Next]_vars =>
        [\A u \in Template, v \in Value :
           MakesInstance(u, v) => u \in taken \/ bound'[u] = v]_vars
  BY <1>1
<1> QED
  BY <1>2, FlagsFollowInstances, PTL DEF Spec, FreshValue

(***************************************************************************)
(* Starting or stopping a unit leaves the instances of all others alone,   *)
(* whoever disables the module.                                            *)
(***************************************************************************)
THEOREM OthersAreLeftAlone == Spec => OthersKeepRunning
<1>1. Init => bound \in [Unit -> {NULL}]
  BY DEF Init
<1> DEFINE Typed == DOMAIN bound = Unit /\ bound = [u \in Unit |-> bound[u]]
<1>2. Init => Typed
  BY <1>1
<1>3. Typed /\ [Next]_vars => Typed'
  BY DEF Next, Start, RefreshFails, StartNotEnabled, StartPartial, StartPlain, StartAlready, StartCallback,
         Stop, StopInactive, StopCallback, StopPlain, Replace, Others, Without, vars
<1>4. ASSUME Typed, NEW u \in Unit, NEW w \in Unit \ {u},
             Stop(u) \/ \E v \in Value \cup {NULL} : Start(u, v)
      PROVE  bound'[w] = bound[w]
  BY <1>4 DEF Start, RefreshFails, vars, StartNotEnabled, StartPartial, StartPlain, StartAlready, StartCallback,
              Stop, StopInactive, StopCallback, StopPlain
<1>5. Typed /\ [Next]_vars =>
        [\A u \in Unit : Stop(u) \/ (\E v \in Value \cup {NULL} : Start(u, v))
           => \A w \in Unit \ {u} : bound'[w] = bound[w]]_vars
  BY <1>4
<1> QED
  BY <1>2, <1>3, <1>5, PTL DEF Spec, OthersKeepRunning
===============================================================================
