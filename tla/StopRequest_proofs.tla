------------------------- MODULE StopRequest_proofs -------------------------
(***************************************************************************)
(* What holds of StopRequest for any processes, stoppers and semaphores:   *)
(* the type invariant, the inductive invariant IInv, the safety properties *)
(* that follow from it, and that the registry implements StopContract.     *)
(***************************************************************************)
EXTENDS StopRequest, TLAPS

\* The registry starts empty, with no stop in progress.
LEMMA TypeInit == Init => TypeOK /\ TargetInv
BY Assumptions DEF Init, TypeOK, TargetInv, Outside, StopStep

\* Every step keeps the types, and a stopper's target with its stop.
LEMMA TypeNext == TypeOK /\ TargetInv /\ [Next]_vars => TypeOK' /\ TargetInv'
<1> SUFFICES ASSUME TypeOK, TargetInv, [Next]_vars
             PROVE  TypeOK' /\ TargetInv'
  OBVIOUS
<1> USE Assumptions DEF TypeOK, TargetInv, Outside, Holding, Ended, StopStep, Alive,
        Goto, StopGoto, Acquire, Release, End, StopReturns,
        registryVars, semVars, stopperVars
<1>1. ASSUME NEW p \in Proc, ProcStep(p) PROVE TypeOK' /\ TargetInv'
  <2>1. ASSUME NEW w \in Sem, BeginSet(p, w) PROVE TypeOK' /\ TargetInv'
    BY <2>1 DEF BeginSet
  <2>2. CASE BeginClear(p)
    BY <2>2 DEF BeginClear
  <2>3. CASE SetLock(p)
    BY <2>3 DEF SetLock
  <2>4. CASE SetApply(p)
    BY <2>4 DEF SetApply, RemoveEntry, ReplaceEntry, AddEntry
  <2>5. CASE SetUnlock(p)
    BY <2>5 DEF SetUnlock
  <2>6. CASE BeginCheck(p)
    BY <2>6 DEF BeginCheck
  <2>7. CASE CheckLock(p)
    BY <2>7 DEF CheckLock
  <2>8. CASE CheckUnlock(p)
    BY <2>8 DEF CheckUnlock
  <2>9. CASE Wake(p)
    BY <2>9 DEF Wake
  <2>10. CASE Event(p)
    BY <2>10 DEF Event
  <2>11. CASE Destroy(p)
    BY <2>11 DEF Destroy
  <2>12. CASE Leave(p)
    BY <2>12 DEF Leave
  <2>13. CASE ExitTake(p)
    BY <2>13 DEF ExitTake
  <2>14. CASE ExitUnlock(p)
    BY <2>14 DEF ExitUnlock
  <2> QED
    BY <1>1, <2>1, <2>2, <2>3, <2>4, <2>5, <2>6, <2>7, <2>8, <2>9, <2>10,
       <2>11, <2>12, <2>13, <2>14 DEF ProcStep, OwnStep
<1>2. ASSUME NEW s \in Stopper, StopperStep(s) PROVE TypeOK' /\ TargetInv'
  <2>1. ASSUME NEW p \in Proc, BeginStop(s, p) PROVE TypeOK' /\ TargetInv'
    BY <2>1 DEF BeginStop
  <2>2. CASE SendFind(s)
    BY <2>2 DEF SendFind
  <2>3. CASE SendPost(s)
    BY <2>3 DEF SendPost
  <2>4. CASE Gone(s)
    BY <2>4 DEF Gone
  <2>5. CASE TimedOut(s)
    BY <2>5 DEF TimedOut
  <2>6. CASE Kill(s)
    BY <2>6 DEF Kill
  <2> QED
    BY <1>2, <2>1, <2>2, <2>3, <2>4, <2>5, <2>6 DEF StopperStep
<1>3. CASE UNCHANGED vars
  BY <1>3 DEF vars
<1> QED
  BY <1>1, <1>2, <1>3 DEF Next

(***************************************************************************)
(* Every variable keeps its type, for any number of processes, stoppers    *)
(* and semaphores.                                                         *)
(***************************************************************************)
THEOREM TypeCorrect == Spec => []TypeOK
BY TypeInit, TypeNext, PTL DEF Spec

\* Every step of a process or of a stopper preserves the inductive invariant.
LEMMA IInvNext == IInv /\ [Next]_vars => IInv'
<1> SUFFICES ASSUME IInv, [Next]_vars
             PROVE  IInv'
  OBVIOUS
<1> USE Assumptions DEF IInv, TypeOK, TargetInv, LockInv, FoundInv, EntryWatched, EntryInv,
        NoLostWakeup, UnregisteredInv, Unregistered, RequestInv,
        Outside, Holding, Ended, StopStep, Alive,
        Goto, StopGoto, Acquire, Release, End, StopReturns,
        registryVars, semVars, stopperVars
<1>1. ASSUME NEW p \in Proc, ProcStep(p) PROVE IInv'
  <2>1. ASSUME NEW w \in Sem, BeginSet(p, w) PROVE IInv'
    BY <2>1 DEF BeginSet
  <2>2. CASE BeginClear(p)
    BY <2>2 DEF BeginClear
  <2>3. CASE SetLock(p)
    BY <2>3 DEF SetLock
  <2>4. CASE SetApply(p)
    BY <2>4 DEF SetApply, RemoveEntry, ReplaceEntry, AddEntry
  <2>5. CASE SetUnlock(p)
    BY <2>5 DEF SetUnlock
  <2>6. CASE BeginCheck(p)
    BY <2>6 DEF BeginCheck
  <2>7. CASE CheckLock(p)
    BY <2>7 DEF CheckLock
  <2>8. CASE CheckUnlock(p)
    BY <2>8 DEF CheckUnlock
  <2>9. CASE Wake(p)
    BY <2>9 DEF Wake
  <2>10. CASE Event(p)
    BY <2>10 DEF Event
  <2>11. CASE Destroy(p)
    BY <2>11 DEF Destroy
  <2>12. CASE Leave(p)
    BY <2>12 DEF Leave
  <2>13. CASE ExitTake(p)
    BY <2>13 DEF ExitTake
  <2>14. CASE ExitUnlock(p)
    BY <2>14 DEF ExitUnlock
  <2> QED
    BY <1>1, <2>1, <2>2, <2>3, <2>4, <2>5, <2>6, <2>7, <2>8, <2>9, <2>10, <2>11, <2>12, <2>13, <2>14
       DEF ProcStep, OwnStep
<1>2. ASSUME NEW s \in Stopper, StopperStep(s) PROVE IInv'
  <2>1. ASSUME NEW p \in Proc, BeginStop(s, p) PROVE IInv'
    BY <2>1 DEF BeginStop
  <2>2. CASE SendFind(s)
    BY <2>2 DEF SendFind
  <2>3. CASE SendPost(s)
    BY <2>3 DEF SendPost
  <2>4. CASE Gone(s)
    BY <2>4 DEF Gone
  <2>5. CASE TimedOut(s)
    BY <2>5 DEF TimedOut
  <2>6. CASE Kill(s)
    BY <2>6 DEF Kill
  <2> QED
    BY <1>2, <2>1, <2>2, <2>3, <2>4, <2>5, <2>6
       DEF StopperStep
<1>3. CASE UNCHANGED vars
  BY <1>3 DEF vars
<1> QED
  BY <1>1, <1>2, <1>3 DEF Next

(***************************************************************************)
(* The registry is what IInv says in every state.  IInv adds to the stated *)
(* properties who holds the mutex (LockInv), what a stopper's search still *)
(* tells it (FoundInv) and where an unregistered process can be            *)
(* (UnregisteredInv): none of the properties is inductive without them.    *)
(***************************************************************************)
THEOREM Inductive == Spec => []IInv
<1>1. Init => IInv
  BY TypeInit, Assumptions
  DEF Init, IInv, LockInv, FoundInv, EntryWatched, EntryInv, NoLostWakeup,
      RequestInv, UnregisteredInv, Unregistered, Holding, Ended, Outside
<1>2. IInv /\ [Next]_vars => IInv'
  BY IInvNext
<1> QED
  BY <1>1, <1>2, PTL DEF Spec

(***************************************************************************)
(* An entry lives exactly as long as its exit callback: nothing leaks when *)
(* a process is killed, and no callback is left for a freed entry.         *)
(***************************************************************************)
THEOREM EntriesAreWatched == Spec => []EntryWatched
BY Inductive, PTL DEF IInv

(***************************************************************************)
(* A service that sleeps on its semaphore after a stop request was made    *)
(* has a post to wake it.                                                  *)
(***************************************************************************)
THEOREM NoWakeupIsLost == Spec => []NoLostWakeup
BY Inductive, PTL DEF IInv

(***************************************************************************)
(* Replacing the semaphore keeps a request already received; only          *)
(* unregistering drops it, and that is final.                              *)
(***************************************************************************)
THEOREM RequestsStick == Spec => []RequestSticks
<1>1. IInv => RequestSticks
  BY Assumptions DEF IInv, TypeOK, TargetInv, RequestInv, UnregisteredInv, RequestSticks
<1> QED
  BY <1>1, Inductive, PTL

(***************************************************************************)
(* No stop request posts a semaphore that the service has destroyed.       *)
(***************************************************************************)
THEOREM PostsAreSafe == Spec => []PostsOnlyLive
<1>1. IInv => PostsOnlyLive
  BY Assumptions DEF IInv, TypeOK, TargetInv, FoundInv, EntryInv, PostsOnlyLive
<1> QED
  BY <1>1, Inductive, PTL

-----------------------------------------------------------------------------
(* The stop contract                                                       *)

\* A process that is not on its way out stays Alive, and no other is.
LEMMA AliveStep ==
  ASSUME TypeOK, NEW p \in Proc, NEW l \in Outside \cup Holding \cup Ended,
         pc' = [pc EXCEPT ![p] = l], pc[p] \in Ended <=> l \in Ended
  PROVE  Alive' = Alive
BY DEF TypeOK, Alive

\* A step of a process is Leave in the contract, or nothing.
LEMMA ProcImplements ==
  ASSUME TypeOK, TargetInv, NEW p \in Proc, ProcStep(p)
  PROVE  Contract!Leave(p) \/ UNCHANGED Contract!vars
<1> USE DEF Contract!vars, stopperVars
<1>1. CASE Leave(p)
  BY <1>1 DEF Leave, End, Contract!Leave, TypeOK, Alive, Ended
<1>2. CASE Event(p)
  BY <1>2 DEF Event, Alive
<1>3. ASSUME ~Leave(p), ~Event(p)
      PROVE  UNCHANGED Contract!vars
  <2> USE DEF Goto, Outside, Holding, Ended
  <2>1. UNCHANGED <<killed, target>>
    BY <1>3 DEF ProcStep, OwnStep, BeginSet, BeginClear, BeginCheck, Destroy,
        SetLock, SetApply, SetUnlock, CheckLock, CheckUnlock, Wake, ExitTake, ExitUnlock
  <2>2. PICK l \in Outside \cup Holding \cup Ended :
           pc' = [pc EXCEPT ![p] = l] /\ (pc[p] \in Ended <=> l \in Ended)
    BY <1>3 DEF ProcStep, OwnStep, BeginSet, BeginClear, BeginCheck, Destroy,
        SetLock, SetApply, SetUnlock, CheckLock, CheckUnlock, Wake, ExitTake, ExitUnlock
  <2> QED
    BY <2>1, <2>2, AliveStep
<1> QED
  BY <1>1, <1>2, <1>3

\* A step of a stopper is Begin, Kill or Return in the contract, or nothing.
LEMMA StopperImplements ==
  ASSUME TypeOK, TargetInv, NEW s \in Stopper, StopperStep(s)
  PROVE  [Contract!Next]_(Contract!vars)
<1> USE Assumptions DEF Contract!vars, TypeOK, TargetInv
<1>1. ASSUME NEW p \in Proc, BeginStop(s, p)
      PROVE  Contract!Begin(s, p)
  BY <1>1 DEF BeginStop, StopGoto, Contract!Begin, Alive
<1>2. CASE SendFind(s) \/ SendPost(s) \/ TimedOut(s)
  BY <1>2 DEF SendFind, SendPost, TimedOut, Alive
<1>3. ASSUME Gone(s)
      PROVE  Contract!Return(s)
  BY <1>3 DEF Gone, StopReturns, Contract!Return, Alive
<1>4. ASSUME Kill(s), target[s] \in Alive
      PROVE  Contract!Kill(s)
  BY <1>4 DEF Kill, End, StopReturns, Contract!Kill, Alive, Ended
<1>5. ASSUME Kill(s), target[s] \notin Alive
      PROVE  Contract!Return(s)
  BY <1>5 DEF Kill, StopReturns, Contract!Return, Alive
<1> QED
  BY <1>1, <1>2, <1>3, <1>4, <1>5 DEF StopperStep, Contract!Next

(***************************************************************************)
(* Stopping through the registry implements the stop contract: a stop      *)
(* returns only once its process has ended, and nothing but a stop of the  *)
(* process itself kills it.                                                *)
(***************************************************************************)
THEOREM ContractImplemented == Spec => ContractSafe
<1>1. Init => Contract!Init
  BY DEF Init, Contract!Init, Alive, Ended
<1>2. TypeOK /\ TargetInv /\ [Next]_vars => [Contract!Next]_(Contract!vars)
  <2> SUFFICES ASSUME TypeOK, TargetInv, [Next]_vars
               PROVE  [Contract!Next]_(Contract!vars)
    OBVIOUS
  <2>1. CASE \E p \in Proc : ProcStep(p)
    BY <2>1, ProcImplements DEF Contract!Next
  <2>2. CASE \E s \in Stopper : StopperStep(s)
    BY <2>2, StopperImplements
  <2>3. CASE UNCHANGED vars
    BY <2>3 DEF vars, stopperVars, Contract!vars, Alive
  <2> QED
    BY <2>1, <2>2, <2>3 DEF Next
<1>3. IInv => TypeOK /\ TargetInv
  BY DEF IInv
<1> QED
  BY <1>1, <1>2, <1>3, Inductive, PTL DEF Spec, ContractSafe, Contract!Spec
=============================================================================
