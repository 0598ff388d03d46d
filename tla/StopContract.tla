---------------------------- MODULE StopContract ----------------------------
(***************************************************************************)
(* What stopping a service promises, with no registry, lock or semaphore:  *)
(* a process ends by returning from main(), or because a stop of that very *)
(* process killed it; a stop returns only once its process has ended, and  *)
(* it does return.  StopRequest is shown to implement this.                *)
(***************************************************************************)
CONSTANTS Proc,      \* service processes
          Stopper,   \* threads that stop services
          NULL       \* no process

VARIABLES alive,     \* the processes that have not ended
          killed,    \* the processes that ended by being killed
          stop       \* stop[s]: the process s is stopping, or NULL

vars == <<alive, killed, stop>>

Init ==
    /\ alive = Proc
    /\ killed = {}
    /\ stop = [s \in Stopper |-> NULL]

\* s starts stopping p, which may just have ended.
Begin(s, p) ==
    /\ stop[s] = NULL
    /\ stop' = [stop EXCEPT ![s] = p]
    /\ UNCHANGED <<alive, killed>>

\* p returns from main().
Leave(p) ==
    /\ p \in alive
    /\ alive' = alive \ {p}
    /\ UNCHANGED <<killed, stop>>

\* s kills the process it is stopping; its stop may return with that.
Kill(s) ==
    /\ stop[s] \in alive
    /\ alive' = alive \ {stop[s]}
    /\ killed' = killed \cup {stop[s]}
    /\ stop' = [stop EXCEPT ![s] = NULL]

\* The process is gone: the stop returns.
Return(s) ==
    /\ stop[s] # NULL
    /\ stop[s] \notin alive
    /\ stop' = [stop EXCEPT ![s] = NULL]
    /\ UNCHANGED <<alive, killed>>

Next ==
    \/ \E s \in Stopper, p \in Proc : Begin(s, p)
    \/ \E p \in Proc : Leave(p)
    \/ \E s \in Stopper : Kill(s) \/ Return(s)

Spec == Init /\ [][Next]_vars

FairSpec == Spec /\ \A s \in Stopper : WF_vars(Kill(s) \/ Return(s))
=============================================================================
