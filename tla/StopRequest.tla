---------------------------- MODULE StopRequest -----------------------------
(***************************************************************************)
(* The registry of stop requests (libsystemd/src/stoprequest.c), the       *)
(* service processes that use it through libsystemd_set_stop_semaphore()   *)
(* and libsystemd_stop_requested(), and the threads that stop them.        *)
(*                                                                         *)
(* Every access to the registry goes through one non-recursive mutex.  A   *)
(* step below is what happens between two points where another thread can  *)
(* run; a thread that has taken the mutex is at a pc of its own until it   *)
(* gives it back, because a process can be killed at that point too.       *)
(*                                                                         *)
(* A process runs the main loop set_stop_semaphore() documents: register a *)
(* semaphore, check for a request, wait on the semaphore, check again, and *)
(* on a request unregister, destroy the semaphore and return.  A process   *)
(* not in Cooperative is under no obligation to take any step of its own.  *)
(***************************************************************************)
CONSTANTS
    Proc,         \* service processes (a process is never reused)
    Stopper,      \* threads running libsystemd_stop_service_internal()
    Sem,          \* semaphores a process can create
    NULL,         \* no thread, no process, no semaphore
    Cooperative,  \* processes that keep running their main loop
    Patient,      \* cooperative processes whose stop timeout is long enough
    NoGrace,      \* processes of units with stop_timeout_ms = 0
    KillHolder    \* whether a kill may hit a process that holds the mutex

ASSUME Assumptions ==
    /\ NULL \notin Proc \cup Stopper \cup Sem
    /\ Proc \cap Stopper = {}
    /\ Patient \subseteq Cooperative
    /\ Cooperative \subseteq Proc
    /\ NoGrace \subseteq Proc \ Patient
    /\ KillHolder \in BOOLEAN

VARIABLES
    lock,            \* the thread that holds g_stoprequests_lock, or NULL
    wakeup,          \* wakeup[p]: semaphore in p's registry entry; NULL: no entry
    stop_requested,  \* the processes whose entry has the flag set
    exit_cb,         \* the processes with the registry's exit callback attached
    pc,              \* pc[p]: where process p is
    arg,             \* arg[p]: what p passed to set_stop_semaphore() last
    live,            \* live[p]: semaphores p created and has not destroyed
    full,            \* full[p]: those of them with a count of 1 (the maximum)
    killed,          \* processes that ended by dmosi_process_kill() from a stop
    spc,             \* spc[s]: where stopper s is
    target,          \* target[s]: the process s is stopping, or NULL
    found            \* found[s]: semaphore of the entry s's search returned

registryVars == <<wakeup, stop_requested>>
semVars      == <<live, full>>
stopperVars  == <<spc, target, found>>
vars == <<lock, registryVars, exit_cb, pc, arg, semVars, killed, stopperVars>>

-----------------------------------------------------------------------------
(* Program counters                                                        *)

Outside  == {"own", "set", "check", "wait", "leave", "closed", "return"}
Holding  == {"setting", "set_done", "clear", "asked"}   \* alive, holds the mutex
Ended    == {"cb", "cb_done", "gone"}                   \* terminated
StopStep == {"idle", "send", "sending", "wait", "kill"}

Alive == {p \in Proc : pc[p] \notin Ended}

Init ==
    /\ lock = NULL
    /\ wakeup = [p \in Proc |-> NULL]
    /\ stop_requested = {}
    /\ exit_cb = {}
    /\ pc = [p \in Proc |-> "own"]
    /\ arg = [p \in Proc |-> NULL]
    /\ live = [p \in Proc |-> {}]
    /\ full = [p \in Proc |-> {}]
    /\ killed = {}
    /\ spc = [s \in Stopper |-> "idle"]
    /\ target = [s \in Stopper |-> NULL]
    /\ found = [s \in Stopper |-> NULL]

Goto(p, from, to) == pc[p] = from /\ pc' = [pc EXCEPT ![p] = to]

Acquire(t) == lock = NULL /\ lock' = t
Release(t) == lock = t /\ lock' = NULL

-----------------------------------------------------------------------------
(* The service process                                                     *)

\* The service creates a semaphore and calls set_stop_semaphore() with it,
\* for the first time or to replace the one it registered before.
BeginSet(p, w) ==
    /\ w \notin live[p]
    /\ Goto(p, "own", "set")
    /\ arg' = [arg EXCEPT ![p] = w]
    /\ live' = [live EXCEPT ![p] = @ \cup {w}]
    /\ UNCHANGED <<lock, registryVars, exit_cb, full, killed, stopperVars>>

\* Asked to stop, it calls set_stop_semaphore(NULL).
BeginClear(p) ==
    /\ Goto(p, "leave", "set")
    /\ arg' = [arg EXCEPT ![p] = NULL]
    /\ UNCHANGED <<lock, registryVars, exit_cb, semVars, killed, stopperVars>>

SetLock(p) ==
    /\ Goto(p, "set", "setting")
    /\ Acquire(p)
    /\ UNCHANGED <<registryVars, exit_cb, arg, semVars, killed, stopperVars>>

\* Mutant: the exit callback of a removed entry is not unregistered.
RemoveEntryKeepsCallback(p) ==
    /\ arg[p] = NULL
    /\ wakeup' = [wakeup EXCEPT ![p] = NULL]
    /\ stop_requested' = stop_requested \ {p}
    /\ UNCHANGED exit_cb

\* libsystemd_stoprequest_remove(): the entry and its exit callback go.
RemoveEntry(p) ==
    /\ arg[p] = NULL
    /\ wakeup' = [wakeup EXCEPT ![p] = NULL]
    /\ stop_requested' = stop_requested \ {p}
    /\ exit_cb' = IF wakeup[p] = NULL THEN exit_cb ELSE exit_cb \ {p}

\* Mutant: a second registration starts over and forgets the request.
ReplaceEntryForgets(p) ==
    /\ arg[p] # NULL
    /\ wakeup[p] # NULL
    /\ wakeup' = [wakeup EXCEPT ![p] = arg[p]]
    /\ stop_requested' = stop_requested \ {p}
    /\ UNCHANGED exit_cb

\* Mutant: a second registration is refused, the old semaphore stays.
ReplaceEntryRefused(p) ==
    /\ arg[p] # NULL
    /\ wakeup[p] # NULL
    /\ UNCHANGED <<registryVars, exit_cb>>

\* An entry that exists gets the new semaphore and keeps its flag.
ReplaceEntry(p) ==
    /\ arg[p] # NULL
    /\ wakeup[p] # NULL
    /\ wakeup' = [wakeup EXCEPT ![p] = arg[p]]
    /\ UNCHANGED <<stop_requested, exit_cb>>

\* libsystemd_stoprequest_add(): a new entry with its exit callback, or
\* -ENOMEM with nothing left behind.
AddEntry(p) ==
    /\ arg[p] # NULL
    /\ wakeup[p] = NULL
    /\ \/ /\ wakeup' = [wakeup EXCEPT ![p] = arg[p]]
          /\ exit_cb' = exit_cb \cup {p}
          /\ UNCHANGED stop_requested
       \/ UNCHANGED <<registryVars, exit_cb>>

SetApply(p) ==
    /\ Goto(p, "setting", "set_done")
    /\ RemoveEntry(p) \/ ReplaceEntry(p) \/ AddEntry(p)
    /\ UNCHANGED <<lock, arg, semVars, killed, stopperVars>>

\* set_stop_semaphore() returns.  A service that replaced its semaphore can
\* destroy the old one now.
SetUnlock(p) ==
    /\ Goto(p, "set_done", IF arg[p] = NULL THEN "closed" ELSE "check")
    /\ Release(p)
    /\ live' = [live EXCEPT ![p] = IF arg[p] = NULL THEN @ ELSE {arg[p]}]
    /\ full' = [full EXCEPT ![p] = IF arg[p] = NULL THEN @ ELSE @ \cap {arg[p]}]
    /\ UNCHANGED <<registryVars, exit_cb, arg, killed, stopperVars>>

\* After a wake-up the service deals with its event and checks again.
BeginCheck(p) ==
    /\ arg[p] # NULL
    /\ Goto(p, "own", "check")
    /\ UNCHANGED <<lock, registryVars, exit_cb, arg, semVars, killed, stopperVars>>

\* libsystemd_stop_requested() reads the flag of the caller's entry.
CheckLock(p) ==
    /\ Goto(p, "check", IF p \in stop_requested THEN "asked" ELSE "clear")
    /\ Acquire(p)
    /\ UNCHANGED <<registryVars, exit_cb, arg, semVars, killed, stopperVars>>

CheckUnlock(p) ==
    /\ \/ Goto(p, "asked", "leave")
       \/ Goto(p, "clear", "wait")
    /\ Release(p)
    /\ UNCHANGED <<registryVars, exit_cb, arg, semVars, killed, stopperVars>>

\* dmosi_semaphore_wait() on the registered semaphore returns.
Wake(p) ==
    /\ arg[p] \in full[p]
    /\ Goto(p, "wait", "own")
    /\ full' = [full EXCEPT ![p] = @ \ {arg[p]}]
    /\ UNCHANGED <<lock, registryVars, exit_cb, arg, live, killed, stopperVars>>

\* The service's own events post the semaphore it registered.
Event(p) ==
    /\ p \in Alive
    /\ arg[p] \in live[p] \ full[p]
    /\ full' = [full EXCEPT ![p] = @ \cup {arg[p]}]
    /\ UNCHANGED <<lock, registryVars, exit_cb, pc, arg, live, killed, stopperVars>>

\* Unregistered: the semaphore can be destroyed.
Destroy(p) ==
    /\ Goto(p, "closed", "return")
    /\ live' = [live EXCEPT ![p] = {}]
    /\ full' = [full EXCEPT ![p] = {}]
    /\ UNCHANGED <<lock, registryVars, exit_cb, arg, killed, stopperVars>>

\* p is terminated: its threads are gone wherever they are, a mutex they hold
\* stays held, and dmosi detaches its exit callbacks and runs them.
End(p) ==
    /\ pc' = [pc EXCEPT ![p] = IF p \in exit_cb THEN "cb" ELSE "gone"]
    /\ exit_cb' = exit_cb \ {p}

\* main() returns, asked or not; a service need not unregister first.
Leave(p) ==
    /\ pc[p] \in {"own", "return"}
    /\ End(p)
    /\ UNCHANGED <<lock, registryVars, arg, semVars, killed, stopperVars>>

\* libsystemd_stoprequest_process_exited(), in a context of dmosi's.
ExitTake(p) ==
    /\ Goto(p, "cb", "cb_done")
    /\ Acquire(p)
    /\ wakeup' = [wakeup EXCEPT ![p] = NULL]
    /\ stop_requested' = stop_requested \ {p}
    /\ UNCHANGED <<exit_cb, arg, semVars, killed, stopperVars>>

ExitUnlock(p) ==
    /\ Goto(p, "cb_done", "gone")
    /\ Release(p)
    /\ UNCHANGED <<registryVars, exit_cb, arg, semVars, killed, stopperVars>>

-----------------------------------------------------------------------------
(* The stopper: libsystemd_stop_service_internal() once it has the process *)

StopGoto(s, from, to) == spc[s] = from /\ spc' = [spc EXCEPT ![s] = to]

StopReturns(s) ==
    /\ spc' = [spc EXCEPT ![s] = "idle"]
    /\ target' = [target EXCEPT ![s] = NULL]
    /\ found' = [found EXCEPT ![s] = NULL]

BeginStop(s, p) ==
    /\ pc[p] # "gone"
    /\ StopGoto(s, "idle", IF p \in NoGrace THEN "kill" ELSE "send")
    /\ target' = [target EXCEPT ![s] = p]
    /\ UNCHANGED <<lock, registryVars, exit_cb, pc, arg, semVars, killed, found>>

\* Mutant: the search does not take the mutex.
SendFindUnlocked(s) ==
    /\ StopGoto(s, "send", "sending")
    /\ lock = NULL
    /\ found' = [found EXCEPT ![s] = wakeup[target[s]]]
    /\ UNCHANGED <<lock, registryVars, exit_cb, pc, arg, semVars, killed, target>>

\* libsystemd_stoprequest_send(): look the entry up ...
SendFind(s) ==
    /\ StopGoto(s, "send", "sending")
    /\ Acquire(s)
    /\ found' = [found EXCEPT ![s] = wakeup[target[s]]]
    /\ UNCHANGED <<registryVars, exit_cb, pc, arg, semVars, killed, target>>

\* Mutant: the flag is set and nothing posted.
SendPostSilent(s) ==
    /\ StopGoto(s, "sending", IF found[s] = NULL THEN "kill" ELSE "wait")
    /\ Release(s)
    /\ stop_requested' = IF found[s] = NULL THEN stop_requested
                                            ELSE stop_requested \cup {target[s]}
    /\ UNCHANGED <<wakeup, exit_cb, pc, arg, semVars, killed, target, found>>

\* Mutant: an early return for an unregistered process leaves the mutex taken.
SendPostKeepsLock(s) ==
    LET p == target[s] IN
    /\ StopGoto(s, "sending", IF found[s] = NULL THEN "kill" ELSE "wait")
    /\ IF found[s] = NULL
         THEN UNCHANGED <<lock, stop_requested, full>>
         ELSE /\ Release(s)
              /\ stop_requested' = stop_requested \cup {p}
              /\ full' = [full EXCEPT ![p] = @ \cup {found[s]}]
    /\ UNCHANGED <<wakeup, exit_cb, pc, arg, live, killed, target, found>>

\* ... then set the flag and post; an unregistered process is killed at once.
SendPost(s) ==
    LET p == target[s] IN
    /\ StopGoto(s, "sending", IF found[s] = NULL THEN "kill" ELSE "wait")
    /\ Release(s)
    /\ IF found[s] = NULL
         THEN UNCHANGED <<stop_requested, full>>
         ELSE /\ stop_requested' = stop_requested \cup {p}
              /\ full' = [full EXCEPT ![p] = @ \cup {found[s]}]
    /\ UNCHANGED <<wakeup, exit_cb, pc, arg, live, killed, target, found>>

\* Mutant: unregistering is taken for the end of the process.
GoneEarly(s) ==
    /\ spc[s] = "wait"
    /\ wakeup[target[s]] = NULL
    /\ StopReturns(s)
    /\ UNCHANGED <<lock, registryVars, exit_cb, pc, arg, semVars, killed>>

\* libsystemd_wait_for_exit() sees the process terminated.
Gone(s) ==
    /\ spc[s] = "wait"
    /\ target[s] \notin Alive
    /\ StopReturns(s)
    /\ UNCHANGED <<lock, registryVars, exit_cb, pc, arg, semVars, killed>>

\* libsystemd_wait_for_exit() gives up after stop_timeout_ms.
TimedOut(s) ==
    /\ target[s] \in Alive \ Patient
    /\ StopGoto(s, "wait", "kill")
    /\ UNCHANGED <<lock, registryVars, exit_cb, pc, arg, semVars, killed, target, found>>

\* dmosi_process_kill(), or the process turns out to be gone already.
Kill(s) ==
    LET p == target[s] IN
    /\ spc[s] = "kill"
    /\ KillHolder \/ lock # p
    /\ IF p \in Alive
         THEN End(p) /\ killed' = killed \cup {p}
         ELSE UNCHANGED <<pc, exit_cb, killed>>
    /\ StopReturns(s)
    /\ UNCHANGED <<lock, registryVars, arg, semVars>>

-----------------------------------------------------------------------------
OwnStep(p) ==
    \/ \E w \in Sem : BeginSet(p, w)
    \/ BeginClear(p) \/ BeginCheck(p) \/ Destroy(p) \/ Leave(p)

ProcStep(p) ==
    \/ OwnStep(p)
    \/ SetLock(p) \/ SetApply(p) \/ SetUnlock(p)
    \/ CheckLock(p) \/ CheckUnlock(p)
    \/ Wake(p) \/ Event(p)
    \/ ExitTake(p) \/ ExitUnlock(p)

StopperStep(s) ==
    \/ \E p \in Proc : BeginStop(s, p)
    \/ SendFind(s) \/ SendPost(s) \/ Gone(s) \/ TimedOut(s) \/ Kill(s)

Next ==
    \/ \E p \in Proc : ProcStep(p)
    \/ \E s \in Stopper : StopperStep(s)

Spec == Init /\ [][Next]_vars

(***************************************************************************)
(* Fairness.  A thread inside the library keeps running, and one that      *)
(* waits for the mutex gets it if it is free again and again (dmosi queues *)
(* the waiters).  Only a cooperative process owes steps of its own code.   *)
(***************************************************************************)
Fairness ==
    /\ \A p \in Proc :
        /\ WF_vars(SetApply(p)) /\ WF_vars(SetUnlock(p)) /\ WF_vars(CheckUnlock(p))
        /\ SF_vars(ExitTake(p)) /\ WF_vars(ExitUnlock(p))
    /\ \A p \in Cooperative :
        /\ WF_vars(OwnStep(p)) /\ WF_vars(Wake(p))
        /\ SF_vars(SetLock(p)) /\ SF_vars(CheckLock(p))
    /\ \A s \in Stopper :
        /\ SF_vars(SendFind(s)) /\ WF_vars(SendPost(s))
        /\ WF_vars(Gone(s)) /\ WF_vars(TimedOut(s)) /\ SF_vars(Kill(s))

FairSpec == Spec /\ Fairness

-----------------------------------------------------------------------------
(* Properties                                                              *)

\* Every variable keeps its type.
TypeOK ==
    /\ lock \in Proc \cup Stopper \cup {NULL}
    /\ wakeup \in [Proc -> Sem \cup {NULL}]
    /\ stop_requested \in SUBSET Proc
    /\ exit_cb \in SUBSET Proc
    /\ pc \in [Proc -> Outside \cup Holding \cup Ended]
    /\ arg \in [Proc -> Sem \cup {NULL}]
    /\ live \in [Proc -> SUBSET Sem]
    /\ full \in [Proc -> SUBSET Sem]
    /\ killed \in SUBSET Proc
    /\ spc \in [Stopper -> StopStep]
    /\ target \in [Stopper -> Proc \cup {NULL}]
    /\ found \in [Stopper -> Sem \cup {NULL}]

\* An entry is in the registry exactly while its exit callback will still come
\* for it (libsystemd_stoprequest_add() and _remove() change both): no entry
\* outlives its process, and no callback is left that would use a freed entry.
EntryWatched ==
    \A p \in Proc : wakeup[p] # NULL <=> p \in exit_cb \/ pc[p] = "cb"

\* A request is kept until the service unregisters, whatever it re-registers
\* in between ("keeps a stop request already received"): while a stopper that
\* was told "found" waits or is about to kill, the process is flagged, or has
\* unregistered and can never come back to the registry.
RequestSticks ==
    \A s \in Stopper :
        spc[s] \in {"wait", "kill"} /\ found[s] # NULL =>
            \/ target[s] \in stop_requested
            \/ wakeup[target[s]] = NULL

\* A service that sleeps on its semaphore although it was asked to stop has a
\* post to wake it, even if the request came between its last check and the
\* wait, or found an older semaphore: the flag is read under the mutex and the
\* post is made under it.
NoLostWakeup ==
    \A p \in Proc : pc[p] = "wait" /\ p \in stop_requested => arg[p] \in full[p]

\* libsystemd_stoprequest_send() never posts a semaphore its owner has
\* destroyed: set_stop_semaphore() waits for a post in progress to finish.
PostsOnlyLive ==
    \A s \in Stopper :
        spc[s] = "sending" /\ found[s] # NULL => found[s] \in live[target[s]]

\* Every stop returns, whatever the service it stops does
\* (libsystemd_stop_service_internal() blocks for at most stop_timeout_ms).
StopCompletes == \A s \in Stopper : spc[s] # "idle" ~> spc[s] = "idle"

\* A registered process that keeps running its main loop ends by itself once
\* it is asked; the timeout of a Patient process never comes to its help.
RequestHeard == \A p \in Patient : p \in stop_requested ~> p \notin Alive

-----------------------------------------------------------------------------
\* The stop contract: a stop returns only once its process has ended, and a
\* process that does not return from main() was killed by a stop of its own.
Contract == INSTANCE StopContract WITH alive <- Alive, stop <- target

ContractSafe == Contract!Spec
ContractFair == Contract!FairSpec

-----------------------------------------------------------------------------
(* The inductive invariant                                                 *)

\* Whoever is in the registry holds the mutex, and the mutex is held by a
\* thread that is in the registry or died there.
LockInv ==
    /\ \A p \in Proc : pc[p] \in Holding \cup {"cb_done"} => lock = p
    /\ \A p \in Proc : lock = p => pc[p] \in Holding \cup Ended
    /\ \A s \in Stopper : spc[s] = "sending" <=> lock = s

\* A stopper has a target exactly while it is stopping.
TargetInv == \A s \in Stopper : target[s] = NULL <=> spc[s] = "idle"

\* What a stopper's search of the registry says while it goes on.
FoundInv ==
    \A s \in Stopper :
        /\ spc[s] \in {"idle", "send"} => found[s] = NULL
        /\ spc[s] = "wait" => found[s] # NULL
        /\ spc[s] = "sending" => found[s] = wakeup[target[s]]

\* A flag belongs to an entry; the entry of a process outside
\* set_stop_semaphore() names the semaphore it passed last, which is live.
EntryInv ==
    /\ \A p \in stop_requested : wakeup[p] # NULL
    /\ \A p \in Proc :
        /\ wakeup[p] # NULL => wakeup[p] \in live[p]
        /\ arg[p] # NULL => arg[p] \in live[p]
        /\ wakeup[p] # NULL /\ pc[p] \in Outside \cup {"set_done", "clear", "asked"}
              /\ pc[p] # "set" => wakeup[p] = arg[p]
        /\ pc[p] \in {"leave", "check", "wait", "clear", "asked"} => arg[p] # NULL
        /\ pc[p] = "clear" => p \notin stop_requested

\* A process that is through with set_stop_semaphore(NULL).
Unregistered(p) ==
    \/ pc[p] \in {"closed", "return", "gone", "cb_done"}
    \/ pc[p] = "set_done" /\ arg[p] = NULL

RequestInv ==
    \A s \in Stopper :
        spc[s] \in {"wait", "kill"} /\ found[s] # NULL =>
            target[s] \in stop_requested \/ Unregistered(target[s])

UnregisteredInv ==
    \A p \in Proc :
        /\ Unregistered(p) => wakeup[p] = NULL
        /\ pc[p] \in {"closed", "return"} => arg[p] = NULL
        /\ pc[p] \in Ended => p \notin exit_cb

\* The inductive invariant: the properties above with what they rest on.
IInv ==
    /\ TypeOK
    /\ TargetInv
    /\ LockInv
    /\ FoundInv
    /\ EntryWatched
    /\ EntryInv
    /\ NoLostWakeup
    /\ RequestInv
    /\ UnregisteredInv
=============================================================================
