-------------------------- MODULE ServiceLifecycle --------------------------
(***************************************************************************)
(* The life of one process-backed unit (libsystemd/src/serviceapi.c):      *)
(* starting it, stopping it, the exit callback that releases its PID and   *)
(* applies the restart policy, and a launcher handing the unit over to the *)
(* process it spawned (libsystemd_notify_main_pid()).                      *)
(*                                                                         *)
(* The fields of a unit are not guarded by any lock, and dmosi runs exit   *)
(* callbacks in a context of its own.  Each step below is therefore what   *)
(* one context does between two points where another context can run.  The *)
(* callers serialize their calls, as the module asks them to; nobody can   *)
(* serialize the end of a process with them.                               *)
(* Asking a process to stop is reduced to its outcome (StopContract): the  *)
(* process was registered and is waited for, or it was not.                *)
(***************************************************************************)
EXTENDS Naturals

CONSTANTS
    Pid,         \* process ids of dmosi
    Caller,      \* threads that call start_service() and stop_service()
    NULL,        \* no process: a pid of -1, a handle of NULL
    Settings     \* what the behaviours contain: records as in Assumptions

FaultKinds == {"early_exit", "kill_fails", "attach_fails", "spawn_fails", "self_stop"}

ASSUME Assumptions ==
    /\ Pid \cap Caller = {}
    /\ NULL \notin Pid \cup Caller
    /\ \A s \in Settings :
         /\ s.policies \subseteq {"no", "always", "on-failure"}
         /\ s.launcher \in BOOLEAN    \* whether the unit's program is a launcher
         /\ s.exits \in {"no",        \* exit callbacks run only between two calls
                         "atomic",    \* anywhere, and to their end at once
                         "free"}      \* anywhere, step by step
         /\ s.handover \in BOOLEAN    \* whether a hand-over may fall into a call
         /\ s.faults \subseteq FaultKinds  \* which rare events can happen

VARIABLES
    setting,   \* the element of Settings the behaviour has (never changes)
    restart_policy,  \* service->restart_policy (never changes)
    pid,       \* service->pid
    last_pid,  \* service->last_pid
    handle,    \* service->exit_callback_handle: the process it was made on, or NULL
    state,     \* state[i]: what dmosi knows of process i
    cbs,       \* cbs[i]: exit callbacks of the unit registered on i
    firing,    \* firing[i]: callbacks of the ended process i still to run
    failed,    \* ended processes whose exit status was not 0
    role,      \* role[i]: what process i is to the unit
    payload,   \* payload[i]: the process the launcher i spawned, or NULL
    adopt,     \* adopt[i]: where i is in notify_main_pid()
    pc,        \* pc[t]: where a caller, or the exit context of a process, is
    proc,      \* proc[t]: the process that context works on
    again,     \* callers that run `service restart`
    stopped    \* a stop returned 0 and no start or hand-over began since

unitVars == <<pid, last_pid, handle>>
osVars   == <<state, cbs, firing, failed>>
roleVars == <<role, payload, adopt>>
frozen   == <<setting, restart_policy>>
vars == <<frozen, unitVars, osVars, roleVars, pc, proc, again, stopped>>

Launcher   == setting.launcher
ExitDuring == setting.exits
Faults     == setting.faults

Thread == Caller \cup Pid

Running(i) == i \in Pid /\ state[i] = "running"

\* dmosi_process_find_by_id(): a terminated process is found until dmosi
\* frees it.
Found(i) == i \in Pid /\ state[i] # "none"

\* An API call, or the handling of an exit, is going on.
Busy     == (\E c \in Caller : pc[c] \notin {"idle", "again"}) \/ (\E i \in Pid : adopt[i] # "no")
Handling == \E i \in Pid : pc[i] # "idle"

MayStep == ExitDuring # "free" => ~Handling
MayCall == MayStep /\ ~Busy

\* Process ids nobody remembers; dmosi hands these out.  The number of Pid is
\* the bound on processes that exist at once: a spawn waits for a free one.
Fresh == {i \in Pid : /\ state[i] = "none" /\ i \notin {pid, last_pid}
                      /\ \A t \in Thread : proc[t] # i
                      /\ \A j \in Pid : payload[j] # i}

Init ==
    /\ setting \in Settings
    /\ restart_policy \in setting.policies
    /\ pid = NULL /\ last_pid = NULL /\ handle = NULL
    /\ state = [i \in Pid |-> "none"]
    /\ cbs = [i \in Pid |-> 0]
    /\ firing = [i \in Pid |-> 0]
    /\ failed = {}
    /\ role = [i \in Pid |-> "none"]
    /\ payload = [i \in Pid |-> NULL]
    /\ adopt = [i \in Pid |-> "no"]
    /\ pc = [t \in Thread |-> "idle"]
    /\ proc = [t \in Thread |-> NULL]
    /\ again = {}
    /\ stopped = FALSE

Goto(t, from, to) == pc[t] = from /\ pc' = [pc EXCEPT ![t] = to]

\* A stop returns 0 or -ESRCH; `service restart` goes on to the start.
StopReturns(c) ==
    /\ pc' = [pc EXCEPT ![c] = IF c \in again THEN "again" ELSE "idle"]
    /\ proc' = [proc EXCEPT ![c] = NULL]

\* The call returns, or the exit context goes on to the next callback.
Returns(t) ==
    /\ pc' = [pc EXCEPT ![t] = IF t \in Pid /\ firing[t] > 0 THEN "fire" ELSE "idle"]
    /\ proc' = [proc EXCEPT ![t] = NULL]

Spawned(i, as) ==
    /\ state' = [state EXCEPT ![i] = "running"]
    /\ failed' = failed \ {i}
    /\ role' = [role EXCEPT ![i] = as]

-----------------------------------------------------------------------------
(* Attaching and detaching the exit callback                               *)

\* A callback can only be put on a process that has not ended.
Attach ==
    \/ /\ Running(pid)
       /\ handle' = pid
       /\ cbs' = [cbs EXCEPT ![pid] = @ + 1]
    \/ /\ ~Running(pid) \/ "attach_fails" \in Faults
       /\ handle' = NULL
       /\ UNCHANGED cbs

\* Mutant: the callback is unregistered whether or not it is still there.
DetachBlind(i) ==
    /\ handle' = NULL
    /\ cbs' = [cbs EXCEPT ![i] = @ - 1]

\* Unregistering finds the callback only on the process it was put on, and
\* only before dmosi detached the list.
Detach(i) ==
    /\ handle' = NULL
    /\ cbs' = IF handle = i /\ cbs[i] > 0 THEN [cbs EXCEPT ![i] = @ - 1] ELSE cbs

-----------------------------------------------------------------------------
(* libsystemd_start_service_internal()                                     *)

CallStart(c) ==
    /\ MayCall
    /\ Goto(c, "idle", "start")
    /\ stopped' = FALSE
    /\ UNCHANGED <<unitVars, osVars, roleVars, proc, again>>

\* The second half of `service restart`.
RestartStart(c) ==
    /\ MayCall
    /\ Goto(c, "again", "start")
    /\ again' = again \ {c}
    /\ stopped' = FALSE
    /\ UNCHANGED <<unitVars, osVars, roleVars, proc>>

\* Mutant: a unit that runs is started once more.
StartCheckBlind(t) ==
    /\ Goto(t, "start", "spawn")
    /\ UNCHANGED <<unitVars, osVars, roleVars, proc, stopped>>

\* -EALREADY, or go on to the spawn.
StartCheck(t) ==
    /\ pc[t] = "start"
    /\ IF Found(pid)
         THEN Returns(t)
         ELSE Goto(t, "start", "spawn") /\ UNCHANGED proc
    /\ UNCHANGED <<unitVars, osVars, roleVars, stopped>>

\* Dmod_RunModuleDetached(): the process runs from here on.
StartSpawn(t) ==
    /\ pc[t] = "spawn"
    /\ \/ \E i \in Fresh :
            /\ Spawned(i, "unit")
            /\ proc' = [proc EXCEPT ![t] = i]
            /\ Goto(t, "spawn", "record")
       \/ /\ "spawn_fails" \in Faults
          /\ Returns(t)
          /\ UNCHANGED <<state, failed, role>>
    /\ UNCHANGED <<unitVars, cbs, firing, payload, adopt, stopped>>

StartRecord(t) ==
    /\ Goto(t, "record", "attach")
    /\ pid' = proc[t]
    /\ last_pid' = proc[t]
    /\ UNCHANGED <<handle, osVars, roleVars, proc, stopped>>

StartAttach(t) ==
    /\ pc[t] = "attach"
    /\ Attach
    /\ Returns(t)
    /\ UNCHANGED <<pid, last_pid, state, firing, failed, roleVars, stopped>>

StartStep(t) == StartCheck(t) \/ StartSpawn(t) \/ StartRecord(t) \/ StartAttach(t)

-----------------------------------------------------------------------------
(* A process ends; libsystemd_service_exit_callback()                      *)

\* dmosi takes the callbacks off the process and runs them after it ended.
\* A call the process was in the middle of is never finished.
Ends(i) ==
    /\ state' = [state EXCEPT ![i] = "ended"]
    /\ firing' = [firing EXCEPT ![i] = cbs[i]]
    /\ cbs' = [cbs EXCEPT ![i] = 0]
    /\ adopt' = [adopt EXCEPT ![i] = "no"]

\* A process whose callback is not attached yet.
Newborn(i) ==
    \/ \E t \in Thread : proc[t] = i /\ pc[t] \in {"record", "attach"}
    \/ \E j \in Pid : adopt[j] # "no" /\ payload[j] = i

\* Process i returns from main(); bad: with an exit status other than 0.
OwnExit(i, bad) ==
    /\ Running(i)
    /\ adopt[i] = "no"
    /\ Newborn(i) => "early_exit" \in Faults
    /\ cbs[i] > 0 => /\ ExitDuring = "no" => ~Busy
                     /\ ExitDuring # "free" => ~Handling
    /\ Ends(i)
    /\ failed' = IF bad THEN failed \cup {i} ELSE failed
    /\ pc' = [pc EXCEPT ![i] = IF cbs[i] > 0 THEN "fire" ELSE "idle"]
    /\ UNCHANGED <<unitVars, role, payload, proc, stopped>>

\* The policy asks for a restart after the end of process i.
Due(i) == restart_policy = "always" \/ (restart_policy = "on-failure" /\ i \in failed)

\* Mutant: the PID of a process that ended is kept.
FireKeepsPid(i) ==
    /\ pc[i] = "fire"
    /\ handle' = NULL
    /\ firing' = [firing EXCEPT ![i] = @ - 1]
    /\ pc' = [pc EXCEPT ![i] = IF Due(i) THEN "start" ELSE IF firing[i] > 1 THEN "fire" ELSE "idle"]
    /\ UNCHANGED <<pid, last_pid, state, cbs, failed, roleVars, proc, stopped>>

\* Mutant: on-failure restarts what succeeded.
FireInverted(i) ==
    /\ pc[i] = "fire"
    /\ handle' = NULL
    /\ pid' = NULL
    /\ firing' = [firing EXCEPT ![i] = @ - 1]
    /\ pc' = [pc EXCEPT ![i] =
                CASE restart_policy = "always" \/ (restart_policy = "on-failure" /\ i \notin failed) -> "start"
                  [] firing[i] > 1 -> "fire"
                  [] OTHER -> "idle"]
    /\ UNCHANGED <<last_pid, state, cbs, failed, roleVars, proc, stopped>>

\* The callback releases the PID and, if the policy says so, starts the unit.
Fire(i) ==
    /\ pc[i] = "fire"
    /\ handle' = NULL
    /\ pid' = NULL
    /\ firing' = [firing EXCEPT ![i] = @ - 1]
    /\ pc' = [pc EXCEPT ![i] =
                IF Due(i) THEN "start" ELSE IF firing[i] > 1 THEN "fire" ELSE "idle"]
    /\ UNCHANGED <<last_pid, state, cbs, failed, roleVars, proc, stopped>>

\* dmosi frees a process that has ended and whose callbacks have run.
Reap(i) ==
    /\ state[i] = "ended"
    /\ pc[i] = "idle"
    /\ state' = [state EXCEPT ![i] = "none"]
    /\ failed' = failed \ {i}
    /\ role' = [role EXCEPT ![i] = "none"]
    /\ payload' = [payload EXCEPT ![i] = NULL]
    /\ UNCHANGED <<unitVars, cbs, firing, adopt, pc, proc, stopped>>

-----------------------------------------------------------------------------
(* libsystemd_stop_service_internal()                                      *)

CallStop(c) ==
    /\ MayCall
    /\ Goto(c, "idle", "stop")
    /\ UNCHANGED <<unitVars, osVars, roleVars, proc, again, stopped>>

\* service.c: stop, and start after it unless the stop failed.
CallRestart(c) ==
    /\ MayCall
    /\ Goto(c, "idle", "stop")
    /\ again' = again \cup {c}
    /\ UNCHANGED <<unitVars, osVars, roleVars, proc, stopped>>

StopDone(c) ==
    /\ StopReturns(c)
    /\ pid' = NULL
    /\ stopped' = TRUE

\* -ESRCH, or the process to stop.
StopCheck(c) ==
    /\ pc[c] = "stop"
    /\ IF Found(pid)
         THEN /\ Goto(c, "stop", "detach")
              /\ proc' = [proc EXCEPT ![c] = pid]
              /\ UNCHANGED pid
         ELSE StopReturns(c) /\ pid' = NULL
    /\ UNCHANGED <<last_pid, handle, osVars, roleVars, stopped>>

\* Mutant: the exit callback stays on the process to stop.
StopDetachNot(c) ==
    /\ Goto(c, "detach", "ask")
    /\ UNCHANGED <<unitVars, osVars, roleVars, proc, stopped>>

StopDetach(c) ==
    /\ Goto(c, "detach", "ask")
    /\ Detach(proc[c])
    /\ UNCHANGED <<pid, last_pid, state, firing, failed, roleVars, proc, stopped>>

\* libsystemd_request_graceful_stop(): the tracked PID is read again; the
\* process registered and is waited for, or it did not (or stop_timeout_ms is
\* 0) and is killed.
StopAsk(c) ==
    /\ \/ Found(pid) /\ Goto(c, "ask", "wait")
       \/ Goto(c, "ask", "find")
    /\ proc' = [proc EXCEPT ![c] = pid]
    /\ UNCHANGED <<unitVars, osVars, roleVars, stopped>>

StopGone(c) ==
    /\ pc[c] = "wait"
    /\ ~Running(proc[c])
    /\ StopDone(c)
    /\ UNCHANGED <<last_pid, handle, osVars, roleVars>>

StopTimeout(c) ==
    /\ Running(proc[c])
    /\ Goto(c, "wait", "find")
    /\ UNCHANGED <<unitVars, osVars, roleVars, proc, stopped>>

\* The tracked PID is read a third time.
StopFind(c) ==
    /\ pc[c] = "find"
    /\ IF Found(pid)
         THEN /\ Goto(c, "find", "kill")
              /\ proc' = [proc EXCEPT ![c] = pid]
              /\ UNCHANGED <<pid, stopped>>
         ELSE StopDone(c)
    /\ UNCHANGED <<last_pid, handle, osVars, roleVars>>

\* dmosi_process_kill() succeeds, or fails and the stop returns its error.
StopKill(c) ==
    LET i == proc[c] IN
    /\ pc[c] = "kill"
    /\ UNCHANGED <<unitVars, failed, role, payload, stopped>>
    /\ \/ /\ IF Running(i) THEN Ends(i) ELSE UNCHANGED <<state, cbs, firing, adopt>>
          /\ pc' = [pc EXCEPT ![c] = "clear",
                              ![i] = IF cbs[i] > 0 THEN "fire" ELSE @]
          /\ UNCHANGED <<proc, again>>
       \/ /\ "kill_fails" \in Faults
          /\ Returns(c)
          /\ again' = again \ {c}
          /\ UNCHANGED <<state, cbs, firing, adopt>>

StopClear(c) ==
    /\ pc[c] = "clear"
    /\ StopDone(c)
    /\ UNCHANGED <<last_pid, handle, osVars, roleVars>>

StopStep(c) ==
    \/ StopKill(c)
    \/ /\ \/ StopCheck(c) \/ StopDetach(c) \/ StopAsk(c) \/ StopGone(c)
          \/ StopTimeout(c) \/ StopFind(c) \/ StopClear(c)
       /\ UNCHANGED again

\* The unit's own process stops the unit: it is not asked, and the kill of the
\* caller's process does not return.
SelfStop(i) ==
    /\ "self_stop" \in Faults
    /\ MayCall
    /\ pid = i /\ Running(i)
    /\ state' = [state EXCEPT ![i] = "ended"]
    /\ handle' = NULL
    /\ LET left == IF handle = i THEN cbs[i] - 1 ELSE cbs[i] IN
         /\ cbs' = [cbs EXCEPT ![i] = 0]
         /\ firing' = [firing EXCEPT ![i] = left]
         /\ pc' = [pc EXCEPT ![i] = IF left > 0 THEN "fire" ELSE "idle"]
    /\ UNCHANGED <<pid, last_pid, failed, roleVars, proc, stopped>>

-----------------------------------------------------------------------------
(* libsystemd_fill_status()                                                *)

Status ==
    IF pid = NULL
      THEN IF last_pid = NULL THEN [state |-> "created", pid |-> NULL]
                              ELSE [state |-> "terminated", pid |-> last_pid]
      ELSE [state |-> IF Running(pid) THEN "running" ELSE "terminated", pid |-> pid]

-----------------------------------------------------------------------------
(* libsystemd_notify_main_pid(NULL, q), called by a launcher               *)

\* The launcher spawns what the unit is about, detached.
SpawnPayload(i) ==
    /\ Launcher
    /\ Running(i) /\ role[i] = "unit" /\ payload[i] = NULL
    /\ \A j \in Pid : payload[j] # i
    /\ \E q \in Fresh :
         /\ Spawned(q, "payload")
         /\ payload' = [payload EXCEPT ![i] = q]
    /\ UNCHANGED <<unitVars, cbs, firing, adopt, pc, proc, stopped>>

\* Mutant: the launcher keeps the exit callback.
AdoptKeepsCallback(i) ==
    LET q == payload[i] IN
    /\ MayCall
    /\ Running(i) /\ adopt[i] = "no"
    /\ Found(q) /\ role[q] = "payload"
    /\ Running(q) \/ "early_exit" \in Faults
    /\ pid = i
    /\ adopt' = [adopt EXCEPT ![i] = "set"]
    /\ stopped' = FALSE
    /\ UNCHANGED <<unitVars, osVars, role, payload, pc, proc>>

\* The caller is the unit's tracked process and its payload is there.
AdoptDetach(i) ==
    LET q == payload[i] IN
    /\ IF setting.handover THEN MayStep ELSE MayCall
    /\ Running(i) /\ adopt[i] = "no"
    /\ Found(q) /\ role[q] = "payload"
    /\ Running(q) \/ "early_exit" \in Faults
    /\ pid = i
    /\ Detach(i)
    /\ adopt' = [adopt EXCEPT ![i] = "set"]
    /\ stopped' = FALSE
    /\ UNCHANGED <<pid, last_pid, state, firing, failed, role, payload, pc, proc>>

AdoptSet(i) ==
    /\ adopt[i] = "set"
    /\ adopt' = [adopt EXCEPT ![i] = "attach"]
    /\ pid' = payload[i]
    /\ last_pid' = payload[i]
    /\ role' = [role EXCEPT ![i] = "handed", ![payload[i]] = "unit"]
    /\ UNCHANGED <<handle, osVars, payload, pc, proc, stopped>>

AdoptAttach(i) ==
    /\ adopt[i] = "attach"
    /\ adopt' = [adopt EXCEPT ![i] = "no"]
    /\ Attach
    /\ UNCHANGED <<pid, last_pid, state, firing, failed, role, payload, pc, proc, stopped>>

-----------------------------------------------------------------------------
CallProceeds(c) ==
    /\ MayStep
    /\ \/ StartStep(c) /\ UNCHANGED again
       \/ StopStep(c)
    /\ UNCHANGED frozen

CallerStep(c) ==
    \/ CallStart(c) \/ CallStop(c) \/ CallRestart(c) \/ RestartStart(c)
    \/ CallProceeds(c)

AdoptProceeds(i) ==
    /\ MayStep
    /\ AdoptSet(i) \/ AdoptAttach(i)
    /\ UNCHANGED <<frozen, again>>

ProcessStep(i) ==
    \/ AdoptProceeds(i)
    \/ /\ \/ \E bad \in BOOLEAN : OwnExit(i, bad)
          \/ SelfStop(i) \/ SpawnPayload(i) \/ AdoptDetach(i)
       /\ UNCHANGED again

\* What runs in a context of dmosi's.
ExitStep(i) == (Fire(i) \/ StartStep(i) \/ Reap(i)) /\ UNCHANGED <<frozen, again>>

Next ==
    /\ \/ \E c \in Caller : CallerStep(c)
       \/ \E i \in Pid : ProcessStep(i) \/ ExitStep(i)
    /\ UNCHANGED frozen

Spec == Init /\ [][Next]_vars

\* A call, a hand-over and the handling of an exit go on once begun, and dmosi
\* frees what has ended.  No process has to end, and nobody has to call.
FairSpec ==
    /\ Spec
    /\ \A c \in Caller : WF_vars(CallProceeds(c)) /\ WF_vars(RestartStart(c) /\ UNCHANGED frozen)
    /\ \A i \in Pid : WF_vars(AdoptProceeds(i)) /\ WF_vars(ExitStep(i))

-----------------------------------------------------------------------------
(* Properties                                                              *)

\* Every variable keeps its type.
TypeOK ==
    /\ setting \in Settings
    /\ restart_policy \in setting.policies
    /\ pid \in Pid \cup {NULL} /\ last_pid \in Pid \cup {NULL}
    /\ handle \in Pid \cup {NULL}
    /\ state \in [Pid -> {"none", "running", "ended"}]
    /\ cbs \in [Pid -> Nat] /\ firing \in [Pid -> Nat]
    /\ failed \in SUBSET Pid
    /\ role \in [Pid -> {"none", "unit", "payload", "handed"}]
    /\ payload \in [Pid -> Pid \cup {NULL}]
    /\ adopt \in [Pid -> {"no", "set", "attach"}]
    /\ pc \in [Thread -> {"idle", "fire", "start", "spawn", "record", "attach",
                          "stop", "detach", "ask", "wait", "find", "kill", "clear",
                          "again"}]
    /\ proc \in [Thread -> Pid \cup {NULL}]
    /\ again \subseteq Caller
    /\ stopped \in BOOLEAN

Quiescent == ~Busy /\ ~Handling

UnitRuns(i) == Running(i) /\ role[i] = "unit"

\* The status never lies: while no call is in progress it reports a running
\* process exactly if the unit has one, and it is that process.
StatusTrue ==
    Quiescent =>
        /\ Status.state = "running" <=> \E i \in Pid : UnitRuns(i)
        /\ \A i \in Pid : UnitRuns(i) => Status = [state |-> "running", pid |-> i]

\* The process the unit tracks, and no other, has the exit callback: a launcher
\* that handed the unit over takes nothing down with it, and the next exit of
\* the unit is noticed whatever was started, stopped or handed over before.  A
\* failed kill, a failed registration or an end before it void this.
Supervised ==
    Quiescent /\ Faults \subseteq {"spawn_fails", "self_stop"} =>
        \A i \in Pid : Running(i) =>
            /\ pid = i <=> role[i] = "unit"
            /\ cbs[i] = IF pid = i THEN 1 ELSE 0
            /\ pid = i => handle = i

\* After a stop that returned 0 the unit stays down until it is started: a stop
\* never triggers a restart, and it leaves no process of the unit behind.
StopSticks == stopped /\ Quiescent => ~\E i \in Pid : UnitRuns(i)

\* start_service() says -EALREADY only of a process that runs or whose end is
\* being handled, and stop_service() -ESRCH only if no process of the unit runs;
\* only a failed spawn is no excuse for another answer.
AnswersTrue ==
    [][Faults \subseteq {"spawn_fails"} =>
       /\ \A t \in Thread : StartCheck(t) /\ Found(pid) =>
            Running(pid) \/ pc[pid] # "idle"
       /\ \A c \in Caller : StopCheck(c) /\ ~Found(pid) =>
            ~\E i \in Pid : UnitRuns(i)]_vars

\* A unit whose end is noticed, and whose policy asks for it, runs again, unless
\* it is stopped, the module cannot be spawned, or all of Pid is taken (which
\* is the model's bound).
RestartHonoured ==
    \A i \in Pid :
        pc[i] = "fire" /\ Due(i) ~>
            \/ \E j \in Pid : UnitRuns(j)
            \/ stopped \/ Fresh = {} \/ "spawn_fails" \in Faults
=============================================================================
