----------------------- MODULE ServiceLifecycle_proofs -----------------------
(***************************************************************************)
(* What holds of one unit for any number of processes and callers, as long *)
(* as either exits are handled between the calls, whatever the restart     *)
(* policy, or exits come at any point and the unit is not restarted: the   *)
(* two ways of the run `supervision`, with all its faults.                 *)
(***************************************************************************)
EXTENDS ServiceLifecycle, TLAPS

\* The settings the theorems are about.
Calm(s) ==
    /\ s.handover = FALSE
    /\ s.exits = "no" \/ (s.exits = "atomic" /\ s.policies = {"no"})

\* Nothing but a spawn fails; a callback is put on every process that runs and
\* stays there.
OnlySpawnsFail(s) == s.faults \subseteq {"spawn_fails"}
CallbacksStay(s)  == s.faults \subseteq {"spawn_fails", "self_stop"}

Active(c) == pc[c] \notin {"idle", "again"}

\* A stop has unregistered the callback, and not returned.
Ending == {"ask", "wait", "find", "kill", "clear"}

-----------------------------------------------------------------------------
(* The inductive invariant                                                 *)

\* TypeOK, but for the counters, whose range is a matter of CallbackInv.
Typed ==
    /\ setting \in Settings
    /\ restart_policy \in setting.policies
    /\ pid \in Pid \cup {NULL} /\ last_pid \in Pid \cup {NULL}
    /\ handle \in Pid \cup {NULL}
    /\ state \in [Pid -> {"none", "running", "ended"}]
    /\ cbs = [i \in Pid |-> cbs[i]] /\ firing = [i \in Pid |-> firing[i]]
    /\ failed \in SUBSET Pid
    /\ role \in [Pid -> {"none", "unit", "payload", "handed"}]
    /\ payload \in [Pid -> Pid \cup {NULL}]
    /\ adopt \in [Pid -> {"no", "set", "attach"}]
    /\ pc \in [Thread -> {"idle", "fire", "start", "spawn", "record", "attach",
                          "stop", "detach", "ask", "wait", "find", "kill", "clear",
                          "again"}]
    /\ proc \in [Thread -> Pid \cup {NULL}]
    /\ again \subseteq Caller
    /\ stopped \in BOOLEAN

\* A callback is on a running process, until it fires; and the unit's handle is
\* of such a one.
Counted ==
    /\ \A i \in Pid : cbs[i] \in Nat /\ firing[i] \in Nat
    /\ \A i \in Pid : state[i] # "running" => cbs[i] = 0
    /\ \A i \in Pid : pc[i] = "fire" => firing[i] > 0
    /\ \A i \in Pid : pc[i] # "idle" => state[i] = "ended"
    /\ handle # NULL => \/ state[handle] = "running" /\ cbs[handle] > 0
                        \/ pc[handle] = "fire"

\* Callers and launchers take turns, and one exit is handled at a time, which
\* only a unit without restarts has in the middle of a call.
TurnInv ==
    /\ \A c, d \in Caller : Active(c) /\ Active(d) => c = d
    /\ \A i, j \in Pid : adopt[i] # "no" /\ adopt[j] # "no" => i = j
    /\ \A c \in Caller, i \in Pid : ~(Active(c) /\ adopt[i] # "no")
    /\ \A i, j \in Pid : pc[i] # "idle" /\ pc[j] # "idle" => i = j
    /\ setting.exits = "no" => ~(Busy /\ Handling)

\* What the contexts of callers and of exits can be doing.
ContextInv ==
    /\ \A c \in Caller : pc[c] # "fire"
    /\ \A i \in Pid : pc[i] \in {"idle", "fire", "start", "spawn", "record", "attach"}
    /\ \A i \in Pid : pc[i] # "idle" => state[i] = "ended"
    /\ \A i \in Pid : restart_policy = "no" => pc[i] \in {"idle", "fire"}

\* There is one callback, where the handle says, and one that fires is that of
\* the tracked process.
CallbackInv ==
    /\ \A i \in Pid : cbs[i] = IF handle = i /\ state[i] = "running" THEN 1 ELSE 0
    /\ \A i \in Pid : firing[i] = IF pc[i] = "fire" THEN 1 ELSE 0
    /\ \A i \in Pid : pc[i] = "fire" => handle = i
    /\ handle # NULL => handle = pid /\ (Running(pid) \/ pc[pid] = "fire")

\* The process of the unit is the tracked one, once it is recorded; and if
\* callbacks stay, a tracked process has one, unless a call is about to give it
\* one or has just taken it.
UnitInv ==
    /\ \A i \in Pid : UnitRuns(i) /\ i # pid => \E t \in Thread : pc[t] = "record" /\ proc[t] = i
    /\ Running(pid) => role[pid] = "unit"
    /\ (\/ OnlySpawnsFail(setting) /\ pid # NULL
        \/ CallbacksStay(setting) /\ Running(pid)) =>
          \/ handle = pid
          \/ \E t \in Thread : pc[t] = "attach"
          \/ \E c \in Caller : pc[c] \in Ending
          \/ \E i \in Pid : adopt[i] # "no"

\* What a context knows of the process it works on; one that was just spawned
\* may have ended.
Knows(t) ==
    /\ pc[t] \in {"spawn", "record"} => ~Found(pid)
    /\ pc[t] \in {"record", "attach"} => /\ proc[t] \in Pid
                                         /\ Running(proc[t]) => role[proc[t]] = "unit"
                                         /\ CallbacksStay(setting) => Running(proc[t])
    /\ pc[t] = "attach" => pid = proc[t] /\ handle = NULL
    /\ pc[t] = "detach" => proc[t] \in Pid /\ pid \in {proc[t], NULL}
    /\ pc[t] \in Ending => handle = NULL
    /\ pc[t] \in {"wait", "kill", "clear"} => pid = proc[t] /\ pid \in Pid
    /\ pc[t] = "clear" => ~Running(pid)

CallInv == \A t \in Thread : Knows(t)

\* A launcher that hands over runs, and its payload unless it has ended, and the
\* callback is on neither.
HandOverInv ==
    \A i \in Pid :
        /\ adopt[i] # "no" => /\ handle = NULL /\ Running(i) /\ payload[i] \in Pid
                              /\ CallbacksStay(setting) => Running(payload[i])
        /\ adopt[i] = "set" => /\ pid = i /\ UnitRuns(i)
                               /\ Running(payload[i]) => role[payload[i]] = "payload"
        /\ adopt[i] = "attach" => /\ pid = payload[i]
                                  /\ Running(pid) => role[pid] = "unit"

\* After a stop nothing is tracked and nothing about to start.
StopInv ==
    stopped => /\ pid = NULL
               /\ \A t \in Thread : pc[t] \notin {"start", "spawn", "record", "attach"}

IInv ==
    /\ Typed
    /\ TurnInv
    /\ ContextInv
    /\ CallbackInv
    /\ UnitInv
    /\ CallInv
    /\ HandOverInv
    /\ StopInv

\* Only t is in a call or in the handling of an exit.
Alone(t) ==
    /\ \A u \in Thread \ {t} : pc[u] \in {"idle", "again"}
    /\ \A i \in Pid : adopt[i] = "no"

-----------------------------------------------------------------------------
(* Types                                                                   *)

LEMMA TypeInit == Init => Typed
<1> SUFFICES ASSUME Init PROVE Typed
  OBVIOUS
<1> USE Assumptions DEF Init, Thread
<1>1. setting \in Settings /\ restart_policy \in setting.policies
  OBVIOUS
<1>2. pc \in [Thread -> {"idle"}] /\ proc \in [Thread -> {NULL}]
  OBVIOUS
<1>3. /\ state \in [Pid -> {"none"}] /\ role \in [Pid -> {"none"}] /\ adopt \in [Pid -> {"no"}]
      /\ cbs \in [Pid -> {0}] /\ firing \in [Pid -> {0}] /\ payload \in [Pid -> {NULL}]
  OBVIOUS
<1> QED
  BY <1>1, <1>2, <1>3 DEF Typed

\* A step of a start keeps the types, in any context.
LEMMA TypeStart ==
  ASSUME Typed, NEW t \in Thread, StartStep(t), UNCHANGED <<frozen, again>>
  PROVE  Typed'
<1> USE Assumptions DEF Typed, Thread, unitVars, osVars, roleVars, frozen
<1>1. CASE StartCheck(t)
  BY <1>1 DEF StartCheck, Returns, Goto
<1>2. CASE StartSpawn(t)
  BY <1>2 DEF StartSpawn, Spawned, Returns, Goto, Fresh
<1>3. CASE StartRecord(t)
  BY <1>3 DEF StartRecord, Goto
<1>4. CASE StartAttach(t)
  BY <1>4 DEF StartAttach, Attach, Returns
<1> QED
  BY <1>1, <1>2, <1>3, <1>4 DEF StartStep

\* So does a step of a stop ...
LEMMA TypeStop ==
  ASSUME Typed, NEW c \in Caller, StopStep(c), UNCHANGED frozen
  PROVE  Typed'
<1> USE Assumptions DEF Typed, Thread, unitVars, osVars, roleVars, frozen
<1>1. CASE StopCheck(c) /\ UNCHANGED again
  BY <1>1 DEF StopCheck, StopReturns, Goto
<1>2. CASE StopDetach(c) /\ UNCHANGED again
  BY <1>2 DEF StopDetach, Detach, Goto
<1>3. CASE StopAsk(c) /\ UNCHANGED again
  BY <1>3 DEF StopAsk, Goto
<1>4. CASE StopGone(c) /\ UNCHANGED again
  BY <1>4 DEF StopGone, StopDone, StopReturns
<1>5. CASE StopTimeout(c) /\ UNCHANGED again
  BY <1>5 DEF StopTimeout, Goto
<1>6. CASE StopFind(c) /\ UNCHANGED again
  <2>1. CASE Found(pid)
    BY <1>6, <2>1 DEF StopFind, Goto
  <2>2. CASE ~Found(pid)
    BY <1>6, <2>2 DEF StopFind, StopDone, StopReturns
  <2> QED
    BY <2>1, <2>2
<1>7. CASE StopKill(c)
  <2>1. /\ state' \in [Pid -> {"none", "running", "ended"}]
        /\ cbs' = [j \in Pid |-> cbs'[j]] /\ firing' = [j \in Pid |-> firing'[j]]
        /\ adopt' \in [Pid -> {"no", "set", "attach"}]
    BY <1>7 DEF StopKill, Ends
  <2>2. pc' \in [Thread -> {"idle", "fire", "start", "spawn", "record", "attach",
                             "stop", "detach", "ask", "wait", "find", "kill", "clear", "again"}]
    BY <1>7 DEF StopKill, Returns
  <2>3. proc' \in [Thread -> Pid \cup {NULL}] /\ again' \subseteq Caller
    BY <1>7 DEF StopKill, Returns
  <2> QED
    BY <1>7, <2>1, <2>2, <2>3 DEF StopKill
<1>8. CASE StopClear(c) /\ UNCHANGED again
  BY <1>8 DEF StopClear, StopDone, StopReturns
<1> QED
  BY <1>1, <1>2, <1>3, <1>4, <1>5, <1>6, <1>7, <1>8 DEF StopStep

\* ... the beginning of a call ...
LEMMA TypeCalls ==
  ASSUME Typed, NEW c \in Caller,
         CallStart(c) \/ CallStop(c) \/ CallRestart(c) \/ RestartStart(c), UNCHANGED frozen
  PROVE  Typed'
<1>1. /\ UNCHANGED <<unitVars, osVars, roleVars, proc>>
      /\ \E to \in {"start", "stop"} : pc' = [pc EXCEPT ![c] = to]
      /\ stopped' \in BOOLEAN /\ again' \subseteq Caller
  BY DEF CallStart, CallStop, CallRestart, RestartStart, Goto, Typed
<1> QED
  BY <1>1 DEF Typed, Thread, unitVars, osVars, roleVars, frozen

\* ... and what a process does, or its exit.
LEMMA TypeProcess ==
  ASSUME Typed, NEW i \in Pid, ProcessStep(i) \/ Fire(i) \/ Reap(i), UNCHANGED <<frozen, again>>
  PROVE  Typed'
<1> USE Assumptions DEF Typed, Thread, unitVars, osVars, roleVars, frozen
<1>1. CASE AdoptSet(i)
  BY ZenonT(60), <1>1 DEF AdoptSet
<1>2. CASE AdoptAttach(i)
  BY <1>2 DEF AdoptAttach, Attach
<1>3. CASE \E bad \in BOOLEAN : OwnExit(i, bad)
  <2>1. PICK bad \in BOOLEAN : OwnExit(i, bad)
    BY <1>3
  <2>2. pc' \in [Thread -> {"idle", "fire", "start", "spawn", "record", "attach",
                             "stop", "detach", "ask", "wait", "find", "kill", "clear", "again"}]
    BY <2>1 DEF OwnExit
  <2>3. failed' \in SUBSET Pid
    BY <2>1 DEF OwnExit
  <2>4. /\ state' \in [Pid -> {"none", "running", "ended"}]
        /\ adopt' \in [Pid -> {"no", "set", "attach"}]
    BY <2>1 DEF OwnExit, Ends
  <2>5. cbs' = [j \in Pid |-> cbs'[j]] /\ firing' = [j \in Pid |-> firing'[j]]
    BY ZenonT(60), <2>1 DEF OwnExit, Ends
  <2>6. UNCHANGED <<pid, last_pid, handle, role, payload, proc, stopped>>
    BY <2>1 DEF OwnExit
  <2> QED
    BY <2>2, <2>3, <2>4, <2>5, <2>6
<1>4. CASE SelfStop(i)
  <2>1. pc' \in [Thread -> {"idle", "fire", "start", "spawn", "record", "attach",
                             "stop", "detach", "ask", "wait", "find", "kill", "clear", "again"}]
    BY <1>4 DEF SelfStop
  <2>2. state' \in [Pid -> {"none", "running", "ended"}] /\ handle' = NULL
    BY <1>4 DEF SelfStop
  <2>3. cbs' = [j \in Pid |-> cbs'[j]] /\ firing' = [j \in Pid |-> firing'[j]]
    BY ZenonT(60), <1>4 DEF SelfStop
  <2> QED
    BY <1>4, <2>3 DEF SelfStop
<1>5. CASE SpawnPayload(i)
  BY <1>5 DEF SpawnPayload, Spawned, Fresh
<1>6. CASE AdoptDetach(i)
  BY ZenonT(60), <1>6 DEF AdoptDetach, Detach
<1>7. CASE Fire(i)
  BY ZenonT(60), <1>7 DEF Fire
<1>8. CASE Reap(i)
  BY <1>8 DEF Reap
<1> QED
  BY <1>1, <1>2, <1>3, <1>4, <1>5, <1>6, <1>7, <1>8 DEF ProcessStep, AdoptProceeds

-----------------------------------------------------------------------------
(* The counters of callbacks, with any setting                             *)

LEMMA CountInit == Init => Counted
BY DEF Init, Counted, Thread

LEMMA CountStart ==
  ASSUME Typed, Counted, NEW t \in Thread, StartStep(t), UNCHANGED <<frozen, again>>
  PROVE  Counted'
<1> USE Assumptions DEF Typed, Counted, Thread, unitVars, osVars, roleVars, frozen
<1>1. CASE StartCheck(t)
  BY <1>1 DEF StartCheck, Returns, Goto
<1>2. CASE StartSpawn(t)
  BY <1>2 DEF StartSpawn, Spawned, Returns, Goto, Fresh
<1>3. CASE StartRecord(t)
  BY <1>3 DEF StartRecord, Goto
<1>4. CASE StartAttach(t)
  BY <1>4 DEF StartAttach, Attach, Returns, Running
<1> QED
  BY <1>1, <1>2, <1>3, <1>4 DEF StartStep

LEMMA CountStop ==
  ASSUME Typed, Counted, NEW c \in Caller, StopStep(c), UNCHANGED frozen
  PROVE  Counted'
<1> USE Assumptions DEF Typed, Counted, Thread, unitVars, osVars, roleVars, frozen
<1>1. CASE StopCheck(c) /\ UNCHANGED again
  BY <1>1 DEF StopCheck, StopReturns, Goto
<1>2. CASE StopDetach(c) /\ UNCHANGED again
  BY <1>2 DEF StopDetach, Detach, Goto
<1>3. CASE StopAsk(c) /\ UNCHANGED again
  BY <1>3 DEF StopAsk, Goto
<1>4. CASE StopGone(c) /\ UNCHANGED again
  BY <1>4 DEF StopGone, StopDone, StopReturns
<1>5. CASE StopTimeout(c) /\ UNCHANGED again
  BY <1>5 DEF StopTimeout, Goto
<1>6. CASE StopFind(c) /\ UNCHANGED again
  BY <1>6 DEF StopFind, StopDone, StopReturns, Goto
<1>7. CASE StopKill(c)
  BY <1>7 DEF StopKill, Ends, Running, Returns
<1>8. CASE StopClear(c) /\ UNCHANGED again
  BY <1>8 DEF StopClear, StopDone, StopReturns
<1> QED
  BY <1>1, <1>2, <1>3, <1>4, <1>5, <1>6, <1>7, <1>8 DEF StopStep

LEMMA CountCalls ==
  ASSUME Typed, Counted, NEW c \in Caller,
         CallStart(c) \/ CallStop(c) \/ CallRestart(c) \/ RestartStart(c), UNCHANGED frozen
  PROVE  Counted'
<1>1. UNCHANGED <<unitVars, osVars>> /\ \E to \in {"start", "stop"} : pc' = [pc EXCEPT ![c] = to]
  BY DEF CallStart, CallStop, CallRestart, RestartStart, Goto
<1> QED
  BY <1>1, Assumptions DEF Typed, Counted, unitVars, osVars

LEMMA CountProcess ==
  ASSUME Typed, Counted, NEW i \in Pid, ProcessStep(i) \/ Fire(i) \/ Reap(i), UNCHANGED <<frozen, again>>
  PROVE  Counted'
<1> USE Assumptions DEF Typed, Counted, Thread, unitVars, osVars, roleVars, frozen
<1>1. CASE AdoptSet(i)
  BY <1>1 DEF AdoptSet
<1>2. CASE AdoptAttach(i)
  BY <1>2 DEF AdoptAttach, Attach, Running
<1>3. CASE \E bad \in BOOLEAN : OwnExit(i, bad)
  <2>1. PICK bad \in BOOLEAN : OwnExit(i, bad)
    BY <1>3
  <2>2. /\ state[i] = "running" /\ UNCHANGED handle
        /\ state' = [state EXCEPT ![i] = "ended"]
        /\ firing' = [firing EXCEPT ![i] = cbs[i]]
        /\ cbs' = [cbs EXCEPT ![i] = 0]
        /\ pc' = [pc EXCEPT ![i] = IF cbs[i] > 0 THEN "fire" ELSE "idle"]
    BY <2>1 DEF OwnExit, Ends, Running
  <2> QED
    BY ZenonT(60), <2>2
<1>4. CASE SelfStop(i)
  BY <1>4 DEF SelfStop, Running
<1>5. CASE SpawnPayload(i)
  BY <1>5 DEF SpawnPayload, Spawned, Fresh
<1>6. CASE AdoptDetach(i)
  BY <1>6 DEF AdoptDetach, Detach
<1>7. CASE Fire(i)
  BY <1>7 DEF Fire
<1>8. CASE Reap(i)
  BY <1>8 DEF Reap
<1> QED
  BY <1>1, <1>2, <1>3, <1>4, <1>5, <1>6, <1>7, <1>8 DEF ProcessStep, AdoptProceeds

LEMMA TypeNext == Typed /\ Counted /\ [Next]_vars => (Typed /\ Counted)'
<1> SUFFICES ASSUME Typed, Counted, [Next]_vars PROVE (Typed /\ Counted)'
  OBVIOUS
<1>1. ASSUME NEW c \in Caller, CallerStep(c), UNCHANGED frozen PROVE (Typed /\ Counted)'
  <2>1. CASE CallProceeds(c)
    BY <2>1, TypeStart, TypeStop, CountStart, CountStop DEF CallProceeds, Thread
  <2> QED
    BY <1>1, <2>1, TypeCalls, CountCalls DEF CallerStep
<1>2. ASSUME NEW i \in Pid, ProcessStep(i), UNCHANGED frozen PROVE (Typed /\ Counted)'
  BY <1>2, TypeProcess, CountProcess DEF ProcessStep, AdoptProceeds
<1>3. ASSUME NEW i \in Pid, ExitStep(i) PROVE (Typed /\ Counted)'
  BY <1>3, TypeStart, CountStart, TypeProcess, CountProcess DEF ExitStep, Thread
<1>4. CASE UNCHANGED vars
  BY <1>4 DEF vars, frozen, unitVars, osVars, roleVars, Typed, Counted
<1> QED
  BY <1>1, <1>2, <1>3, <1>4 DEF Next

\* Every variable keeps its type whatever the setting: in particular a callback
\* is never unregistered twice, nor run by dmosi more often than it was put on
\* (serviceapi.c:1160 and 1252).
THEOREM TypesStay == Spec => []TypeOK
<1>1. Typed /\ Counted => TypeOK
  BY DEF Typed, Counted, TypeOK
<1> QED
  BY <1>1, TypeInit, CountInit, TypeNext, PTL DEF Spec

-----------------------------------------------------------------------------
(* Who is alone                                                            *)

\* A caller that makes a step is alone: no exit may be being handled, and no
\* other caller or launcher has its turn.
LEMMA CallerAlone ==
  ASSUME IInv, Calm(setting), NEW c \in Caller, Active(c), MayStep
  PROVE  Alone(c)
BY DEF IInv, TurnInv, Calm, MayStep, Handling, ExitDuring, Active, Alone, Thread

\* Where a call may begin nobody has a turn.
LEMMA NobodyActive ==
  ASSUME IInv, Calm(setting), MayCall
  PROVE  /\ \A t \in Thread : pc[t] \in {"idle", "again"}
         /\ \A i \in Pid : adopt[i] = "no"
BY DEF Calm, MayCall, MayStep, Busy, Handling, ExitDuring, Thread

\* An exit whose handling starts the unit is alone, because only a setting that
\* keeps exits out of calls has restarts.
LEMMA ExitAlone ==
  ASSUME IInv, Calm(setting), NEW i \in Pid, pc[i] # "idle",
         restart_policy # "no" \/ pc[i] # "fire"
  PROVE  Alone(i)
<1>1. setting.exits = "no"
  BY DEF IInv, Typed, ContextInv, Calm
<1>2. Handling
  BY DEF Handling
<1>3. ~Busy
  BY <1>1, <1>2 DEF IInv, TurnInv
<1> QED
  BY <1>3 DEF IInv, TurnInv, Busy, Alone, Thread

\* What follows of a context being alone.
LEMMA AloneRest ==
  ASSUME NEW t \in Thread, Alone(t)', ContextInv', Knows(t)'
  PROVE  TurnInv' /\ CallInv' /\ HandOverInv'
<1>1. TurnInv'
  BY Assumptions DEF Alone, ContextInv, TurnInv, Active, Busy, Handling, Thread
<1>2. CallInv'
  BY DEF Alone, Knows, CallInv, Ending
<1>3. HandOverInv'
  BY DEF Alone, HandOverInv
<1> QED
  BY <1>1, <1>2, <1>3

\* A tracked process that is not found any more has no callback.
LEMMA NotFound ==
  ASSUME IInv, ~Found(pid)
  PROVE  handle = NULL /\ ~Running(pid)
<1>1. ~Running(pid)
  BY DEF Found, Running
<1> QED
  BY <1>1 DEF Found, IInv, Typed, CallbackInv, ContextInv

\* Where nothing is tracked and no process of the unit runs there is nothing to
\* watch.
LEMMA NothingTracked ==
  ASSUME pid' = NULL, \A i \in Pid : ~UnitRuns(i)'
  PROVE  UnitInv'
BY Assumptions DEF UnitInv, Running

\* A context that is alone, and not about to record a process, has started no
\* other than the tracked one.
LEMMA OnlyTracked ==
  ASSUME IInv, NEW t \in Thread, Alone(t), pc[t] # "record", NEW i \in Pid, UnitRuns(i)
  PROVE  i = pid
BY DEF IInv, UnitInv, Alone

-----------------------------------------------------------------------------
(* Stops                                                                   *)

\* A step of a stop keeps the invariant.
LEMMA StopKeeps ==
  ASSUME IInv, Calm(setting), NEW c \in Caller, MayStep, StopStep(c), UNCHANGED frozen
  PROVE  IInv'
<1> USE Assumptions DEF unitVars, osVars, roleVars, frozen
<1>1. Typed /\ c \in Thread /\ c \notin Pid /\ Alone(c)
  BY CallerAlone DEF StopStep, StopCheck, StopDetach, StopAsk, StopGone, StopTimeout,
     StopFind, StopKill, StopClear, Goto, Active, IInv, Thread
<1>2. Typed' /\ c \in Thread
  BY <1>1, TypeStop
<1>3. CASE StopCheck(c) /\ UNCHANGED again
  <2>1. CASE Found(pid)
    <3>1. Alone(c)'
      BY <1>1, <1>3, <2>1 DEF StopCheck, Goto, Typed, Alone
    <3>2. ContextInv'
      BY <1>3, <2>1 DEF StopCheck, Goto, IInv, Typed, ContextInv, Thread
    <3>3. Knows(c)'
      BY <1>2, <1>3, <2>1 DEF StopCheck, Goto, Found, Typed, Knows, Ending
    <3>4. CallbackInv'
      BY <1>3, <2>1 DEF StopCheck, Goto, IInv, Typed, CallbackInv, Running, Thread
    <3>5. UnitInv'
      BY <1>1, <1>3, <2>1 DEF StopCheck, IInv, UnitInv, Ending, UnitRuns, Running, Alone,
         Thread
    <3>6. StopInv'
      BY <1>3, <2>1 DEF StopCheck, Found, IInv, StopInv
    <3> QED
      BY <1>2, <3>1, <3>2, <3>3, <3>4, <3>5, <3>6, AloneRest DEF IInv
  <2>2. CASE ~Found(pid)
    <3>1. Alone(c)'
      BY <1>1, <1>3, <2>2 DEF StopCheck, StopReturns, Typed, Alone
    <3>2. ContextInv'
      BY <1>3, <2>2 DEF StopCheck, StopReturns, IInv, Typed, ContextInv, Thread
    <3>3. Knows(c)'
      BY <1>2, <1>3, <2>2 DEF StopCheck, StopReturns, Typed, Knows, Ending
    <3>4. CallbackInv'
      BY <1>1, <1>3, <2>2 DEF StopCheck, StopReturns, Found, IInv, Typed, CallbackInv,
         Running, Alone, Thread
    <3>5. UnitInv'
      BY <1>1, <1>3, <2>2 DEF StopCheck, Found, IInv, UnitInv, UnitRuns, Running, Alone
    <3>6. StopInv'
      BY <1>2, <1>3, <2>2, <3>1 DEF StopCheck, StopReturns, Typed, StopInv, Alone
    <3> QED
      BY <1>2, <3>1, <3>2, <3>3, <3>4, <3>5, <3>6, AloneRest DEF IInv
  <2> QED
    BY <2>1, <2>2
<1>4. CASE StopDetach(c) /\ UNCHANGED again
  <2>1. Alone(c)'
    BY <1>1, <1>4 DEF StopDetach, Goto, Alone
  <2>2. ContextInv'
    BY <1>4 DEF StopDetach, Goto, IInv, ContextInv
  <2>3. Knows(c)'
    BY <1>2, <1>4 DEF StopDetach, Detach, Goto, Typed, Knows
  <2>4. CallbackInv'
    BY <1>1, <1>4 DEF StopDetach, Detach, Goto, IInv, Typed, CallbackInv, Knows, CallInv,
       Alone, Thread
  <2>5. UnitInv'
    BY <1>2, <1>4 DEF StopDetach, Goto, IInv, Typed, UnitInv, Ending, UnitRuns, Running
  <2>6. StopInv'
    BY <1>4 DEF StopDetach, Goto, IInv, StopInv
  <2> QED
    BY <1>2, <2>1, <2>2, <2>3, <2>4, <2>5, <2>6, AloneRest DEF IInv
<1>5. CASE StopAsk(c) /\ UNCHANGED again
  <2>1. CASE Found(pid) /\ Goto(c, "ask", "wait")
    <3>1. Alone(c)'
      BY <1>1, <1>5, <2>1 DEF StopAsk, Goto, Alone
    <3>2. ContextInv'
      BY <1>1, <2>1 DEF Goto, IInv, ContextInv, Alone, Thread
    <3>3. Knows(c)'
      BY <1>2, <1>5 DEF StopAsk, Goto, Found, IInv, Typed, Knows, CallInv, Ending
    <3>4. CallbackInv'
      BY <1>5, <2>1 DEF StopAsk, Goto, IInv, CallbackInv, Running
    <3>5. UnitInv'
      BY <1>5, <2>1 DEF StopAsk, Goto, IInv, UnitInv, Ending, UnitRuns, Running
    <3>6. StopInv'
      BY <1>5, <2>1 DEF StopAsk, Found, IInv, StopInv
    <3> QED
      BY <1>2, <3>1, <3>2, <3>3, <3>4, <3>5, <3>6, AloneRest DEF IInv
  <2>2. CASE Goto(c, "ask", "find")
    <3>1. Alone(c)'
      BY <1>1, <1>5, <2>2 DEF StopAsk, Goto, Alone
    <3>2. ContextInv'
      BY <1>1, <2>2 DEF Goto, IInv, ContextInv, Alone, Thread
    <3>3. Knows(c)'
      BY <1>2, <1>5, <2>2 DEF StopAsk, Goto, IInv, Knows, CallInv, Ending
    <3>4. CallbackInv'
      BY <1>5, <2>2 DEF StopAsk, Goto, IInv, CallbackInv, Running
    <3>5. UnitInv'
      BY <1>5, <2>2 DEF StopAsk, Goto, IInv, UnitInv, Ending, UnitRuns, Running
    <3>6. StopInv'
      BY <1>5, <2>2 DEF StopAsk, Goto, IInv, StopInv
    <3> QED
      BY <1>2, <3>1, <3>2, <3>3, <3>4, <3>5, <3>6, AloneRest DEF IInv
  <2> QED
    BY <1>5, <2>1, <2>2 DEF StopAsk
<1>6. CASE StopGone(c) /\ UNCHANGED again
  <2>1. Alone(c)'
    BY <1>1, <1>6 DEF StopGone, StopDone, StopReturns, Alone
  <2>2. ContextInv'
    BY <1>6 DEF StopGone, StopDone, StopReturns, IInv, ContextInv
  <2>3. Knows(c)'
    BY <1>2, <1>6 DEF StopGone, StopDone, StopReturns, Typed, Knows, Ending
  <2>4. CallbackInv'
    BY <1>1, <1>6 DEF StopGone, StopDone, StopReturns, IInv, CallbackInv, Knows, CallInv,
       Alone, Thread
  <2>5. UnitInv'
    <3>1. pc[c] \in {"wait", "clear"} /\ ~Running(pid)
      BY <1>1, <1>6 DEF StopGone, IInv, Knows, CallInv
    <3>2. \A i \in Pid : ~UnitRuns(i)
      BY <1>1, <3>1, OnlyTracked DEF UnitRuns
    <3>3. pid' = NULL /\ UNCHANGED <<state, role>>
      BY <1>6 DEF StopGone, StopDone
    <3> QED
      BY <3>2, <3>3, NothingTracked DEF UnitRuns, Running
  <2>6. StopInv'
    BY <1>6, <2>1 DEF StopGone, StopDone, StopReturns, StopInv, Alone
  <2> QED
    BY <1>2, <2>1, <2>2, <2>3, <2>4, <2>5, <2>6, AloneRest DEF IInv
<1>7. CASE StopTimeout(c) /\ UNCHANGED again
  <2>1. Alone(c)'
    BY <1>1, <1>7 DEF StopTimeout, Goto, Alone
  <2>2. ContextInv'
    BY <1>7 DEF StopTimeout, Goto, IInv, ContextInv
  <2>3. Knows(c)'
    BY <1>2, <1>7 DEF StopTimeout, Goto, IInv, Knows, CallInv, Ending
  <2>4. CallbackInv'
    BY <1>7 DEF StopTimeout, Goto, IInv, CallbackInv, Running
  <2>5. UnitInv'
    BY <1>7 DEF StopTimeout, Goto, IInv, UnitInv, Ending, UnitRuns, Running
  <2>6. StopInv'
    BY <1>7 DEF StopTimeout, Goto, IInv, StopInv
  <2> QED
    BY <1>2, <2>1, <2>2, <2>3, <2>4, <2>5, <2>6, AloneRest DEF IInv
<1>8. CASE StopFind(c) /\ UNCHANGED again
  <2>1. CASE Found(pid)
    <3>1. Alone(c)'
      BY <1>1, <1>8, <2>1 DEF StopFind, Goto, Typed, Alone
    <3>2. ContextInv'
      BY <1>8, <2>1 DEF StopFind, Goto, IInv, Typed, ContextInv, Thread
    <3>3. Knows(c)'
      BY <1>2, <1>8, <2>1 DEF StopFind, Goto, Found, IInv, Typed, Knows, CallInv, Ending
    <3>4. CallbackInv'
      BY <1>8, <2>1 DEF StopFind, Goto, IInv, Typed, CallbackInv, Running, Thread
    <3>5. UnitInv'
      BY <1>2, <1>8, <2>1 DEF StopFind, Goto, IInv, Typed, UnitInv, Ending, UnitRuns,
         Running
    <3>6. StopInv'
      <4>1. pc'[c] \in {"idle", "again", "kill"}
        BY <1>2, <1>8, <2>1 DEF StopFind, Goto, Typed
      <4>2. stopped' => pid' = NULL
        BY <1>1, <1>2, <1>8, <2>1 DEF StopFind, StopDone, StopInv, IInv, Found, Typed
      <4> QED
        BY <3>1, <4>1, <4>2 DEF Alone, StopInv
    <3> QED
      BY <1>2, <3>1, <3>2, <3>3, <3>4, <3>5, <3>6, AloneRest DEF IInv
  <2>2. CASE ~Found(pid)
    <3>1. Alone(c)'
      BY <1>1, <1>8, <2>2 DEF StopFind, StopDone, StopReturns, Typed, Alone
    <3>2. ContextInv'
      BY <1>8, <2>2 DEF StopFind, StopDone, StopReturns, IInv, Typed, ContextInv, Thread
    <3>3. Knows(c)'
      BY <1>2, <1>8, <2>2 DEF StopFind, StopDone, StopReturns, Typed, Knows, Ending
    <3>4. CallbackInv'
      BY <1>8, <2>2 DEF StopFind, StopDone, StopReturns, IInv, Typed, CallbackInv, Knows,
         CallInv, Ending, Thread
    <3>5. UnitInv'
      BY <1>1, <1>8, <2>2 DEF StopFind, StopDone, Found, IInv, UnitInv, UnitRuns,
         Running, Alone
    <3>6. StopInv'
      <4>1. pc'[c] \in {"idle", "again", "kill"}
        BY <1>2, <1>8, <2>2 DEF StopFind, StopDone, StopReturns, Typed
      <4>2. stopped' => pid' = NULL
        BY <1>1, <1>2, <1>8, <2>2 DEF StopFind, StopDone, StopInv, IInv, Found, Typed
      <4> QED
        BY <3>1, <4>1, <4>2 DEF Alone, StopInv
    <3> QED
      BY <1>2, <3>1, <3>2, <3>3, <3>4, <3>5, <3>6, AloneRest DEF IInv
  <2> QED
    BY <2>1, <2>2
<1>9. CASE StopKill(c)
  <2>1. /\ pid = proc[c] /\ proc[c] \in Pid /\ handle = NULL /\ cbs[proc[c]] = 0
        /\ pc[c] = "kill"
    BY <1>1, <1>9 DEF StopKill, Knows, CallInv, CallbackInv, Ending, IInv
  <2> DEFINE Killed == /\ pc' = [pc EXCEPT ![c] = "clear"]
                       /\ UNCHANGED proc
                       /\ Running(pid) => Ends(pid)
                       /\ ~Running(pid) => UNCHANGED <<state, cbs, firing, adopt>>
             Fails == /\ "kill_fails" \in Faults
                      /\ Returns(c)
                      /\ UNCHANGED <<state, cbs, firing, adopt>>
  <2>2. UNCHANGED <<unitVars, role, payload, stopped>> /\ (Killed \/ Fails)
    BY <1>9, <2>1 DEF StopKill
  <2>5. CASE Fails
    <3>0. pc' = [pc EXCEPT ![c] = "idle"]
      BY <1>1, <2>5 DEF Returns
    <3>1. Alone(c)'
      BY <1>1, <2>5, <3>0 DEF Alone
    <3>2. ContextInv'
      BY <2>2, <2>5, <3>0 DEF IInv, ContextInv
    <3>3. Knows(c)'
      BY <1>2, <3>0 DEF Typed, Knows, Ending
    <3>4. CallbackInv'
      BY <2>1, <2>2, <2>5, <3>0 DEF IInv, CallbackInv
    <3>5. UnitInv'
      <4>1. ~CallbacksStay(setting) /\ ~OnlySpawnsFail(setting)
        BY <2>5 DEF CallbacksStay, OnlySpawnsFail, Faults
      <4> QED
        BY <1>1, <2>1, <2>2, <2>5, <4>1, OnlyTracked DEF IInv, UnitInv, UnitRuns, Running
    <3>6. StopInv'
      BY <2>2, <3>0 DEF IInv, StopInv
    <3> QED
      BY <1>2, <3>1, <3>2, <3>3, <3>4, <3>5, <3>6, AloneRest DEF IInv
  <2>3. CASE Killed /\ Running(pid)
    <3>1. Alone(c)'
      BY <1>1, <2>3 DEF Ends, Typed, Alone
    <3>2. ContextInv'
      BY <1>1, <2>2, <2>3 DEF Ends, IInv, ContextInv, Alone, Thread
    <3>3. Knows(c)'
      BY <1>2, <2>1, <2>2, <2>3 DEF Ends, Typed, Knows, Running
    <3>4. CallbackInv'
      BY <1>2, <2>1, <2>2, <2>3 DEF Ends, IInv, Typed, CallbackInv
    <3>5. UnitInv'
      BY <2>1, <2>2, <2>3 DEF Ends, IInv, Typed, UnitInv, Ending, UnitRuns, Running
    <3>6. StopInv'
      BY <2>2, <2>3 DEF IInv, StopInv
    <3> QED
      BY <1>2, <3>1, <3>2, <3>3, <3>4, <3>5, <3>6, AloneRest DEF IInv
  <2>4. CASE Killed /\ ~Running(pid)
    <3>1. Alone(c)'
      BY <1>1, <2>2, <2>4 DEF Alone
    <3>2. ContextInv'
      BY <2>2, <2>4 DEF IInv, ContextInv
    <3>3. Knows(c)'
      BY <2>1, <2>2, <2>4 DEF Knows, Running
    <3>4. CallbackInv'
      BY <2>1, <2>2, <2>4 DEF IInv, CallbackInv
    <3>5. UnitInv'
      BY <2>1, <2>2, <2>4 DEF IInv, UnitInv, Ending, UnitRuns, Running
    <3>6. StopInv'
      BY <2>2, <2>4 DEF IInv, StopInv
    <3> QED
      BY <1>2, <3>1, <3>2, <3>3, <3>4, <3>5, <3>6, AloneRest DEF IInv
  <2> QED
    BY <2>2, <2>3, <2>4, <2>5
<1>10. CASE StopClear(c) /\ UNCHANGED again
  <2>1. Alone(c)'
    BY <1>1, <1>10 DEF StopClear, StopDone, StopReturns, Alone
  <2>2. ContextInv'
    BY <1>10 DEF StopClear, StopDone, StopReturns, IInv, ContextInv
  <2>3. Knows(c)'
    BY <1>2, <1>10 DEF StopClear, StopDone, StopReturns, Typed, Knows, Ending
  <2>4. CallbackInv'
    BY <1>1, <1>10 DEF StopClear, StopDone, StopReturns, IInv, CallbackInv, Knows,
       CallInv, Alone, Thread
  <2>5. UnitInv'
    <3>1. pc[c] \in {"wait", "clear"} /\ ~Running(pid)
      BY <1>1, <1>10 DEF StopClear, IInv, Knows, CallInv
    <3>2. \A i \in Pid : ~UnitRuns(i)
      BY <1>1, <3>1, OnlyTracked DEF UnitRuns
    <3>3. pid' = NULL /\ UNCHANGED <<state, role>>
      BY <1>10 DEF StopClear, StopDone
    <3> QED
      BY <3>2, <3>3, NothingTracked DEF UnitRuns, Running
  <2>6. StopInv'
    BY <1>10, <2>1 DEF StopClear, StopDone, StopReturns, StopInv, Alone
  <2> QED
    BY <1>2, <2>1, <2>2, <2>3, <2>4, <2>5, <2>6, AloneRest DEF IInv
<1> QED
  BY <1>3, <1>4, <1>5, <1>6, <1>7, <1>8, <1>9, <1>10 DEF StopStep

-----------------------------------------------------------------------------
(* Starts                                                                  *)

\* So does a step of a start, of a call or of the handling of an exit.
LEMMA StartKeeps ==
  ASSUME IInv, Calm(setting), NEW t \in Thread, Alone(t), StartStep(t), UNCHANGED <<frozen, again>>
  PROVE  IInv'
<1> USE Assumptions DEF unitVars, osVars, roleVars, frozen
<1>1. Typed /\ Alone(t) /\ ~stopped /\ (t \in Pid => restart_policy # "no")
  BY DEF StartStep, StartCheck, StartSpawn, StartRecord, StartAttach, Goto, IInv,
     StopInv, ContextInv
<1>2. Typed' /\ t \in Thread
  BY <1>1, TypeStart
<1>3. CASE StartCheck(t)
  <2>1. CASE Found(pid)
    <3>1. Alone(t)'
      BY <1>2, <1>3, <2>1 DEF StartCheck, Returns, Typed, Alone
    <3>2. ContextInv'
      BY <1>3, <2>1 DEF StartCheck, Returns, IInv, Typed, ContextInv, Thread
    <3>3. Knows(t)'
      BY <1>2, <1>3, <2>1 DEF StartCheck, Returns, Typed, Knows, Ending
    <3>4. CallbackInv'
      BY <1>3, <2>1 DEF StartCheck, Returns, IInv, Typed, CallbackInv, Running, Thread
    <3>5. UnitInv'
      BY <1>3 DEF StartCheck, IInv, UnitInv, Ending, UnitRuns, Running, Alone, Thread
    <3>6. StopInv'
      BY <1>1, <1>3 DEF StartCheck, StopInv
    <3> QED
      BY <1>2, <3>1, <3>2, <3>3, <3>4, <3>5, <3>6, AloneRest DEF IInv
  <2>2. CASE ~Found(pid)
    <3>1. Alone(t)'
      BY <1>2, <1>3, <2>2 DEF StartCheck, Goto, Typed, Alone
    <3>2. ContextInv'
      BY <1>3, <2>2 DEF StartCheck, Goto, IInv, Typed, ContextInv, Thread
    <3>3. Knows(t)'
      BY <1>2, <1>3, <2>2 DEF StartCheck, Goto, Found, Knows, Ending, Typed
    <3>4. CallbackInv'
      BY <1>3, <2>2 DEF StartCheck, Goto, IInv, Typed, CallbackInv, Running, Thread
    <3>5. UnitInv'
      BY <1>3 DEF StartCheck, IInv, UnitInv, Ending, UnitRuns, Running, Alone, Thread
    <3>6. StopInv'
      BY <1>1, <1>3 DEF StartCheck, StopInv
    <3> QED
      BY <1>2, <3>1, <3>2, <3>3, <3>4, <3>5, <3>6, AloneRest DEF IInv
  <2> QED
    BY <2>1, <2>2
<1>4. CASE StartSpawn(t)
  <2>1. CASE \E i \in Fresh : Spawned(i, "unit") /\ proc' = [proc EXCEPT ![t] = i] /\ Goto(t, "spawn", "record")
    <3>1. Alone(t)'
      BY <1>4, <2>1 DEF StartSpawn, Goto, Alone
    <3>2. ContextInv'
      BY <2>1 DEF Spawned, Goto, Fresh, IInv, ContextInv
    <3>0. PICK i \in Fresh : Spawned(i, "unit") /\ proc' = [proc EXCEPT ![t] = i] /\ Goto(t, "spawn", "record")
      BY <2>1
    <3>7. /\ i \in Pid /\ i # pid /\ state[i] = "none"
          /\ state' = [state EXCEPT ![i] = "running"] /\ role' = [role EXCEPT ![i] = "unit"]
          /\ pc[t] = "spawn" /\ pc' = [pc EXCEPT ![t] = "record"]
          /\ UNCHANGED <<pid, handle, cbs, firing, adopt>>
      BY <1>4, <3>0 DEF StartSpawn, Spawned, Goto, Fresh
    <3>8. ~Found(pid) /\ handle = NULL
      BY <3>7, NotFound DEF IInv, CallInv, Knows
    <3>3. Knows(t)'
      <4>1. ~Found(pid)' /\ pc'[t] = "record" /\ proc'[t] = i
        BY <1>1, <1>2, <3>0, <3>7, <3>8 DEF Found, Typed
      <4>2. Running(i)' /\ role'[i] = "unit"
        BY <1>1, <3>7 DEF Running, Typed
      <4> QED
        BY <3>7, <4>1, <4>2 DEF Knows, Ending
    <3>4. CallbackInv'
      BY <3>7, <3>8 DEF IInv, CallbackInv
    <3>5. UnitInv'
      <4>1. \A j \in Pid : UnitRuns(j)' => j = i
        BY <1>1, <3>7, <3>8, OnlyTracked, NotFound DEF UnitRuns, Running, Typed
      <4>2. pc'[t] = "record" /\ proc'[t] = i
        BY <1>1, <1>2, <3>0, <3>7 DEF Typed
      <4>3. ~Running(pid)'
        BY <3>7, <3>8, NotFound DEF Running
      <4>4. OnlySpawnsFail(setting) => pid = NULL
        <5>1. ~\E u \in Thread : pc[u] = "attach"
          BY <1>1, <3>7 DEF Alone
        <5>2. ~\E c \in Caller : pc[c] \in Ending
          BY <1>1, <3>7 DEF Alone, Ending, Thread
        <5> QED
          BY <1>1, <3>8, <5>1, <5>2 DEF IInv, UnitInv, Alone
      <4> QED
        BY <3>7, <4>1, <4>2, <4>3, <4>4 DEF UnitInv
    <3>6. StopInv'
      BY <1>1, <1>4 DEF StartSpawn, StopInv
    <3> QED
      BY <1>2, <3>1, <3>2, <3>3, <3>4, <3>5, <3>6, AloneRest DEF IInv
  <2>2. CASE Returns(t) /\ UNCHANGED <<state, failed, role>>
    <3>1. Alone(t)'
      BY <1>4, <2>2 DEF StartSpawn, Returns, Alone
    <3>2. ContextInv'
      BY <1>4, <2>2 DEF StartSpawn, Returns, IInv, ContextInv
    <3>3. Knows(t)'
      BY <1>2, <2>2 DEF Returns, Typed, Knows, Ending
    <3>4. CallbackInv'
      BY <1>4, <2>2 DEF StartSpawn, Returns, IInv, CallbackInv, Running
    <3>5. UnitInv'
      BY <1>4, <2>2 DEF StartSpawn, IInv, UnitInv, Ending, UnitRuns, Running, Alone,
         Thread
    <3>6. StopInv'
      BY <1>1, <1>4 DEF StartSpawn, StopInv
    <3> QED
      BY <1>2, <3>1, <3>2, <3>3, <3>4, <3>5, <3>6, AloneRest DEF IInv
  <2> QED
    BY <1>4, <2>1, <2>2 DEF StartSpawn
<1>5. CASE StartRecord(t)
  <2>1. Alone(t)'
    BY <1>5 DEF StartRecord, Goto, Alone
  <2>2. ContextInv'
    BY <1>5 DEF StartRecord, Goto, IInv, ContextInv
  <2>0. /\ ~Found(pid) /\ handle = NULL /\ ~Running(pid)
        /\ pc[t] = "record" /\ pc' = [pc EXCEPT ![t] = "attach"] /\ pc'[t] = "attach"
        /\ proc[t] \in Pid /\ pid' = proc[t]
        /\ Running(proc[t]) => role[proc[t]] = "unit"
        /\ CallbacksStay(setting) => Running(proc[t])
        /\ UNCHANGED <<handle, state, cbs, firing, role, adopt, proc>>
    <3>1. /\ pc[t] = "record" /\ pc' = [pc EXCEPT ![t] = "attach"] /\ pid' = proc[t]
          /\ UNCHANGED <<handle, state, cbs, firing, role, adopt, proc>>
      BY <1>5 DEF StartRecord, Goto
    <3>2. pc'[t] = "attach"
      BY <1>1, <1>2, <3>1 DEF Typed
    <3>3. Knows(t)
      BY DEF IInv, CallInv
    <3>4. /\ ~Found(pid) /\ proc[t] \in Pid
          /\ Running(proc[t]) => role[proc[t]] = "unit"
          /\ CallbacksStay(setting) => Running(proc[t])
      BY <3>1, <3>3 DEF Knows
    <3> QED
      BY <3>1, <3>2, <3>4, NotFound
  <2>3. Knows(t)'
    BY <2>0 DEF Knows, Ending, Running
  <2>4. CallbackInv'
    BY <1>5, <2>0 DEF StartRecord, Goto, IInv, CallbackInv
  <2>5. UnitInv'
    <3>1. \A i \in Pid : UnitRuns(i) => i = proc[t]
      BY <1>1, <2>0 DEF IInv, UnitInv, Alone, UnitRuns
    <3> QED
      BY <2>0, <3>1 DEF UnitInv, UnitRuns, Running
  <2>6. StopInv'
    BY <1>1, <1>5 DEF StartRecord, StopInv
  <2> QED
    BY <1>2, <2>1, <2>2, <2>3, <2>4, <2>5, <2>6, AloneRest DEF IInv
<1>6. CASE StartAttach(t)
  <2>1. Alone(t)'
    BY <1>6 DEF StartAttach, Returns, Alone
  <2>2. ContextInv'
    BY <1>6 DEF StartAttach, Returns, IInv, ContextInv
  <2>3. Knows(t)'
    BY <1>2, <1>6 DEF StartAttach, Returns, Typed, Knows, Ending
  <2>4. CallbackInv'
    BY <1>6 DEF StartAttach, Attach, Returns, IInv, Typed, CallbackInv, Knows, CallInv,
       Running
  <2>5. UnitInv'
    <3>1. /\ pid = proc[t] /\ pc[t] = "attach"
          /\ Running(pid) => role[pid] = "unit"
          /\ CallbacksStay(setting) => Running(pid)
      <4>1. Knows(t) /\ pc[t] = "attach"
        BY <1>6 DEF StartAttach, CallInv, IInv
      <4> QED
        BY <4>1 DEF Knows
    <3>2. /\ UNCHANGED <<pid, state, role, adopt>>
          /\ CallbacksStay(setting) => handle' = pid
      <4>1. CallbacksStay(setting) => "attach_fails" \notin Faults
        BY DEF CallbacksStay, Faults
      <4> QED
        BY <1>6, <3>1, <4>1 DEF StartAttach, Attach
    <3>3. \A i \in Pid : UnitRuns(i) => i = pid
      BY <3>1 DEF UnitInv, Alone, IInv
    <3>4. OnlySpawnsFail(setting) => CallbacksStay(setting)
      BY DEF OnlySpawnsFail, CallbacksStay
    <3> QED
      BY <3>1, <3>2, <3>3, <3>4 DEF UnitInv, UnitRuns, Running
  <2>6. StopInv'
    BY <1>1, <1>6 DEF StartAttach, StopInv
  <2> QED
    BY <1>2, <2>1, <2>2, <2>3, <2>4, <2>5, <2>6, AloneRest DEF IInv
<1> QED
  BY <1>3, <1>4, <1>5, <1>6 DEF StartStep

-----------------------------------------------------------------------------
(* Calls, launchers and exits                                              *)

\* So does the beginning of a call.
LEMMA CallsKeep ==
  ASSUME IInv, Calm(setting), NEW c \in Caller,
         CallStart(c) \/ CallStop(c) \/ CallRestart(c) \/ RestartStart(c), UNCHANGED frozen
  PROVE  IInv'
<1> USE Assumptions DEF unitVars, osVars, roleVars, frozen
<1>1. /\ Typed /\ \A t \in Thread : pc[t] \in {"idle", "again"}
      /\ \A i \in Pid : adopt[i] = "no"
  BY NobodyActive DEF CallStart, CallStop, CallRestart, RestartStart, IInv
<1>2. Typed' /\ c \in Thread
  BY TypeCalls DEF IInv, Thread
<1>3. CASE \/ pc' = [pc EXCEPT ![c] = "start"] /\ stopped' = FALSE
           \/ pc' = [pc EXCEPT ![c] = "stop"] /\ UNCHANGED stopped
  <2>0. UNCHANGED <<setting, restart_policy, pid, last_pid, handle, state, cbs, firing, role, payload, adopt, proc>>
    BY DEF CallStart, CallStop, CallRestart, RestartStart
  <2>1. Alone(c)'
    BY <1>1, <1>3, <2>0 DEF Typed, Alone
  <2>2. ContextInv'
    BY <1>3, <2>0 DEF Thread, IInv, Typed, ContextInv
  <2>3. Knows(c)'
    BY <1>2, <1>3 DEF Typed, Knows, Ending
  <2>4. CallbackInv'
    BY <1>3, <2>0 DEF Thread, IInv, Typed, CallbackInv, Running
  <2>5. UnitInv'
    BY <1>1, <2>0 DEF Thread, IInv, UnitInv, Ending, UnitRuns, Running
  <2>6. StopInv'
    <3>1. CASE pc' = [pc EXCEPT ![c] = "start"] /\ stopped' = FALSE
      BY <3>1 DEF StopInv
    <3>2. CASE pc' = [pc EXCEPT ![c] = "stop"] /\ UNCHANGED stopped
      BY <2>0, <3>2 DEF StopInv, IInv
    <3> QED
      BY <1>3, <3>1, <3>2
  <2> QED
    BY <1>2, <2>1, <2>2, <2>3, <2>4, <2>5, <2>6, AloneRest DEF IInv
<1> QED
  BY <1>3 DEF CallStart, CallStop, CallRestart, RestartStart, Goto

\* A hand-over begins where nobody is active, and goes on so.
LEMMA AdoptDetachKeeps ==
  ASSUME IInv, Calm(setting), NEW i \in Pid, AdoptDetach(i), UNCHANGED <<frozen, again>>
  PROVE  IInv'
<1> USE Assumptions DEF unitVars, osVars, roleVars, frozen
<1>1. /\ Typed /\ \A t \in Thread : pc[t] \in {"idle", "again"}
      /\ \A j \in Pid : pc[j] = "idle" /\ adopt[j] = "no"
  BY NobodyActive DEF AdoptDetach, Calm, IInv, ContextInv, Thread
<1>2. Typed'
  BY TypeProcess DEF ProcessStep, IInv
<1>3. /\ pid = i /\ Running(i) /\ role[i] = "unit"
      /\ payload[i] \in Pid /\ role[payload[i]] = "payload"
      /\ CallbacksStay(setting) => Running(payload[i])
  BY DEF AdoptDetach, Found, Running, UnitInv, CallbacksStay, Faults, IInv
<1>4. /\ handle' = NULL /\ \A j \in Pid : cbs'[j] = 0
      /\ adopt' = [adopt EXCEPT ![i] = "set"] /\ stopped' = FALSE
      /\ UNCHANGED <<pid, state, firing, role, payload, pc, proc, setting, restart_policy>>
  BY DEF AdoptDetach, Detach, CallbackInv, IInv, Typed
<1>5. TurnInv'
  BY <1>1, <1>4 DEF TurnInv, Active, Handling, Thread
<1>6. ContextInv' /\ CallbackInv'
  BY <1>1, <1>4 DEF ContextInv, CallbackInv, IInv
<1>7. UnitInv'
  BY <1>4 DEF UnitInv, UnitRuns, Running, IInv, Typed
<1>8. CallInv'
  BY <1>1, <1>4 DEF CallInv, Knows
<1>9. HandOverInv'
  BY <1>1, <1>3, <1>4 DEF HandOverInv, UnitRuns, Running
<1>10. StopInv'
  BY <1>4 DEF StopInv
<1> QED
  BY <1>2, <1>5, <1>6, <1>7, <1>8, <1>9, <1>10 DEF IInv

LEMMA AdoptSetKeeps ==
  ASSUME IInv, Calm(setting), NEW i \in Pid, MayStep, AdoptSet(i), UNCHANGED <<frozen, again>>
  PROVE  IInv'
<1> USE Assumptions DEF unitVars, osVars, roleVars, frozen
<1>1. /\ Typed /\ \A t \in Thread : pc[t] \in {"idle", "again"}
      /\ \A j \in Pid : pc[j] = "idle" /\ (j # i => adopt[j] = "no")
  BY DEF AdoptSet, MayStep, Handling, Calm, ExitDuring, TurnInv, Active, IInv, Thread
<1>2. Typed'
  BY TypeProcess DEF ProcessStep, AdoptProceeds, IInv
<1>3. /\ pid = i /\ UnitRuns(i) /\ handle = NULL /\ ~stopped
      /\ payload[i] \in Pid /\ payload[i] # i
      /\ CallbacksStay(setting) => Running(payload[i])
  BY DEF AdoptSet, HandOverInv, StopInv, UnitRuns, IInv
<1>4. /\ pid' = payload[i] /\ adopt' = [adopt EXCEPT ![i] = "attach"]
      /\ role' = [role EXCEPT ![i] = "handed", ![payload[i]] = "unit"]
      /\ UNCHANGED <<handle, state, cbs, firing, payload, pc, proc, stopped, setting, restart_policy>>
  BY DEF AdoptSet
<1>5. TurnInv'
  BY <1>1, <1>4 DEF TurnInv, Active, Handling, Thread
<1>6. ContextInv' /\ CallbackInv'
  BY <1>3, <1>4 DEF ContextInv, CallbackInv, IInv
<1>7. UnitInv'
  BY <1>3, <1>4 DEF UnitInv, UnitRuns, Running, IInv, Typed
<1>8. CallInv'
  BY <1>1, <1>4 DEF CallInv, Knows, Ending
<1>9. HandOverInv'
  BY <1>1, <1>3, <1>4 DEF HandOverInv, UnitRuns, Running, Typed
<1>10. StopInv'
  BY <1>3, <1>4 DEF StopInv
<1> QED
  BY <1>2, <1>5, <1>6, <1>7, <1>8, <1>9, <1>10 DEF IInv

LEMMA AdoptAttachKeeps ==
  ASSUME IInv, Calm(setting), NEW i \in Pid, MayStep, AdoptAttach(i), UNCHANGED <<frozen, again>>
  PROVE  IInv'
<1> USE Assumptions DEF unitVars, osVars, roleVars, frozen
<1>1. /\ Typed /\ \A t \in Thread : pc[t] \in {"idle", "again"}
      /\ \A j \in Pid : pc[j] = "idle" /\ (j # i => adopt[j] = "no")
  BY DEF AdoptAttach, MayStep, Handling, Calm, ExitDuring, TurnInv, Active, IInv, Thread
<1>2. Typed'
  BY TypeProcess DEF ProcessStep, AdoptProceeds, IInv
<1>3. /\ handle = NULL /\ pid \in Pid /\ ~stopped
      /\ Running(pid) => role[pid] = "unit"
      /\ CallbacksStay(setting) => Running(pid)
  BY Assumptions DEF AdoptAttach, HandOverInv, StopInv, IInv
<1>4. /\ \/ Running(pid) /\ handle' = pid /\ cbs' = [cbs EXCEPT ![pid] = @ + 1]
         \/ ~CallbacksStay(setting) /\ handle' = NULL /\ UNCHANGED cbs
      /\ adopt' = [adopt EXCEPT ![i] = "no"]
      /\ UNCHANGED <<pid, state, firing, role, payload, pc, proc, stopped, setting, restart_policy>>
  BY <1>3 DEF AdoptAttach, Attach, CallbacksStay, Faults
<1>4a. OnlySpawnsFail(setting) => CallbacksStay(setting)
  BY DEF OnlySpawnsFail, CallbacksStay
<1>5. TurnInv'
  BY <1>1, <1>4 DEF TurnInv, Active, Handling, Thread
<1>6. ContextInv' /\ CallbackInv'
  BY <1>3, <1>4 DEF ContextInv, CallbackInv, Running, IInv, Typed
<1>7. UnitInv'
  BY <1>1, <1>3, <1>4, <1>4a DEF UnitInv, UnitRuns, Running, IInv
<1>8. CallInv'
  BY <1>1, <1>4 DEF CallInv, Knows, Ending
<1>9. HandOverInv'
  BY <1>1, <1>4 DEF HandOverInv, Typed
<1>10. StopInv'
  BY <1>3, <1>4 DEF StopInv
<1> QED
  BY <1>2, <1>5, <1>6, <1>7, <1>8, <1>9, <1>10 DEF IInv

\* The end of a process, also in the middle of a call: only where callbacks may
\* be missing is it the one a call has just spawned, or a launcher hands over to.
LEMMA OwnExitKeeps ==
  ASSUME IInv, Calm(setting), NEW i \in Pid, NEW bad \in BOOLEAN, OwnExit(i, bad),
         UNCHANGED <<frozen, again>>
  PROVE  IInv'
<1> USE Assumptions DEF unitVars, osVars, roleVars, frozen
<1>1. Typed /\ Typed'
  BY TypeProcess DEF ProcessStep, IInv
<1>2. /\ Running(i) /\ adopt[i] = "no" /\ pc[i] = "idle" /\ firing[i] = 0
      /\ cbs[i] = IF handle = i THEN 1 ELSE 0
      /\ CallbacksStay(setting) =>
           /\ \A t \in Thread : proc[t] = i => pc[t] \notin {"record", "attach"}
           /\ \A j \in Pid : adopt[j] # "no" => payload[j] # i
  BY DEF OwnExit, Newborn, CallbacksStay, Faults, ContextInv, CallbackInv, Running, IInv
<1>3. handle = i => ~Handling /\ (setting.exits = "no" => ~Busy)
  BY <1>2 DEF OwnExit, Calm, ExitDuring
<1>4. /\ state' = [state EXCEPT ![i] = "ended"]
      /\ firing' = [firing EXCEPT ![i] = cbs[i]]
      /\ cbs' = [cbs EXCEPT ![i] = 0]
      /\ adopt' = adopt
      /\ pc' = [pc EXCEPT ![i] = IF handle = i THEN "fire" ELSE "idle"]
      /\ UNCHANGED <<pid, handle, role, payload, proc, stopped, setting, restart_policy>>
  <2>1. cbs[i] > 0 <=> handle = i
    BY <1>2
  <2>2. adopt' = [adopt EXCEPT ![i] = adopt[i]]
    BY DEF OwnExit, Ends
  <2>3. adopt' = adopt
    BY <1>1, <2>2 DEF Typed
  <2> QED
    BY <2>1, <2>3 DEF OwnExit, Ends
<1>5. \A t \in Thread : t # i => pc'[t] = pc[t]
  BY <1>4
<1>6. TurnInv'
  BY <1>3, <1>4 DEF TurnInv, Active, Busy, Handling, IInv
<1>7. ContextInv'
  BY <1>4 DEF ContextInv, IInv, Typed
<1>8. CallbackInv'
  BY <1>1, <1>2, <1>4 DEF CallbackInv, Running, IInv, Typed
<1>9. UnitInv'
  <2>1. \A j \in Pid : UnitRuns(j)' => UnitRuns(j)
    BY <1>4 DEF UnitRuns, Running
  <2>2. \A t \in Thread : pc[t] \in {"record", "attach"} => pc'[t] = pc[t]
    BY <1>2, <1>5
  <2>3. \A c \in Caller : pc'[c] = pc[c]
    BY <1>5 DEF Thread
  <2> QED
    BY <1>4, <2>1, <2>2, <2>3 DEF UnitInv, Running, IInv
<1>10. CallInv'
  <2> SUFFICES ASSUME NEW t \in Thread PROVE Knows(t)'
    BY DEF CallInv
  <2>1. CASE t = i
    BY <1>1, <1>4, <2>1 DEF Knows, Ending, Typed
  <2>2. CASE t # i
    BY <1>2, <1>4, <2>2 DEF CallInv, Knows, Found, UnitRuns, Running, IInv
  <2> QED
    BY <2>1, <2>2
<1>11. HandOverInv'
  BY <1>2, <1>4 DEF HandOverInv, UnitRuns, Running, IInv
<1>12. StopInv'
  BY <1>4 DEF StopInv, IInv
<1> QED
  BY <1>1, <1>6, <1>7, <1>8, <1>9, <1>10, <1>11, <1>12 DEF IInv

\* A unit that stops itself: its callback is off, and its PID stays.
LEMMA SelfStopKeeps ==
  ASSUME IInv, Calm(setting), NEW i \in Pid, SelfStop(i), UNCHANGED <<frozen, again>>
  PROVE  IInv'
<1> USE Assumptions DEF unitVars, osVars, roleVars, frozen
<1>1. /\ Typed /\ \A t \in Thread : pc[t] \in {"idle", "again"}
      /\ \A j \in Pid : pc[j] = "idle" /\ adopt[j] = "no"
  BY NobodyActive DEF SelfStop, IInv, ContextInv, Thread
<1>2. Typed'
  BY TypeProcess DEF ProcessStep, IInv
<1>3. /\ pid = i /\ Running(i)
      /\ cbs[i] = IF handle = i THEN 1 ELSE 0
      /\ handle = NULL \/ handle = i
      /\ ~OnlySpawnsFail(setting)
  BY DEF SelfStop, CallbackInv, IInv, Running, OnlySpawnsFail, Faults
<1>4. /\ state' = [state EXCEPT ![i] = "ended"] /\ handle' = NULL
      /\ cbs' = [cbs EXCEPT ![i] = 0] /\ firing' = [firing EXCEPT ![i] = 0]
      /\ pc' = [pc EXCEPT ![i] = "idle"]
      /\ UNCHANGED <<pid, role, payload, adopt, proc, stopped, setting, restart_policy>>
  BY <1>3 DEF SelfStop
<1>5. pc' = pc
  BY <1>1, <1>4 DEF Typed
<1>6. TurnInv' /\ ContextInv'
  BY <1>1, <1>4, <1>5 DEF TurnInv, ContextInv, Active, Handling, Thread, IInv
<1>7. CallbackInv'
  BY <1>1, <1>3, <1>4, <1>5 DEF CallbackInv, IInv, Typed
<1>8. UnitInv'
  BY <1>3, <1>4, <1>5 DEF UnitInv, UnitRuns, Running, IInv, Typed
<1>9. CallInv'
  BY <1>1, <1>5 DEF CallInv, Knows, Ending
<1>10. HandOverInv' /\ StopInv'
  BY <1>1, <1>4, <1>5 DEF HandOverInv, StopInv, IInv
<1> QED
  BY <1>2, <1>6, <1>7, <1>8, <1>9, <1>10 DEF IInv

\* A launcher spawns a payload, at any time: a process nobody remembers.
LEMMA SpawnPayloadKeeps ==
  ASSUME IInv, Calm(setting), NEW i \in Pid, SpawnPayload(i), UNCHANGED <<frozen, again>>
  PROVE  IInv'
<1> USE Assumptions DEF unitVars, osVars, roleVars, frozen
<1>1. Typed /\ Typed'
  BY TypeProcess DEF ProcessStep, IInv
<1>2. PICK q \in Fresh : Spawned(q, "payload") /\ payload' = [payload EXCEPT ![i] = q]
  BY DEF SpawnPayload
<1>3. /\ q \in Pid /\ state[q] = "none" /\ pid # q
      /\ \A t \in Thread : proc[t] # q
      /\ \A j \in Pid : payload[j] # q
  BY <1>2 DEF Fresh
<1>4. /\ state' = [state EXCEPT ![q] = "running"]
      /\ role' = [role EXCEPT ![q] = "payload"]
      /\ payload' = [payload EXCEPT ![i] = q]
      /\ payload[i] = NULL
      /\ UNCHANGED <<pid, handle, cbs, firing, adopt, pc, proc, stopped, setting, restart_policy>>
  BY <1>2 DEF SpawnPayload, Spawned
<1>5. TurnInv'
  BY <1>4 DEF TurnInv, Active, Busy, Handling, IInv
<1>6. ContextInv'
  BY <1>3, <1>4 DEF ContextInv, IInv
<1>7. CallbackInv'
  BY <1>3, <1>4 DEF CallbackInv, Running, IInv
<1>8. UnitInv'
  BY <1>3, <1>4 DEF UnitInv, UnitRuns, Running, IInv, Typed
<1>9. CallInv'
  BY <1>3, <1>4 DEF CallInv, Knows, Found, UnitRuns, Running, IInv
<1>10. HandOverInv'
  BY <1>3, <1>4 DEF HandOverInv, UnitRuns, Running, IInv
<1>11. StopInv'
  BY <1>4 DEF StopInv, IInv
<1> QED
  BY <1>1, <1>5, <1>6, <1>7, <1>8, <1>9, <1>10, <1>11 DEF IInv

\* dmosi frees a process that has ended.
LEMMA ReapKeeps ==
  ASSUME IInv, Calm(setting), NEW i \in Pid, Reap(i), UNCHANGED <<frozen, again>>
  PROVE  IInv'
<1> USE Assumptions DEF unitVars, osVars, roleVars, frozen
<1>1. Typed /\ Typed'
  BY TypeProcess DEF IInv
<1>2. /\ state[i] = "ended" /\ pc[i] = "idle"
      /\ state' = [state EXCEPT ![i] = "none"]
      /\ role' = [role EXCEPT ![i] = "none"]
      /\ payload' = [payload EXCEPT ![i] = NULL]
      /\ UNCHANGED <<pid, handle, cbs, firing, adopt, pc, proc, stopped, setting, restart_policy>>
  BY DEF Reap
<1>3. TurnInv'
  BY <1>2 DEF TurnInv, Active, Busy, Handling, IInv
<1>4. ContextInv' /\ CallbackInv'
  BY <1>2 DEF ContextInv, CallbackInv, Running, IInv
<1>5. UnitInv'
  BY <1>2 DEF UnitInv, UnitRuns, Running, IInv
<1>6. CallInv'
  BY <1>2 DEF CallInv, Knows, Found, UnitRuns, Running, IInv
<1>7. HandOverInv'
  BY <1>2 DEF HandOverInv, UnitRuns, Running, IInv
<1>8. StopInv'
  BY <1>2 DEF StopInv, IInv
<1> QED
  BY <1>1, <1>3, <1>4, <1>5, <1>6, <1>7, <1>8 DEF IInv

\* The callback releases the PID: it is still that of its own process, which no
\* call works on.
LEMMA FireKeeps ==
  ASSUME IInv, Calm(setting), NEW i \in Pid, Fire(i), UNCHANGED <<frozen, again>>
  PROVE  IInv'
<1> USE Assumptions DEF unitVars, osVars, roleVars, frozen
<1>1. Typed /\ Typed'
  BY TypeProcess DEF IInv
<1>2. /\ pc[i] = "fire" /\ handle = i /\ pid = i /\ state[i] = "ended" /\ firing[i] = 1
      /\ ~stopped
  BY DEF Fire, CallbackInv, ContextInv, StopInv, IInv
<1>3. /\ handle' = NULL /\ pid' = NULL
      /\ firing' = [firing EXCEPT ![i] = 0]
      /\ pc' = [pc EXCEPT ![i] = IF Due(i) THEN "start" ELSE "idle"]
      /\ UNCHANGED <<state, cbs, role, payload, adopt, proc, stopped, setting, restart_policy>>
  BY <1>2 DEF Fire
<1>4. Due(i) => restart_policy # "no"
  BY DEF Due
<1>5. \A t \in Thread : t # i => pc'[t] = pc[t]
  BY <1>3
<1>6. \A t \in Thread : pc[t] \notin {"record", "attach", "spawn"} \cup Ending
  BY <1>2, Assumptions DEF CallInv, Knows, Found, IInv
<1>7. \A j \in Pid : adopt[j] = "no"
  BY <1>2 DEF HandOverInv, IInv
<1>8. TurnInv'
  BY <1>2, <1>3 DEF TurnInv, Active, Busy, Handling, IInv
<1>9. ContextInv'
  BY <1>2, <1>3, <1>4 DEF ContextInv, IInv
<1>10. CallbackInv'
  BY <1>1, <1>2, <1>3 DEF CallbackInv, IInv, Typed
<1>11. UnitInv'
  BY <1>2, <1>3 DEF UnitInv, UnitRuns, Running, IInv
<1>12. CallInv'
  <2> SUFFICES ASSUME NEW t \in Thread PROVE Knows(t)'
    BY DEF CallInv
  <2>1. CASE t = i
    BY <1>1, <1>3, <2>1 DEF Knows, Typed
  <2>2. CASE t # i
    BY <1>3, <1>6 DEF CallInv, Knows, Ending, IInv
  <2> QED
    BY <2>1, <2>2
<1>13. HandOverInv' /\ StopInv'
  BY <1>2, <1>3, <1>7 DEF HandOverInv, StopInv
<1> QED
  BY <1>1, <1>8, <1>9, <1>10, <1>11, <1>12, <1>13 DEF IInv

-----------------------------------------------------------------------------
(* The theorems                                                            *)

LEMMA IInvInit == Init => IInv
<1> SUFFICES ASSUME Init PROVE IInv
  OBVIOUS
<1>1. Typed
  BY TypeInit
<1>2. TurnInv /\ ContextInv /\ StopInv
  BY DEF Init, TurnInv, ContextInv, StopInv, Active, Handling, Thread
<1>3. CallbackInv /\ UnitInv
  <2>1. /\ \A i \in Pid : state[i] = "none" /\ cbs[i] = 0 /\ firing[i] = 0 /\ pc[i] = "idle"
        /\ handle = NULL /\ pid = NULL
    BY DEF Init, Thread
  <2> QED
    BY <2>1 DEF CallbackInv, UnitInv, UnitRuns, Running
<1>4. CallInv /\ HandOverInv
  BY DEF Init, CallInv, Knows, HandOverInv
<1> QED
  BY <1>1, <1>2, <1>3, <1>4 DEF IInv

LEMMA IInvNext ==
  ASSUME \A s \in Settings : Calm(s)
  PROVE  IInv /\ [Next]_vars => IInv'
<1> SUFFICES ASSUME IInv, [Next]_vars PROVE IInv'
  OBVIOUS
<1>1. Calm(setting)
  BY DEF IInv, Typed
<1>2. ASSUME NEW c \in Caller, CallerStep(c), UNCHANGED frozen PROVE IInv'
  <2>1. CASE CallProceeds(c)
    <3>1. CASE StartStep(c) /\ UNCHANGED again
      <4>1. Active(c) /\ MayStep
        BY <2>1, <3>1 DEF CallProceeds, StartStep, StartCheck, StartSpawn, StartRecord,
           StartAttach, Goto, Active
      <4> QED
        BY <1>1, <1>2, <3>1, <4>1, CallerAlone, StartKeeps DEF Thread
    <3>2. CASE StopStep(c)
      BY <1>1, <2>1, <3>2, StopKeeps DEF CallProceeds
    <3> QED
      BY <2>1, <3>1, <3>2 DEF CallProceeds
  <2> QED
    BY <1>1, <1>2, <2>1, CallsKeep DEF CallerStep
<1>3. ASSUME NEW i \in Pid, ProcessStep(i), UNCHANGED frozen PROVE IInv'
  <2>1. CASE AdoptProceeds(i)
    BY <1>1, <2>1, AdoptSetKeeps, AdoptAttachKeeps DEF AdoptProceeds
  <2>2. CASE UNCHANGED again /\ \E bad \in BOOLEAN : OwnExit(i, bad)
    BY <1>1, <1>3, <2>2, OwnExitKeeps
  <2>3. CASE UNCHANGED again /\ SelfStop(i)
    BY <1>1, <1>3, <2>3, SelfStopKeeps
  <2>4. CASE UNCHANGED again /\ (SpawnPayload(i) \/ AdoptDetach(i))
    BY <1>1, <1>3, <2>4, SpawnPayloadKeeps, AdoptDetachKeeps
  <2> QED
    BY <1>3, <2>1, <2>2, <2>3, <2>4 DEF ProcessStep
<1>4. ASSUME NEW i \in Pid, ExitStep(i) PROVE IInv'
  <2>1. CASE StartStep(i)
    <3>1. pc[i] # "idle" /\ pc[i] # "fire"
      BY <2>1 DEF StartStep, StartCheck, StartSpawn, StartRecord, StartAttach, Goto
    <3> QED
      BY <1>1, <1>4, <2>1, <3>1, ExitAlone, StartKeeps DEF ExitStep, Thread
  <2> QED
    BY <1>1, <1>4, <2>1, FireKeeps, ReapKeeps DEF ExitStep
<1>5. CASE UNCHANGED vars
  <2>1. UNCHANGED <<setting, restart_policy, pid, last_pid, handle, state, cbs, firing, failed,
                    role, payload, adopt, pc, proc, again, stopped>>
    BY <1>5 DEF vars, frozen, unitVars, osVars, roleVars
  <2> QED
    BY <2>1 DEF IInv, Typed, TurnInv, ContextInv, CallbackInv, UnitInv, CallInv, Knows,
       HandOverInv, StopInv, Active, Busy, Handling, Running, UnitRuns, Found
<1> QED
  BY <1>2, <1>3, <1>4, <1>5 DEF Next

LEMMA Invariant ==
  ASSUME \A s \in Settings : Calm(s)
  PROVE  Spec => []IInv
BY IInvInit, IInvNext, PTL DEF Spec

\* Where nobody is active, what runs as the unit is what is tracked, and it has
\* the callback if callbacks stay.
LEMMA Settled ==
  ASSUME IInv, Quiescent
  PROVE  /\ \A i \in Pid : UnitRuns(i) <=> Running(i) /\ pid = i
         /\ CallbacksStay(setting) /\ Running(pid) => handle = pid
<1>1. \A t \in Thread : pc[t] \in {"idle", "again"}
  BY DEF Quiescent, Busy, Handling, Thread
<1>2. \A i \in Pid : adopt[i] = "no"
  BY DEF Quiescent, Busy
<1> QED
  BY <1>1, <1>2 DEF IInv, UnitInv, UnitRuns, Ending, Thread

\* The status never lies (libsystemd_fill_status()): whoever asks between two
\* calls is told of the process of the unit, for any number of processes and
\* callers, whether exits are handled between the calls and the unit is
\* restarted, or exits come at any point of a call and it is not, and whatever
\* of the rare events comes with it.
THEOREM StatusNeverLies ==
  ASSUME \A s \in Settings : Calm(s)
  PROVE  Spec => []StatusTrue
<1>1. IInv => StatusTrue
  <2> SUFFICES ASSUME IInv, Quiescent
               PROVE  /\ Status.state = "running" <=> \E i \in Pid : UnitRuns(i)
                      /\ \A i \in Pid : UnitRuns(i) => Status = [state |-> "running", pid |-> i]
    BY DEF StatusTrue
  <2>1. \A i \in Pid : UnitRuns(i) <=> Running(i) /\ pid = i
    BY Settled
  <2>2. \A i \in Pid : UnitRuns(i) => Status = [state |-> "running", pid |-> i]
    BY <2>1, Assumptions DEF Status
  <2>3. Status.state = "running" => Running(pid)
    BY DEF Status
  <2> QED
    BY <2>1, <2>2, <2>3 DEF Running
<1> QED
  BY <1>1, Invariant, PTL

\* The tracked process, and no other, has the exit callback, also after a
\* hand-over to the process a launcher spawned (libsystemd_notify_main_pid()).
THEOREM ExitsAreNoticed ==
  ASSUME \A s \in Settings : Calm(s)
  PROVE  Spec => []Supervised
<1>1. IInv => Supervised
  <2> SUFFICES ASSUME IInv, Quiescent, Faults \subseteq {"spawn_fails", "self_stop"},
                      NEW i \in Pid, Running(i)
               PROVE  /\ pid = i <=> role[i] = "unit"
                      /\ cbs[i] = IF pid = i THEN 1 ELSE 0
                      /\ pid = i => handle = i
    BY DEF Supervised
  <2>1. /\ UnitRuns(i) <=> Running(i) /\ pid = i
        /\ Running(pid) => handle = pid
        /\ handle # NULL => handle = pid
    <3>1. CallbacksStay(setting)
      BY DEF CallbacksStay, Faults
    <3> QED
      BY <3>1, Settled DEF CallbackInv, IInv, Typed
  <2>2. cbs[i] = IF handle = i THEN 1 ELSE 0
    BY DEF CallbackInv, IInv, Running
  <2> QED
    BY <2>1, <2>2, Assumptions DEF UnitRuns
<1> QED
  BY <1>1, Invariant, PTL

\* A unit that was stopped stays down until it is started
\* (docs/configuration.md: "a stop never triggers a restart").
THEOREM StopsStick ==
  ASSUME \A s \in Settings : Calm(s)
  PROVE  Spec => []StopSticks
<1>1. IInv => StopSticks
  BY Settled, Assumptions DEF StopSticks, StopInv, IInv
<1> QED
  BY <1>1, Invariant, PTL

\* start_service() says -EALREADY, and stop_service() -ESRCH, only where it is
\* so.
THEOREM AnswersAreTrue ==
  ASSUME \A s \in Settings : Calm(s)
  PROVE  Spec => AnswersTrue
<1>1. ASSUME IInv, NEW t \in Thread, pc[t] \in {"start", "stop"}
      PROVE  /\ \A u \in Thread \ {t} : pc[u] \in {"idle", "again", "fire"}
             /\ \A i \in Pid : adopt[i] = "no"
  <2>1. Calm(setting) /\ restart_policy \in setting.policies
    BY <1>1 DEF IInv, Typed
  <2>2. CASE t \in Caller
    <3>1. Active(t) /\ Busy
      BY <1>1, <2>2 DEF Active, Busy
    <3>2. \A i \in Pid : pc[i] \in {"idle", "fire"}
      <4>1. CASE setting.exits = "no"
        BY <1>1, <3>1, <4>1 DEF IInv, TurnInv, Handling
      <4>2. CASE restart_policy = "no"
        BY <1>1, <4>2 DEF IInv, ContextInv
      <4> QED
        BY <2>1, <4>1, <4>2 DEF Calm
    <3> QED
      BY <1>1, <3>2 DEF IInv, TurnInv, Active, Thread
  <2>3. CASE t \in Pid
    <3>1. pc[t] # "idle" /\ pc[t] # "fire"
      BY <1>1
    <3> QED
      BY <1>1, <2>1, <2>3, ExitAlone DEF Alone
  <2> QED
    BY <2>2, <2>3 DEF Thread
<1>2. ASSUME IInv, NEW t \in Thread, pc[t] = "start", Found(pid), OnlySpawnsFail(setting)
      PROVE  Running(pid) \/ pc[pid] # "idle"
  BY <1>1, <1>2, Assumptions DEF Found, UnitInv, CallbackInv, Ending, IInv, Thread
<1>3. ASSUME IInv, NEW c \in Caller, pc[c] = "stop", ~Found(pid)
      PROVE  ~\E i \in Pid : UnitRuns(i)
  BY <1>1, <1>3 DEF Found, Running, UnitRuns, UnitInv, IInv, Thread
<1> DEFINE Answers == Faults \subseteq {"spawn_fails"} =>
             /\ \A t \in Thread : StartCheck(t) /\ Found(pid) => Running(pid) \/ pc[pid] # "idle"
             /\ \A c \in Caller : StopCheck(c) /\ ~Found(pid) => ~\E i \in Pid : UnitRuns(i)
<1>4. IInv => Answers
  BY <1>2, <1>3 DEF StartCheck, StopCheck, Thread, OnlySpawnsFail, Faults
<1> QED
  BY <1>4, Invariant, PTL DEF AnswersTrue
=============================================================================
