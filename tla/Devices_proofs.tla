--------------------------- MODULE Devices_proofs ---------------------------
(***************************************************************************)
(* Types, and one process per unit, for any number of devices, mount       *)
(* points, rules and templates, as long as the starts of one unit are      *)
(* serialized and no unmount takes a unit another thread has in hand.      *)
(***************************************************************************)
EXTENDS Devices, TLAPS

Call == [op : {"none"} \cup Starting \cup Stopping,
         at : {"copy", "remember", "resolve", "next", "check", "spawn", "wait"},
         devs : SUBSET (Device \X (Value \cup {NULL})), dev : Device \cup {NULL},
         value : Value \cup {NULL}, todo : SUBSET Unit, unit : Unit \cup {NULL}]

-----------------------------------------------------------------------------
(* The inductive invariant                                                 *)

Typed ==
    /\ devices \in [Device -> Value \cup {NULL}]
    /\ loads \in 0..MaxLoads /\ dirs \subseteq Mounts /\ scanned \in BOOLEAN
    /\ argv \in [Unit -> Value \cup {NULL}]
    /\ running \in [Unit -> 0..1]
    /\ there \subseteq Device /\ late \subseteq Unit
    /\ call \in [Thread -> Call]

\* A call that starts units has a value to expand them with, and a unit it has
\* in hand is registered, and not running when it is about to be spawned.
Proper(t) ==
    /\ call[t].unit # NULL <=> call[t].at \in {"check", "spawn", "wait"}
    /\ call[t].unit # NULL => Registered(call[t].unit)
    /\ call[t].at = "spawn" => running[call[t].unit] = 0
    /\ call[t].op \in {"add", "stop", "remove"} => call[t].value # NULL
    /\ call[t].op = "replay" /\ call[t].todo # {} => call[t].value # NULL
    /\ \A e \in call[t].devs : e[2] # NULL

\* No two threads are about to spawn one unit.
OneSpawner ==
    \A t, o \in Thread :
        call[t].at = "spawn" /\ call[o].at = "spawn" /\ call[t].unit = call[o].unit => t = o

\* What is there is remembered.
Remembered == \A d \in there : devices[d] # NULL

IInv ==
    /\ Typed
    /\ \A t \in Thread : Proper(t)
    /\ OneSpawner
    /\ Remembered

-----------------------------------------------------------------------------
(* Lemmas about the operators                                              *)

LEMMA TargetsAreUnits ==
  ASSUME Typed, NEW d \in Device, NEW kind \in {"start", "remove"}
  PROVE  Targets(d, kind) \subseteq Unit
<1>1. \A r \in Rules : r[kind] \in Template \cup {NULL}
  BY Assumptions DEF Typed, Rules
<1> QED
  BY <1>1 DEF Targets, Unit

LEMMA NoCallIsCall == NoCall \in Call
BY DEF NoCall, Call

\* What a call begins with.
Begun(op, at, d, v) == [NoCall EXCEPT !.op = op, !.at = at, !.dev = d, !.value = v]

LEMMA BegunIsCall ==
  ASSUME NEW op \in Starting \cup Stopping, NEW at \in {"copy", "remember", "resolve"},
         NEW d \in Device \cup {NULL}, NEW v \in Value \cup {NULL}
  PROVE  /\ Begun(op, at, d, v) \in Call
         /\ Begun(op, at, d, v).op = op
         /\ Begun(op, at, d, v).at = at
         /\ Begun(op, at, d, v).value = v
         /\ Begun(op, at, d, v).devs = {}
         /\ Begun(op, at, d, v).todo = {}
         /\ Begun(op, at, d, v).unit = NULL
BY NoCallIsCall DEF NoCall, Begun, Call

-----------------------------------------------------------------------------
(* Steps of one thread                                                     *)

\* A step in which only t's call changes keeps the invariant if it keeps the
\* types and what is remembered, leaves t's call proper, does not spawn a unit
\* another thread is about to, and leaves the units others have in hand be.
LEMMA OneThread ==
  ASSUME IInv, NEW t \in Thread, NEW r \in Call, call' = [call EXCEPT ![t] = r],
         Typed', Proper(t)', Remembered',
         r.at = "spawn" => \A o \in Thread \ {t} : ~(call[o].at = "spawn" /\ call[o].unit = r.unit),
         \A o \in Thread \ {t} : call[o].unit # NULL => argv'[call[o].unit] # NULL,
         \A o \in Thread \ {t} : call[o].at = "spawn" => running'[call[o].unit] = 0
  PROVE  IInv'
<1>1. call'[t] = r /\ \A o \in Thread \ {t} : call'[o] = call[o]
  BY DEF IInv, Typed
<1>2. ASSUME NEW o \in Thread \ {t}
      PROVE  Proper(o)'
  BY DEF IInv, Proper, Registered
<1>3. OneSpawner'
  BY DEF IInv, OneSpawner
<1> QED
  BY <1>2, <1>3 DEF IInv

\* What a call has to be, by itself.
Fits(r) ==
    /\ r.unit # NULL <=> r.at \in {"check", "spawn", "wait"}
    /\ r.unit # NULL => Registered(r.unit)
    /\ r.at = "spawn" => running[r.unit] = 0
    /\ r.op \in {"add", "stop", "remove"} => r.value # NULL
    /\ r.op = "replay" /\ r.todo # {} => r.value # NULL
    /\ \A e \in r.devs : e[2] # NULL

\* A step that changes nothing but the call of t.
LEMMA OnlyCall ==
  ASSUME IInv, NEW t \in Thread, NEW r \in Call, call' = [call EXCEPT ![t] = r],
         UNCHANGED <<lists, running, there>>, late' \subseteq Unit, Fits(r),
         r.at = "spawn" => \A o \in Thread \ {t} : ~(call[o].at = "spawn" /\ call[o].unit = r.unit)
  PROVE  IInv'
<1>1. call'[t] = r
  BY DEF IInv, Typed
<1>2. Typed' /\ Remembered'
  BY DEF IInv, Typed, Remembered, lists
<1>3. Proper(t)'
  BY <1>1 DEF Proper, Registered, lists, Fits
<1>4. \A o \in Thread : call[o].unit # NULL => argv'[call[o].unit] # NULL
  BY DEF IInv, Proper, Registered, lists
<1>5. \A o \in Thread : call[o].at = "spawn" => running'[call[o].unit] = 0
  BY DEF IInv, Proper
<1> QED
  BY <1>2, <1>3, <1>4, <1>5, OneThread

-----------------------------------------------------------------------------
(* Starting and stopping units                                             *)

LEMMA StartFindStep ==
  ASSUME IInv, NEW t \in Thread, NEW u \in call[t].todo, StartFind(t, u)
  PROVE  IInv'
<1>1. call[t] \in Call /\ u \in Unit /\ call[t].unit = NULL /\ u # NULL
  BY DEF IInv, Typed, Call, StartFind
<1>2. call[t].value # NULL /\ call[t].value \in Value
  BY <1>1 DEF IInv, Proper, StartFind, Starting, Call
<1> DEFINE r == [call[t] EXCEPT !.at = "check", !.unit = u, !.todo = @ \ {u}]
<1>3. r \in Call /\ r.at = "check"
  BY <1>1 DEF Call
<1>4. call' = [call EXCEPT ![t] = r] /\ call'[t] = r
  BY DEF StartFind, Call, IInv, Typed
<1>5. argv' \in [Unit -> Value \cup {NULL}] /\ Registered(u)'
      /\ \A w \in Unit : Registered(w) => Registered(w)'
  BY <1>1, <1>2 DEF StartFind, Registered, IInv, Typed
<1>6. Typed' /\ Remembered'
  BY <1>3, <1>5 DEF StartFind, seen, IInv, Typed, Remembered
<1>7. Proper(t)'
  BY <1>1, <1>4, <1>5 DEF IInv, Proper
<1>8. \A o \in Thread : call[o].unit # NULL => argv'[call[o].unit] # NULL
  BY <1>5 DEF IInv, Typed, Call, Proper, Registered
<1>9. \A o \in Thread : call[o].at = "spawn" => running'[call[o].unit] = 0
  BY DEF StartFind, IInv, Proper
<1> QED
  BY <1>3, <1>4, <1>6, <1>7, <1>8, <1>9, OneThread

LEMMA StartUnknownStep ==
  ASSUME IInv, NEW t \in Thread, NEW u \in call[t].todo, StartUnknown(t, u)
  PROVE  IInv'
<1> DEFINE r == [call[t] EXCEPT !.todo = @ \ {u}]
<1>1. call[t] \in Call /\ Proper(t)
  BY DEF IInv, Typed
<1>2. r \in Call /\ call' = [call EXCEPT ![t] = r] /\ r.at = "next"
  BY <1>1 DEF StartUnknown, Call, IInv, Typed
<1>3. Fits(r)
  BY <1>1 DEF Fits, Proper
<1>4. UNCHANGED <<lists, running, there>> /\ late' \subseteq Unit
  BY DEF StartUnknown, seen, IInv, Typed
<1> QED
  BY <1>2, <1>3, <1>4, OnlyCall

\* The starts of one unit being serialized, no second spawner gets that far.
LEMMA StartCheckStep ==
  ASSUME IInv, "start" \notin Overlap, NEW t \in Thread, StartCheck(t)
  PROVE  IInv'
<1>1. call[t] \in Call /\ Proper(t) /\ call[t].unit \in Unit
  BY DEF IInv, Typed, StartCheck, Proper, Call
<1>2. UNCHANGED <<lists, running, there>> /\ late' \subseteq Unit
  BY DEF StartCheck, seen, IInv, Typed
<1>3. CASE running[call[t].unit] > 0
  <2> DEFINE r == [call[t] EXCEPT !.at = "next", !.unit = NULL]
  <2>1. r \in Call /\ call' = [call EXCEPT ![t] = r] /\ r.at = "next"
    BY <1>1, <1>3 DEF StartCheck, Call
  <2>2. Fits(r)
    BY <1>1 DEF Fits, Proper
  <2> QED
    BY <1>2, <2>1, <2>2, OnlyCall
<1>4. CASE ~(running[call[t].unit] > 0)
  <2> DEFINE r == [call[t] EXCEPT !.at = "spawn"]
  <2>1. r \in Call /\ call' = [call EXCEPT ![t] = r] /\ r.unit = call[t].unit
    BY <1>1, <1>4 DEF StartCheck, Call
  <2>2. running[call[t].unit] = 0
    BY <1>1, <1>4 DEF IInv, Typed
  <2>3. Fits(r)
    BY <1>1, <2>2 DEF Fits, Proper, StartCheck
  <2>4. \A o \in Thread \ {t} : ~(call[o].at = "spawn" /\ call[o].unit = r.unit)
    BY DEF StartCheck, InHand
  <2> QED
    BY <1>2, <2>1, <2>3, <2>4, OnlyCall
<1> QED
  BY <1>3, <1>4

\* The call drops the unit it has in hand and goes on with the next.
LEMMA GoesOn ==
  ASSUME IInv, NEW t \in Thread, call[t].at \in {"check", "spawn", "wait"},
         call' = [call EXCEPT ![t] = [call[t] EXCEPT !.at = "next", !.unit = NULL]],
         UNCHANGED <<lists, running, there>>, late' \subseteq Unit
  PROVE  IInv'
<1> DEFINE r == [call[t] EXCEPT !.at = "next", !.unit = NULL]
<1>1. call[t] \in Call /\ Proper(t)
  BY DEF IInv, Typed
<1>2. r \in Call /\ r.at = "next" /\ Fits(r)
  BY <1>1 DEF Fits, Proper, Call
<1> QED
  BY <1>2, OnlyCall

LEMMA StartEndStep ==
  ASSUME IInv, NEW t \in Thread, StartFails(t) \/ WaitEnded(t) \/ WaitTimeout(t)
  PROVE  IInv'
<1>1. call[t] \in Call /\ Proper(t) /\ call[t].at \in {"spawn", "wait"} /\ call[t].unit \in Unit
  BY DEF IInv, Typed, Proper, Call, StartFails, WaitEnded, WaitTimeout
<1>2. call' = [call EXCEPT ![t] = [call[t] EXCEPT !.at = "next", !.unit = NULL]]
  BY <1>1 DEF IInv, Typed, Call, StartFails, WaitEnded, WaitTimeout
<1>3. UNCHANGED <<lists, running, there>> /\ late' \subseteq Unit
  BY <1>1 DEF IInv, Typed, seen, StartFails, WaitEnded, WaitTimeout
<1> QED
  BY <1>1, <1>2, <1>3, GoesOn

\* The unit did not run and no other thread was about to spawn it.
LEMMA StartSpawnStep ==
  ASSUME IInv, NEW t \in Thread, StartSpawn(t)
  PROVE  IInv'
<1>1. call[t] \in Call /\ Proper(t) /\ call[t].unit \in Unit /\ running[call[t].unit] = 0
  BY DEF IInv, Typed, StartSpawn, Proper, Call
<1>2. running' = [running EXCEPT ![call[t].unit] = 1] /\ running' \in [Unit -> 0..1]
  BY <1>1 DEF StartSpawn, IInv, Typed
<1> DEFINE r == IF call[t].op = "remove" THEN [call[t] EXCEPT !.at = "wait"]
                                         ELSE [call[t] EXCEPT !.at = "next", !.unit = NULL]
<1>3. r \in Call /\ call' = [call EXCEPT ![t] = r] /\ call'[t] = r /\ r.at \in {"next", "wait"}
  BY <1>1 DEF StartSpawn, Call, IInv, Typed
<1>4. Typed' /\ Remembered'
  BY <1>2, <1>3 DEF StartSpawn, lists, seen, IInv, Typed, Remembered
<1>5. Proper(t)'
  BY ZenonT(60), <1>1, <1>3 DEF StartSpawn, lists, Proper, Registered, Call
<1>6. \A o \in Thread : call[o].unit # NULL => argv'[call[o].unit] # NULL
  BY DEF StartSpawn, lists, IInv, Proper, Registered
<1>7. ASSUME NEW o \in Thread \ {t}, call[o].at = "spawn"
      PROVE  running'[call[o].unit] = 0
  <2>1. call[o].unit # call[t].unit
    BY <1>7 DEF StartSpawn, IInv, OneSpawner
  <2>2. call[o].unit \in Unit /\ running[call[o].unit] = 0
    BY <1>7 DEF IInv, Typed, Proper, Call
  <2> QED
    BY <1>2, <2>1, <2>2
<1> QED
  BY <1>3, <1>4, <1>5, <1>6, <1>7, OneThread

\* Processes only end.
LEMMA ExitStep ==
  ASSUME IInv, NEW u \in Unit, Exit(u)
  PROVE  IInv'
<1>1. running[u] = 1 /\ running' = [running EXCEPT ![u] = 0]
  <2>1. running[u] \in 0..1
    BY DEF IInv, Typed
  <2>2. running[u] = 1
    BY <2>1 DEF Exit
  <2> QED
    BY <2>2 DEF Exit
<1>2. Typed' /\ OneSpawner' /\ Remembered'
  BY DEF Exit, lists, IInv, Typed, OneSpawner, Remembered
<1>3. ASSUME NEW t \in Thread
      PROVE  Proper(t)'
  BY DEF Exit, lists, IInv, Proper, Registered
<1> QED
  BY <1>2, <1>3 DEF IInv

LEMMA StopUnitStep ==
  ASSUME IInv, NEW t \in Thread, NEW u \in call[t].todo, StopUnit(t, u)
  PROVE  IInv'
<1>1. call[t] \in Call /\ Proper(t) /\ u \in Unit
  BY DEF IInv, Typed, Call
<1> DEFINE r == [call[t] EXCEPT !.todo = @ \ {u}]
<1>2. r \in Call /\ call' = [call EXCEPT ![t] = r] /\ call'[t] = r /\ r.at = "next"
  BY DEF StopUnit, Call, IInv, Typed
<1>3. running' \in [Unit -> 0..1] /\ \A w \in Unit : running[w] = 0 => running'[w] = 0
  BY <1>1 DEF StopUnit, IInv, Typed
<1>4. Typed' /\ Remembered'
  BY <1>2, <1>3 DEF StopUnit, lists, IInv, Typed, Remembered
<1>5. Proper(t)'
  BY <1>1, <1>2 DEF Proper
<1>6. \A o \in Thread : call[o].unit # NULL => argv'[call[o].unit] # NULL
  BY DEF StopUnit, lists, IInv, Proper, Registered
<1>7. \A o \in Thread : call[o].at = "spawn" => running'[call[o].unit] = 0
  BY <1>3 DEF IInv, Typed, Proper, Call
<1> QED
  BY <1>2, <1>4, <1>5, <1>6, <1>7, OneThread

LEMMA UnitSteps ==
  ASSUME IInv, "start" \notin Overlap, NEW t \in Thread, UnitStep(t)
  PROVE  IInv'
BY StartFindStep, StartUnknownStep, StopUnitStep, StartCheckStep, StartEndStep,
   StartSpawnStep DEF UnitStep

-----------------------------------------------------------------------------
(* Calls                                                                   *)

\* A thread reports its device.
LEMMA AddBegun ==
  ASSUME IInv, NEW d \in Device, d \in Thread, NEW v \in Value,
         call' = [call EXCEPT ![d] = Begun("add", "remember", d, v)],
         UNCHANGED <<lists, running, there>>, late' \subseteq Unit
  PROVE  IInv'
<1> DEFINE r == Begun("add", "remember", d, v)
<1>1. "add" \in Starting \cup Stopping /\ d \in Device \cup {NULL} /\ v \in Value \cup {NULL}
  BY DEF Starting
<1>2. r \in Call
  BY <1>1, BegunIsCall
<1>3. r.op = "add" /\ r.at = "remember" /\ r.value = v /\ r.devs = {} /\ r.unit = NULL
  BY <1>1, BegunIsCall
<1>4. v # NULL
  BY Assumptions
<1>5. Fits(r) /\ r.at # "spawn"
  BY <1>3, <1>4 DEF Fits
<1> QED
  BY <1>2, <1>5, OnlyCall

\* A scan, a load or a mount goes on to replay.
LEMMA ReplayBegun ==
  LET r == Begun("replay", "copy", NULL, NULL) IN
    r \in Call /\ r.op = "replay" /\ r.at = "copy" /\ r.devs = {} /\ r.todo = {} /\ r.unit = NULL
<1> DEFINE r == Begun("replay", "copy", NULL, NULL)
<1>1. "replay" \in Starting \cup Stopping /\ NULL \in Device \cup {NULL} /\ NULL \in Value \cup {NULL}
  BY DEF Starting
<1>2. r \in Call
  BY <1>1, BegunIsCall
<1>3. r.op = "replay" /\ r.at = "copy" /\ r.devs = {} /\ r.todo = {} /\ r.unit = NULL
  BY <1>1, BegunIsCall
<1> QED
  BY <1>2, <1>3

LEMMA ReplaySteps ==
  ASSUME IInv, NEW t \in Thread, Replay(t)
  PROVE  IInv'
<1>1. call[t] \in Call /\ Proper(t) /\ UNCHANGED <<lists, running, there>> /\ late' \subseteq Unit
  BY DEF IInv, Typed, Replay, ReplayCopy, ReplayDevice, ReplayEnd, seen
<1>2. CASE ReplayCopy(t)
  <2> DEFINE devs == {<<d, devices[d]>> : d \in {d \in Device : devices[d] # NULL}}
             r == [call[t] EXCEPT !.at = "next", !.devs = devs]
  <2>1. devs \subseteq Device \X (Value \cup {NULL}) /\ \A e \in devs : e[2] # NULL
    BY DEF IInv, Typed
  <2>2. r \in Call /\ call' = [call EXCEPT ![t] = r] /\ r.at = "next" /\ r.devs = devs
    BY <1>1, <1>2, <2>1 DEF ReplayCopy, Call
  <2>3. Fits(r)
    BY <1>1, <1>2, <2>1, <2>2 DEF ReplayCopy, In, Fits, Proper, Call
  <2> QED
    BY <1>1, <2>2, <2>3, OnlyCall
<1>3. CASE ReplayDevice(t)
  <2>1. PICK e \in call[t].devs :
          call' = [call EXCEPT ![t].devs = @ \ {e}, ![t].dev = e[1], ![t].value = e[2],
                               ![t].todo = Targets(e[1], "start")]
    BY <1>3 DEF ReplayDevice
  <2>2. e[1] \in Device /\ e[2] \in Value /\ e[2] # NULL
    BY <1>1 DEF Call, Proper
  <2> DEFINE todo == Targets(e[1], "start")
             r == [call[t] EXCEPT !.devs = @ \ {e}, !.dev = e[1], !.value = e[2], !.todo = todo]
  <2>3. todo \subseteq Unit
    BY <2>2, TargetsAreUnits DEF IInv
  <2>4. r \in Call /\ r.at = "next" /\ r.op = "replay" /\ r.value = e[2]
        /\ r.devs \subseteq call[t].devs /\ r.unit = call[t].unit
    BY <1>1, <1>3, <2>2, <2>3 DEF ReplayDevice, Done, In, Call
  <2>5. call' = [call EXCEPT ![t] = r]
    BY <1>1, <2>1 DEF Call
  <2>6. Fits(r)
    BY <1>1 DEF Fits, Proper
  <2> QED
    BY <1>1, <2>4, <2>5, <2>6, OnlyCall
<1>4. CASE ReplayEnd(t) /\ t = Boot
  BY <1>1, <1>4, NoCallIsCall, OnlyCall DEF ReplayEnd, NoCall, Fits
<1>5. CASE ReplayEnd(t) /\ t # Boot
  <2>1. t \in Device
    BY <1>5 DEF Thread
  <2>2. PICK v \in Value : call' = [call EXCEPT ![t] = Begun("add", "remember", t, v)]
    BY <1>5 DEF ReplayEnd, Begins, Begun
  <2> QED
    BY <1>1, <2>1, <2>2, AddBegun
<1> QED
  BY <1>2, <1>3, <1>4, <1>5 DEF Replay

LEMMA ScanStep ==
  ASSUME IInv, Scan \/ LoadRules
  PROVE  IInv'
<1> DEFINE r == Begun("replay", "copy", NULL, NULL)
<1>1. r \in Call /\ r.op = "replay" /\ r.at = "copy" /\ r.devs = {} /\ r.todo = {} /\ r.unit = NULL
  BY ReplayBegun
<1>2. Boot \in Thread /\ call' = [call EXCEPT ![Boot] = r] /\ call'[Boot] = r
  BY DEF Scan, LoadRules, Begins, Begun, Thread, IInv, Typed
<1>3. UNCHANGED <<devices, argv, running, there>> /\ dirs' = dirs
  BY DEF Scan, LoadRules, seen
<1>4. Typed' /\ Remembered'
  <2>1. loads' \in 0..MaxLoads /\ scanned' \in BOOLEAN /\ late' = late
    <3>1. loads \in 0..MaxLoads /\ MaxLoads \in Nat /\ scanned \in BOOLEAN
      BY Assumptions DEF IInv, Typed
    <3>2. CASE Scan
      BY <3>1, <3>2 DEF Scan, seen
    <3>3. CASE LoadRules
      BY <3>1, <3>3 DEF LoadRules, seen
    <3> QED
      BY <3>2, <3>3
  <2> QED
    BY <1>1, <1>2, <1>3, <2>1 DEF IInv, Typed, Remembered
<1>5. Proper(Boot)'
  BY <1>1, <1>2 DEF Proper
<1>6. \A o \in Thread : call[o].unit # NULL => argv'[call[o].unit] # NULL
  BY <1>3 DEF IInv, Proper, Registered
<1>7. \A o \in Thread : call[o].at = "spawn" => running'[call[o].unit] = 0
  BY <1>3 DEF IInv, Proper
<1> QED
  BY <1>1, <1>2, <1>4, <1>5, <1>6, <1>7, OneThread

LEMMA MountStep ==
  ASSUME IInv, NEW m \in Device, Mount(m)
  PROVE  IInv'
<1> DEFINE r == Begun("replay", "copy", NULL, NULL)
<1>1. r \in Call /\ r.op = "replay" /\ r.at = "copy" /\ r.devs = {} /\ r.todo = {} /\ r.unit = NULL
  BY ReplayBegun
<1>2. m \in Thread /\ call' = [call EXCEPT ![m] = r] /\ call'[m] = r
  BY DEF Mount, Begins, Begun, Thread, IInv, Typed
<1>3. Typed' /\ Remembered'
  BY <1>1, <1>2 DEF Mount, seen, IInv, Typed, Remembered
<1>4. Proper(m)'
  BY <1>1, <1>2 DEF Proper
<1>5. \A o \in Thread : call[o].unit # NULL => argv'[call[o].unit] # NULL
  BY DEF Mount, IInv, Proper, Registered
<1>6. \A o \in Thread : call[o].at = "spawn" => running'[call[o].unit] = 0
  BY DEF Mount, IInv, Proper
<1> QED
  BY <1>1, <1>2, <1>3, <1>4, <1>5, <1>6, OneThread

LEMMA ReportStep ==
  ASSUME IInv, NEW d \in Device, Report(d)
  PROVE  IInv'
<1>1. d \in Thread /\ UNCHANGED <<lists, running, there>> /\ late' \subseteq Unit
  BY DEF Report, Thread, seen, IInv, Typed
<1>2. PICK v \in Value : call' = [call EXCEPT ![d] = Begun("add", "remember", d, v)]
  BY DEF Report, Begins, Begun
<1> QED
  BY <1>1, <1>2, AddBegun

LEMMA AddSteps ==
  ASSUME IInv, NEW d \in Device, Add(d)
  PROVE  IInv'
<1>1. d \in Thread /\ call[d] \in Call /\ Proper(d)
  BY DEF Thread, IInv, Typed
<1>2. CASE AddRemember(d)
  <2> DEFINE r == [call[d] EXCEPT !.at = "resolve"]
  <2>1. r \in Call /\ call' = [call EXCEPT ![d] = r] /\ call'[d] = r /\ r.at = "resolve"
    BY <1>1, <1>2 DEF AddRemember, Call, IInv, Typed
  <2>2. call[d].value # NULL /\ call[d].value \in Value
    BY <1>1, <1>2 DEF AddRemember, In, Proper, Call
  <2>3. Typed'
    BY <1>2, <2>1, <2>2 DEF AddRemember, IInv, Typed
  <2>4. Remembered'
    BY <1>2, <2>2 DEF AddRemember, IInv, Typed, Remembered
  <2>5. Proper(d)'
    BY <1>1, <1>2 DEF AddRemember, In, Proper
  <2>6. \A o \in Thread : call[o].unit # NULL => argv'[call[o].unit] # NULL
    BY <1>2 DEF AddRemember, IInv, Proper, Registered
  <2>7. \A o \in Thread : call[o].at = "spawn" => running'[call[o].unit] = 0
    BY <1>2 DEF AddRemember, IInv, Proper
  <2> QED
    BY <1>1, <2>1, <2>3, <2>4, <2>5, <2>6, <2>7, OneThread
<1>3. CASE AddResolve(d)
  <2> DEFINE todo == Targets(d, "start")
             r == [call[d] EXCEPT !.at = "next", !.todo = todo]
  <2>1. todo \subseteq Unit
    BY TargetsAreUnits DEF IInv
  <2>2. r \in Call /\ call' = [call EXCEPT ![d] = r] /\ r.at = "next"
    BY <1>1, <1>3, <2>1 DEF AddResolve, Call
  <2>3. Fits(r)
    BY <1>1, <1>3 DEF AddResolve, In, Fits, Proper
  <2>4. UNCHANGED <<lists, running, there>> /\ late' \subseteq Unit
    BY <1>3 DEF AddResolve, seen, IInv, Typed
  <2> QED
    BY <1>1, <2>2, <2>3, <2>4, OnlyCall
<1>4. CASE AddEnd(d)
  BY <1>1, <1>4, NoCallIsCall, OnlyCall DEF AddEnd, NoCall, Fits, seen, IInv, Typed
<1> QED
  BY <1>2, <1>3, <1>4 DEF Add

\* A device that goes has a value to stop its units with, as it is remembered.
LEMMA RemoveStep ==
  ASSUME IInv, NEW d \in Device, Remove(d)
  PROVE  IInv'
<1> DEFINE r == Begun("stop", "resolve", d, devices[d])
<1>1. d \in Thread /\ devices[d] \in Value /\ devices[d] # NULL
  BY DEF Thread, Remove, IInv, Typed, Remembered
<1>2. r \in Call /\ r.op = "stop" /\ r.at = "resolve" /\ r.value = devices[d]
      /\ r.devs = {} /\ r.unit = NULL
  <2>1. "stop" \in Starting \cup Stopping /\ d \in Device \cup {NULL}
        /\ devices[d] \in Value \cup {NULL}
    BY <1>1 DEF Stopping
  <2>2. r \in Call
    BY <2>1, BegunIsCall
  <2> QED
    BY <2>1, BegunIsCall
<1>3. call' = [call EXCEPT ![d] = r] /\ call'[d] = r
  BY <1>1 DEF Remove, Begins, Begun, IInv, Typed
<1>4. Typed'
  BY <1>2, <1>3 DEF Remove, IInv, Typed
<1>5. Remembered'
  BY DEF Remove, IInv, Remembered
<1>6. Proper(d)'
  BY <1>1, <1>2, <1>3 DEF Proper
<1>7. \A o \in Thread : call[o].unit # NULL => argv'[call[o].unit] # NULL
  BY DEF Remove, IInv, Proper, Registered
<1>8. \A o \in Thread : call[o].at = "spawn" => running'[call[o].unit] = 0
  BY DEF Remove, IInv, Proper
<1> QED
  BY <1>1, <1>2, <1>3, <1>4, <1>5, <1>6, <1>7, <1>8, OneThread

\* The instances that go are in no other thread's hand.
LEMMA UnloadTakeStep ==
  ASSUME IInv, "unload" \notin Overlap, NEW m \in Device, UnloadTake(m)
  PROVE  IInv'
<1> DEFINE gone == {u \in Unit : source[u[1]] = m /\ Registered(u)}
           r == [call[m] EXCEPT !.op = "unload", !.todo = gone]
<1>1. m \in Thread /\ call[m] \in Call /\ Proper(m)
      /\ call[m].at = "next" /\ call[m].op = "remove" /\ call[m].unit = NULL
  BY DEF Thread, IInv, Typed, UnloadTake, Done, In, Proper
<1>2. r \in Call /\ r.op = "unload" /\ r.at = "next" /\ r.devs = call[m].devs /\ r.unit = NULL
  BY <1>1 DEF Call, Stopping
<1>3. call' = [call EXCEPT ![m] = r] /\ call'[m] = r
  BY <1>1 DEF UnloadTake, Call, IInv, Typed
<1>4. argv' = [u \in Unit |-> IF u \in gone THEN NULL ELSE argv[u]]
      /\ \A u \in gone : ~InHand(m, u, {"check", "spawn", "wait"})
  BY DEF UnloadTake
<1>5. Typed' /\ Remembered'
  BY ZenonT(60), <1>2, <1>3, <1>4 DEF UnloadTake, seen, IInv, Typed, Remembered
<1>6. Proper(m)'
  BY <1>1, <1>3 DEF Proper
<1>7. ASSUME NEW o \in Thread \ {m}, call[o].unit # NULL
      PROVE  argv'[call[o].unit] # NULL
  <2>1. call[o].unit \in Unit /\ call[o].at \in {"check", "spawn", "wait"} /\ argv[call[o].unit] # NULL
    BY <1>7 DEF IInv, Typed, Call, Proper, Registered
  <2>2. call[o].unit \notin gone
    BY <1>4, <2>1 DEF InHand
  <2> QED
    BY <1>4, <2>1, <2>2
<1>8. \A o \in Thread : call[o].at = "spawn" => running'[call[o].unit] = 0
  BY DEF UnloadTake, IInv, Proper
<1> QED
  BY <1>1, <1>2, <1>3, <1>5, <1>6, <1>7, <1>8, OneThread

LEMMA RemovalSteps ==
  ASSUME IInv, "unload" \notin Overlap, NEW d \in Device, Removal(d)
  PROVE  IInv'
<1>1. d \in Thread /\ call[d] \in Call /\ Proper(d)
  BY DEF Thread, IInv, Typed
<1>2. CASE StopResolve(d)
  <2> DEFINE todo == Targets(d, "start")
             r == [call[d] EXCEPT !.at = "next", !.todo = todo]
  <2>1. todo \subseteq Unit
    BY TargetsAreUnits DEF IInv
  <2>2. r \in Call /\ call' = [call EXCEPT ![d] = r] /\ r.at = "next"
    BY <1>1, <1>2, <2>1 DEF StopResolve, Call
  <2>3. Fits(r)
    BY <1>1, <1>2 DEF StopResolve, In, Fits, Proper
  <2>4. UNCHANGED <<lists, running, there>> /\ late' \subseteq Unit
    BY <1>2 DEF StopResolve, seen, IInv, Typed
  <2> QED
    BY <1>1, <2>2, <2>3, <2>4, OnlyCall
<1>3. CASE RemoveResolve(d)
  <2> DEFINE todo == Targets(d, "remove")
             r == [call[d] EXCEPT !.op = "remove", !.todo = todo]
  <2>1. todo \subseteq Unit
    BY TargetsAreUnits DEF IInv
  <2>2. r \in Call /\ call' = [call EXCEPT ![d] = r] /\ r.at = "next"
    BY <1>1, <1>3, <2>1 DEF RemoveResolve, Done, In, Call, Starting
  <2>3. Fits(r)
    BY <1>1, <1>3 DEF RemoveResolve, Done, In, Fits, Proper
  <2>4. UNCHANGED <<lists, running, there>> /\ late' \subseteq Unit
    BY <1>3 DEF RemoveResolve, seen, IInv, Typed
  <2> QED
    BY <1>1, <2>2, <2>3, <2>4, OnlyCall
<1>4. CASE RemoveEnd(d) \/ UnloadEnd(d)
  BY <1>1, <1>4, NoCallIsCall, OnlyCall DEF RemoveEnd, UnloadEnd, NoCall, Fits, seen,
     IInv, Typed
<1> QED
  BY <1>2, <1>3, <1>4, UnloadTakeStep DEF Removal

-----------------------------------------------------------------------------
(* Theorems                                                                *)

LEMMA Starts == Init => IInv
<1> SUFFICES ASSUME Init PROVE IInv
  OBVIOUS
<1>1. Typed
  <2>1. 0 \in 0..MaxLoads
    BY Assumptions
  <2>2. call \in [Thread -> Call] /\ devices \in [Device -> Value \cup {NULL}]
        /\ argv \in [Unit -> Value \cup {NULL}] /\ running \in [Unit -> 0..1]
    BY NoCallIsCall DEF Init
  <2> QED
    BY <2>1, <2>2 DEF Init, Typed
<1>2. OneSpawner /\ Remembered /\ \A t \in Thread : Proper(t)
  BY DEF Init, NoCall, OneSpawner, Remembered, Proper
<1> QED
  BY <1>1, <1>2 DEF IInv

LEMMA Stays ==
  ASSUME Overlap \cap {"start", "unload"} = {}
  PROVE  IInv /\ [Next]_vars => IInv'
<1> SUFFICES ASSUME IInv, [Next]_vars PROVE IInv'
  OBVIOUS
<1>1. CASE Scan \/ LoadRules
  BY <1>1, ScanStep
<1>2. CASE \E d \in Device : Report(d) \/ Mount(d) \/ Remove(d)
  BY <1>2, ReportStep, MountStep, RemoveStep
<1>3. CASE \E t \in Thread : Proceeds(t)
  <2>1. PICK t \in Thread : Proceeds(t)
    BY <1>3
  <2> QED
    BY <2>1, UnitSteps, ReplaySteps, AddSteps, RemovalSteps DEF Proceeds
<1>4. CASE \E u \in Unit : Exit(u)
  BY <1>4, ExitStep
<1>5. CASE UNCHANGED vars
  BY <1>5 DEF vars, lists, seen, IInv, Typed, OneSpawner, Remembered, Proper, Registered
<1> QED
  BY <1>1, <1>2, <1>3, <1>4, <1>5 DEF Next

LEMMA Kept ==
  ASSUME Overlap \cap {"start", "unload"} = {}
  PROVE  Spec => []IInv
BY Starts, Stays, PTL DEF Spec

\* For any number of devices, mount points, rules and templates: a unit a
\* thread has in hand stays registered until the thread is done with it, and is
\* made with a value its device was reported with.
THEOREM TypesStay ==
  ASSUME Overlap \cap {"start", "unload"} = {}
  PROVE  Spec => []TypeOK
<1>1. IInv => TypeOK
  BY DEF IInv, Typed, TypeOK, Proper, Call
<1> QED
  BY <1>1, Kept, PTL

\* However many threads report, replay and remove, no unit gets two processes.
THEOREM NoSecondProcess ==
  ASSUME Overlap \cap {"start", "unload"} = {}
  PROVE  Spec => []OneProcess
<1>1. IInv => OneProcess
  BY DEF IInv, Typed, OneProcess
<1> QED
  BY <1>1, Kept, PTL

-----------------------------------------------------------------------------
(* Nothing is missed                                                       *)

\* No rule starts a unit that ends by itself when its device comes.
StartedStay ==
    /\ \A n \in 0..MaxLoads : \A r \in ruleSets[n] : r.start \notin OneShot
    /\ \A m \in Mounts : \A r \in brings[m] : r.start \notin OneShot

\* Thread t still has to see to it that u runs for d: it has not taken its copy
\* of the devices, d is still in that copy, u is still to be started or being
\* started, or t has yet to match d with the rules.
Owes(t, d, u) ==
    \/ In(t, "replay", "copy")
    \/ call[t].op = "replay" /\ \E e \in call[t].devs : e[1] = d
    \/ call[t].op \in {"replay", "add"} /\ u \in call[t].todo
    \/ call[t].op \in {"replay", "add"} /\ call[t].unit = u /\ call[t].at \in {"check", "spawn"}
    \/ In(t, "add", "resolve") /\ t = d

\* What is there runs, or is owed by some thread.
Promise ==
    \A d \in there : \A u \in Targets(d, "start") :
        Available(u[1]) /\ u[1] \notin Broken =>
            running[u] > 0 \/ \E t \in Thread : Owes(t, d, u)

\* What a thread stops is of a device that is gone or of a template that is.
Leaving(t) ==
    /\ call[t].op \in {"stop", "remove"} => t \notin there /\ \A u \in call[t].todo : u[2] = t
    /\ call[t].op = "unload" =>
         t \in Mounts \ dirs /\ \A u \in call[t].todo : source[u[1]] = t

\* A call has no unit to start before it has matched its device.
Fresh(t) == call[t].at \in {"copy", "remember", "resolve"} => call[t].todo = {}

PInv == IInv /\ Promise /\ \A t \in Thread : Leaving(t) /\ Fresh(t)

\* A step of t keeps the promise if it brings no device, rule or template, stops
\* nothing that has to run, and t still owes what it owed or has made it run.
LEMMA PromiseKept ==
  ASSUME PInv, NEW t \in Thread, NEW r \in Call, call' = [call EXCEPT ![t] = r],
         there' \subseteq there,
         \A d \in Device : Targets(d, "start")' \subseteq Targets(d, "start"),
         \A c \in Template : Available(c)' => Available(c),
         \A d \in there' : \A u \in Targets(d, "start")' :
             Available(u[1])' /\ running[u] > 0 => running'[u] > 0,
         \A d \in there' : \A u \in Targets(d, "start")' :
             Available(u[1])' /\ u[1] \notin Broken /\ Owes(t, d, u) =>
                 running'[u] > 0 \/ Owes(t, d, u)'
  PROVE  Promise'
<1>1. there \subseteq Device /\ \A o \in Thread \ {t} : call'[o] = call[o]
  BY DEF PInv, IInv, Typed
<1> SUFFICES ASSUME NEW d \in there', NEW u \in Targets(d, "start")',
                    Available(u[1])', u[1] \notin Broken
             PROVE  running'[u] > 0 \/ (\E o \in Thread : Owes(o, d, u)')
  BY DEF Promise
<1>2. d \in Device /\ u \in Targets(d, "start") /\ u \in Unit /\ Available(u[1])
  BY <1>1, TargetsAreUnits DEF PInv, IInv, Unit
<1>3. ASSUME NEW o \in Thread \ {t}, Owes(o, d, u)
      PROVE  Owes(o, d, u)'
  BY <1>3 DEF Owes, In
<1> QED
  BY <1>2, <1>3 DEF PInv, Promise

\* As above, where nothing but calls changes and nothing stops.
LEMMA PromiseOfCall ==
  ASSUME PInv, NEW t \in Thread, NEW r \in Call, call' = [call EXCEPT ![t] = r],
         UNCHANGED <<loads, dirs, scanned, there>>,
         \A u \in Unit : running[u] > 0 => running'[u] > 0,
         \A d \in there : \A u \in Targets(d, "start") :
             Available(u[1]) /\ u[1] \notin Broken /\ Owes(t, d, u) =>
                 running'[u] > 0 \/ Owes(t, d, u)'
  PROVE  Promise'
<1>1. \A d \in Device : Targets(d, "start")' = Targets(d, "start")
  BY DEF Targets, Rules
<1>2. \A c \in Template : Available(c)' = Available(c)
  BY DEF Available
<1>3. there \subseteq Device /\ \A d \in there : Targets(d, "start") \subseteq Unit
  BY TargetsAreUnits DEF PInv, IInv, Typed
<1>4. \A u \in Unit : u[1] \in Template
  BY DEF Unit
<1>5. there' = there
  OBVIOUS
<1>6. \A d \in there' : \A u \in Targets(d, "start")' :
        Available(u[1])' /\ running[u] > 0 => running'[u] > 0
  BY <1>1, <1>3
<1>7. \A d \in there' : \A u \in Targets(d, "start")' :
             Available(u[1])' /\ u[1] \notin Broken /\ Owes(t, d, u) =>
                 running'[u] > 0 \/ Owes(t, d, u)'
  BY <1>1, <1>2, <1>3, <1>4
<1> QED
  BY <1>1, <1>2, <1>5, <1>6, <1>7, PromiseKept

\* A thread that has yet to copy the devices owes everything.
LEMMA PromiseOfCopy ==
  ASSUME NEW t \in Thread, In(t, "replay", "copy")'
  PROVE  Promise'
BY DEF Promise, Owes

LEMMA FindPromise ==
  ASSUME PInv, NEW t \in Thread, NEW u \in call[t].todo, StartFind(t, u)
  PROVE  Promise'
<1> DEFINE r == [call[t] EXCEPT !.at = "check", !.unit = u, !.todo = @ \ {u}]
<1>1. call[t] \in Call /\ Proper(t) /\ u \in Unit
  BY DEF PInv, IInv, Typed, Call
<1>2. r \in Call /\ call' = [call EXCEPT ![t] = r]
  BY <1>1 DEF StartFind, Call
<1>3. call'[t].op = call[t].op /\ call'[t].at = "check" /\ call'[t].unit = u
      /\ call'[t].todo = call[t].todo \ {u} /\ call'[t].devs = call[t].devs
  BY <1>2 DEF PInv, IInv, Typed
<1>4. \A d \in there : \A w \in Targets(d, "start") : Owes(t, d, w) => Owes(t, d, w)'
  BY <1>1, <1>3 DEF Owes, In, StartFind
<1>5. UNCHANGED <<loads, dirs, scanned, there>> /\ running' = running
  BY DEF StartFind, seen
<1> QED
  BY <1>2, <1>4, <1>5, PromiseOfCall

LEMMA UnknownPromise ==
  ASSUME PInv, NEW t \in Thread, NEW u \in call[t].todo, StartUnknown(t, u)
  PROVE  Promise'
<1> DEFINE r == [call[t] EXCEPT !.todo = @ \ {u}]
<1>1. call[t] \in Call /\ Proper(t)
  BY DEF PInv, IInv, Typed
<1>2. r \in Call /\ call' = [call EXCEPT ![t] = r]
  BY <1>1 DEF StartUnknown, Call
<1>3. call'[t].op = call[t].op /\ call'[t].at = call[t].at /\ call'[t].unit = call[t].unit
      /\ call'[t].todo = call[t].todo \ {u} /\ call'[t].devs = call[t].devs
  BY <1>2 DEF PInv, IInv, Typed
<1>4. \A d \in there : \A w \in Targets(d, "start") :
        Available(w[1]) /\ Owes(t, d, w) => Owes(t, d, w)'
  BY DEF Owes, In, StartUnknown
<1>5. UNCHANGED <<loads, dirs, scanned, there>> /\ running' = running
  BY DEF StartUnknown, lists, seen
<1> QED
  BY <1>2, <1>4, <1>5, PromiseOfCall

\* A unit that is found running is what was owed.
LEMMA CheckPromise ==
  ASSUME PInv, NEW t \in Thread, StartCheck(t)
  PROVE  Promise'
<1>1. call[t] \in Call /\ Proper(t) /\ call[t].at = "check"
  BY DEF PInv, IInv, Typed, StartCheck
<1>2. UNCHANGED <<loads, dirs, scanned, there>> /\ running' = running
  BY DEF StartCheck, lists, seen
<1>3. CASE running[call[t].unit] > 0
  <2> DEFINE r == [call[t] EXCEPT !.at = "next", !.unit = NULL]
  <2>1. r \in Call /\ call' = [call EXCEPT ![t] = r]
    BY <1>1, <1>3 DEF StartCheck, Call
  <2>2. call'[t].op = call[t].op /\ call'[t].todo = call[t].todo /\ call'[t].devs = call[t].devs
    BY <2>1
  <2>3. \A d \in there : \A w \in Targets(d, "start") :
          Owes(t, d, w) => running'[w] > 0 \/ Owes(t, d, w)'
    BY <1>1, <1>2, <1>3, <2>2 DEF Owes, In
  <2> QED
    BY <1>2, <2>1, <2>3, PromiseOfCall
<1>4. CASE ~(running[call[t].unit] > 0)
  <2> DEFINE r == [call[t] EXCEPT !.at = "spawn"]
  <2>1. r \in Call /\ call' = [call EXCEPT ![t] = r]
    BY <1>1, <1>4 DEF StartCheck, Call
  <2>2. call'[t].op = call[t].op /\ call'[t].todo = call[t].todo /\ call'[t].devs = call[t].devs
        /\ call'[t].at = "spawn" /\ call'[t].unit = call[t].unit
    BY <2>1 DEF PInv, IInv, Typed
  <2>3. \A d \in there : \A w \in Targets(d, "start") : Owes(t, d, w) => Owes(t, d, w)'
    BY <1>1, <2>2 DEF Owes, In
  <2> QED
    BY <1>2, <2>1, <2>3, PromiseOfCall
<1> QED
  BY <1>3, <1>4

LEMMA StartEndPromise ==
  ASSUME PInv, NEW t \in Thread, StartFails(t) \/ WaitEnded(t) \/ WaitTimeout(t)
  PROVE  Promise'
<1> DEFINE r == [call[t] EXCEPT !.at = "next", !.unit = NULL]
<1>1. call[t] \in Call /\ Proper(t) /\ call[t].at \in {"spawn", "wait"}
      /\ (call[t].at = "spawn" => call[t].unit[1] \in Broken)
  BY DEF PInv, IInv, Typed, StartFails, WaitEnded, WaitTimeout
<1>2. r \in Call /\ call' = [call EXCEPT ![t] = r]
  BY <1>1 DEF StartFails, WaitEnded, WaitTimeout, Call
<1>3. call'[t].op = call[t].op /\ call'[t].todo = call[t].todo /\ call'[t].devs = call[t].devs
  BY <1>2
<1>4. \A d \in there : \A w \in Targets(d, "start") :
        w[1] \notin Broken /\ Owes(t, d, w) => Owes(t, d, w)'
  BY <1>1, <1>3 DEF Owes, In
<1>5. UNCHANGED <<loads, dirs, scanned, there>> /\ running' = running
  BY DEF StartFails, WaitEnded, WaitTimeout, lists, seen
<1> QED
  BY <1>2, <1>4, <1>5, PromiseOfCall

LEMMA SpawnPromise ==
  ASSUME PInv, NEW t \in Thread, StartSpawn(t)
  PROVE  Promise'
<1> DEFINE r == IF call[t].op = "remove" THEN [call[t] EXCEPT !.at = "wait"]
                                         ELSE [call[t] EXCEPT !.at = "next", !.unit = NULL]
<1>1. call[t] \in Call /\ Proper(t) /\ call[t].unit \in Unit /\ call[t].at = "spawn"
      /\ running[call[t].unit] = 0
  BY DEF PInv, IInv, Typed, StartSpawn, Proper, Call
<1>2. r \in Call /\ call' = [call EXCEPT ![t] = r]
  BY <1>1 DEF StartSpawn, Call
<1>3. call'[t].op = call[t].op /\ call'[t].todo = call[t].todo /\ call'[t].devs = call[t].devs
  BY <1>2
<1>4. running' = [running EXCEPT ![call[t].unit] = 1] /\ running' \in [Unit -> 0..1]
  BY <1>1 DEF StartSpawn, PInv, IInv, Typed
<1>5. \A w \in Unit : running[w] > 0 => running'[w] > 0
  BY <1>4
<1>6. running'[call[t].unit] > 0
  BY <1>4
<1>7. \A d \in there : \A w \in Targets(d, "start") :
        Owes(t, d, w) => running'[w] > 0 \/ Owes(t, d, w)'
  BY <1>1, <1>3, <1>6 DEF Owes, In
<1>8. UNCHANGED <<loads, dirs, scanned, there>>
  BY DEF StartSpawn, lists, seen
<1> QED
  BY <1>2, <1>5, <1>7, <1>8, PromiseOfCall

\* What is stopped is not of a device that is there, or not available.
LEMMA StopPromise ==
  ASSUME PInv, NEW t \in Thread, NEW u \in call[t].todo, StopUnit(t, u)
  PROVE  Promise'
<1> DEFINE r == [call[t] EXCEPT !.todo = @ \ {u}]
<1>1. call[t] \in Call /\ Proper(t) /\ u \in Unit /\ call[t].op \in {"stop", "unload"}
  BY DEF PInv, IInv, Typed, Call, StopUnit, Stopping
<1>2. r \in Call /\ call' = [call EXCEPT ![t] = r]
  BY <1>1 DEF StopUnit, Call
<1>3. UNCHANGED <<loads, dirs, scanned, there>> /\ \A w \in Unit \ {u} : running'[w] = running[w]
  BY DEF StopUnit, lists
<1>4. \A d \in Device : Targets(d, "start")' = Targets(d, "start")
  BY <1>3 DEF Targets, Rules
<1>5. \A c \in Template : Available(c)' = Available(c)
  BY <1>3 DEF Available
<1>6. ASSUME NEW d \in there, NEW w \in Targets(d, "start"), Available(w[1])
      PROVE  running'[w] = running[w]
  <2>1. d \in Device /\ w \in Unit /\ w[2] = d
    BY TargetsAreUnits DEF PInv, IInv, Typed, Targets
  <2>2. CASE call[t].op = "stop"
    BY <1>3, <2>1, <2>2 DEF PInv, Leaving
  <2>3. CASE call[t].op = "unload"
    <3>1. t # Boot /\ t \notin dirs /\ source[u[1]] = t
      BY <2>3, Assumptions DEF PInv, Leaving
    <3>2. w # u
      BY <1>6, <3>1 DEF Available
    <3> QED
      BY <1>3, <2>1, <3>2
  <2> QED
    BY <1>1, <2>2, <2>3
<1>7. \A d \in there : \A w \in Targets(d, "start") : ~Owes(t, d, w)
  BY <1>1 DEF Owes, In
<1>8. \A c \in Template : Available(c)' => Available(c)
  BY <1>5
<1>9. \A d \in there : \A w \in Targets(d, "start") : w[1] \in Template
  BY TargetsAreUnits DEF PInv, IInv, Typed, Unit
<1>10. there' = there /\ there \subseteq Device
  BY <1>3 DEF PInv, IInv, Typed
<1>11. \A d \in there' : \A w \in Targets(d, "start")' :
         Available(w[1])' /\ running[w] > 0 => running'[w] > 0
  BY <1>4, <1>5, <1>6, <1>9, <1>10
<1>12. \A d \in there' : \A w \in Targets(d, "start")' :
         Available(w[1])' /\ w[1] \notin Broken /\ Owes(t, d, w) =>
             running'[w] > 0 \/ Owes(t, d, w)'
  BY <1>4, <1>7, <1>10
<1> QED
  BY <1>2, <1>4, <1>8, <1>10, <1>11, <1>12, PromiseKept

LEMMA UnitPromise ==
  ASSUME PInv, NEW t \in Thread, UnitStep(t)
  PROVE  Promise'
BY FindPromise, UnknownPromise, StopPromise, CheckPromise, StartEndPromise,
   SpawnPromise DEF UnitStep

\* A copy has every device that is there, and the next of it is matched whole.
LEMMA ReplayPromise ==
  ASSUME PInv, NEW t \in Thread, Replay(t)
  PROVE  Promise'
<1>1. call[t] \in Call /\ Proper(t) /\ there \subseteq Device
      /\ UNCHANGED <<loads, dirs, scanned, there>> /\ running' = running
  BY DEF PInv, IInv, Typed, Replay, ReplayCopy, ReplayDevice, ReplayEnd, lists, seen
<1>2. CASE ReplayCopy(t)
  <2> DEFINE devs == {<<d, devices[d]>> : d \in {d \in Device : devices[d] # NULL}}
             r == [call[t] EXCEPT !.at = "next", !.devs = devs]
  <2>1. devs \subseteq Device \X (Value \cup {NULL})
        /\ \A d \in there : \E e \in devs : e[1] = d
    <3>1. \A d \in there : <<d, devices[d]>> \in devs
      BY <1>1 DEF PInv, IInv, Remembered
    <3>2. devs \subseteq Device \X (Value \cup {NULL})
      BY DEF PInv, IInv, Typed
    <3>3. \A d \in there : <<d, devices[d]>>[1] = d
      OBVIOUS
    <3> QED
      BY <3>1, <3>2, <3>3
  <2>2. r \in Call /\ call' = [call EXCEPT ![t] = r]
    BY ZenonT(60), <1>1, <1>2, <2>1 DEF ReplayCopy, Call
  <2>3. call'[t].op = "replay" /\ call'[t].devs = devs
    BY ZenonT(60), <1>1, <1>2, <2>2 DEF ReplayCopy, In, Call, PInv, IInv, Typed
  <2>4. \A d \in there : \A w \in Targets(d, "start") : Owes(t, d, w)'
    BY <2>1, <2>3 DEF Owes
  <2> QED
    BY <1>1, <2>2, <2>4, PromiseOfCall
<1>3. CASE ReplayDevice(t)
  <2>1. PICK e \in call[t].devs :
          call' = [call EXCEPT ![t].devs = @ \ {e}, ![t].dev = e[1], ![t].value = e[2],
                               ![t].todo = Targets(e[1], "start")]
    BY <1>3 DEF ReplayDevice
  <2>2. e[1] \in Device /\ e[2] \in Value
    BY <1>1 DEF Call, Proper
  <2> DEFINE todo == Targets(e[1], "start")
             r == [call[t] EXCEPT !.devs = @ \ {e}, !.dev = e[1], !.value = e[2], !.todo = todo]
  <2>3. todo \subseteq Unit
    BY <2>2, TargetsAreUnits DEF PInv, IInv
  <2>4. r \in Call /\ call' = [call EXCEPT ![t] = r]
    BY <1>1, <2>1, <2>2, <2>3 DEF Call
  <2>5. call'[t].op = "replay" /\ call'[t].devs = call[t].devs \ {e} /\ call'[t].todo = todo
    BY <1>1, <1>3, <2>4 DEF ReplayDevice, Done, In, Call, PInv, IInv, Typed
  <2>6. \A d \in there : \A w \in Targets(d, "start") : Owes(t, d, w) => Owes(t, d, w)'
    BY <1>1, <1>3, <2>5 DEF ReplayDevice, Done, In, Owes, Proper
  <2> QED
    BY <1>1, <2>4, <2>6, PromiseOfCall
<1>4. CASE ReplayEnd(t)
  <2>1. \A d \in there : \A w \in Targets(d, "start") : ~Owes(t, d, w)
    BY <1>4 DEF ReplayEnd, Done, In, Owes
  <2>2. PICK r \in Call : call' = [call EXCEPT ![t] = r]
    <3>1. CASE t = Boot
      BY <1>4, <3>1, NoCallIsCall DEF ReplayEnd
    <3>2. CASE t # Boot
      <4>1. t \in Device /\ "add" \in Starting \cup Stopping
        BY <3>2 DEF Thread, Starting
      <4>2. PICK v \in Value : call' = [call EXCEPT ![t] = Begun("add", "remember", t, v)]
        BY <1>4, <3>2 DEF ReplayEnd, Begins, Begun
      <4>3. Begun("add", "remember", t, v) \in Call
        BY <4>1, BegunIsCall
      <4> QED
        BY <4>2, <4>3
    <3> QED
      BY <3>1, <3>2
  <2> QED
    BY <1>1, <2>1, <2>2, PromiseOfCall
<1> QED
  BY <1>2, <1>3, <1>4 DEF Replay

\* A thread that is in no call, or done with one, owes nothing.
LEMMA NothingOwed ==
  ASSUME PInv, NEW t \in Thread,
         call[t].op \in {"none", "stop", "remove", "unload"} \/ Done(t, "add")
  PROVE  \A d \in there : \A w \in Targets(d, "start") : ~Owes(t, d, w)
BY DEF Owes, Done, In

LEMMA ReportPromise ==
  ASSUME PInv, NEW d \in Device, Report(d)
  PROVE  Promise'
<1>1. d \in Thread /\ UNCHANGED <<loads, dirs, scanned, there>> /\ running' = running
  BY DEF Report, Thread, lists, seen
<1>2. PICK v \in Value : call' = [call EXCEPT ![d] = Begun("add", "remember", d, v)]
  BY DEF Report, Begins, Begun
<1>3. "add" \in Starting \cup Stopping
  BY DEF Starting
<1>4. Begun("add", "remember", d, v) \in Call
  BY <1>3, BegunIsCall
<1>5. \A o \in there : \A w \in Targets(o, "start") : ~Owes(d, o, w)
  BY <1>1, NothingOwed DEF Report
<1> QED
  BY <1>1, <1>2, <1>4, <1>5, PromiseOfCall

LEMMA AddPromise ==
  ASSUME PInv, NEW d \in Device, Add(d)
  PROVE  Promise'
<1>1. d \in Thread /\ call[d] \in Call /\ Proper(d) /\ running' = running
      /\ UNCHANGED <<loads, dirs, scanned>>
  BY DEF Thread, PInv, IInv, Typed, Add, AddRemember, AddResolve, AddEnd, lists
<1>2. CASE AddRemember(d)
  <2>1. call' = [call EXCEPT ![d].at = "resolve"] /\ there' = there \cup {d}
    BY <1>2 DEF AddRemember
  <2>2. In(d, "add", "resolve")' /\ \A o \in Thread \ {d} : call'[o] = call[o]
    BY <1>1, <1>2 DEF AddRemember, In, PInv, IInv, Typed
  <2>3. \A o \in Device : Targets(o, "start")' = Targets(o, "start")
    BY <1>1 DEF Targets, Rules
  <2>4. there' \subseteq Device
    BY <2>1 DEF PInv, IInv, Typed
  <2> SUFFICES ASSUME NEW e \in there', NEW u \in Targets(e, "start")',
                      Available(u[1])', u[1] \notin Broken
               PROVE  running'[u] > 0 \/ (\E t \in Thread : Owes(t, e, u)')
    BY DEF Promise
  <2>5. CASE e = d
    BY <1>1, <2>2, <2>5 DEF Owes
  <2>6. CASE e # d
    <3>1. e \in there /\ u \in Targets(e, "start") /\ Available(u[1])
      BY <1>1, <2>1, <2>3, <2>4, <2>6 DEF Available
    <3>2. ~Owes(d, e, u)
      BY <1>1, <1>2 DEF AddRemember, Owes, In, PInv, Fresh
    <3>3. \A t \in Thread \ {d} : Owes(t, e, u) => Owes(t, e, u)'
      BY <2>2 DEF Owes, In
    <3> QED
      BY <1>1, <3>1, <3>2, <3>3 DEF PInv, Promise
  <2> QED
    BY <2>5, <2>6
<1>3. CASE AddResolve(d)
  <2> DEFINE todo == Targets(d, "start")
             r == [call[d] EXCEPT !.at = "next", !.todo = todo]
  <2>1. todo \subseteq Unit
    BY TargetsAreUnits DEF PInv, IInv
  <2>2. r \in Call /\ call' = [call EXCEPT ![d] = r]
    BY <1>1, <1>3, <2>1 DEF AddResolve, Call
  <2>3. call'[d].op = "add" /\ call'[d].todo = todo
    BY <1>1, <1>3 DEF AddResolve, In, PInv, IInv, Typed
  <2>4. \A o \in there : \A w \in Targets(o, "start") : Owes(d, o, w) => Owes(d, o, w)'
    BY <1>1, <1>3, <2>3 DEF AddResolve, In, Owes, PInv, Fresh
  <2>5. there' = there
    BY <1>3 DEF AddResolve, seen
  <2> QED
    BY <1>1, <2>2, <2>4, <2>5, PromiseOfCall
<1>4. CASE AddEnd(d)
  <2>1. call' = [call EXCEPT ![d] = NoCall] /\ there' = there
    BY <1>4 DEF AddEnd, seen
  <2>2. \A o \in there : \A w \in Targets(o, "start") : ~Owes(d, o, w)
    BY <1>1, <1>4, NothingOwed DEF AddEnd
  <2> QED
    BY <1>1, <2>1, <2>2, NoCallIsCall, PromiseOfCall
<1> QED
  BY <1>2, <1>3, <1>4 DEF Add

\* What goes takes nothing with it that is owed to what stays.
LEMMA GoingPromise ==
  ASSUME PInv, NEW d \in Device, Remove(d) \/ Removal(d)
  PROVE  Promise'
<1>1. d \in Thread /\ call[d] \in Call /\ running' = running /\ there' \subseteq there
      /\ loads' = loads /\ scanned' = scanned /\ dirs' \subseteq dirs
      /\ call[d].op \in {"none", "stop", "remove", "unload"}
  BY DEF Thread, PInv, IInv, Typed, Remove, Removal, StopResolve, RemoveResolve,
     RemoveEnd, UnloadTake, UnloadEnd, Done, In, lists, seen
<1>2. \A o \in Device : Targets(o, "start")' \subseteq Targets(o, "start")
  BY <1>1 DEF Targets, Rules
<1>3. \A c \in Template : Available(c)' => Available(c)
  BY <1>1 DEF Available
<1>4. there \subseteq Device /\ \A o \in there : \A w \in Targets(o, "start") : ~Owes(d, o, w)
  BY <1>1, NothingOwed DEF PInv, IInv, Typed
<1>5. PICK r \in Call : call' = [call EXCEPT ![d] = r]
  <2>1. CASE Remove(d)
    <3>1. "stop" \in Starting \cup Stopping /\ d \in Device \cup {NULL}
          /\ devices[d] \in Value \cup {NULL}
      BY DEF Stopping, PInv, IInv, Typed
    <3>2. Begun("stop", "resolve", d, devices[d]) \in Call
      BY <3>1, BegunIsCall
    <3> QED
      BY <2>1, <3>2 DEF Remove, Begins, Begun
  <2>2. CASE StopResolve(d)
    <3> DEFINE todo == Targets(d, "start")
               r == [call[d] EXCEPT !.at = "next", !.todo = todo]
    <3>1. todo \subseteq Unit
      BY TargetsAreUnits DEF PInv, IInv
    <3>2. r \in Call /\ call' = [call EXCEPT ![d] = r]
      BY <1>1, <2>2, <3>1 DEF StopResolve, Call
    <3> QED
      BY <3>2
  <2>3. CASE RemoveResolve(d)
    <3> DEFINE todo == Targets(d, "remove")
               r == [call[d] EXCEPT !.op = "remove", !.todo = todo]
    <3>1. todo \subseteq Unit
      BY TargetsAreUnits DEF PInv, IInv
    <3>2. r \in Call /\ call' = [call EXCEPT ![d] = r]
      BY <1>1, <2>3, <3>1 DEF RemoveResolve, Call, Starting
    <3> QED
      BY <3>2
  <2>4. CASE UnloadTake(d)
    <3> DEFINE gone == {u \in Unit : source[u[1]] = d /\ Registered(u)}
               r == [call[d] EXCEPT !.op = "unload", !.todo = gone]
    <3>1. gone \subseteq Unit
      OBVIOUS
    <3>2. r \in Call /\ call' = [call EXCEPT ![d] = r]
      BY <1>1, <2>4, <3>1 DEF UnloadTake, Call, Stopping
    <3> QED
      BY <3>2
  <2>5. CASE RemoveEnd(d) \/ UnloadEnd(d)
    BY <2>5, NoCallIsCall DEF RemoveEnd, UnloadEnd
  <2> QED
    BY <2>1, <2>2, <2>3, <2>4, <2>5 DEF Removal
<1>6. \A o \in there' : \A w \in Targets(o, "start")' : ~Owes(d, o, w)
  BY <1>1, <1>2, <1>4
<1>7. \A o \in there' : \A w \in Targets(o, "start")' :
        Available(w[1])' /\ running[w] > 0 => running'[w] > 0
  BY <1>1
<1> QED
  BY <1>1, <1>2, <1>3, <1>5, <1>6, <1>7, PromiseKept

LEMMA CopyPromise ==
  ASSUME PInv, Scan \/ LoadRules \/ \E m \in Device : Mount(m)
  PROVE  Promise'
<1>1. CASE Scan \/ LoadRules
  <2>1. In(Boot, "replay", "copy")' /\ Boot \in Thread
    BY <1>1 DEF Scan, LoadRules, Begins, NoCall, In, Thread, PInv, IInv, Typed
  <2> QED
    BY <2>1, PromiseOfCopy
<1>2. CASE \E m \in Device : Mount(m)
  <2>1. PICK m \in Device : Mount(m)
    BY <1>2
  <2>2. In(m, "replay", "copy")' /\ m \in Thread
    BY <2>1 DEF Mount, Begins, In, Thread, PInv, IInv, Typed
  <2> QED
    BY <2>2, PromiseOfCopy
<1> QED
  BY <1>1, <1>2

\* What ends by itself is not what the rules start.
LEMMA ExitPromise ==
  ASSUME PInv, StartedStay, NEW u \in Unit, Exit(u)
  PROVE  Promise'
<1>1. \A r \in Rules : r.start \notin OneShot
  BY DEF StartedStay, Rules, PInv, IInv, Typed
<1>2. \A d \in there : u \notin Targets(d, "start")
  BY <1>1 DEF Targets, Exit
<1>3. \A w \in Unit \ {u} : running'[w] = running[w]
  BY DEF Exit
<1>4. UNCHANGED <<loads, dirs, scanned, there, call>>
  BY DEF Exit, lists
<1>5. \A d \in there : Targets(d, "start")' = Targets(d, "start") /\ Targets(d, "start") \subseteq Unit
  BY <1>4, TargetsAreUnits DEF Targets, Rules, PInv, IInv, Typed
<1>6. \A t \in Thread, d \in there, w \in Unit : Owes(t, d, w)' = Owes(t, d, w)
  BY <1>4 DEF Owes, In
<1> SUFFICES ASSUME NEW d \in there', NEW w \in Targets(d, "start")',
                    Available(w[1])', w[1] \notin Broken
             PROVE  running'[w] > 0 \/ (\E t \in Thread : Owes(t, d, w)')
  BY DEF Promise
<1>7. d \in there /\ w \in Targets(d, "start") /\ w \in Unit \ {u} /\ Available(w[1])
  BY <1>2, <1>4, <1>5 DEF Available
<1> QED
  BY <1>3, <1>6, <1>7 DEF PInv, Promise

LEMMA OthersStay ==
  ASSUME PInv, NEW t \in Thread, \A o \in Thread \ {t} : call'[o] = call[o],
         there' \subseteq there \cup {t}, dirs' \subseteq dirs \cup {t},
         Leaving(t)', Fresh(t)'
  PROVE  \A o \in Thread : Leaving(o)' /\ Fresh(o)'
<1> SUFFICES ASSUME NEW o \in Thread \ {t} PROVE Leaving(o)' /\ Fresh(o)'
  OBVIOUS
<1> QED
  BY DEF PInv, Leaving, Fresh

LEMMA UnitLeaving ==
  ASSUME PInv, NEW t \in Thread, UnitStep(t)
  PROVE  \A o \in Thread : Leaving(o)' /\ Fresh(o)'
<1>1. call[t] \in Call /\ there' = there /\ dirs' = dirs
  BY DEF PInv, IInv, Typed, UnitStep, StartFind, StartUnknown, StopUnit, StartCheck,
     StartFails, StartSpawn, WaitEnded, WaitTimeout, lists, seen
<1>2. PICK r \in Call : /\ call' = [call EXCEPT ![t] = r]
                        /\ r.op = call[t].op /\ r.todo \subseteq call[t].todo
                        /\ r.at \in {"next", "check", "spawn", "wait"}
  <2>1. CASE \E u \in call[t].todo : StartFind(t, u)
    <3>1. PICK u \in call[t].todo : StartFind(t, u)
      BY <2>1
    <3> DEFINE r == [call[t] EXCEPT !.at = "check", !.unit = u, !.todo = @ \ {u}]
    <3>2. u \in Unit
      BY <1>1 DEF Call
    <3>3. r \in Call /\ call' = [call EXCEPT ![t] = r] /\ r.op = call[t].op
          /\ r.todo \subseteq call[t].todo /\ r.at = "check"
      BY <1>1, <3>1, <3>2 DEF StartFind, Call
    <3> QED
      BY <3>3
  <2>2. CASE \E u \in call[t].todo : StartUnknown(t, u) \/ StopUnit(t, u)
    <3>1. PICK u \in call[t].todo : StartUnknown(t, u) \/ StopUnit(t, u)
      BY <2>2
    <3> DEFINE r == [call[t] EXCEPT !.todo = @ \ {u}]
    <3>2. r \in Call /\ call' = [call EXCEPT ![t] = r] /\ r.op = call[t].op
          /\ r.todo \subseteq call[t].todo /\ r.at = "next"
      BY <1>1, <3>1 DEF StartUnknown, StopUnit, Call
    <3> QED
      BY <3>2
  <2>3. CASE call' = [call EXCEPT ![t] = [call[t] EXCEPT !.at = "next", !.unit = NULL]]
    <3> DEFINE r == [call[t] EXCEPT !.at = "next", !.unit = NULL]
    <3>1. r \in Call /\ r.op = call[t].op /\ r.todo = call[t].todo /\ r.at = "next"
      BY <1>1 DEF Call
    <3> QED
      BY <2>3, <3>1
  <2>4. ASSUME NEW at \in {"spawn", "wait"}, call' = [call EXCEPT ![t] = [call[t] EXCEPT !.at = at]]
        PROVE  \E r \in Call : /\ call' = [call EXCEPT ![t] = r]
                               /\ r.op = call[t].op /\ r.todo \subseteq call[t].todo
                               /\ r.at \in {"next", "check", "spawn", "wait"}
    <3> DEFINE r == [call[t] EXCEPT !.at = at]
    <3>1. r \in Call /\ r.op = call[t].op /\ r.todo = call[t].todo /\ r.at = at
      BY <1>1 DEF Call
    <3> QED
      BY <2>4, <3>1
  <2>5. CASE StartCheck(t) \/ StartFails(t) \/ StartSpawn(t) \/ WaitEnded(t) \/ WaitTimeout(t)
    <3>1. \/ call' = [call EXCEPT ![t] = [call[t] EXCEPT !.at = "next", !.unit = NULL]]
          \/ call' = [call EXCEPT ![t] = [call[t] EXCEPT !.at = "spawn"]]
          \/ call' = [call EXCEPT ![t] = [call[t] EXCEPT !.at = "wait"]]
      BY <1>1, <2>5 DEF StartCheck, StartFails, StartSpawn, WaitEnded, WaitTimeout, Call
    <3> QED
      BY <2>3, <2>4, <3>1
  <2> QED
    BY <2>1, <2>2, <2>5 DEF UnitStep
<1>3. call'[t] = r /\ \A o \in Thread \ {t} : call'[o] = call[o]
  BY <1>2 DEF PInv, IInv, Typed
<1>4. Leaving(t)' /\ Fresh(t)'
  BY <1>1, <1>2 DEF PInv, Leaving, Fresh
<1> QED
  BY <1>1, <1>3, <1>4, OthersStay

LEMMA AddBegins ==
  ASSUME IInv, NEW d \in Device, d \in Thread, NEW v \in Value,
         call' = [call EXCEPT ![d] = Begun("add", "remember", d, v)]
  PROVE  call'[d].op = "add" /\ call'[d].todo = {}
<1>1. "add" \in Starting \cup Stopping /\ d \in Device \cup {NULL} /\ v \in Value \cup {NULL}
  BY DEF Starting
<1>2. call'[d] = Begun("add", "remember", d, v)
  BY DEF IInv, Typed
<1> QED
  BY <1>1, <1>2, BegunIsCall

LEMMA ReplayLeaving ==
  ASSUME PInv, NEW t \in Thread, Replay(t)
  PROVE  \A o \in Thread : Leaving(o)' /\ Fresh(o)'
<1>1. call[t] \in Call /\ there' = there /\ dirs' = dirs
  BY DEF PInv, IInv, Typed, Replay, ReplayCopy, ReplayDevice, ReplayEnd, lists, seen
<1>2. /\ call'[t].op \in {"none", "replay", "add"}
      /\ call'[t].at \in {"copy", "remember", "resolve"} => call'[t].todo = {}
  <2>1. CASE ReplayCopy(t)
    BY <2>1 DEF ReplayCopy, In, PInv, IInv, Typed
  <2>2. CASE ReplayDevice(t)
    BY <2>2 DEF ReplayDevice, Done, In, PInv, IInv, Typed
  <2>3. CASE ReplayEnd(t)
    <3>1. CASE t = Boot
      BY <2>3, <3>1 DEF ReplayEnd, NoCall, PInv, IInv, Typed
    <3>2. CASE t # Boot
      <4>1. t \in Device
        BY <3>2 DEF Thread
      <4>2. PICK v \in Value : call' = [call EXCEPT ![t] = Begun("add", "remember", t, v)]
        BY <2>3, <3>2 DEF ReplayEnd, Begins, Begun
      <4> QED
        BY <4>1, <4>2, AddBegins DEF PInv
    <3> QED
      BY <3>1, <3>2
  <2> QED
    BY <2>1, <2>2, <2>3 DEF Replay
<1>3. \A o \in Thread \ {t} : call'[o] = call[o]
  BY DEF Replay, ReplayCopy, ReplayDevice, ReplayEnd, Begins, PInv, IInv, Typed
<1> QED
  BY <1>1, <1>2, <1>3, OthersStay DEF Leaving, Fresh

LEMMA BeginLeaving ==
  ASSUME PInv, Scan \/ LoadRules \/ \E d \in Device : Report(d) \/ Mount(d) \/ Add(d)
  PROVE  \A o \in Thread : Leaving(o)' /\ Fresh(o)'
<1>1. CASE Scan \/ LoadRules
  <2>1. Boot \in Thread /\ there' = there /\ dirs' = dirs
        /\ call'[Boot].op = "replay" /\ call'[Boot].todo = {}
        /\ \A o \in Thread \ {Boot} : call'[o] = call[o]
    BY ZenonT(60), <1>1 DEF Scan, LoadRules, Begins, NoCall, Thread, seen, PInv, IInv, Typed
  <2> QED
    BY <2>1, OthersStay DEF Leaving, Fresh
<1>2. ASSUME NEW d \in Device, Report(d) \/ Mount(d) \/ Add(d)
      PROVE  \A o \in Thread : Leaving(o)' /\ Fresh(o)'
  <2>1. d \in Thread /\ call[d] \in Call /\ there' \subseteq there \cup {d} /\ dirs' \subseteq dirs \cup {d}
    BY <1>2 DEF Thread, Report, Mount, Add, AddRemember, AddResolve, AddEnd, lists, seen,
       PInv, IInv, Typed
  <2>2. \A o \in Thread \ {d} : call'[o] = call[o]
    BY <1>2 DEF Report, Mount, Add, AddRemember, AddResolve, AddEnd, Begins, PInv, IInv,
       Typed
  <2>3. CASE Report(d) \/ Mount(d) \/ AddEnd(d)
    <3>1. call'[d].op \in {"replay", "add", "none"} /\ call'[d].todo = {}
      <4>1. CASE Report(d)
        <5>1. PICK v \in Value : call' = [call EXCEPT ![d] = Begun("add", "remember", d, v)]
          BY <4>1 DEF Report, Begins, Begun
        <5> QED
          BY <2>1, <5>1, AddBegins DEF PInv
      <4>2. CASE Mount(d)
        BY <2>1, <4>2 DEF Mount, Begins, NoCall, PInv, IInv, Typed
      <4>3. CASE AddEnd(d)
        BY <2>1, <4>3 DEF AddEnd, NoCall, PInv, IInv, Typed
      <4> QED
        BY <2>3, <4>1, <4>2, <4>3
    <3> QED
      BY <2>1, <2>2, <3>1, OthersStay DEF Leaving, Fresh
  <2>4. CASE AddRemember(d) \/ AddResolve(d)
    <3>1. call'[d].op = "add"
          /\ (call'[d].at \in {"copy", "remember", "resolve"} => call'[d].todo = {})
      BY <2>1, <2>4 DEF AddRemember, AddResolve, In, Call, Fresh, PInv, IInv, Typed
    <3> QED
      BY <2>1, <2>2, <3>1, OthersStay DEF Leaving, Fresh
  <2> QED
    BY <1>2, <2>3, <2>4 DEF Add
<1> QED
  BY <1>1, <1>2

LEMMA GoingLeaving ==
  ASSUME PInv, NEW d \in Device, Remove(d) \/ Removal(d)
  PROVE  \A o \in Thread : Leaving(o)' /\ Fresh(o)'
<1>1. d \in Thread /\ call[d] \in Call /\ there' \subseteq there /\ dirs' \subseteq dirs
  BY DEF Thread, PInv, IInv, Typed, Remove, Removal, StopResolve, RemoveResolve,
     RemoveEnd, UnloadTake, UnloadEnd, lists, seen
<1>2. \A o \in Thread \ {d} : call'[o] = call[o]
  BY DEF Remove, Removal, StopResolve, RemoveResolve, RemoveEnd, UnloadTake, UnloadEnd,
     Begins, PInv, IInv, Typed
<1>3. CASE Remove(d)
  <2>1. call'[d].op = "stop" /\ call'[d].todo = {} /\ d \notin there'
    BY <1>1, <1>3 DEF Remove, Begins, NoCall, PInv, IInv, Typed
  <2> QED
    BY <1>1, <1>2, <2>1, OthersStay DEF Leaving, Fresh
<1>4. CASE StopResolve(d) \/ RemoveResolve(d)
  <2>1. call'[d].op \in {"stop", "remove"} /\ call'[d].at = "next"
        /\ (call'[d].todo = Targets(d, "start") \/ call'[d].todo = Targets(d, "remove"))
    BY <1>1, <1>4 DEF StopResolve, RemoveResolve, Done, In, Call, PInv, IInv, Typed
  <2>2. \A u \in call'[d].todo : u[2] = d
    BY <2>1 DEF Targets
  <2>3. d \notin there'
    BY <1>1, <1>4 DEF StopResolve, RemoveResolve, Done, In, PInv, Leaving
  <2> QED
    BY <1>1, <1>2, <2>1, <2>2, <2>3, OthersStay DEF Leaving, Fresh
<1>5. CASE UnloadTake(d)
  <2> DEFINE gone == {u \in Unit : source[u[1]] = d /\ Registered(u)}
  <2>1. call'[d].op = "unload" /\ call'[d].at = "next" /\ call'[d].todo = gone
        /\ d \in Mounts \ dirs'
    BY <1>1, <1>5 DEF UnloadTake, Done, In, PInv, IInv, Typed
  <2> QED
    BY <1>1, <1>2, <2>1, OthersStay DEF Leaving, Fresh
<1>6. CASE RemoveEnd(d) \/ UnloadEnd(d)
  <2>1. call'[d].op = "none" /\ call'[d].todo = {}
    BY <1>1, <1>6 DEF RemoveEnd, UnloadEnd, NoCall, PInv, IInv, Typed
  <2> QED
    BY <1>1, <1>2, <2>1, OthersStay DEF Leaving, Fresh
<1> QED
  BY <1>3, <1>4, <1>5, <1>6 DEF Removal

LEMMA PromiseStarts == Init => PInv
<1> SUFFICES ASSUME Init PROVE PInv
  OBVIOUS
<1>1. Promise /\ \A t \in Thread : Leaving(t) /\ Fresh(t)
  BY DEF Init, NoCall, Promise, Leaving, Fresh
<1> QED
  BY <1>1, Starts DEF PInv

LEMMA PromiseStays ==
  ASSUME Overlap \cap {"start", "unload"} = {}, StartedStay
  PROVE  PInv /\ [Next]_vars => PInv'
<1> SUFFICES ASSUME PInv, [Next]_vars PROVE PInv'
  OBVIOUS
<1>1. IInv'
  BY Stays DEF PInv
<1>2. CASE Scan \/ LoadRules \/ \E d \in Device : Mount(d)
  BY <1>1, <1>2, CopyPromise, BeginLeaving DEF PInv
<1>3. CASE \E d \in Device : Report(d) \/ Remove(d)
  BY <1>1, <1>3, ReportPromise, BeginLeaving, GoingPromise, GoingLeaving DEF PInv
<1>4. CASE \E t \in Thread : Proceeds(t)
  <2>1. PICK t \in Thread : Proceeds(t)
    BY <1>4
  <2>2. CASE UnitStep(t) \/ Replay(t)
    BY <1>1, <2>2, UnitPromise, UnitLeaving, ReplayPromise, ReplayLeaving DEF PInv
  <2>3. CASE t \in Device /\ (Add(t) \/ Removal(t))
    BY <1>1, <2>3, AddPromise, BeginLeaving, GoingPromise, GoingLeaving DEF PInv
  <2> QED
    BY <2>1, <2>2, <2>3 DEF Proceeds
<1>5. CASE \E u \in Unit : Exit(u)
  <2>1. Promise'
    BY <1>5, ExitPromise
  <2>2. \A t \in Thread : Leaving(t)' /\ Fresh(t)'
    BY <1>5 DEF Exit, lists, PInv, Leaving, Fresh
  <2> QED
    BY <1>1, <2>1, <2>2 DEF PInv
<1>6. CASE UNCHANGED vars
  <2>1. UNCHANGED <<loads, dirs, scanned, running, there, call>>
    BY <1>6 DEF vars, lists, seen
  <2>2. Promise'
    BY <2>1 DEF PInv, Promise, Targets, Rules, Available, Owes, In
  <2>3. \A t \in Thread : Leaving(t)' /\ Fresh(t)'
    BY <2>1 DEF PInv, Leaving, Fresh
  <2> QED
    BY <1>1, <2>2, <2>3 DEF PInv
<1> QED
  BY <1>2, <1>3, <1>4, <1>5, <1>6 DEF Next

\* Whatever comes first or overlaps what, of any number of devices, reports,
\* rule loads, mounts and removals: once every call has returned, each unit the
\* rules start for a device that is there runs, if it can, provided that the
\* rules start no unit that ends by itself.
THEOREM NothingIsMissed ==
  ASSUME Overlap \cap {"start", "unload"} = {}, StartedStay
  PROVE  Spec => []NothingMissed
<1>1. PInv => NothingMissed
  <2> SUFFICES ASSUME PInv, Quiescent, NEW d \in there, NEW u \in Targets(d, "start"),
                      Available(u[1]), u[1] \notin Broken
               PROVE  running[u] > 0
    BY DEF NothingMissed
  <2>1. \A t \in Thread : ~Owes(t, d, u)
    BY DEF Quiescent, Owes, In
  <2> QED
    BY <2>1 DEF PInv, Promise
<1> QED
  BY <1>1, PromiseStarts, PromiseStays, PTL DEF Spec

-----------------------------------------------------------------------------
(* Removals wait                                                           *)

AllRules == UNION ({ruleSets[n] : n \in 0..MaxLoads} \cup {brings[m] : m \in Mounts})

\* No template is started both when a device comes and when it goes.
Apart == \A r, q \in AllRules : r.start = q.remove => r.start = NULL

LEMMA RulesAreAll ==
  ASSUME Typed
  PROVE  Rules \subseteq AllRules
BY DEF Typed, Rules, AllRules

LEMMA StartersCleanNot ==
  ASSUME Typed, Apart, NEW d \in Device
  PROVE  \A u \in Targets(d, "start") : ~Cleaner(u[1])
<1> SUFFICES ASSUME NEW r \in Rules, r.start # NULL PROVE ~Cleaner(r.start)
  BY DEF Targets
<1> QED
  BY RulesAreAll DEF Apart, Cleaner, AllRules

LEMMA RemoversClean ==
  ASSUME Typed, NEW d \in Device
  PROVE  \A u \in Targets(d, "remove") : Cleaner(u[1]) /\ u[2] = d
BY RulesAreAll DEF Targets, Cleaner, AllRules

\* What a call may start: nothing that cleans up, but in a removal, and that
\* for its own device; only a removal waits.
Kinds(t) ==
    /\ call[t].at \in {"check", "spawn", "wait"} => call[t].op \in Starting
    /\ call[t].at = "wait" => call[t].op = "remove"
    /\ call[t].op \in {"replay", "add"} =>
         /\ \A u \in call[t].todo : ~Cleaner(u[1])
         /\ call[t].unit # NULL => ~Cleaner(call[t].unit[1])
    /\ call[t].op = "remove" =>
         /\ \A u \in call[t].todo : u[2] = t
         /\ call[t].unit # NULL => call[t].unit[2] = t

\* A unit that cleans up and runs is waited for, or was for long enough.
Waited ==
    \A u \in Unit : Cleaner(u[1]) /\ running[u] > 0 =>
        u \in late \/ (call[u[2]].at = "wait" /\ call[u[2]].unit = u)

WInv == IInv /\ Waited /\ \A t \in Thread : Kinds(t)

\* A step of a thread that waits for nothing, and starts and stops nothing.
LEMMA WaitedKept ==
  ASSUME WInv, NEW t \in Thread, \A o \in Thread \ {t} : call'[o] = call[o],
         call[t].at # "wait", UNCHANGED <<running, late>>, Kinds(t)'
  PROVE  Waited' /\ \A o \in Thread : Kinds(o)'
<1>1. ASSUME NEW u \in Unit, Cleaner(u[1]), running'[u] > 0
      PROVE  u \in late' \/ (call'[u[2]].at = "wait" /\ call'[u[2]].unit = u)
  <2>1. u[2] \in Thread
    BY DEF Unit, Thread
  <2> QED
    BY <1>1, <2>1 DEF WInv, Waited
<1>2. \A o \in Thread \ {t} : Kinds(o)'
  BY DEF WInv, Kinds
<1> QED
  BY <1>1, <1>2 DEF Waited

LEMMA CallWaited ==
  ASSUME WInv, NEW t \in Thread,
         \/ StartCheck(t) \/ StartFails(t)
         \/ \E u \in call[t].todo : StartFind(t, u) \/ StartUnknown(t, u)
  PROVE  Waited' /\ \A o \in Thread : Kinds(o)'
<1>1. call[t] \in Call /\ Proper(t) /\ Kinds(t) /\ call[t].at \in {"next", "check", "spawn"}
      /\ UNCHANGED <<running, late>>
  BY DEF WInv, IInv, Typed, StartCheck, StartFails, StartFind, StartUnknown, seen
<1>2. \A o \in Thread \ {t} : call'[o] = call[o]
  BY DEF StartCheck, StartFails, StartFind, StartUnknown, WInv, IInv, Typed
<1>3. Kinds(t)'
  <2>1. CASE \E u \in call[t].todo : StartFind(t, u)
    <3>1. PICK u \in call[t].todo : StartFind(t, u)
      BY <2>1
    <3>2. call'[t].op = call[t].op /\ call'[t].todo \subseteq call[t].todo
          /\ call'[t].at = "check" /\ call'[t].unit = u /\ call[t].op \in Starting
      BY <1>1, <3>1 DEF StartFind, Call, WInv, IInv, Typed
    <3> QED
      BY <1>1, <3>2 DEF Kinds
  <2>2. CASE \E u \in call[t].todo : StartUnknown(t, u)
    <3>1. call'[t].op = call[t].op /\ call'[t].todo \subseteq call[t].todo
          /\ call'[t].at = call[t].at /\ call'[t].unit = call[t].unit
      BY <2>2 DEF StartUnknown
    <3> QED
      BY <1>1, <3>1 DEF Kinds
  <2>3. CASE StartCheck(t) \/ StartFails(t)
    <3>1. call'[t].op = call[t].op /\ call'[t].todo = call[t].todo
          /\ (\/ call'[t].at = "next" /\ call'[t].unit = NULL
              \/ call'[t].at = "spawn" /\ call[t].at = "check" /\ call'[t].unit = call[t].unit)
      <4>1. CASE StartFails(t)
        BY <4>1 DEF StartFails, WInv, IInv, Typed
      <4>2. CASE StartCheck(t) /\ running[call[t].unit] > 0
        BY <4>2 DEF StartCheck, WInv, IInv, Typed
      <4>3. CASE StartCheck(t) /\ ~(running[call[t].unit] > 0)
        BY <4>3 DEF StartCheck, WInv, IInv, Typed
      <4> QED
        BY <2>3, <4>1, <4>2, <4>3
    <3> QED
      BY <1>1, <3>1 DEF Kinds
  <2> QED
    BY <2>1, <2>2, <2>3
<1> QED
  BY <1>1, <1>2, <1>3, WaitedKept

LEMMA SpawnWaited ==
  ASSUME WInv, NEW t \in Thread, StartSpawn(t)
  PROVE  Waited' /\ \A o \in Thread : Kinds(o)'
<1>1. call[t] \in Call /\ Kinds(t) /\ call[t].at = "spawn" /\ call[t].unit \in Unit /\ late' = late
  BY DEF WInv, IInv, Typed, Proper, Call, StartSpawn, seen
<1>2. call'[t].op = call[t].op /\ call'[t].todo = call[t].todo
      /\ IF call[t].op = "remove" THEN call'[t].at = "wait" /\ call'[t].unit = call[t].unit
                                  ELSE call'[t].at = "next" /\ call'[t].unit = NULL
  BY DEF StartSpawn, WInv, IInv, Typed
<1>3. \A o \in Thread \ {t} : call'[o] = call[o]
  BY DEF StartSpawn
<1>4. Kinds(t)'
  BY <1>1, <1>2 DEF Kinds
<1>5. \A o \in Thread \ {t} : Kinds(o)'
  BY <1>3 DEF WInv, Kinds
<1>6. ASSUME NEW u \in Unit, Cleaner(u[1]), running'[u] > 0
      PROVE  u \in late' \/ (call'[u[2]].at = "wait" /\ call'[u[2]].unit = u)
  <2>1. u[2] \in Thread
    BY DEF Unit, Thread
  <2>2. CASE u = call[t].unit
    <3>1. call[t].op = "remove" /\ u[2] = t
      BY <1>1, <1>6, <2>2 DEF Kinds, Starting, WInv, IInv, Proper
    <3> QED
      BY <1>2, <2>2, <3>1
  <2>3. CASE u # call[t].unit
    <3>1. running'[u] = running[u]
      BY <2>3 DEF StartSpawn
    <3> QED
      BY <1>1, <1>3, <1>6, <2>1, <3>1 DEF WInv, Waited
  <2> QED
    BY <2>2, <2>3
<1> QED
  BY <1>4, <1>5, <1>6 DEF Waited

LEMMA WaitWaited ==
  ASSUME WInv, NEW t \in Thread, WaitEnded(t) \/ WaitTimeout(t)
  PROVE  Waited' /\ \A o \in Thread : Kinds(o)'
<1>1. call[t] \in Call /\ Kinds(t) /\ call[t].at = "wait" /\ call[t].unit \in Unit
      /\ running' = running /\ late \subseteq late'
      /\ (running[call[t].unit] = 0 \/ call[t].unit \in late')
  BY DEF WInv, IInv, Typed, Proper, Call, WaitEnded, WaitTimeout
<1>2. call'[t].op = call[t].op /\ call'[t].todo = call[t].todo
      /\ call'[t].at = "next" /\ call'[t].unit = NULL
  BY DEF WaitEnded, WaitTimeout, Call, WInv, IInv, Typed
<1>3. \A o \in Thread \ {t} : call'[o] = call[o]
  BY DEF WaitEnded, WaitTimeout, WInv, IInv, Typed
<1>4. Kinds(t)'
  BY <1>1, <1>2 DEF Kinds
<1>5. \A o \in Thread \ {t} : Kinds(o)'
  BY <1>3 DEF WInv, Kinds
<1>6. ASSUME NEW u \in Unit, Cleaner(u[1]), running'[u] > 0
      PROVE  u \in late' \/ (call'[u[2]].at = "wait" /\ call'[u[2]].unit = u)
  <2>1. u[2] \in Thread
    BY DEF Unit, Thread
  <2>2. running[u] > 0
    BY <1>1, <1>6
  <2> QED
    BY <1>1, <1>3, <1>6, <2>1 DEF WInv, Waited
<1> QED
  BY <1>4, <1>5, <1>6 DEF Waited

\* A unit that ends is late no longer.
LEMMA EndWaited ==
  ASSUME WInv, NEW u \in Unit,
         \A w \in Unit \ {u} : running'[w] = running[w], running'[u] \in {0, running[u]},
         running'[u] = running[u] \/ late' = late \ {u},
         running'[u] # running[u] \/ late' = late \/ (running[u] = 0 /\ late' = late \ {u}),
         \A t \in Thread : call'[t] = call[t] \/
             (call[t].at # "wait" /\ Kinds(t)')
  PROVE  Waited' /\ \A t \in Thread : Kinds(t)'
<1>1. \A t \in Thread : Kinds(t)'
  BY DEF WInv, Kinds
<1>2. ASSUME NEW w \in Unit, Cleaner(w[1]), running'[w] > 0
      PROVE  w \in late' \/ (call'[w[2]].at = "wait" /\ call'[w[2]].unit = w)
  <2>1. w[2] \in Thread
    BY DEF Unit, Thread
  <2>2. running[w] > 0 /\ (w \in late => w \in late')
    BY <1>2
  <2> QED
    BY <1>2, <2>1 DEF WInv, Waited
<1> QED
  BY <1>1, <1>2 DEF Waited

LEMMA StopWaited ==
  ASSUME WInv, NEW t \in Thread, NEW u \in call[t].todo, StopUnit(t, u)
  PROVE  Waited' /\ \A o \in Thread : Kinds(o)'
<1>1. call[t] \in Call /\ Kinds(t) /\ u \in Unit /\ call[t].op \in {"stop", "unload"}
      /\ call[t].at = "next" /\ running \in [Unit -> 0..1]
  BY DEF WInv, IInv, Typed, Call, StopUnit, Stopping
<1>2. call'[t].op = call[t].op /\ call'[t].at = "next"
  BY DEF StopUnit
<1>3. \A o \in Thread \ {t} : call'[o] = call[o]
  BY DEF StopUnit
<1>4. Kinds(t)'
  BY <1>1, <1>2 DEF Kinds
<1>5. (\A w \in Unit \ {u} : running'[w] = running[w]) /\ running'[u] \in {0, running[u]}
  BY <1>1 DEF StopUnit
<1>6. late' = IF running'[u] = 0 THEN late \ {u} ELSE late
  BY DEF StopUnit
<1> QED
  BY <1>1, <1>3, <1>4, <1>5, <1>6, EndWaited

LEMMA ExitWaited ==
  ASSUME WInv, NEW u \in Unit, Exit(u)
  PROVE  Waited' /\ \A o \in Thread : Kinds(o)'
<1>1. running \in [Unit -> 0..1]
  BY DEF WInv, IInv, Typed
<1>2. running[u] = 1
  BY <1>1 DEF Exit
<1>3. (\A w \in Unit \ {u} : running'[w] = running[w]) /\ running'[u] = 0 /\ late' = late \ {u}
      /\ call' = call
  BY <1>1 DEF Exit
<1> QED
  BY <1>3, EndWaited

\* Steps between the units of a call: what it is to start next is of its kind.
LEMMA BetweenWaited ==
  ASSUME WInv, Apart, NEW t \in Thread,
         Replay(t) \/ (t \in Device /\ (Add(t) \/ Removal(t) \/ Remove(t) \/ Report(t) \/ Mount(t)))
         \/ (t = Boot /\ (Scan \/ LoadRules))
  PROVE  Waited' /\ \A o \in Thread : Kinds(o)'
<1>1. call[t] \in Call /\ Proper(t) /\ Kinds(t) /\ Typed /\ call[t].at \notin {"check", "spawn", "wait"}
  BY DEF WInv, IInv, Typed, Replay, ReplayCopy, ReplayDevice, ReplayEnd, Add,
     AddRemember, AddResolve, AddEnd, Removal, StopResolve, RemoveResolve, RemoveEnd,
     UnloadTake, UnloadEnd, Remove, Report, Mount, Scan, LoadRules, Done, In, Kinds,
     Starting
<1>2. UNCHANGED <<running, late>>
  BY DEF Replay, ReplayCopy, ReplayDevice, ReplayEnd, Add, AddRemember, AddResolve,
     AddEnd, Removal, StopResolve, RemoveResolve, RemoveEnd, UnloadTake, UnloadEnd,
     Remove, Report, Mount, Scan, LoadRules, seen
<1>3. \A o \in Thread \ {t} : call'[o] = call[o]
  BY DEF WInv, IInv, Typed, Replay, ReplayCopy, ReplayDevice, ReplayEnd, Add,
     AddRemember, AddResolve, AddEnd, Removal, StopResolve, RemoveResolve, RemoveEnd,
     UnloadTake, UnloadEnd, Remove, Report, Mount, Scan, LoadRules, Begins
<1>4. Kinds(t)'
  <2>1. ASSUME call'[t].at \notin {"check", "spawn", "wait"}, call'[t].unit = NULL,
               call'[t].op \in {"replay", "add"} => \A u \in call'[t].todo : ~Cleaner(u[1]),
               call'[t].op = "remove" => \A u \in call'[t].todo : u[2] = t
        PROVE  Kinds(t)'
    BY <2>1 DEF Kinds
  <2>2. CASE ReplayCopy(t) \/ (t \in Device /\ (AddRemember(t) \/ UnloadTake(t)))
    <3>1. call'[t].at \in {"next", "resolve"} /\ call'[t].unit = NULL
          /\ (call'[t].op = "unload" \/ (call'[t].op = call[t].op /\ call'[t].todo = call[t].todo))
      BY <1>1, <2>2 DEF ReplayCopy, AddRemember, UnloadTake, Done, In, Call, Proper, Typed
    <3> QED
      BY <1>1, <3>1 DEF Kinds
  <2>3. CASE ReplayDevice(t)
    <3>1. PICK e \in call[t].devs :
            call' = [call EXCEPT ![t].devs = @ \ {e}, ![t].dev = e[1], ![t].value = e[2],
                                 ![t].todo = Targets(e[1], "start")]
      BY <2>3 DEF ReplayDevice
    <3>2. e[1] \in Device
      BY <1>1 DEF Call
    <3>3. call'[t].at = call[t].at /\ call'[t].unit = NULL /\ call'[t].op = "replay"
          /\ call'[t].todo = Targets(e[1], "start")
      BY <1>1, <2>3, <3>1 DEF ReplayDevice, Done, In, Call, Proper, Typed
    <3> QED
      BY <1>1, <2>1, <3>2, <3>3, StartersCleanNot
  <2>4. CASE t \in Device /\ (AddResolve(t) \/ StopResolve(t))
    <3>1. call'[t].at = "next" /\ call'[t].unit = NULL /\ call'[t].op \in {"add", "stop"}
          /\ call'[t].todo = Targets(t, "start")
      BY <1>1, <2>4 DEF AddResolve, StopResolve, In, Call, Proper, Typed
    <3> QED
      BY <2>1, <2>4, <1>1, <3>1, StartersCleanNot
  <2>5. CASE t \in Device /\ RemoveResolve(t)
    <3>1. call'[t].at = "next" /\ call'[t].unit = NULL /\ call'[t].op = "remove"
          /\ call'[t].todo = Targets(t, "remove")
      BY <1>1, <2>5 DEF RemoveResolve, Done, In, Proper, Typed
    <3> QED
      BY <2>1, <2>5, <1>1, <3>1, RemoversClean
  <2>6. ASSUME NEW r, call' = [call EXCEPT ![t] = r], r.todo = {}, r.unit = NULL,
               r.at \notin {"check", "spawn", "wait"}
        PROVE  Kinds(t)'
    <3>1. call'[t] = r
      BY <1>1, <2>6 DEF Typed
    <3> QED
      BY <2>1, <2>6, <3>1
  <2>7. CASE \E op \in Starting \cup Stopping, at \in {"copy", "remember", "resolve"},
                d \in Device \cup {NULL}, v \in Value \cup {NULL} : Begins(t, op, at, d, v)
    <3>1. PICK op \in Starting \cup Stopping, at \in {"copy", "remember", "resolve"},
                d \in Device \cup {NULL}, v \in Value \cup {NULL} : Begins(t, op, at, d, v)
      BY <2>7
    <3>2. Begun(op, at, d, v).todo = {} /\ Begun(op, at, d, v).unit = NULL
          /\ Begun(op, at, d, v).at = at
      BY BegunIsCall
    <3>3. call' = [call EXCEPT ![t] = Begun(op, at, d, v)]
      BY <3>1 DEF Begins, Begun
    <3> QED
      BY <2>6, <3>2, <3>3
  <2>8. CASE call' = [call EXCEPT ![t] = NoCall]
    <3>1. NoCall.todo = {} /\ NoCall.unit = NULL /\ NoCall.at = "next"
      BY DEF NoCall
    <3> QED
      BY <2>6, <2>8, <3>1
  <2>9. CASE ReplayEnd(t) \/ (t \in Device /\ (Remove(t) \/ Report(t) \/ Mount(t)))
             \/ (t = Boot /\ (Scan \/ LoadRules))
    <3>1. "replay" \in Starting /\ "add" \in Starting /\ "stop" \in Stopping
      BY DEF Starting, Stopping
    <3>2. CASE ReplayEnd(t)
      BY <2>7, <2>8, <3>1, <3>2 DEF ReplayEnd, Thread
    <3>3. CASE t \in Device /\ Remove(t)
      <4>1. devices[t] \in Value \cup {NULL}
        BY <1>1, <3>3 DEF Typed
      <4> QED
        BY <2>7, <3>1, <3>3, <4>1 DEF Remove
    <3>4. CASE t \in Device /\ (Report(t) \/ Mount(t))
      BY <2>7, <3>1, <3>4 DEF Report, Mount
    <3>5. CASE t = Boot /\ (Scan \/ LoadRules)
      BY <2>7, <3>1, <3>5 DEF Scan, LoadRules
    <3> QED
      BY <2>9, <3>2, <3>3, <3>4, <3>5
  <2>10. CASE t \in Device /\ (AddEnd(t) \/ RemoveEnd(t) \/ UnloadEnd(t))
    BY <2>8, <2>10 DEF AddEnd, RemoveEnd, UnloadEnd
  <2> QED
    BY <2>2, <2>3, <2>4, <2>5, <2>9, <2>10 DEF Replay, Add, Removal
<1> QED
  BY <1>1, <1>2, <1>3, <1>4, WaitedKept

LEMMA WaitedStarts == Init => WInv
<1> SUFFICES ASSUME Init PROVE WInv
  OBVIOUS
<1>1. Waited /\ \A t \in Thread : Kinds(t)
  BY DEF Init, NoCall, Waited, Kinds
<1> QED
  BY <1>1, Starts DEF WInv

LEMMA WaitedStays ==
  ASSUME Overlap \cap {"start", "unload"} = {}, Apart
  PROVE  WInv /\ [Next]_vars => WInv'
<1> SUFFICES ASSUME WInv, [Next]_vars PROVE WInv'
  OBVIOUS
<1>1. IInv'
  BY Stays DEF WInv
<1>2. ASSUME NEW t \in Thread, UnitStep(t)
      PROVE  Waited' /\ \A o \in Thread : Kinds(o)'
  BY <1>2, CallWaited, SpawnWaited, WaitWaited, StopWaited DEF UnitStep
<1>3. CASE Scan \/ LoadRules
  BY <1>1, <1>3, BetweenWaited DEF WInv, Thread
<1>4. CASE \E d \in Device : Report(d) \/ Mount(d) \/ Remove(d)
  BY <1>1, <1>4, BetweenWaited DEF WInv, Thread
<1>5. CASE \E t \in Thread : Proceeds(t)
  BY <1>1, <1>2, <1>5, BetweenWaited DEF WInv, Proceeds
<1>6. CASE \E u \in Unit : Exit(u)
  BY <1>1, <1>6, ExitWaited DEF WInv
<1>7. CASE UNCHANGED vars
  <2>1. UNCHANGED <<running, late, call>>
    BY <1>7 DEF vars, seen
  <2>2. Waited' /\ \A t \in Thread : Kinds(t)'
    BY <2>1 DEF WInv, Waited, Kinds
  <2> QED
    BY <1>1, <2>2 DEF WInv
<1> QED
  BY <1>3, <1>4, <1>5, <1>6, <1>7 DEF Next

\* However the removals of any number of devices and mount points come among
\* other calls: when one has returned, what its rules start for it has ended or
\* was waited for as long as it may take, provided that no template is started
\* both when a device comes and when it goes.
THEOREM RemovalsWait ==
  ASSUME Overlap \cap {"start", "unload"} = {}, Apart
  PROVE  Spec => []RemovalWaits
<1>1. WInv => RemovalWaits
  <2> SUFFICES ASSUME WInv, NEW d \in Device, call[d].op \in {"none", "unload"},
                      NEW u \in Targets(d, "remove")
               PROVE  running[u] = 0 \/ u \in late
    BY DEF RemovalWaits
  <2>1. u \in Unit /\ Cleaner(u[1]) /\ u[2] = d /\ running[u] \in 0..1
    BY TargetsAreUnits, RemoversClean DEF WInv, IInv, Typed
  <2>2. call[d].at # "wait"
    BY DEF WInv, Kinds, Thread
  <2> QED
    BY <2>1, <2>2 DEF WInv, Waited
<1> QED
  BY <1>1, WaitedStarts, WaitedStays, PTL DEF Spec

-----------------------------------------------------------------------------
(* Gone is gone                                                            *)

\* A load of the rules takes none back, and what a mount point's rules start is
\* made of its own templates.
RulesStay ==
    /\ \A n \in 1..MaxLoads : ruleSets[n - 1] \subseteq ruleSets[n]
    /\ \A m \in Mounts : \A r \in brings[m] : r.start # NULL => source[r.start] = m

\* The rule and the template of u went with their mount point.
Lost(u) ==
    /\ source[u[1]] \in Mounts \ dirs /\ ~Registered(u)
    /\ \E r \in brings[source[u[1]]] : r.start = u[1] /\ r.class = class[u[2]]

\* A call starts units of devices that are there, and for their rules; or in a
\* removal what cleans up.
Ready(t) ==
    /\ call[t].op \in {"replay", "add"} =>
         /\ \A u \in call[t].todo :
              /\ u[2] = call[t].dev /\ u[2] \in there
              /\ u \in Targets(u[2], "start") \/ Lost(u)
         /\ call[t].unit # NULL =>
              /\ call[t].unit[2] = call[t].dev /\ call[t].unit[2] \in there
              /\ call[t].unit \in Targets(call[t].unit[2], "start")
    /\ call[t].op = "replay" => \A e \in call[t].devs : e[1] \in there
    /\ call[t].op = "add" => call[t].dev = t /\ (call[t].at = "remember" \/ t \in there)
    /\ call[t].op = "stop" /\ call[t].at = "resolve" => call[t].todo = {}
    /\ call[t].op = "remove" =>
         /\ \A u \in call[t].todo : Cleaner(u[1])
         /\ call[t].unit # NULL => Cleaner(call[t].unit[1])

Known == \A d \in Device : devices[d] # NULL => d \in there

\* Whatever runs and does not clean up is about to be stopped, or registered and
\* of a device that is there or whose removal is about to stop it.
ToStop(u) == \E m \in Mounts : call[m].op = "unload" /\ u \in call[m].todo
Due(u) ==
    \/ u \in Targets(u[2], "start") /\ (u[2] \in there \/ In(u[2], "stop", "resolve"))
    \/ call[u[2]].op = "stop" /\ u \in call[u[2]].todo
Accounted ==
    \A u \in Unit : running[u] > 0 /\ ~Cleaner(u[1]) => ToStop(u) \/ (Registered(u) /\ Due(u))

GInv == WInv /\ Known /\ Accounted /\ \A t \in Thread : Ready(t)

\* A step of one thread that takes no device, rule or unit away, and lets go of
\* what it was to stop only when that is stopped.
LEMMA AccountKept ==
  ASSUME GInv, NEW t \in Thread, \A o \in Thread \ {t} : call'[o] = call[o],
         there \subseteq there',
         \A d \in Device : Targets(d, "start") \subseteq Targets(d, "start")',
         \A u \in Unit : Registered(u) => Registered(u)',
         \A u \in Unit : Lost(u) => Lost(u)' \/ u \in Targets(u[2], "start")',
         \A u \in Unit : running'[u] > 0 /\ ~Cleaner(u[1]) =>
             running[u] > 0 \/ (Registered(u)' /\ u \in Targets(u[2], "start")' /\ u[2] \in there'),
         call[t].op = "unload" => \A u \in call[t].todo :
             running'[u] = 0 \/ (call'[t].op = "unload" /\ u \in call'[t].todo),
         call[t].op = "stop" => \A u \in call[t].todo :
             running'[u] = 0 \/ ~Registered(u) \/ (call'[t].op = "stop" /\ u \in call'[t].todo),
         In(t, "stop", "resolve") =>
             In(t, "stop", "resolve")' \/
             (call'[t].op = "stop" /\ Targets(t, "start") \subseteq call'[t].todo),
         Known', Ready(t)'
  PROVE  Known' /\ Accounted' /\ \A o \in Thread : Ready(o)'
<1>1. ASSUME NEW o \in Thread \ {t}
      PROVE  Ready(o)'
  <2>1. call'[o] = call[o] /\ Ready(o) /\ Proper(o) /\ call[o] \in Call /\ there \subseteq Device
    BY DEF GInv, WInv, IInv, Typed
  <2>2. \A u \in Unit : u[2] \in Device
    BY DEF Unit
  <2>3. call[o].todo \subseteq Unit /\ (call[o].unit # NULL => call[o].unit \in Unit)
    BY <2>1 DEF Call
  <2> QED
    BY <2>1, <2>3 DEF Ready
<1>2. ASSUME NEW u \in Unit, running'[u] > 0, ~Cleaner(u[1])
      PROVE  ToStop(u)' \/ (Registered(u)' /\ Due(u)')
  <2>1. u[2] \in Device /\ u[2] \in Thread /\ running[u] \in 0..1
    BY DEF Unit, Thread, GInv, WInv, IInv, Typed
  <2>2. CASE Registered(u)' /\ u \in Targets(u[2], "start")' /\ u[2] \in there'
    BY <2>2 DEF Due
  <2>3. CASE running[u] > 0 /\ ToStop(u)
    <3>1. Mounts \subseteq Thread
      BY Assumptions DEF Thread
    <3> QED
      BY <1>2, <2>3, <3>1 DEF ToStop
  <2>4. CASE running[u] > 0 /\ Registered(u) /\ u \in Targets(u[2], "start") /\ u[2] \in there
    BY <2>1, <2>4 DEF Due
  <2>5. CASE running[u] > 0 /\ Registered(u) /\ u \in Targets(u[2], "start") /\ In(u[2], "stop", "resolve")
    BY <2>1, <2>5 DEF Due, In
  <2>6. CASE running[u] > 0 /\ Registered(u) /\ call[u[2]].op = "stop" /\ u \in call[u[2]].todo
    BY <1>2, <2>1, <2>6 DEF Due
  <2>7. running[u] > 0 \/ (Registered(u)' /\ u \in Targets(u[2], "start")' /\ u[2] \in there')
    BY <1>2
  <2>8. running[u] > 0 => ToStop(u) \/ (Registered(u) /\ Due(u))
    BY <1>2 DEF GInv, Accounted
  <2> QED
    BY <2>3, <2>4, <2>5, <2>6, <2>7, <2>8 DEF Due
<1> QED
  BY <1>1, <1>2 DEF Accounted

\* As above, where the rules, the devices and the registry stay what they are.
LEMMA AccountOfCall ==
  ASSUME GInv, NEW t \in Thread, \A o \in Thread \ {t} : call'[o] = call[o],
         UNCHANGED <<lists, there>>,
         \A u \in Unit : running'[u] > 0 /\ ~Cleaner(u[1]) =>
             running[u] > 0 \/ (Registered(u) /\ u \in Targets(u[2], "start") /\ u[2] \in there),
         call[t].op = "unload" => \A u \in call[t].todo :
             running'[u] = 0 \/ (call'[t].op = "unload" /\ u \in call'[t].todo),
         call[t].op = "stop" => \A u \in call[t].todo :
             running'[u] = 0 \/ ~Registered(u) \/ (call'[t].op = "stop" /\ u \in call'[t].todo),
         In(t, "stop", "resolve") =>
             call'[t].op = "stop" /\ Targets(t, "start") \subseteq call'[t].todo,
         Ready(t)'
  PROVE  Known' /\ Accounted' /\ \A o \in Thread : Ready(o)'
<1>1. Known' /\ there \subseteq there'
  BY DEF GInv, Known, lists
<1>2. \A d \in Device : Targets(d, "start")' = Targets(d, "start")
  BY DEF Targets, Rules, lists
<1>3. \A u \in Unit : Registered(u)' = Registered(u) /\ Lost(u)' = Lost(u) /\ u[2] \in Device
  BY DEF Registered, Lost, lists, Unit
<1> QED
  BY <1>1, <1>2, <1>3, AccountKept

\* What is lost is not found, so what is found is what a rule starts.
LEMMA FindAccount ==
  ASSUME GInv, NEW t \in Thread, NEW u \in call[t].todo, StartFind(t, u)
  PROVE  Known' /\ Accounted' /\ \A o \in Thread : Ready(o)'
<1>1. call[t] \in Call /\ u \in Unit /\ u[1] \in Template /\ Ready(t) /\ call[t].op \in Starting
      /\ call[t].value # NULL
  <2>1. call[t] \in Call /\ Proper(t) /\ Ready(t) /\ call[t].op \in Starting
    BY DEF GInv, WInv, IInv, Typed, StartFind
  <2> QED
    BY <2>1 DEF Call, Unit, Proper, Starting
<1>2. call'[t].op = call[t].op /\ call'[t].dev = call[t].dev /\ call'[t].devs = call[t].devs
      /\ call'[t].unit = u /\ call'[t].at = "check" /\ call'[t].todo \subseteq call[t].todo \ {u}
  BY DEF StartFind, GInv, WInv, IInv, Typed
<1>3. \A o \in Thread \ {t} : call'[o] = call[o]
  BY DEF StartFind, GInv, WInv, IInv, Typed
<1>4. UNCHANGED <<devices, loads, dirs, scanned, running, there>>
  BY DEF StartFind, seen
<1>5. argv' = IF Registered(u) THEN argv ELSE [argv EXCEPT ![u] = call[t].value]
  BY DEF StartFind
<1>6. \A w \in Unit : (Registered(w) => Registered(w)') /\ (w # u => Registered(w)' = Registered(w))
  BY <1>5 DEF Registered
<1>7. \A d \in Device : Targets(d, "start")' = Targets(d, "start")
  BY <1>4 DEF Targets, Rules
<1>8. ~Lost(u)
  BY Assumptions DEF Lost, StartFind, Available
<1>9. \A w \in Unit : Lost(w) => Lost(w)'
  BY <1>4, <1>6, <1>8 DEF Lost
<1>10. Known'
  BY <1>4 DEF GInv, Known
<1>11. Ready(t)'
  <2>1. \A w \in call[t].todo : w \in Unit /\ w[2] \in Device
    BY <1>1 DEF Call, Unit
  <2>2. u \in Targets(u[2], "start")' \/ call[t].op = "remove"
    BY <1>1, <1>7, <1>8, <2>1 DEF Ready, Starting
  <2> QED
    BY <1>1, <1>2, <1>4, <1>7, <1>9, <2>1, <2>2 DEF Ready
<1>12. call[t].op # "unload" /\ call[t].op # "stop"
  BY <1>1 DEF Starting
<1> QED
  BY <1>3, <1>4, <1>6, <1>7, <1>9, <1>10, <1>11, <1>12, AccountKept DEF In

LEMMA UnitAccount ==
  ASSUME GInv, NEW t \in Thread,
         \/ \E u \in call[t].todo : StartUnknown(t, u)
         \/ StartCheck(t) \/ StartFails(t) \/ WaitEnded(t) \/ WaitTimeout(t)
  PROVE  Known' /\ Accounted' /\ \A o \in Thread : Ready(o)'
<1>1. call[t] \in Call /\ Ready(t) /\ Proper(t) /\ call[t].op \in Starting /\ call[t].at # "remember"
  BY DEF GInv, WInv, IInv, Typed, Kinds, StartUnknown, StartCheck, StartFails, WaitEnded,
     WaitTimeout
<1>2. \A o \in Thread \ {t} : call'[o] = call[o]
  BY DEF StartUnknown, StartCheck, StartFails, WaitEnded, WaitTimeout, GInv, WInv, IInv,
     Typed
<1>3. UNCHANGED <<lists, running, there>>
  BY DEF StartUnknown, StartCheck, StartFails, WaitEnded, WaitTimeout, seen
<1>4. call'[t].op = call[t].op /\ call'[t].dev = call[t].dev /\ call'[t].devs = call[t].devs
      /\ call'[t].todo \subseteq call[t].todo /\ call'[t].unit \in {call[t].unit, NULL}
  <2>1. CASE \E u \in call[t].todo : StartUnknown(t, u)
    BY <2>1 DEF StartUnknown
  <2>2. CASE StartCheck(t) /\ running[call[t].unit] > 0
    BY <2>2 DEF StartCheck
  <2>3. CASE StartCheck(t) /\ ~(running[call[t].unit] > 0)
    BY <2>3 DEF StartCheck
  <2>4. CASE StartFails(t) \/ WaitEnded(t) \/ WaitTimeout(t)
    BY <1>1, <2>4 DEF StartFails, WaitEnded, WaitTimeout, Call, GInv, WInv, IInv, Typed
  <2> QED
    BY <2>1, <2>2, <2>3, <2>4
<1>5. Ready(t)'
  <2>1. \A d \in Device : Targets(d, "start")' = Targets(d, "start")
    BY <1>3 DEF Targets, Rules, lists
  <2>2. \A w \in Unit : Lost(w)' = Lost(w) /\ w[2] \in Device
    BY <1>3 DEF Lost, Registered, lists, Unit
  <2>3. call[t].todo \subseteq Unit /\ (call[t].unit # NULL => call[t].unit \in Unit)
    BY <1>1 DEF Call
  <2> QED
    BY <1>1, <1>3, <1>4, <2>1, <2>2, <2>3 DEF Ready, Starting
<1>6. call[t].op # "unload" /\ call[t].op # "stop"
  BY <1>1 DEF Starting
<1> QED
  BY <1>2, <1>3, <1>5, <1>6, AccountOfCall DEF In

LEMMA SpawnAccount ==
  ASSUME GInv, NEW t \in Thread, StartSpawn(t)
  PROVE  Known' /\ Accounted' /\ \A o \in Thread : Ready(o)'
<1>1. call[t] \in Call /\ Ready(t) /\ Proper(t) /\ call[t].op \in Starting
      /\ call[t].unit \in Unit /\ Registered(call[t].unit) /\ call[t].unit # NULL
  BY DEF GInv, WInv, IInv, Typed, Kinds, Proper, Call, StartSpawn
<1>2. \A o \in Thread \ {t} : call'[o] = call[o]
  BY DEF StartSpawn
<1>3. UNCHANGED <<lists, there>> /\ \A u \in Unit \ {call[t].unit} : running'[u] = running[u]
  BY DEF StartSpawn, seen
<1>4. call'[t].op = call[t].op /\ call'[t].dev = call[t].dev /\ call'[t].devs = call[t].devs
      /\ call'[t].todo = call[t].todo /\ call'[t].unit \in {call[t].unit, NULL}
      /\ call'[t].at # "remember"
  BY DEF StartSpawn
<1>5. Ready(t)'
  <2>1. \A d \in Device : Targets(d, "start")' = Targets(d, "start")
    BY <1>3 DEF Targets, Rules, lists
  <2>2. \A w \in Unit : Lost(w)' = Lost(w) /\ w[2] \in Device
    BY <1>3 DEF Lost, Registered, lists, Unit
  <2>3. call[t].todo \subseteq Unit /\ call[t].at = "spawn"
    BY <1>1 DEF Call, StartSpawn
  <2> QED
    BY <1>1, <1>3, <1>4, <2>1, <2>2, <2>3 DEF Ready, Starting
<1>6. call[t].op # "unload" /\ call[t].op # "stop"
  BY <1>1 DEF Starting
<1>7. \A u \in Unit : running'[u] > 0 /\ ~Cleaner(u[1]) =>
        running[u] > 0 \/ (Registered(u) /\ u \in Targets(u[2], "start") /\ u[2] \in there)
  BY <1>1, <1>3 DEF Ready, Starting
<1> QED
  BY <1>2, <1>3, <1>5, <1>6, <1>7, AccountOfCall DEF In

LEMMA StopAccount ==
  ASSUME GInv, NEW t \in Thread, NEW u \in call[t].todo, StopUnit(t, u)
  PROVE  Known' /\ Accounted' /\ \A o \in Thread : Ready(o)'
<1>1. call[t] \in Call /\ u \in Unit /\ call[t].op \in {"stop", "unload"} /\ call[t].at = "next"
      /\ running \in [Unit -> 0..1]
  BY DEF GInv, WInv, IInv, Typed, Call, StopUnit, Stopping
<1>2. \A o \in Thread \ {t} : call'[o] = call[o]
  BY DEF StopUnit
<1>3. UNCHANGED <<lists, there>>
  BY DEF StopUnit
<1>4. call'[t].op = call[t].op /\ call'[t].todo = call[t].todo \ {u} /\ call'[t].at = "next"
  BY DEF StopUnit, GInv, WInv, IInv, Typed
<1>5. \A w \in Unit : running'[w] > 0 => running[w] > 0
  BY <1>1 DEF StopUnit
<1>6. running'[u] = 0 \/ (call[t].op = "stop" /\ ~Registered(u))
  BY <1>1 DEF StopUnit
<1>7. Ready(t)'
  BY <1>1, <1>4 DEF Ready
<1> QED
  BY <1>1, <1>2, <1>3, <1>4, <1>5, <1>6, <1>7, AccountOfCall DEF In

LEMMA ExitAccount ==
  ASSUME GInv, NEW u \in Unit, Exit(u)
  PROVE  Known' /\ Accounted' /\ \A o \in Thread : Ready(o)'
<1>1. UNCHANGED <<lists, there, call>> /\ running \in [Unit -> 0..1]
  BY DEF Exit, GInv, WInv, IInv, Typed
<1>2. \A w \in Unit : running'[w] > 0 => running[w] > 0
  BY <1>1 DEF Exit
<1>3. \A d \in Device : Targets(d, "start")' = Targets(d, "start")
  BY <1>1 DEF Targets, Rules, lists
<1>4. \A w \in Unit : Registered(w)' = Registered(w) /\ Lost(w)' = Lost(w) /\ w[2] \in Device
  BY <1>1 DEF Registered, Lost, lists, Unit
<1>5. ASSUME NEW o \in Thread PROVE Ready(o)'
  <2>1. call[o].todo \subseteq Unit /\ (call[o].unit # NULL => call[o].unit \in Unit)
    BY DEF GInv, WInv, IInv, Typed, Call
  <2> QED
    BY <1>1, <1>3, <1>4, <2>1 DEF GInv, Ready
<1>6. Known'
  BY <1>1 DEF GInv, Known, lists
<1>7. ASSUME NEW w \in Unit, running'[w] > 0, ~Cleaner(w[1])
      PROVE  ToStop(w)' \/ (Registered(w)' /\ Due(w)')
  BY <1>1, <1>2, <1>3, <1>4, <1>7 DEF GInv, Accounted, ToStop, Due, In
<1> QED
  BY <1>5, <1>6, <1>7 DEF Accounted

\* A step between the units of a call, after which the call is ready.
LEMMA ReadyAccount ==
  ASSUME GInv, NEW t \in Thread, \A o \in Thread \ {t} : call'[o] = call[o],
         UNCHANGED <<lists, running, there>>, Ready(t)',
         call[t].op \in {"none", "replay", "add", "remove"} \/ call[t].todo = {},
         In(t, "stop", "resolve") =>
             call'[t].op = "stop" /\ Targets(t, "start") \subseteq call'[t].todo
  PROVE  Known' /\ Accounted' /\ \A o \in Thread : Ready(o)'
<1>1. \A u \in Unit : running'[u] > 0 => running[u] > 0
  OBVIOUS
<1> QED
  BY <1>1, AccountOfCall

LEMMA AddReady ==
  ASSUME IInv, NEW d \in Device, NEW v \in Value,
         call' = [call EXCEPT ![d] = Begun("add", "remember", d, v)]
  PROVE  Ready(d)'
<1>1. "add" \in Starting \cup Stopping /\ d \in Device \cup {NULL} /\ v \in Value \cup {NULL}
      /\ d \in Thread
  BY DEF Starting, Thread
<1>2. call'[d] = Begun("add", "remember", d, v)
  BY <1>1 DEF IInv, Typed
<1>3. call'[d].op = "add" /\ call'[d].at = "remember" /\ call'[d].todo = {} /\ call'[d].unit = NULL
  BY <1>1, <1>2, BegunIsCall
<1>4. call'[d].dev = d
  BY ZenonT(60), <1>2 DEF Begun, NoCall
<1> QED
  BY <1>3, <1>4 DEF Ready

\* A copy holds what is there, and matches it with what the rules start.
LEMMA ReplayAccount ==
  ASSUME GInv, NEW t \in Thread, Replay(t)
  PROVE  Known' /\ Accounted' /\ \A o \in Thread : Ready(o)'
<1>1. call[t] \in Call /\ Ready(t) /\ Proper(t) /\ call[t].op = "replay" /\ call[t].unit = NULL
      /\ UNCHANGED <<lists, running, there>>
  <2>1. call[t] \in Call /\ Ready(t) /\ Proper(t)
    BY DEF GInv, WInv, IInv, Typed
  <2>2. In(t, "replay", "copy") \/ In(t, "replay", "next")
    BY DEF Replay, ReplayCopy, ReplayDevice, ReplayEnd, Done
  <2>3. UNCHANGED <<lists, running, there>>
    BY DEF Replay, ReplayCopy, ReplayDevice, ReplayEnd, seen
  <2> QED
    BY <2>1, <2>2, <2>3 DEF In, Proper
<1>2. \A o \in Thread \ {t} : call'[o] = call[o]
  BY DEF Replay, ReplayCopy, ReplayDevice, ReplayEnd, Begins, GInv, WInv, IInv, Typed
<1>3. \A d \in Device : Targets(d, "start")' = Targets(d, "start")
  BY <1>1 DEF Targets, Rules, lists
<1>4. \A w \in Unit : Lost(w)' = Lost(w) /\ w[2] \in Device
  BY <1>1 DEF Lost, Registered, lists, Unit
<1>5. Ready(t)'
  <2>1. CASE ReplayCopy(t)
    <3>1. call'[t].op = "replay" /\ call'[t].unit = NULL
          /\ call'[t].devs = {<<d, devices[d]>> : d \in {d \in Device : devices[d] # NULL}}
          /\ call'[t].todo = call[t].todo /\ call'[t].dev = call[t].dev
      BY <1>1, <2>1 DEF ReplayCopy, GInv, WInv, IInv, Typed
    <3>2. \A e \in call'[t].devs : e[1] \in there
      BY <3>1 DEF GInv, Known
    <3>3. call[t].todo \subseteq Unit
      BY <1>1 DEF Call
    <3> QED
      BY <1>1, <1>3, <1>4, <3>1, <3>2, <3>3 DEF Ready
  <2>2. CASE ReplayDevice(t)
    <3>1. PICK e \in call[t].devs :
            call' = [call EXCEPT ![t].devs = @ \ {e}, ![t].dev = e[1], ![t].value = e[2],
                                 ![t].todo = Targets(e[1], "start")]
      BY <2>2 DEF ReplayDevice
    <3>2. call'[t].op = "replay" /\ call'[t].unit = NULL /\ call'[t].devs \subseteq call[t].devs
          /\ call'[t].dev = e[1] /\ call'[t].todo = Targets(e[1], "start")
      BY <1>1, <3>1 DEF GInv, WInv, IInv, Typed
    <3>3. e[1] \in Device /\ e[1] \in there
      BY <1>1 DEF Call, Ready
    <3>4. \A w \in Targets(e[1], "start") : w[2] = e[1]
      BY DEF Targets
    <3> QED
      BY <1>1, <1>3, <3>2, <3>3, <3>4 DEF Ready
  <2>3. CASE ReplayEnd(t) /\ t = Boot
    <3>1. call'[t].op = "none"
      BY <2>3 DEF ReplayEnd, NoCall, GInv, WInv, IInv, Typed
    <3> QED
      BY <3>1 DEF Ready
  <2>4. CASE ReplayEnd(t) /\ t # Boot
    <3>1. t \in Device
      BY <2>4 DEF Thread
    <3>2. PICK v \in Value : call' = [call EXCEPT ![t] = Begun("add", "remember", t, v)]
      BY <2>4 DEF ReplayEnd, Begins, Begun
    <3> QED
      BY <3>1, <3>2, AddReady DEF GInv, WInv
  <2> QED
    BY <2>1, <2>2, <2>3, <2>4 DEF Replay
<1> QED
  BY <1>1, <1>2, <1>5, ReadyAccount DEF In

LEMMA ReportAccount ==
  ASSUME GInv, NEW d \in Device, Report(d)
  PROVE  Known' /\ Accounted' /\ \A o \in Thread : Ready(o)'
<1>1. d \in Thread /\ call[d].op = "none" /\ UNCHANGED <<lists, running, there>>
      /\ \A o \in Thread \ {d} : call'[o] = call[o]
  BY DEF Report, Thread, seen, Begins
<1>2. PICK v \in Value : call' = [call EXCEPT ![d] = Begun("add", "remember", d, v)]
  BY DEF Report, Begins, Begun
<1>3. Ready(d)'
  BY <1>1, <1>2, AddReady DEF GInv, WInv
<1> QED
  BY <1>1, <1>3, ReadyAccount DEF In

LEMMA AddAccount ==
  ASSUME GInv, NEW d \in Device, Add(d)
  PROVE  Known' /\ Accounted' /\ \A o \in Thread : Ready(o)'
<1>1. d \in Thread /\ call[d] \in Call /\ Proper(d) /\ Ready(d) /\ call[d].op = "add"
      /\ call[d].unit = NULL /\ \A o \in Thread \ {d} : call'[o] = call[o]
  BY DEF Add, AddRemember, AddResolve, AddEnd, Done, In, Proper, Thread, GInv, WInv,
     IInv, Typed
<1>2. CASE AddRemember(d)
  <2>1. call'[d].op = "add" /\ call'[d].dev = d /\ call'[d].todo = call[d].todo
        /\ call'[d].unit = NULL
    BY <1>1, <1>2 DEF AddRemember, Ready
  <2>2. d \in there' /\ there \subseteq there' /\ running' = running
        /\ UNCHANGED <<loads, dirs, scanned, argv>>
    BY <1>2 DEF AddRemember
  <2>3. \A o \in Device : Targets(o, "start")' = Targets(o, "start")
    BY <2>2 DEF Targets, Rules
  <2>4. \A w \in Unit : Registered(w)' = Registered(w) /\ Lost(w)' = Lost(w) /\ w[2] \in Device
    BY <2>2 DEF Registered, Lost, Unit
  <2>5. Known'
    BY <1>2 DEF AddRemember, GInv, Known
  <2>6. call[d].todo \subseteq Unit
    BY <1>1 DEF Call
  <2>7. Ready(d)'
    BY <1>1, <2>1, <2>2, <2>3, <2>4, <2>6 DEF Ready
  <2> QED
    BY <1>1, <2>2, <2>3, <2>4, <2>5, <2>7, AccountKept DEF In
<1>3. CASE AddResolve(d)
  <2>1. call'[d].op = "add" /\ call'[d].dev = d /\ call'[d].todo = Targets(d, "start")
        /\ call'[d].unit = NULL /\ UNCHANGED <<lists, running, there>> /\ d \in there
    BY <1>1, <1>3 DEF AddResolve, In, seen, Ready, GInv, WInv, IInv, Typed
  <2>2. Targets(d, "start")' = Targets(d, "start") /\ \A w \in Targets(d, "start") : w[2] = d
    BY <2>1 DEF Targets, Rules, lists
  <2>3. Ready(d)'
    BY <2>1, <2>2 DEF Ready
  <2> QED
    BY <1>1, <2>1, <2>3, ReadyAccount DEF In
<1>4. CASE AddEnd(d)
  <2>1. call'[d].op = "none" /\ UNCHANGED <<lists, running, there>>
    BY <1>1, <1>4 DEF AddEnd, NoCall, seen, GInv, WInv, IInv, Typed
  <2>2. Ready(d)'
    BY <2>1 DEF Ready
  <2> QED
    BY <1>1, <2>1, <2>2, ReadyAccount DEF In
<1> QED
  BY <1>2, <1>3, <1>4 DEF Add

\* A scan, a load of rules and a mount bring what there was not, and no device.
LEMMA BringAccount ==
  ASSUME GInv, RulesStay, NEW t \in Thread,
         (t = Boot /\ (Scan \/ LoadRules)) \/ (t \in Device /\ Mount(t))
  PROVE  Known' /\ Accounted' /\ \A o \in Thread : Ready(o)'
<1>1. call[t].op = "none" /\ UNCHANGED <<devices, argv, running, there>> /\ dirs \subseteq dirs'
      /\ \A o \in Thread \ {t} : call'[o] = call[o]
  BY DEF Scan, LoadRules, Mount, seen, Begins, GInv, WInv, IInv, Typed
<1>2. call'[t].op = "replay" /\ call'[t].todo = {} /\ call'[t].devs = {} /\ call'[t].unit = NULL
  <2>1. call' = [call EXCEPT ![t] = Begun("replay", "copy", NULL, NULL)]
    BY DEF Scan, LoadRules, Mount, Begins, Begun
  <2>2. call'[t] = Begun("replay", "copy", NULL, NULL)
    BY <2>1 DEF GInv, WInv, IInv, Typed
  <2> QED
    BY <2>2, ReplayBegun
<1>3. ruleSets[loads] \subseteq ruleSets[loads']
  <2>1. CASE LoadRules
    <3>1. loads \in 0..MaxLoads /\ MaxLoads \in Nat /\ loads < MaxLoads /\ loads' = loads + 1
      BY <2>1, Assumptions DEF LoadRules, GInv, WInv, IInv, Typed
    <3>2. loads + 1 \in 1..MaxLoads /\ (loads + 1) - 1 = loads
      BY <3>1
    <3> QED
      BY <3>1 DEF RulesStay
  <2>2. CASE loads' = loads
    BY <2>2
  <2> QED
    BY <2>1 DEF Scan, Mount
<1>4. \A d \in Device : Targets(d, "start") \subseteq Targets(d, "start")'
  BY <1>1, <1>3 DEF Targets, Rules
<1>5. ASSUME NEW w \in Unit, Lost(w)
      PROVE  Lost(w)' \/ w \in Targets(w[2], "start")'
  <2>1. CASE source[w[1]] \in dirs'
    <3>1. PICK r \in brings[source[w[1]]] : r.start = w[1] /\ r.class = class[w[2]]
      BY <1>5 DEF Lost
    <3>2. r \in Rules'
      BY <2>1 DEF Rules
    <3>3. w = <<r.start, w[2]>> /\ r.start # NULL
      BY <3>1, Assumptions DEF Unit
    <3> QED
      BY <3>1, <3>2, <3>3 DEF Targets
  <2>2. CASE source[w[1]] \notin dirs'
    BY <1>1, <1>5, <2>2 DEF Lost, Registered
  <2> QED
    BY <2>1, <2>2
<1>6. Known' /\ Ready(t)'
  BY <1>1, <1>2 DEF GInv, Known, Ready
<1> QED
  BY <1>1, <1>4, <1>5, <1>6, AccountKept DEF In, Registered

\* A removal begins when no replay has its device, and stops what runs for it.
LEMMA RemoveAccount ==
  ASSUME GInv, "removal" \notin Overlap, NEW d \in Device, Remove(d)
  PROVE  Known' /\ Accounted' /\ \A o \in Thread : Ready(o)'
<1>1. d \in Thread /\ call[d].op = "none" /\ there' = there \ {d} /\ Settled(d)
      /\ UNCHANGED <<loads, dirs, scanned, argv, running>>
      /\ devices' = [devices EXCEPT ![d] = NULL]
      /\ \A o \in Thread \ {d} : call'[o] = call[o]
  BY DEF Remove, Begins, Thread
<1>2. In(d, "stop", "resolve")' /\ call'[d].todo = {}
  BY <1>1 DEF Remove, Begins, NoCall, In, GInv, WInv, IInv, Typed
<1>3. \A o \in Device : Targets(o, "start")' = Targets(o, "start")
  BY <1>1 DEF Targets, Rules
<1>4. \A w \in Unit : Registered(w)' = Registered(w) /\ Lost(w)' = Lost(w)
                      /\ w[2] \in Device /\ w[2] \in Thread
  BY <1>1 DEF Registered, Lost, Unit, Thread
<1>5. Known'
  BY <1>1 DEF GInv, Known, WInv, IInv, Typed
<1>6. Ready(d)'
  BY <1>2 DEF In, Ready
<1>7. ASSUME NEW o \in Thread \ {d}
      PROVE  Ready(o)'
  <2>1. call[o].todo \subseteq Unit /\ (call[o].unit # NULL => call[o].unit \in Unit) /\ Ready(o)
    BY DEF GInv, WInv, IInv, Typed, Call
  <2>2. call[o].op \in {"replay", "add"} => call[o].dev # d
    BY <1>1 DEF GInv, Ready, Settled
  <2>3. call[o].op = "replay" => \A e \in call[o].devs : e[1] # d
    BY <1>1 DEF Settled
  <2> QED
    BY <1>1, <1>3, <1>4, <2>1, <2>2, <2>3 DEF Ready
<1>8. ASSUME NEW u \in Unit, running'[u] > 0, ~Cleaner(u[1])
      PROVE  ToStop(u)' \/ (Registered(u)' /\ Due(u)')
  <2>1. ToStop(u) => ToStop(u)'
    <3>1. Mounts \subseteq Thread
      BY Assumptions DEF Thread
    <3> QED
      BY <1>1, <3>1 DEF ToStop
  <2>2. Due(u) => Due(u)'
    BY <1>1, <1>2, <1>3, <1>4 DEF Due, In
  <2> QED
    BY <1>1, <1>4, <1>8, <2>1, <2>2 DEF GInv, Accounted
<1> QED
  BY <1>5, <1>6, <1>7, <1>8 DEF Accounted

\* The instances of a mount point that goes are taken to be stopped; what else
\* its rules had started had a template of its own, and went with these.
LEMMA UnloadAccount ==
  ASSUME GInv, RulesStay, "unload" \notin Overlap, NEW m \in Device, UnloadTake(m)
  PROVE  Known' /\ Accounted' /\ \A o \in Thread : Ready(o)'
<1> DEFINE gone == {u \in Unit : source[u[1]] = m /\ Registered(u)}
<1>1. m \in Thread /\ m \in Mounts /\ call[m] \in Call /\ call[m].op = "remove"
      /\ call[m].todo = {} /\ call[m].at = "next"
      /\ UNCHANGED <<devices, loads, running, there>> /\ dirs' = dirs \ {m}
      /\ argv' = [u \in Unit |-> IF u \in gone THEN NULL ELSE argv[u]]
      /\ \A u \in gone : ~InHand(m, u, {"check", "spawn", "wait"})
  BY DEF UnloadTake, Done, In, seen, Thread, GInv, WInv, IInv, Typed
<1>2. \A o \in Thread \ {m} : call'[o] = call[o]
  BY DEF UnloadTake, GInv, WInv, IInv, Typed
<1>3. call'[m].op = "unload" /\ call'[m].todo = gone
  BY <1>1 DEF UnloadTake, GInv, WInv, IInv, Typed
<1>4. \A u \in Unit : u \notin gone => Registered(u)' = Registered(u)
  BY <1>1 DEF Registered
<1>5. \A u \in gone : ~Registered(u)'
  BY <1>1 DEF Registered
<1>6. ASSUME NEW u \in Unit, u \in Targets(u[2], "start"), u \notin Targets(u[2], "start")'
      PROVE  source[u[1]] = m /\ \E r \in brings[m] : r.start = u[1] /\ r.class = class[u[2]]
  <2>1. PICK r \in Rules : r.class = class[u[2]] /\ r.start # NULL /\ u = <<r.start, u[2]>>
    BY <1>6 DEF Targets
  <2>2. r \notin Rules'
    BY <1>6, <2>1 DEF Targets
  <2>3. r \in brings[m]
    BY <1>1, <2>2 DEF Rules
  <2>4. r.start = u[1]
    BY <2>1
  <2> QED
    BY <1>1, <2>1, <2>3 DEF RulesStay
<1>7. \A u \in Unit : Lost(u) => Lost(u)'
  BY <1>1, <1>4 DEF Lost
<1>8. \A u \in Unit : u \in Targets(u[2], "start") => u \in Targets(u[2], "start")' \/ Lost(u)'
  <2> SUFFICES ASSUME NEW u \in Unit, u \in Targets(u[2], "start"),
                      u \notin Targets(u[2], "start")'
               PROVE  Lost(u)'
    OBVIOUS
  <2>1. source[u[1]] = m /\ \E r \in brings[m] : r.start = u[1] /\ r.class = class[u[2]]
    BY <1>6
  <2>2. ~Registered(u)'
    BY <1>4, <1>5, <2>1
  <2> QED
    BY <1>1, <2>1, <2>2 DEF Lost
<1>9. Known' /\ Ready(m)'
  BY <1>1, <1>3 DEF GInv, Known, Ready
<1>10. ASSUME NEW o \in Thread \ {m}
       PROVE  Ready(o)'
  <2>1. call[o].todo \subseteq Unit /\ Ready(o) /\ Proper(o) /\ \A w \in Unit : w[2] \in Device
    BY DEF GInv, WInv, IInv, Typed, Call, Unit
  <2>2. ASSUME call[o].unit # NULL
        PROVE  call[o].unit \in Unit /\ call[o].unit \notin gone /\ Registered(call[o].unit)
    <3>1. call[o].unit \in Unit /\ call[o].at \in {"check", "spawn", "wait"}
          /\ Registered(call[o].unit)
      BY <2>2 DEF GInv, WInv, IInv, Typed, Call, Proper
    <3> QED
      BY <1>1, <3>1 DEF InHand
  <2>3. ASSUME call[o].unit # NULL, call[o].unit \in Targets(call[o].unit[2], "start")
        PROVE  call[o].unit \in Targets(call[o].unit[2], "start")'
    BY <1>2, <1>6, <2>2, <2>3
  <2> QED
    BY <1>1, <1>2, <1>7, <1>8, <2>1, <2>3 DEF Ready
<1>11. ASSUME NEW u \in Unit, running'[u] > 0, ~Cleaner(u[1])
       PROVE  ToStop(u)' \/ (Registered(u)' /\ Due(u)')
  <2>1. ToStop(u) => ToStop(u)'
    <3>1. Mounts \subseteq Thread
      BY Assumptions DEF Thread
    <3> QED
      BY <1>1, <1>2, <3>1 DEF ToStop
  <2>2. u \in gone => ToStop(u)'
    BY <1>1, <1>3 DEF ToStop
  <2>3. Registered(u) /\ u \notin gone => source[u[1]] # m
    OBVIOUS
  <2>4. Due(u) /\ source[u[1]] # m => Due(u)'
    <3>1. u[2] \in Thread /\ (source[u[1]] # m /\ u \in Targets(u[2], "start") =>
                                u \in Targets(u[2], "start")')
      BY <1>6 DEF Unit, Thread
    <3> QED
      BY <1>1, <1>2, <3>1 DEF Due, In
  <2> QED
    BY <1>1, <1>4, <1>11, <2>1, <2>2, <2>4 DEF GInv, Accounted
<1> QED
  BY <1>9, <1>10, <1>11 DEF Accounted

LEMMA RemovalAccount ==
  ASSUME GInv, RulesStay, "unload" \notin Overlap, NEW d \in Device, Removal(d)
  PROVE  Known' /\ Accounted' /\ \A o \in Thread : Ready(o)'
<1>1. CASE StopResolve(d) \/ RemoveResolve(d) \/ RemoveEnd(d) \/ UnloadEnd(d)
  <2>1. d \in Thread /\ call[d] \in Call /\ Proper(d) /\ Typed
        /\ UNCHANGED <<lists, running, there>> /\ \A o \in Thread \ {d} : call'[o] = call[o]
    BY <1>1 DEF StopResolve, RemoveResolve, RemoveEnd, UnloadEnd, seen, Thread, GInv,
       WInv, IInv, Typed
  <2>2. CASE StopResolve(d)
    <3>1. call'[d].op = "stop" /\ call'[d].todo = Targets(d, "start") /\ call'[d].at = "next"
      BY <2>1, <2>2 DEF StopResolve, In, Typed
    <3>2. Ready(d)'
      BY <3>1 DEF Ready
    <3>3. \A u \in Unit : running'[u] > 0 => running[u] > 0
      BY <2>1
    <3> QED
      BY ZenonT(60), <2>1, <2>2, <3>1, <3>2, <3>3, AccountOfCall DEF StopResolve, In, GInv, Ready
  <2>3. CASE RemoveResolve(d)
    <3>1. call'[d].op = "remove" /\ call'[d].todo = Targets(d, "remove") /\ call'[d].unit = NULL
      BY <2>1, <2>3 DEF RemoveResolve, Done, In, Proper, Typed
    <3>2. Ready(d)'
      BY <2>1, <3>1, RemoversClean DEF Ready
    <3> QED
      BY <2>1, <2>3, <3>2, ReadyAccount DEF RemoveResolve, Done, In
  <2>4. CASE RemoveEnd(d) \/ UnloadEnd(d)
    <3>1. call'[d].op = "none"
      BY <2>1, <2>4 DEF RemoveEnd, UnloadEnd, NoCall, Typed
    <3>2. Ready(d)'
      BY <3>1 DEF Ready
    <3> QED
      BY <2>1, <2>4, <3>2, ReadyAccount DEF RemoveEnd, UnloadEnd, Done, In
  <2> QED
    BY <1>1, <2>2, <2>3, <2>4
<1> QED
  BY <1>1, UnloadAccount DEF Removal

LEMMA AccountStarts == Init => GInv
<1> SUFFICES ASSUME Init PROVE GInv
  OBVIOUS
<1>1. Known /\ Accounted /\ \A t \in Thread : Ready(t)
  BY DEF Init, NoCall, Known, Accounted, Ready
<1> QED
  BY <1>1, WaitedStarts DEF GInv

LEMMA AccountStays ==
  ASSUME Overlap = {}, Apart, RulesStay
  PROVE  GInv /\ [Next]_vars => GInv'
<1> SUFFICES ASSUME GInv, [Next]_vars PROVE GInv'
  OBVIOUS
<1>1. WInv'
  BY WaitedStays DEF GInv
<1> SUFFICES Known' /\ Accounted' /\ \A t \in Thread : Ready(t)'
  BY <1>1 DEF GInv
<1>2. CASE Scan \/ LoadRules \/ \E d \in Device : Mount(d)
  BY <1>2, BringAccount DEF Thread
<1>3. CASE \E d \in Device : Report(d) \/ Remove(d)
  BY <1>3, ReportAccount, RemoveAccount
<1>4. CASE \E t \in Thread : Proceeds(t)
  <2>1. PICK t \in Thread : Proceeds(t)
    BY <1>4
  <2>2. CASE UnitStep(t)
    BY <2>2, FindAccount, UnitAccount, SpawnAccount, StopAccount DEF UnitStep
  <2>3. CASE Replay(t)
    BY <2>3, ReplayAccount
  <2>4. CASE t \in Device /\ (Add(t) \/ Removal(t))
    BY <2>4, AddAccount, RemovalAccount
  <2> QED
    BY <2>1, <2>2, <2>3, <2>4 DEF Proceeds
<1>5. CASE \E u \in Unit : Exit(u)
  BY <1>5, ExitAccount
<1>6. CASE UNCHANGED vars
  <2>1. UNCHANGED <<devices, loads, dirs, argv, running, there, call>>
    BY <1>6 DEF vars, lists, seen
  <2> QED
    BY <2>1 DEF GInv, Known, Accounted, ToStop, Due, Ready, Lost, Registered, Targets,
       Rules, In
<1> QED
  BY <1>2, <1>3, <1>4, <1>5, <1>6 DEF Next

\* A device whose removal has stopped its units, or returned, has nothing
\* running for it but what cleans up, for any number of devices, mount points
\* and rules: whichever thread had its device in a copy of the list, and
\* whatever was unmounted in between.
THEOREM NothingIsLeft ==
  ASSUME Overlap = {}, Apart, RulesStay
  PROVE  Spec => []GoneIsGone
<1>1. GInv => GoneIsGone
  <2> SUFFICES ASSUME GInv, NEW d \in Device, d \notin there,
                      call[d].op \in {"none", "unload"} \/ Done(d, "remove"),
                      NEW t \in Template, running[<<t, d>>] > 0, ~Cleaner(t)
               PROVE  \E m \in Mounts : call[m].op = "unload" /\ <<t, d>> \in call[m].todo
    BY DEF GoneIsGone
  <2>1. <<t, d>> \in Unit /\ <<t, d>>[1] = t /\ <<t, d>>[2] = d
    BY DEF Unit
  <2>2. ~Due(<<t, d>>)
    BY DEF Due, Done, In
  <2>3. ToStop(<<t, d>>)
    BY <2>1, <2>2 DEF GInv, Accounted
  <2> QED
    BY <2>3 DEF ToStop
<1> QED
  BY <1>1, AccountStarts, AccountStays, PTL DEF Spec
=============================================================================
