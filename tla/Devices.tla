------------------------------- MODULE Devices -------------------------------
(***************************************************************************)
(* Devices and the units that rules start and stop for them                *)
(* (libsystemd/src/serviceapi.c): remembering what drivers report, rules,  *)
(* on-demand instances of templates, the replay that follows a scan, a     *)
(* load of rules and a mount, and the removal that waits for its units.    *)
(*                                                                         *)
(* Drivers report from threads of their own while the boot scans and loads *)
(* rules.  A mount point is a device that also brings rules and templates. *)
(* A step is what one thread does while it holds the registry lock, or     *)
(* between two points where another can run.  What the lists hold is       *)
(* ConfigDirs, how a unit starts and stops is ServiceLifecycle.            *)
(***************************************************************************)
EXTENDS Naturals

CONSTANTS
    Device,     \* devices, each of them reported by one thread
    Mounts,     \* those that are mount points
    class,      \* class[d]: the class d is reported with
    Value,      \* values (%v) a device is reported with
    Boot,       \* the thread that scans and loads rules
    NULL,
    Template,   \* templates a rule can name; an instance is <<template, device>>
    source,     \* source[t]: the mount point template t comes from, or Boot
    ruleSets,   \* ruleSets[n]: what the n-th load of the rules directory finds
    MaxLoads,   \* how often that directory is loaded at most
    brings,     \* brings[m]: the rules in the file system of m
    Broken,     \* templates of units that fail to start
    OneShot,    \* templates of units that end by themselves
    Overlap     \* calls that are not serialized against others, see below

ASSUME Assumptions ==
    /\ Mounts \subseteq Device /\ Boot \notin Device /\ MaxLoads \in Nat
    /\ NULL \notin Value \cup Device \cup Template \cup (Template \X Device)
    /\ \A rules \in {ruleSets[n] : n \in 0..MaxLoads} \cup {brings[m] : m \in Mounts} :
         \A r \in rules, kind \in {"start", "remove"} : r[kind] \in Template \cup {NULL}
    /\ DOMAIN class = Device /\ DOMAIN brings = Mounts
    /\ source \in [Template -> Mounts \cup {Boot}]
    /\ DOMAIN ruleSets = 0..MaxLoads /\ ruleSets[0] = {}
    /\ Broken \subseteq Template /\ OneShot \subseteq Template
    /\ Overlap \subseteq {"start",    \* two starts of one unit
                          "removal",  \* a removal and a replay of one device
                          "unload"}   \* an unmount and a start of one of its units

VARIABLES
    devices,  \* g_devices: devices[d] is the value d is remembered with, or NULL
    loads,    \* loads of the rules directory so far
    dirs,     \* g_config_dirs: the mount points whose directory is loaded
    scanned,  \* whether g_units_dir is set
    argv,     \* argv[u]: the value instance u was expanded with; NULL: not registered
    running,  \* running[u]: how many processes of unit u run
    there,    \* the devices reported and not removed since, as their drivers see it
    late,     \* removal units whose removal gave up waiting for them
    call      \* call[t]: the call thread t is in

lists == <<devices, loads, dirs, scanned, argv>>
seen == <<there, late>>
vars == <<lists, running, seen, call>>

Thread == Device \cup {Boot}
Unit == Template \X Device

NoCall == [op |-> "none", at |-> "next", devs |-> {}, dev |-> NULL, value |-> NULL,
           todo |-> {}, unit |-> NULL]

Init ==
    /\ devices = [d \in Device |-> NULL]
    /\ loads = 0 /\ dirs = {} /\ scanned = FALSE
    /\ argv = [u \in Unit |-> NULL]
    /\ running = [u \in Unit |-> 0]
    /\ there = {} /\ late = {}
    /\ call = [t \in Thread |-> NoCall]

In(t, op, at) == call[t].op = op /\ call[t].at = at

\* Thread t begins a call, for d and its value v; at: the first thing it does.
Begins(t, op, at, d, v) ==
    call' = [call EXCEPT ![t] = [NoCall EXCEPT !.op = op, !.at = at, !.dev = d, !.value = v]]

-----------------------------------------------------------------------------
(* Rules and templates                                                     *)

\* g_rules: those of the rules directory and of every loaded mount point.
Rules == ruleSets[loads] \cup UNION {brings[m] : m \in dirs}

\* libsystemd_resolve_device_targets(): every rule of the class counts.
Targets(d, kind) ==
    {<<r[kind], d>> : r \in {r \in Rules : r.class = class[d] /\ r[kind] # NULL}}

\* Whether an instance of template t can be made.
Available(t) == scanned /\ source[t] \in dirs \cup {Boot}

Registered(u) == argv[u] # NULL

-----------------------------------------------------------------------------
(* Starting and stopping the units of a call                               *)

Starting == {"replay", "add", "remove"}
Stopping == {"stop", "unload"}

\* Threads other than t that have a unit in hand to start it.
InHand(t, u, where) ==
    \E o \in Thread \ {t} : call[o].unit = u /\ call[o].at \in where

\* libsystemd_start_service() under the lock: the unit is found or made.
StartFind(t, u) ==
    /\ call[t].op \in Starting /\ call[t].at = "next"
    /\ u \in call[t].todo
    /\ Registered(u) \/ Available(u[1])
    /\ argv' = IF Registered(u) THEN argv ELSE [argv EXCEPT ![u] = call[t].value]
    /\ call' = [call EXCEPT ![t].at = "check", ![t].unit = u, ![t].todo = @ \ {u}]
    /\ UNCHANGED <<devices, loads, dirs, scanned, running, seen>>

\* -ENOENT: neither the unit nor its template is known.
StartUnknown(t, u) ==
    /\ call[t].op \in Starting /\ call[t].at = "next"
    /\ u \in call[t].todo
    /\ ~Registered(u) /\ ~Available(u[1])
    /\ call' = [call EXCEPT ![t].todo = @ \ {u}]
    /\ UNCHANGED <<lists, running, seen>>

\* Mutant: the unit is spawned without a look at its process.
StartCheckNot(t) ==
    /\ call[t].at = "check"
    /\ "start" \in Overlap \/ ~InHand(t, call[t].unit, {"spawn"})
    /\ call' = [call EXCEPT ![t].at = "spawn"]
    /\ UNCHANGED <<lists, running, seen>>

\* Outside the lock: -EALREADY, or go on to the spawn.
StartCheck(t) ==
    /\ call[t].at = "check"
    /\ "start" \in Overlap \/ ~InHand(t, call[t].unit, {"spawn"})
    /\ call' = [call EXCEPT ![t] =
                  IF running[call[t].unit] > 0 THEN [@ EXCEPT !.at = "next", !.unit = NULL]
                                               ELSE [@ EXCEPT !.at = "spawn"]]
    /\ UNCHANGED <<lists, running, seen>>

\* A broken unit fails to start, and the rest of the call goes on.
StartFails(t) ==
    /\ call[t].at = "spawn"
    /\ call[t].unit[1] \in Broken
    /\ call' = [call EXCEPT ![t].at = "next", ![t].unit = NULL]
    /\ UNCHANGED <<lists, running, seen>>

\* Mutant: a removal unit is started and left to itself.
StartSpawnNoWait(t) ==
    /\ call[t].at = "spawn"
    /\ call[t].unit[1] \notin Broken
    /\ running' = [running EXCEPT ![call[t].unit] = @ + 1]
    /\ call' = [call EXCEPT ![t].at = "next", ![t].unit = NULL]
    /\ UNCHANGED <<lists, seen>>

\* The process runs; a removal waits for it.
StartSpawn(t) ==
    /\ call[t].at = "spawn"
    /\ call[t].unit[1] \notin Broken
    /\ running' = [running EXCEPT ![call[t].unit] = @ + 1]
    /\ call' = [call EXCEPT ![t] =
                  IF call[t].op = "remove" THEN [@ EXCEPT !.at = "wait"]
                                           ELSE [@ EXCEPT !.at = "next", !.unit = NULL]]
    /\ UNCHANGED <<lists, seen>>

\* libsystemd_wait_for_exit() sees it ended ...
WaitEnded(t) ==
    /\ call[t].at = "wait"
    /\ running[call[t].unit] = 0
    /\ call' = [call EXCEPT ![t].at = "next", ![t].unit = NULL]
    /\ UNCHANGED <<lists, running, seen>>

\* Mutant: there is no limit to the wait.
WaitForEver(t) == FALSE /\ UNCHANGED vars

\* ... or gives up after LIBSYSTEMD_REMOVE_WAIT_MS.
WaitTimeout(t) ==
    /\ call[t].at = "wait"
    /\ running[call[t].unit] > 0
    /\ late' = late \cup {call[t].unit}
    /\ call' = [call EXCEPT ![t].at = "next", ![t].unit = NULL]
    /\ UNCHANGED <<lists, running, there>>

\* libsystemd_stop_service(), or -ENOENT or -ESRCH; an unload stops units that
\* have left the registry already.
StopUnit(t, u) ==
    /\ call[t].op \in Stopping /\ call[t].at = "next"
    /\ u \in call[t].todo
    /\ running' = IF running[u] > 0 /\ (call[t].op = "unload" \/ Registered(u))
                  THEN [running EXCEPT ![u] = @ - 1] ELSE running
    /\ call' = [call EXCEPT ![t].todo = @ \ {u}]
    /\ late' = IF running'[u] = 0 THEN late \ {u} ELSE late
    /\ UNCHANGED <<lists, there>>

\* A process ends by itself.
Exit(u) ==
    /\ u[1] \in OneShot
    /\ running[u] > 0
    /\ running' = [running EXCEPT ![u] = @ - 1]
    /\ late' = IF running[u] = 1 THEN late \ {u} ELSE late
    /\ UNCHANGED <<lists, there, call>>

UnitStep(t) ==
    \/ \E u \in call[t].todo : StartFind(t, u) \/ StartUnknown(t, u) \/ StopUnit(t, u)
    \/ StartCheck(t) \/ StartFails(t) \/ StartSpawn(t) \/ WaitEnded(t) \/ WaitTimeout(t)

\* Every unit of the step of the call is done.
Done(t, op) == In(t, op, "next") /\ call[t].todo = {}

-----------------------------------------------------------------------------
(* libsystemd_replay_pending_devices()                                     *)

\* A copy of the list is taken under the lock.
ReplayCopy(t) ==
    /\ In(t, "replay", "copy")
    /\ call' = [call EXCEPT
                  ![t].at = "next",
                  ![t].devs = {<<d, devices[d]>> : d \in {d \in Device : devices[d] # NULL}}]
    /\ UNCHANGED <<lists, running, seen>>

\* The next device of the copy is matched with the rules there are now.
ReplayDevice(t) ==
    /\ Done(t, "replay")
    /\ \E e \in call[t].devs :
         call' = [call EXCEPT ![t].devs = @ \ {e}, ![t].dev = e[1], ![t].value = e[2],
                              ![t].todo = Targets(e[1], "start")]
    /\ UNCHANGED <<lists, running, seen>>

\* The scan or the load returns; a mount goes on to report itself.
ReplayEnd(t) ==
    /\ Done(t, "replay")
    /\ call[t].devs = {}
    /\ IF t = Boot THEN call' = [call EXCEPT ![t] = NoCall]
       ELSE \E v \in Value : Begins(t, "add", "remember", t, v)
    /\ UNCHANGED <<lists, running, seen>>

Replay(t) == ReplayCopy(t) \/ ReplayDevice(t) \/ ReplayEnd(t)

-----------------------------------------------------------------------------
(* libsystemd_scan() and libsystemd_load_rules()                           *)

\* The first scan: templates are known from here on, and the pending devices
\* are replayed.
Scan ==
    /\ call[Boot].op = "none"
    /\ ~scanned
    /\ scanned' = TRUE
    /\ Begins(Boot, "replay", "copy", NULL, NULL)
    /\ UNCHANGED <<devices, loads, dirs, argv, running, seen>>

\* The rules are replaced, those of the mount points stay.
LoadRules ==
    /\ call[Boot].op = "none"
    /\ loads < MaxLoads
    /\ loads' = loads + 1
    /\ Begins(Boot, "replay", "copy", NULL, NULL)
    /\ UNCHANGED <<devices, dirs, scanned, argv, running, seen>>

-----------------------------------------------------------------------------
(* libsystemd_notify_device_added() and _mount_changed(mounted)            *)

\* A device is reported, for the first time or again.
Report(d) ==
    /\ d \notin Mounts
    /\ call[d].op = "none"
    /\ \E v \in Value : Begins(d, "add", "remember", d, v)
    /\ UNCHANGED <<lists, running, seen>>

\* A mount loads its configuration directory first, and replays.
Mount(m) ==
    /\ m \in Mounts \ dirs
    /\ call[m].op = "none"
    /\ dirs' = dirs \cup {m}
    /\ Begins(m, "replay", "copy", NULL, NULL)
    /\ UNCHANGED <<devices, loads, scanned, argv, running, seen>>

\* Mutant: a device whose rule is there is started, not remembered.
AddRememberUnmatched(d) ==
    /\ In(d, "add", "remember")
    /\ devices' = IF devices[d] = NULL /\ Targets(d, "start") = {}
                  THEN [devices EXCEPT ![d] = call[d].value] ELSE devices
    /\ call' = [call EXCEPT ![d].at = "resolve"]
    /\ there' = there \cup {d}
    /\ UNCHANGED <<loads, dirs, scanned, argv, running, late>>

\* libsystemd_remember_device(): a device that is known keeps its value.
AddRemember(d) ==
    /\ In(d, "add", "remember")
    /\ devices' = IF devices[d] = NULL THEN [devices EXCEPT ![d] = call[d].value] ELSE devices
    /\ call' = [call EXCEPT ![d].at = "resolve"]
    /\ there' = there \cup {d}
    /\ UNCHANGED <<loads, dirs, scanned, argv, running, late>>

AddResolve(d) ==
    /\ In(d, "add", "resolve")
    /\ call' = [call EXCEPT ![d].at = "next", ![d].todo = Targets(d, "start")]
    /\ UNCHANGED <<lists, running, seen>>

AddEnd(d) ==
    /\ Done(d, "add")
    /\ call' = [call EXCEPT ![d] = NoCall]
    /\ UNCHANGED <<lists, running, seen>>

Add(d) == AddRemember(d) \/ AddResolve(d) \/ AddEnd(d)

-----------------------------------------------------------------------------
(* libsystemd_notify_device_removed() and _mount_changed(unmounted)        *)

\* No other thread replays d (unless such calls are not serialized).
Settled(d) ==
    \A t \in Thread \ {d} :
        call[t].op = "replay" => call[t].dev # d /\ \A e \in call[t].devs : e[1] # d

\* Mutant: the device is forgotten before its value is read.
RemoveForgetsFirst(d) ==
    /\ call[d].op = "none"
    /\ d \in there
    /\ "removal" \in Overlap \/ Settled(d)
    /\ devices' = [devices EXCEPT ![d] = NULL]
    /\ Begins(d, "stop", "resolve", d, devices'[d])
    /\ there' = there \ {d}
    /\ UNCHANGED <<loads, dirs, scanned, argv, running, late>>

\* A device that was reported goes: its value is read, then it is forgotten.
Remove(d) ==
    /\ call[d].op = "none"
    /\ d \in there
    /\ "removal" \in Overlap \/ Settled(d)
    /\ Begins(d, "stop", "resolve", d, devices[d])
    /\ devices' = [devices EXCEPT ![d] = NULL]
    /\ there' = there \ {d}
    /\ UNCHANGED <<loads, dirs, scanned, argv, running, late>>

\* Mutant: only what the rules of the rules directory started is stopped.
StopResolveFirmware(d) ==
    /\ In(d, "stop", "resolve")
    /\ call' = [call EXCEPT
                  ![d].at = "next",
                  ![d].todo = {<<r.start, d>> : r \in {r \in ruleSets[loads] :
                                 r.class = class[d] /\ r.start # NULL}}]
    /\ UNCHANGED <<lists, running, seen>>

\* The units the rules started for it are to be stopped ...
StopResolve(d) ==
    /\ In(d, "stop", "resolve")
    /\ call' = [call EXCEPT ![d].at = "next", ![d].todo = Targets(d, "start")]
    /\ UNCHANGED <<lists, running, seen>>

\* ... and when they are, those that clean up after it started.
RemoveResolve(d) ==
    /\ Done(d, "stop")
    /\ call' = [call EXCEPT ![d].op = "remove", ![d].todo = Targets(d, "remove")]
    /\ UNCHANGED <<lists, running, seen>>

RemoveEnd(d) ==
    /\ d \notin Mounts
    /\ Done(d, "remove")
    /\ call' = [call EXCEPT ![d] = NoCall]
    /\ UNCHANGED <<lists, running, seen>>

\* The rules and templates of an unmounted file system go, and the instances of
\* its templates.
UnloadTake(m) ==
    /\ m \in Mounts
    /\ Done(m, "remove")
    /\ LET gone == {u \in Unit : source[u[1]] = m /\ Registered(u)} IN
         /\ "unload" \in Overlap \/ \A u \in gone : ~InHand(m, u, {"check", "spawn", "wait"})
         /\ argv' = [u \in Unit |-> IF u \in gone THEN NULL ELSE argv[u]]
         /\ call' = [call EXCEPT ![m].op = "unload", ![m].todo = gone]
    /\ dirs' = dirs \ {m}
    /\ UNCHANGED <<devices, loads, scanned, running, seen>>

UnloadEnd(m) ==
    /\ Done(m, "unload")
    /\ call' = [call EXCEPT ![m] = NoCall]
    /\ UNCHANGED <<lists, running, seen>>

Removal(d) ==
    StopResolve(d) \/ RemoveResolve(d) \/ RemoveEnd(d) \/ UnloadTake(d) \/ UnloadEnd(d)

-----------------------------------------------------------------------------
\* A call that has begun goes on.
Proceeds(t) == UnitStep(t) \/ Replay(t) \/ (t \in Device /\ (Add(t) \/ Removal(t)))

Next ==
    \/ Scan \/ LoadRules
    \/ \E d \in Device : Report(d) \/ Mount(d) \/ Remove(d)
    \/ \E t \in Thread : Proceeds(t)
    \/ \E u \in Unit : Exit(u)

Spec == Init /\ [][Next]_vars

\* Threads inside the library run; no driver owes a report, no process its end.
FairSpec == Spec /\ \A t \in Thread : WF_vars(Proceeds(t))

-----------------------------------------------------------------------------
(* Properties                                                              *)

\* Every variable keeps its type, and an instance was expanded with a value its
\* device was reported with, its removal unit too.
TypeOK ==
    /\ devices \in [Device -> Value \cup {NULL}]
    /\ loads \in 0..MaxLoads /\ dirs \subseteq Mounts /\ scanned \in BOOLEAN
    /\ argv \in [Unit -> Value \cup {NULL}]
    /\ running \in [Unit -> 0..2]
    /\ there \subseteq Device /\ late \subseteq Unit
    /\ \A t \in Thread :
         /\ call[t].op \in {"none"} \cup Starting \cup Stopping
         /\ call[t].at \in {"copy", "remember", "resolve", "next", "check", "spawn", "wait"}
         /\ call[t].unit # NULL => Registered(call[t].unit)

Quiescent == \A t \in Thread : call[t].op = "none"

\* No device is missed: whichever of the report, the rules, the scan and the
\* mount that brings the rule or the template comes first or overlaps which, in
\* the end every unit that a rule names for a known device runs, if it can.
NothingMissed ==
    Quiescent =>
        \A d \in there : \A u \in Targets(d, "start") :
            Available(u[1]) /\ u[1] \notin Broken => running[u] > 0

\* What the rules may start for the removal of a device.
Cleaner(t) ==
    \E r \in UNION ({ruleSets[n] : n \in 0..MaxLoads} \cup {brings[m] : m \in Mounts}) :
        r.remove = t

\* A device that is gone has nothing running for it but what cleans up after it
\* and what an unmount is about to stop, and nothing brings it back; that is so
\* before the first of the cleaning units starts.
GoneIsGone ==
    \A d \in Device :
        d \notin there /\ (call[d].op \in {"none", "unload"} \/ Done(d, "remove")) =>
            \A t \in Template : running[<<t, d>>] > 0 =>
                \/ Cleaner(t)
                \/ \E m \in Mounts : call[m].op = "unload" /\ <<t, d>> \in call[m].todo

\* A removal returns, and a file system goes away, only when what its rules
\* start for that has ended, or was waited for as long as it is allowed to take.
RemovalWaits ==
    \A d \in Device :
        d \notin there /\ call[d].op \in {"none", "unload"} =>
            \A u \in Targets(d, "remove") : running[u] = 0 \/ u \in late

\* What a removal does for its device comes to its end, whatever the units it
\* starts do.
RemovalCompletes ==
    \A d \in Device :
        call[d].op \in {"stop", "remove"} ~> call[d].op = "none" \/ Done(d, "remove")

\* A unit never has two processes, whichever reports, replays and removals
\* come to start it: the second finds it running (-EALREADY), if the starts of
\* one unit are serialized.
OneProcess == \A u \in Unit : running[u] <= 1
=============================================================================
