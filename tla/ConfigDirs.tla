------------------------------ MODULE ConfigDirs ------------------------------
(***************************************************************************)
(* The registry of units, templates and rules, and the configuration       *)
(* directories of mount points (libsystemd/src/serviceapi.c): a scan       *)
(* replaces the registry and starts what it holds while file systems are   *)
(* mounted and unmounted, each in a thread of its own.                     *)
(*                                                                         *)
(* The registry lock is held for the step that reads or changes the lists; *)
(* units are started and stopped outside it, one step each, from pointers  *)
(* that were borrowed under it.  How one unit starts, stops and ends is    *)
(* ServiceLifecycle; here a start runs it and a stop ends it, where the    *)
(* kill does not fail.  No device is pending, so the replay that ends a    *)
(* load finds nothing to start.                                            *)
(***************************************************************************)
EXTENDS Lists

CONSTANTS
    Mount,        \* mount points
    Root,         \* the root file system: its directory is the firmware's
    Firmware,     \* the source of what the firmware's directories hold
    unitsIn,      \* unitsIn[d]: the units of d's cfg/services, as they are read
    templatesIn,  \* templatesIn[d]: its templates
    rulesIn,      \* rulesIn[d]: the rules of d's cfg/rules
    requires,     \* requires[n]: what unit n requires or comes after
    Broken,       \* units that fail to start
    Stubborn,     \* units whose stop may fail: the kill that ends it does
    prefix,       \* prefix[n]: the template that units of other names are made of
    Called,       \* the names units are started and stopped by
    Overlap,      \* the calls that may come while a scan stops and starts units
    MaxLoads      \* bound: scans and loads of configuration directories

\* A directory holds a unit, or a template, of a name once; a rule is a section
\* of one file; no unit depends on itself, directly or through others.
ASSUME Assumptions ==
    /\ Firmware \notin Mount
    /\ Root \in DOMAIN unitsIn
    /\ \A d \in DOMAIN unitsIn : unitsIn[d] \in Seq(DOMAIN requires) /\ IsInjective(unitsIn[d])
    /\ DOMAIN templatesIn = DOMAIN unitsIn
    /\ \A d \in DOMAIN templatesIn :
         templatesIn[d] \in Seq(Range(templatesIn[d])) /\ IsInjective(templatesIn[d])
    /\ Root \in DOMAIN rulesIn
    /\ \A d \in DOMAIN rulesIn : rulesIn[d] \in Seq(Range(rulesIn[d]))
    /\ \A d, e \in DOMAIN rulesIn : \A i \in DOMAIN rulesIn[d], j \in DOMAIN rulesIn[e] :
         rulesIn[d][i] = rulesIn[e][j] => d = e /\ i = j
    /\ \A S \in SUBSET DOMAIN requires : S # {} => \E n \in S : requires[n] \cap S = {}
    /\ DOMAIN prefix \subseteq DOMAIN requires
    /\ Overlap \subseteq {"mount", "unmount", "call", "early call"}
    /\ MaxLoads \in Nat

VARIABLES
    registry,   \* g_services: the list of services
    templates,  \* g_services: the list of templates
    rules,      \* g_rules
    dirs,       \* g_config_dirs: the loaded configuration directories
    scanned,    \* whether g_units_dir is set
    order,      \* order[s]: the starting_order of a service
    running,    \* the services that run
    scan,       \* the thread in libsystemd_scan()
    caller,     \* caller[m]: the thread that mounts and unmounts m
    call,       \* a thread that starts or stops a unit by its name
    halted,     \* history: the services such a call has stopped
    survivors,  \* history: the services that were destroyed after a stop that failed
    loads       \* loads so far; their number tells apart the services they made

lists == <<registry, templates, rules, dirs, scanned, order>>
byName == <<call, halted>>
vars == <<lists, running, survivors, scan, caller, byName, loads>>

NoOrder == [s \in {} |-> 0]

Init ==
    /\ registry = <<>> /\ templates = <<>> /\ rules = <<>> /\ dirs = <<>>
    /\ scanned = FALSE
    /\ order = NoOrder
    /\ running = {}
    /\ scan = [pc |-> "idle", previous |-> <<>>, i |-> 1, count |-> 0, service |-> <<>>]
    /\ caller = [m \in Mount |-> [pc |-> "idle", todo |-> <<>>]]
    /\ call = [pc |-> "idle", service |-> <<>>]
    /\ halted = {} /\ survivors = {}
    /\ loads = 0

(***************************************************************************)
(* Lists                                                                   *)
(***************************************************************************)

\* What directory d of the file systems' in holds, read for source.
Parsed(in, d, source) ==
    IF d \notin DOMAIN in THEN <<>>
    ELSE [i \in DOMAIN in[d] |-> [name |-> in[d][i], from |-> source, load |-> loads + 1]]

From(list, source) == Keep(list, {e \in ToSet(list) : e.from = source})
Without(list, source) == Keep(list, {e \in ToSet(list) : e.from # source})
Named(list, name) == {e \in ToSet(list) : e.name = name}

\* Mutant: names are not compared.
MergeBlind(list, extra) == list \o extra

\* Mutant: the unit read last takes the name.
MergeLastWins(list, extra) ==
    Keep(list, {e \in ToSet(list) : Named(extra, e.name) = {}}) \o extra

\* libsystemd_merge_config_dir_units(): a name that is taken is ignored.
Merge(list, extra) ==
    list \o Keep(extra, {e \in ToSet(extra) : Named(list, e.name) = {}})

\* libsystemd_merge_config_dirs_units(): what every loaded directory adds.
MergeAll(list, in) ==
    LET merged[i \in 0..Len(dirs)] ==
          IF i = 0 THEN list ELSE Merge(merged[i - 1], Parsed(in, dirs[i], dirs[i]))
    IN  merged[Len(dirs)]

\* The same for rules, which have no name to be taken.
AppendAll(list, in) ==
    LET appended[i \in 0..Len(dirs)] ==
          IF i = 0 THEN list ELSE appended[i - 1] \o Parsed(in, dirs[i], dirs[i])
    IN  appended[Len(dirs)]

\* Mutant: the orders are what the last resolution made of them.
ResolvedNot(list) == [s \in ToSet(list) |-> IF s \in DOMAIN order THEN order[s] ELSE 0]

\* libsystemd_resolve_starting_order(), where dependencies have no cycle (see
\* StartingOrder): past every dependency in the list, and never lower than before.
Resolved(list) ==
    LET r[s \in ToSet(list)] ==
          Max({0} \cup (IF s \in DOMAIN order THEN {order[s]} ELSE {})
                  \cup {r[d] + 1 : d \in {e \in ToSet(list) : e.name \in requires[s.name]}})
    IN  r

\* dmlist_sort() by starting_order: the lists it may leave.
Sorts(list, ord) ==
    {l \in SetToSeqs(ToSet(list)) :
        \A i, j \in DOMAIN l : i < j => ord[l[i]] <= ord[l[j]]}

(***************************************************************************)
(* One unit                                                                *)
(***************************************************************************)

\* libsystemd_start_service_visitor(): a failure is logged, no more.
Start(s) ==
    /\ running' = IF s.name \in Broken THEN running ELSE running \cup {s}
    /\ halted' = halted \ {s}

\* libsystemd_stop_service_internal(), where the kill may fail.
Stop(s) ==
    \/ running' = running \ {s}
    \/ s.name \in Stubborn /\ UNCHANGED running

\* libsystemd_stop_all_services_visitor(), and the service is destroyed: that
\* its stop failed is dropped.
StopAndDestroy(s) ==
    /\ Stop(s)
    /\ survivors' = survivors \cup ({s} \cap running')

(***************************************************************************)
(* Who may call what: the callers serialize their calls, but for those     *)
(* that come from the units a scan stops or starts.                        *)
(***************************************************************************)
Idle(m) == caller[m].pc = "idle"
AtUnits == scan.pc \in {"stopping", "starting", "start"}
MayCall(kind) == scan.pc = "idle" \/ (AtUnits /\ kind \in Overlap)

\* Nobody may lose the service another thread has found and not yet used.
MayTake == call.pc = "idle" \/ "unmount" \in Overlap

(***************************************************************************)
(* libsystemd_scan()                                                       *)
(***************************************************************************)

\* The new generation takes the place of the previous one, sorted.
ScanSwap ==
    /\ scan.pc = "idle" /\ call.pc = "idle"
    /\ \A m \in Mount : Idle(m)
    /\ loads < MaxLoads
    /\ LET all == MergeAll(Parsed(unitsIn, Root, Firmware), unitsIn) IN
         /\ order' = Resolved(all)
         /\ registry' \in Sorts(all, order')
         /\ scan' = [pc |-> "stopping", previous |-> registry, i |-> 1,
                     count |-> Len(all), service |-> <<>>]
    /\ templates' = MergeAll(Parsed(templatesIn, Root, Firmware), templatesIn)
    /\ scanned' = TRUE
    /\ loads' = loads + 1
    /\ UNCHANGED <<rules, dirs, running, survivors, caller, byName>>

\* libsystemd_stop_all_services(previous), outside the lock.
ScanStop ==
    /\ scan.pc = "stopping"
    /\ scan.i <= Len(scan.previous)
    /\ StopAndDestroy(scan.previous[scan.i])
    /\ scan' = [scan EXCEPT !.i = @ + 1]
    /\ UNCHANGED <<lists, caller, byName, loads>>

\* Mutant: the new generation starts before the previous one is stopped.
ScanDestroyEarly ==
    /\ scan.pc = "stopping"
    /\ scan' = [scan EXCEPT !.pc = "starting", !.i = 1]
    /\ UNCHANGED <<lists, running, survivors, caller, byName, loads>>

\* libsystemd_destroy_services(previous).
ScanDestroy ==
    /\ scan.pc = "stopping"
    /\ scan.i > Len(scan.previous)
    /\ scan' = [scan EXCEPT !.pc = "starting", !.previous = <<>>, !.i = 1]
    /\ UNCHANGED <<lists, running, survivors, caller, byName, loads>>

\* dmlist_get() of position i: past the end it finds nothing, and the start
\* that follows reads through a null pointer.
ScanGet ==
    /\ scan.pc = "starting"
    /\ scan.i <= scan.count
    /\ scan' = IF scan.i <= Len(registry)
               THEN [scan EXCEPT !.pc = "start", !.service = <<registry[scan.i]>>]
               ELSE [scan EXCEPT !.pc = "faulted"]
    /\ UNCHANGED <<lists, running, survivors, caller, byName, loads>>

\* Mutant: a unit that fails to start ends the loop.
ScanStartGivesUp ==
    /\ scan.pc = "start"
    /\ Start(scan.service[1])
    /\ scan' = [scan EXCEPT !.pc = "starting", !.service = <<>>,
                  !.i = IF scan.service[1].name \in Broken THEN scan.count + 1 ELSE @ + 1]
    /\ UNCHANGED <<lists, survivors, caller, call, loads>>

ScanStart ==
    /\ scan.pc = "start"
    /\ Start(scan.service[1])
    /\ scan' = [scan EXCEPT !.pc = "starting", !.service = <<>>, !.i = @ + 1]
    /\ UNCHANGED <<lists, survivors, caller, call, loads>>

ScanEnd ==
    /\ scan.pc = "starting"
    /\ scan.i > scan.count
    /\ scan' = [scan EXCEPT !.pc = "idle", !.i = 1, !.count = 0]
    /\ UNCHANGED <<lists, running, survivors, caller, byName, loads>>

Scan == ScanSwap \/ ScanStop \/ ScanDestroy \/ ScanGet \/ ScanStart \/ ScanEnd

\* libsystemd_load_rules(): the firmware's, and again those of every loaded
\* directory.
LoadRules ==
    /\ MayCall("rules")
    /\ rules' = AppendAll(Parsed(rulesIn, Root, Firmware), rulesIn)
    /\ UNCHANGED <<registry, templates, dirs, scanned, order, running, survivors, scan, caller, byName, loads>>

(***************************************************************************)
(* libsystemd_add_config_dir(), called when m is mounted                   *)
(***************************************************************************)

\* -EALREADY (a mount may be reported twice) or -ENOENT: nothing is loaded.
AddNothing(m) ==
    /\ Idle(m)
    /\ MayCall("mount")
    /\ \/ m = Root /\ scanned
       \/ Contains(dirs, m)
       \/ m \notin DOMAIN unitsIn \cup DOMAIN rulesIn
    /\ UNCHANGED vars

\* Mutant: a directory that is loaded is loaded again.
AddMergeAgain(m) ==
    /\ Idle(m)
    /\ MayCall("mount")
    /\ loads < MaxLoads
    /\ ~(m = Root /\ scanned)
    /\ m \in DOMAIN unitsIn \cup DOMAIN rulesIn
    /\ dirs' = Append(dirs, m)
    /\ registry' = Merge(registry, Parsed(unitsIn, m, m))
    /\ templates' = Merge(templates, Parsed(templatesIn, m, m))
    /\ rules' = rules \o Parsed(rulesIn, m, m)
    /\ caller' = [caller EXCEPT ![m].pc = "merged"]
    /\ loads' = loads + 1
    /\ UNCHANGED <<scanned, order, running, survivors, scan, byName>>

AddMerge(m) ==
    /\ Idle(m)
    /\ MayCall("mount")
    /\ loads < MaxLoads
    /\ ~(m = Root /\ scanned)
    /\ ~Contains(dirs, m)
    /\ m \in DOMAIN unitsIn \cup DOMAIN rulesIn
    /\ dirs' = Append(dirs, m)
    /\ registry' = Merge(registry, Parsed(unitsIn, m, m))
    /\ templates' = Merge(templates, Parsed(templatesIn, m, m))
    /\ rules' = rules \o Parsed(rulesIn, m, m)
    /\ caller' = [caller EXCEPT ![m].pc = "merged"]
    /\ loads' = loads + 1
    /\ UNCHANGED <<scanned, order, running, survivors, scan, byName>>

\* libsystemd_start_config_dir_services(): the orders are resolved again, but
\* only the list of m's services is sorted by them.
AddResolve(m) ==
    /\ caller[m].pc = "merged"
    /\ order' = Resolved(registry)
    /\ \E l \in Sorts(From(registry, m), order') :
         caller' = [caller EXCEPT ![m] = [pc |-> "starting", todo |-> l]]
    /\ UNCHANGED <<registry, templates, rules, dirs, scanned, running, survivors, scan, byName, loads>>

AddStart(m) ==
    /\ caller[m].pc = "starting"
    /\ caller[m].todo # <<>>
    /\ Start(Head(caller[m].todo))
    /\ caller' = [caller EXCEPT ![m].todo = Tail(@)]
    /\ UNCHANGED <<lists, survivors, scan, call, loads>>

AddEnd(m) ==
    /\ caller[m].pc = "starting"
    /\ caller[m].todo = <<>>
    /\ caller' = [caller EXCEPT ![m].pc = "idle"]
    /\ UNCHANGED <<lists, running, survivors, scan, byName, loads>>

(***************************************************************************)
(* libsystemd_remove_config_dir(), called before m is unmounted            *)
(***************************************************************************)
\* -ENOENT.
RemoveNothing(m) ==
    /\ Idle(m)
    /\ MayCall("unmount")
    /\ ~Contains(dirs, m)
    /\ UNCHANGED vars

\* Mutant: what the directory brought but its rules is taken out.
RemoveTakeKeepsRules(m) ==
    /\ Idle(m)
    /\ MayCall("unmount") /\ MayTake
    /\ Contains(dirs, m)
    /\ dirs' = Keep(dirs, Mount \ {m})
    /\ registry' = Without(registry, m)
    /\ templates' = Without(templates, m)
    /\ order' = [s \in DOMAIN order \cap ToSet(registry') |-> order[s]]
    /\ caller' = [caller EXCEPT ![m] =
                    [pc |-> "stopping", todo |-> Reverse(From(registry, m))]]
    /\ UNCHANGED <<rules, scanned, running, survivors, scan, byName, loads>>

\* Everything from m leaves the lists under the lock, the last service first.
RemoveTake(m) ==
    /\ Idle(m)
    /\ MayCall("unmount") /\ MayTake
    /\ Contains(dirs, m)
    /\ dirs' = Keep(dirs, Mount \ {m})
    /\ registry' = Without(registry, m)
    /\ templates' = Without(templates, m)
    /\ rules' = Without(rules, m)
    /\ order' = [s \in DOMAIN order \cap ToSet(registry') |-> order[s]]
    /\ caller' = [caller EXCEPT ![m] =
                    [pc |-> "stopping", todo |-> Reverse(From(registry, m))]]
    /\ UNCHANGED <<scanned, running, survivors, scan, byName, loads>>

\* Mutant: taken out is as good as stopped.
RemoveStopNot(m) ==
    /\ caller[m].pc = "stopping"
    /\ caller[m].todo # <<>>
    /\ caller' = [caller EXCEPT ![m].todo = Tail(@)]
    /\ UNCHANGED <<lists, running, survivors, scan, byName, loads>>

\* The units are stopped, and destroyed, outside the lock.
RemoveStop(m) ==
    /\ caller[m].pc = "stopping"
    /\ caller[m].todo # <<>>
    /\ StopAndDestroy(Head(caller[m].todo))
    /\ caller' = [caller EXCEPT ![m].todo = Tail(@)]
    /\ UNCHANGED <<lists, scan, byName, loads>>

RemoveEnd(m) ==
    /\ caller[m].pc = "stopping"
    /\ caller[m].todo = <<>>
    /\ caller' = [caller EXCEPT ![m].pc = "idle"]
    /\ UNCHANGED <<lists, running, survivors, scan, byName, loads>>

MountStep(m) ==
    \/ AddNothing(m) \/ AddMerge(m) \/ AddResolve(m) \/ AddStart(m) \/ AddEnd(m)
    \/ RemoveNothing(m) \/ RemoveTake(m) \/ RemoveStop(m) \/ RemoveEnd(m)

(***************************************************************************)
(* libsystemd_start_service(), libsystemd_stop_service()                   *)
(***************************************************************************)
MayCallUnits ==
    /\ call.pc = "idle"
    /\ CASE scan.pc = "idle" -> TRUE
         [] scan.pc = "stopping" -> "early call" \in Overlap
         [] OTHER -> "call" \in Overlap

\* The service is looked up under the lock, and used after it.
Find(n, pc) ==
    /\ MayCallUnits
    /\ \E s \in Named(registry, n) : call' = [pc |-> pc, service |-> <<s>>]
    /\ UNCHANGED <<lists, running, survivors, scan, caller, halted, loads>>

\* libsystemd_instantiate_service_on_demand(), under the same lock: it is from
\* where its template is, and its order is the lowest until the next resolution.
Instantiate(n) ==
    /\ MayCallUnits
    /\ scanned
    /\ Named(registry, n) = {} /\ n \in DOMAIN prefix
    /\ \E t \in Named(templates, prefix[n]) :
         LET s == [name |-> n, from |-> t.from, load |-> loads] IN
         /\ registry' = Append(registry, s)
         /\ call' = [pc |-> "start", service |-> <<s>>]
    /\ UNCHANGED <<templates, rules, dirs, scanned, order, running, survivors, scan, caller, halted, loads>>

CallStart ==
    /\ call.pc = "start"
    /\ Start(call.service[1])
    /\ call' = [pc |-> "idle", service |-> <<>>]
    /\ UNCHANGED <<lists, survivors, scan, caller, loads>>

\* -ESRCH where it does not run; where the kill fails it runs on, and stays in
\* the registry.
CallStop ==
    /\ call.pc = "stop"
    /\ Stop(call.service[1])
    /\ halted' = halted \cup (running \ running')
    /\ call' = [pc |-> "idle", service |-> <<>>]
    /\ UNCHANGED <<lists, survivors, scan, caller, loads>>

ByName ==
    \/ CallStart \/ CallStop
    \/ \E n \in Called : Find(n, "start") \/ Find(n, "stop") \/ Instantiate(n)

Next == Scan \/ LoadRules \/ ByName \/ \E m \in Mount : MountStep(m)

Spec == Init /\ [][Next]_vars

(***************************************************************************)
(* Properties                                                              *)
(***************************************************************************)
Service == [name : DOMAIN requires, from : Mount \cup {Firmware}, load : 0..MaxLoads]

TypeOK ==
    /\ ToSet(registry) \subseteq Service
    /\ running \subseteq Service /\ survivors \subseteq Service
    /\ ToSet(dirs) \subseteq Mount /\ IsInjective(dirs)
    /\ scanned \in BOOLEAN
    /\ \A s \in DOMAIN order : s \in ToSet(registry) /\ order[s] \in Nat
    /\ scan.pc \in {"idle", "stopping", "starting", "start", "faulted"}
    /\ \A m \in Mount : caller[m].pc \in
         {"idle", "merged", "starting", "stopping"}
    /\ call.pc \in {"idle", "start", "stop"}
    /\ halted \subseteq Service \ running
    /\ loads \in 0..MaxLoads

\* No two services, nor two templates, have one name, however scans and mounts
\* interleave (libsystemd_merge_config_dir_units(): "the first one stays").
UniqueNames ==
    /\ \A i, j \in DOMAIN registry : registry[i].name = registry[j].name => i = j
    /\ \A i, j \in DOMAIN templates : templates[i].name = templates[j].name => i = j

\* The rules are the firmware's and those of the loaded directories, all of
\* them once loaded, whichever of load_rules and the mounts comes first; and no
\* rule of a file is in the list twice, or each device would start its unit
\* twice.  (Where the root is mounted before the first scan its directory is
\* loaded like any other, and again as the firmware's.)
RulesFollowDirs ==
    /\ \A r \in ToSet(rules) : r.from = Firmware \/ Contains(dirs, r.from)
    /\ \A m \in ToSet(dirs) \cap DOMAIN rulesIn :
         \A i \in DOMAIN rulesIn[m] : \E r \in Named(rules, rulesIn[m][i]) : r.from = m
    /\ Contains(dirs, Root) \/
         \A i, j \in DOMAIN rules : rules[i].name = rules[j].name => i = j

\* What runs and was not given up after a stop that failed.
Held == running \ survivors

\* What runs is in the registry, or someone has it in hand to stop it; once the
\* call that unmounts m has returned, nothing from m runs.  All but the units
\* whose stop failed when a scan or an unmount destroyed them: the result of the
\* stop is dropped, and they run on with nobody to know them.
Tracked ==
    /\ \A s \in Held :
         \/ Contains(registry, s)
         \/ Contains(scan.previous, s)
         \/ \E m \in Mount : caller[m].pc = "stopping" /\ Contains(caller[m].todo, s)
    /\ \A m \in Mount : Idle(m) /\ ~Contains(dirs, m) => \A s \in Held : s.from # m

\* Two services of one name never run at once, not even while one generation
\* replaces another, unless an unmount has one of them in hand to stop it or
\* could not.  (An instance made on demand is not part of the next generation,
\* so its name is free for a mount before the scan has stopped it.)
RunsOnce ==
    \A s, t \in Held : s # t /\ s.name = t.name =>
        \/ s.name \in DOMAIN prefix /\ scan.pc = "stopping"
        \/ \E m \in Mount : /\ caller[m].pc = "stopping"
                            /\ {s, t} \cap ToSet(caller[m].todo) # {}

\* Once every call has returned, every unit that can start runs, whether the
\* firmware or a mounted file system brought it, unless it was stopped by name
\* while it ran.
AllStarted ==
    scan.pc = "idle" /\ call.pc = "idle" /\ (\A m \in Mount : Idle(m)) =>
        \A s \in ToSet(registry) \ halted : s.name \in Broken \/ s \in running

\* A unit about to be started or stopped through a borrowed pointer is still in
\* the registry: nobody destroyed it since the lock was released.
NoDangling ==
    /\ \A s \in ToSet(scan.service) \cup ToSet(call.service) : Contains(registry, s)
    /\ \A m \in Mount : caller[m].pc = "starting" =>
         \A s \in ToSet(caller[m].todo) : Contains(registry, s)

\* The start loop of a scan never asks for a service past the end of the list.
ScanInRange == scan.pc # "faulted"

\* A unit of a mount point starts after the units of the same mount point that
\* it requires (start_config_dir_services: "in their dependency order").
DependencyOrder ==
    [][\A m \in Mount : caller[m].pc = "starting" /\ caller[m].todo # <<>> =>
         \A s \in ToSet(Tail(caller[m].todo)) :
             s.name \notin requires[Head(caller[m].todo).name]]_vars
===============================================================================
