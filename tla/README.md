# A model of dmsystem's libsystemd

TLA+ specifications of the service manager in `src/app/libsystemd` (with its
two programs, `systemd` and `service`), the TLC configurations that check them
and the TLAPS proofs of what holds for every size. File and line references
are to `src/app/libsystemd/src/` unless they say otherwise; `serviceapi.c` has
the manager, `stoprequest.c` the registry of stop requests.

## 1. The system

libsystemd is a loadable module of an embedded operating system. It reads unit
files (services), starts and stops what they describe, restarts what ends, and
reacts to devices and to file systems that are mounted and unmounted. Nothing
is persisted: a restart begins with empty lists. Four kinds of threads call it:

- `systemd` at boot (`systemd.c`: scan, then load the rules);
- the shell's `service` program (start, stop, restart, status, list);
- drivers, through a hot-plug thread (a device came, a device goes) and the
  thread that mounts or unmounts a file system;
- services themselves (registering for a graceful stop, asking whether one was
  requested, a launcher handing its unit over to another process);

and dmosi, the operating system layer, runs exit callbacks of ended processes
in a context of its own.

### Components

| component | state | operations | talks to |
|---|---|---|---|
| stop requests (`stoprequest.c`) | a list of entries (process, semaphore, flag), one non-recursive mutex, an exit callback per entry | `set_stop_semaphore`, `stop_requested`, `send`, the exit callback | services call it; the stop of a unit sends through it; dmosi calls it back |
| life of a process-backed unit | `pid`, `last_pid`, `exit_callback_handle`; no lock | start, stop, exit callback with restart policy, `notify_main_pid`, status | dmosi processes; the stop requests |
| library unit | `library_started`, the instance's arguments; the loader's state of the module | start, stop, refresh, status | the module loader, the START and STOP functions of the module |
| starting order | `starting_order` of each service | resolve (passes), sort | the registry |
| registry and configuration directories | services, templates, rules, loaded directories; a recursive lock held while a list is read or changed, never while a unit is started or stopped | `scan`, `load_rules`, `add_config_dir`, `remove_config_dir`, `list` | all of the above |
| devices and rules | remembered devices | device added, device removed, mount changed, replay | rules, templates, start and stop of units |
| template instantiation | the services an instance is added to | split the name, find the template, merge, expand `%i`, `%v` ..., add | the registry |
| unit and rule files | none: files become services, templates and rules | walk a directory, name, parse, expand, build | the registry |
| streams of a unit | part of a service | copy key values for the loader | the loader |
| program `systemd` | none | a scan and, unless it failed, a load of the rules | the API |
| program `service` | none | start, stop, restart (a stop, then a start), status, list | the API |

### What is hard, and what makes each part correct

*Stop requests.* Services run the calls, and a service can be killed at any
point of them, holding the mutex too. A request must not be lost between a
check and the wait that follows it, nor by a replacement of the semaphore; a
post must not reach a destroyed semaphore; an entry must not outlive its
process; a stop must return.

*Life of a unit.* The fields are guarded by nothing and a process may end
between any two steps of a call; its exit callback then runs against the call.
The status must be true, the process that is tracked must have the exit
callback (and no other process), a stop must stick, a due restart must come.

*Library units.* Several units share a module which others load, enable and
disable as well; loads, enables, disables, unloads and the module's own START
and STOP may fail half-way. The flag must say what the module knows, a stop of
one unit must leave the others alone, and a device that comes back must not be
started with its old path.

*Starting order.* Orders are only raised, in place, by a bounded number of
passes. That must suffice for any directory order, whatever else is cyclic and
whatever is left of an earlier resolution.

*Registry.* A scan, rule loads and mounts overlap, with units started and
stopped outside the lock from borrowed pointers; two generations of units exist
at once during a scan. No name may be there twice, no rule may be lost or left
behind, nothing may run untracked or from a pointer to a destroyed service.

*Files.* A file becomes a service through a name that is split in three places,
a merge with a template that may be missing, placeholders that are measured in
one loop and written in another, and blanks that are counted in one loop and
cut at in another. Whatever the text, nothing may be written past what was
allocated, no argument may be lost, and an instance made for a device must be
the one a file would have made.

*Devices.* Reports, the scan, rule loads and mounts come in any order and
overlap. No device may be missed by all of them, none may come back after its
removal, and an unmount must wait for its cleaning units, but not for ever.

## 2. The modules

| module | what it is |
|---|---|
| `StopContract` | what stopping a process promises: the abstract specification |
| `StopRequest` | `stoprequest.c`, the services and the stoppers that use it; implements `StopContract` |
| `StopRequest_proofs` | theorems about it |
| `ServiceLifecycle` | one process-backed unit: start, stop, exit, restart, hand-over, status |
| `ServiceLifecycle_proofs` | theorems about it |
| `LibraryUnit` | units of `type=library` and the modules they share |
| `LibraryUnit_proofs` | theorems about it |
| `StartingOrder` | the passes that resolve the starting order, and the sort |
| `StartingOrder_proofs` | theorems about it |
| `Expansion` | the two passes that expand placeholders in a text |
| `UnitFiles` | from files to units: the walks, names, templates, keys, arguments, rules and what a device starts; uses `Expansion` |
| `UnitFiles_proofs` | theorems about both |
| `Lists` | what a loop over a list leaves of it, as a function something can be proved of |
| `Lists_proofs` | induction over lists, and what their operators return for lists of any length |
| `ConfigDirs` | the registry, scans, rule loads, the directories of mount points, calls by name |
| `ConfigDirs_proofs` | theorems about it |
| `Devices` | devices, rules, on-demand instances, replay, removal |
| `Devices_proofs` | theorems about it |
| `MC...` | instances of these for TLC, with a `.cfg` for each question |

They fit together by what each leaves to another: `Devices` and `ConfigDirs`
start and stop a unit in one or two steps where `ServiceLifecycle`
has all of them; `ServiceLifecycle` reduces the graceful request to its outcome
(registered and waited for, or not), which `StopContract` justifies;
`ConfigDirs` resolves the order as one function, which `StartingOrder` computes
by passes, and takes the services of a directory as given, which `UnitFiles`
computes from its files. `PROJECT.json` maps every definition to the lines it stands for.

Definitions marked *Mutant* are deliberately wrong variants of an action or an
operator. No specification uses them; put in place of the right one, each makes
TLC report a violation of the property it is listed with, which shows that the
property depends on the code.

### StopRequest

A step is what happens between two points where another thread can run. Taking
the mutex, changing the list and giving the mutex back are steps of their own,
because a process may be killed at each. `wakeup[p]` and `stop_requested` are
the entry of process `p`; `exit_cb` its registered callback; `live` and `full`
its semaphores (a count of at most 1); `pc[p]` where it is in its own main loop
or in the library; `spc`, `target`, `found` the stoppers. `SetApply` stands for
the body of `set_stop_semaphore()` under the mutex (add with its rollback,
replace, remove), `SendFind` and `SendPost` for
`libsystemd_stoprequest_send()`, `Gone` and `TimedOut` for the two ends of the
wait, `End` for whatever ends a process. Processes run the main loop that
`set_stop_semaphore()` documents; those not in `Cooperative` may stop running
it anywhere. `AddEntry` may fail (`-ENOMEM`).

### ServiceLifecycle

One unit, process ids that are reused, callers and the exit context of each
process as threads. Every place where the code reads the tracked PID anew is a
step (a stop reads it three times: `StopCheck`, `StopAsk`, `StopFind`).
`cbs[i]` counts the unit's exit callbacks on process `i`, `firing[i]` those
dmosi took off an ended process and still has to run. `role` and `payload` are
history: which process is the unit's. The callers serialize their calls, as the
module requires (`serviceapi.c:118-121`); nobody can serialize the end of a
process with them. `Settings` says what the behaviours of a run contain, and
each behaviour keeps the one it begins with: the restart policies, launchers,
`exits` (`no`: an exit with a callback falls between calls; `atomic`: anywhere,
the callback runs at once; `free`: anywhere, step by step), `handover` (whether
a launcher may hand the unit over in the middle of a call) and the rare events
of `faults`. `CallRestart` and `RestartStart` are the `service` program's
`restart`: a stop and, unless it returned an error other than `-ESRCH`, a start
(`src/app/service/src/service.c`); other calls may come between the two.

### LibraryUnit

A call is one step: the callers serialize, and the loader's operations are
synchronous. `bound[u]` is what the module itself knows of unit `u`, outside
libsystemd. `Refreshed` is the condition under which
`libsystemd_refresh_library_instance()` expands an inactive instance again,
which may fail (`RefreshFails`). `Others` is everybody else who loads, enables
or disables a module, under its instances too. `Replace` is what a scan or an
unmount does to a unit after stopping it: the service goes, and the flag with
it, whether or not the stop succeeded, or, the module not being loaded, was
tried. Two histories name what the code has no state for: `taken`, the active
units whose instance went with a disable by somebody else, and `left`, the units
whose service was destroyed while their instance was still there.

### StartingOrder

`Visit` is one unit of one pass, `AnotherPass` and `LastPass` the loop
condition, `Sort` the unstable sort. `older` is frozen: the orders left by an
earlier resolution (a mount resolves the whole registry again). The dependency
graph, the registry (any subset, in any order) and `older` are chosen in `Init`.

### Expansion and UnitFiles

`Begin`, `Count`, `Allocate`, `Fill`, `Finish` are the two passes that
`libsystemd_substitute_specifiers()` and its siblings for `%m` and `%name` have
in common. `UnitFiles` calls them for every key that contains a `%`
(`ExpandKey`, `Expanded`) and every target of a rule. Texts are sequences of
symbols; an extension and the words the code compares as a whole are one symbol
each. `OpenUnits`, `UnitsWalk`, `SkipUnit`, `FoundTemplate`, `FoundUnit` walk
the units directory, `Build` and `BuildFails` end a unit file, `OpenRules`,
`RulesWalk`, `ReadRules` read the rules. A report is then matched, its targets
expanded, each target found or made of a template, and the result started. An
inactive library's instance that is found is not started as it is, but made
again with the value of the report, in its old place (`Refreshed`, `Wanted`); an
instance is only made where a units directory is known (`HasUnitsDir`, the guard
at 2758). A removal has two halves (`SecondHalf`): the units named for the start
are stopped (`StopTarget`, which makes nothing), then those named for the
removal are started. `started` records what each target came to, and whether it
was found active (`Actives`: a library may be), on which the refresh depends.
Everything is sequential here. `UnitsMeant`, `InstanceOf`, `MadeOf` and
`TargetsMeant` say what should come out, without passes, cursors or loops: a
text is cut at its placeholders and at its blanks by comprehension.

The constant `Inputs` is the set of worlds a behaviour may start from: a mount
point or none, whether the registry was scanned before the mount (`scanned`),
the entries of each directory, what dmini reads of each unit file and each rules
file, and the reports to come. The value in a report is the one that reaches the
rules: for a removal that is the value the registry remembers, not the one the
driver gives. `Numbers` is what `dmini_get_int()` reads in a text; in any other
it finds no number and gives the default. `InputsAssumption` says what is
taken of them: directories are finite in number and no entry is without a name
(so that a directory is never its own subdirectory), and what dmini reads has
the types it declares. `CharAssumption` lists the symbols the code itself uses,
`NumbersAssumption` has `Numbers` be integers, `NoneAssumption` keeps the NULL
pointer apart from the texts. What is recursive
here (counting and cutting arguments, the files under a directory) is stated with recursive
functions, which theorems can be about.

### ConfigDirs

`ScanSwap` is the exchange of the registry under the lock; `ScanStop`,
`ScanDestroy`, `ScanGet`, `ScanStart` and `ScanEnd` the two loops outside it.
`AddMerge`, `AddResolve`, `AddStart` and `AddEnd` load a mount point's
directory, `RemoveTake`, `RemoveStop` and `RemoveEnd` unload it. A service is
`[name, from, load]`: `load`, the number of the scan or mount that parsed it,
tells services of one name apart, as pointers do in the code. `Merge`,
`MergeAll` and `AppendAll` are the loops that add a directory, or every loaded
directory again; `From` and `Without` those that take one out. The directories
are constants; `Assumptions` says what is taken of them: a directory has a unit
or a template of a name once, a rule is a section of one file, and no unit
depends on itself (cycles are the subject of `StartingOrder`). `Find`, `CallStart` and `CallStop` are
`libsystemd_start_service()` and `libsystemd_stop_service()`, which use a
service they have found under the lock after it is released; `Instantiate` is
the same for a name only a template can provide, once a scan has set the units
directory (2758). The kill that ends a unit of `Stubborn` may fail. A scan and
an unmount drop that result and destroy the service (`StopAndDestroy`);
`survivors` is the history of the services that are gone while their process
runs on. `Overlap` names the calls that
may come while a scan stops and starts units: a stopping automount unmounts, a
starting one mounts (`serviceapi.c:216-218`), and a unit may be started or
stopped by name (`call`: while the scan starts units, `early call`: also while
it stops the previous ones). With `unmount` an unmount may also come while a
call by name has a service in hand.

### Devices

`devices`, `argv` and `dirs` are the lists; `running[u]` counts processes;
`call[t]` is where a thread is. Every device has a thread of its own, the boot
another. `StartFind` is the part of `libsystemd_start_service()` under the
lock, `StartCheck` and `StartSpawn` the part after it, so that two threads can
meet between them. `Remove` reads a device's value and forgets it, `StopResolve`
and `RemoveResolve` match the rules for the two parts of a removal, `UnloadTake`
is `libsystemd_remove_config_dir()` as far as devices feel it. `Overlap` lifts
serializations: `start` (two threads start one unit), `removal` (a device goes
while a replay has it in its copy), `unload` (an unmount while another thread
starts one of its units).

## 3. The runs

The runs finish within two minutes with two workers; the state counts are of
distinct states.

### Runs that pass

| run | properties | states |
|---|---|---|
| `stop_request_safe` | `IInv`, `EntryWatched`, `RequestSticks`, `NoLostWakeup`, `PostsOnlyLive` | 280,216 |
| `stop_request_live` | `StopCompletes`, `RequestHeard`, `ContractFair` | 13,344 |
| `supervision` | `TypeOK`, `StatusTrue`, `Supervised`, `StopSticks`, `AnswersTrue`, `RestartHonoured` | 213,720 |
| `order` | `PassInv`, `Converges`, `DependenciesFirst`, `OrderIsLeast`, `Terminates` | 444,222 |
| `library_failures` | `FlagInv`, `StatusTrue`, `FreshValue`, `OthersKeepRunning` | 4,752 |
| `unit_files` | `Fits`, `UnitsRight`, `ReportsRight` | 213,730 |
| `mounts` | `TypeOK`, `UniqueNames`, `RulesFollowDirs`, `Tracked`, `RunsOnce`, `AllStarted`, `NoDangling`, `DependencyOrder` | 551,274 |
| `devices` | `TypeOK`, `NothingMissed`, `GoneIsGone`, `RemovalWaits`, `OneProcess`, `RemovalCompletes` | 90,242 |

**stop_request_safe.** Two processes, two stoppers, two semaphores; any process
is killed at any point, with the mutex held too; one unit has
`stop_timeout_ms = 0`. Two of each are what the hazards need: a replacement (two
semaphores) while one stopper has found the old one and another waits, and a
process that dies in the registry while another uses it. `IInv` is the
inductive invariant that is proved. It shows that a request is never lost, that
no destroyed semaphore is posted and that no entry outlives its process.

**stop_request_live.** One stopper and one semaphore, no kill hits the holder of
the mutex. Every stop returns; a cooperative process with a sufficient timeout
ends by itself once asked; and the stop implements `StopContract` including its
liveness (`ContractFair`). A replaced semaphore is not in this run: that no
wake-up is lost by a replacement is the safety property `NoLostWakeup` of the
other run, and proved.

**supervision.** Three settings. `EndsAnywhere`: processes end at any point of a
call and their callbacks run at once, spawns fail, and no policy restarts the
unit (with one, such a run violates the properties, see
`lifecycle_stray_restart` below). `Restarts`: both restart policies, exits with
a callback fall between calls. `Failures`: the same with failing kills and
registrations, processes that end before their callback is registered, and a
unit that stops itself. All have launchers that hand the unit over, and a caller
that starts, stops and restarts. The callers take turns, so that one stands for
any number of them but for a restart whose two halves another's call separates.
Three ids suffice for a launcher, its payload and an ended process that dmosi
has not freed; a spawn waits for an id nobody remembers. The run shows that the
status, the exit callback and the answers are right, that a stop sticks and
that a due restart comes.

**order.** Every dependency graph over three units (512, with cycles and
self-dependencies), every subset of them as the registry in every order, and
orders 0 or 1 left over. Three units give chains of the length of the registry,
for which the bound on the passes is tight, and a cycle beside a unit that does
not depend on it.

**library_failures.** Two units on a paired module (one from a template), one
template unit on a plain module, one with half of the pair; every failure of the
loader, of START and STOP and of the refresh; others who disable the module
under its instances; services that are destroyed and parsed again after a stop,
after one that failed or without one. Two values are enough to tell an old one
from the one of the event. `StatusTrue` and `FreshValue` name the states in
which the flag cannot be right (`taken`, `left`); `FlagInv` says that there are
no others, and that an active unit keeps its arguments (`ArgumentsMatch`).

**unit_files.** Every text of up to four symbols over `%`, `i`, `m` and a blank
as the arguments of a plain unit, of an instance (from its template) and of an
instance made on demand, from the firmware and from a mount point: four symbols
hold two placeholders, or one between two others, and every end of a text that
the passes could disagree about. Every text of up to four symbols over `%`,
`name`, `@` and `t` as the target of a rule, for devices whose names contain an
`@` or a `%`. Trees with directories in directories, names that are nothing but
an extension, that start or end with an `@`, templates in other directories or
read after their instance, files without `exec`, that do not parse or have
values the code replaces; directories that are missing. A device that is
reported twice, removed, reported under another value and removed again, with
instances of libraries, active and not, and of other units for it, whose
`stop_timeout_ms` is a placeholder too, in a mount before the first scan, in one
after it and at boot. The system stops when
the last report is done, so deadlock is not checked. It shows that the two
passes of an expansion agree and that what is started and stopped, with which arguments, is
what the files say.

**mounts.** A firmware of two units (one of which fails to start) and a template,
a card with two units listed in the wrong order, one of which cannot always be
killed, a card that repeats one of
their names, a mount without configuration and the mount of the root itself; a
name that is a unit of a card and an instance of a template is started and
stopped by name. At most three loads, so that a scan can follow and precede a
mount and a directory can be loaded, unloaded and loaded again. Mounts may fall
into a scan, and calls by name into its starting units.

**devices.** A terminal and a card. The firmware has the terminal's template, a
mount rule whose start unit fails and whose cleaning unit ends by itself; the
card brings a second template for terminals and the rule that starts it. One
scan and one load of rules. Each of the four (report, scan, load, mount) can
come first and overlap any other, which is what `NothingMissed` is about; a
device's thread, a replay and a mount that come to start one unit take turns
from the check to the spawn.

### Runs that find what a document or comment denies

| run | property | what happens |
|---|---|---|
| `stop_request_orphan` | `StopCompletes` | a process is killed inside `set_stop_semaphore()` or `stop_requested()`: the mutex stays held, the next stop blocks for ever (`stoprequest.c:308`; `stoprequest.c:36-38` and `docs/configuration.md:190` say otherwise) |
| `lifecycle_stray_restart` | `StopSticks` | the callback of a process that ended before the stop is still pending; the stop returns 0 and the callback starts the unit again (`serviceapi.c:1182`; `docs/configuration.md:137-142`, `180`) |
| `scan_past_end` | `ScanInRange` | an unmount by a stopping automount shortens the list a scan's start loop walks by an older count (`serviceapi.c:3825`; `3820` and `217`) |
| `percent_percent` | `PercentKept` | in a plain unit `%%m` becomes `%` and the mount point: `%m` is expanded where no other placeholder is known (`serviceapi.c:2117`; `2100-2101`, `docs/configuration.md:241-243`) |

### Other disagreements, with the settings that show them

These have no run; each is the named run with the change given.

- The exit callback of an ended process that comes late, after the unit was
  started again, clears the new process's PID (1160-1164): `supervision` with
  `exits |-> "free"` violates `StatusTrue`.
- A hand-over during the graceful wait of a stop is overwritten by the stop
  (1345-1347): `supervision` with `handover |-> TRUE` violates `StatusTrue`,
  `Supervised` and `StopSticks`. The module asks its callers to serialize, which
  a launcher cannot.
- A kill that fails leaves the process running and tracked but without its exit
  callback (1360-1362): the setting `Failures`, and `Supervised` without its
  exception for failed kills.
- A process that ends between the spawn and the registration of its callback
  (1113-1121) is neither noticed nor restarted; the status is still right.
  `RestartHonoured` speaks of ends that are noticed for this reason.
- A scan (3817-3818) or an unmount (5017-5018) drops the result of a stop and
  destroys the service although its kill failed (1359-1363, 1398): the process
  runs on with nobody to know it. 3734-3736 says that a rescan "never leaves the
  old generation's processes running untracked"; 1374-1376 admits that failures
  are ignored. `mounts` and `Tracked` with `running` for `Held`.
- A device's thread and a replay both find a unit not running and both spawn it
  (1094); the second PID overwrites the first. 3222-3225 says that a replay
  "simply finds it already running"; 118-121 leaves serializing to callers that
  do not see each other here. `devices` with `Overlap = {"start"}`, `OneProcess`.
- A library unit whose module somebody else disabled is not expanded again, its
  flag being set (2804), and a device that comes back is started with its old
  path; 2798-2800 says "never reuse the old %v". `FreshValue` without its
  exception for `taken`.
- When that module is enabled again the unit is RUNNING (1469) though its
  instance is gone: `StatusTrue` without its second disjunct.
- A scan or an unmount that follows a STOP that failed forgets an instance that
  still runs, and reports the next service of that name CREATED (3817):
  `StatusTrue` without its third disjunct.
- An unmount that falls into the part of a scan that stops the previous
  generation returns while units of that mount point still run (4969):
  `mounts` with `Overlap = {"mount", "unmount"}`, the second part of `Tracked`.
- A start by name while a scan stops the previous generation starts the new
  service beside its predecessor (3816): `mounts` with `Called = {a1}` and
  `"early call"` in `Overlap`, `RunsOnce`. A mount at that time can do the same
  to an instance made on demand, which is not part of the new generation:
  `RunsOnce` without its first disjunct. The documentation comment of the scan
  (3734-3738) has the previous registry stopped before the new one is installed;
  the code exchanges them first.
- A service found by name may be destroyed by an unmount before it is used
  (3486): `mounts` with `"unmount"` in `Overlap`, `NoDangling`.
- Where the root is mounted before the first scan, its rules are loaded as a
  mount point's and again as the firmware's (4880, 4766): the last part of
  `RulesFollowDirs` without its first disjunct.
- The units of a mount point stop in the reverse order of the list, which is
  the order the directory was read in; the comment at 4971 says "the units
  started last stop first", but only a copy of the list is sorted for the start.
- A replay works on a copy of the devices, and starts one that was removed in
  the meantime (3241): `devices` with `Overlap = {"removal"}`, `GoneIsGone`.
- An unmount destroys a unit that another thread has found and not yet started
  (3486): `devices` with `Overlap = {"unload"}`, the last conjunct of `TypeOK`.
- A rule that only has `remove` is accepted; 2829-2830 and
  `docs/configuration.md:362` say that a section without `start` is ignored
  (379 says that either will do).
- `@x.ini` is an instance file whose template has no name, while `@x` cannot be
  instantiated on demand (2597, 1955).
- The same file name in two subdirectories makes two services of one name; both
  are started by the scan, and the first is found by the name ever after (4435).
- A unit that stops itself is killed before the stop releases its PID (1359):
  until dmosi frees the process a start answers `-EALREADY`, and the status is
  "terminated".

## 4. Fairness

- *StopRequest*: a thread inside the library goes on (weak fairness of the
  steps under the mutex), and one that waits for the mutex gets it if it is
  free again and again (strong fairness: dmosi queues the waiters). A service
  owes steps of its own code only if it is `Cooperative`. Stoppers go on, and
  their timeouts expire; the timeout of a `Patient` process is long enough.
  Nobody has to begin a stop.
- *ServiceLifecycle*: a call, a hand-over and the handling of an exit go on, and
  dmosi frees what has ended. No process has to end or to call.
- *StartingOrder*: the loops run.
- *Devices*: threads inside the library run. No driver has to report, no
  process has to end: a removal completes by its timeout.

All of it is scheduling: none is a promise about what a service or a driver
does. The one exception, `Cooperative`, is the documented main loop, and only
`RequestHeard` needs it.

## 5. The proofs

Proved with TLAPS, for all values of the constants that satisfy `Assumptions`
(disjointness and types, finiteness of `Unit` in `StartingOrder`, and in
`ConfigDirs` and `UnitFiles` what section 2 says of the directories) and what the
theorem names:

| theorem | statement |
|---|---|
| `ExpansionFits` | `[]Fits`: an expansion writes exactly what it allocated, for every text, set of placeholders and replacement |
| `ExpansionMeans` | `[]MeansRight`: what it has written is what the text means, each of its positions taken by itself |
| `UnitFilesFit` | `UnitFiles`' `Spec => []Fits`: so do all the expansions the files and the reports lead to |
| `UnitFilesUnitsRight` | `[]UnitsRight`: every units directory becomes exactly the services its files stand for, in order (of `%%m` in a plain unit it says what the code does, see `percent_percent`) |
| `UnitFilesReportsRight` | `[]ReportsRight`: every list of reports starts, and for removals stops, exactly what the rules and the templates say, in order; an inactive library's instance is made again with the value of the report |
| `TypesStay` | `ServiceLifecycle`'s type invariant, for every setting |
| `StatusNeverLies`, `ExitsAreNoticed`, `StopsStick`, `AnswersAreTrue` | `[]StatusTrue`, `[]Supervised`, `[]StopSticks`, `AnswersTrue` of a process-backed unit, for `Calm` settings |
| `TypeCorrect`, `Inductive` | `StopRequest`'s type invariant and inductive invariant `IInv` |
| `EntriesAreWatched` | `[]EntryWatched` |
| `NoWakeupIsLost` | `[]NoLostWakeup` |
| `RequestsStick` | `[]RequestSticks` |
| `PostsAreSafe` | `[]PostsOnlyLive` |
| `ContractImplemented` | `Spec => Contract!Spec`: the safety part of the refinement |
| `PassesInvariant`, `FixpointPast`, `FixpointOrder` | a resolution that ended with an unchanged pass has every unit past its dependencies, and the sorted registry has none before one it depends on |
| `PassesSuffice` | `[]Converges`: the bounded passes put every unit that depends on no cycle past its dependencies, whatever else is cyclic |
| `SortedFirst`, `OrdersAreLeast` | `[]DependenciesFirst`, `[]OrderIsLeast` |
| `FlagsFollowInstances` | `LibraryUnit`'s inductive invariant, `[]FlagInv`, whatever fails and whoever else uses the modules |
| `StatusIsTrue`, `ArgumentsStay`, `ValueIsFresh` | `[]StatusTrue`, `[]ArgumentsMatch`, `FreshValue` of library units, likewise; the states they except are named in them (`taken`, `left`) |
| `OthersAreLeftAlone` | `OthersKeepRunning` |
| `TypesStay`, `NoSecondProcess` (of `Devices`) | `[]TypeOK`, `[]OneProcess`, if the starts of one unit are serialized and no unmount takes a unit another thread has in hand |
| `NothingIsMissed` | `[]NothingMissed`, if also what rules start does not end by itself |
| `RemovalsWait` | `[]RemovalWaits`, if also no template is both started and used to clean up |
| `NothingIsLeft` | `[]GoneIsGone`, if also no device goes while a replay has it in its copy and rules are not taken back |
| `ConfigTypes`, `NamesAreUnique`, `RulesAreTheDirs`, `StartsFollowDependencies` | `[]TypeOK`, `[]UniqueNames`, `[]RulesFollowDirs`, `DependencyOrder` of `ConfigDirs`, whatever overlaps |
| `NothingUntracked`, `EveryUnitStarted`, `PointersAreGood`, `ScanStaysInRange` | `[]Tracked`, `[]AllStarted`, `[]NoDangling`, `[]ScanInRange`, if no unmount comes while a scan or a call by name has a unit in hand; `Tracked` excepts the units whose stop failed when they were destroyed |
| `OneOfANameRuns` | `[]RunsOnce`, if nothing falls into a scan but mounts, and calls by name while it starts units |

*StopRequest.* The properties are not inductive. That a post reaches a live
semaphore rests on who holds the mutex (`LockInv`: a stopper is between its
search and its post exactly while it holds it) and on the entry it found being
that of the list meanwhile (`FoundInv`). That no wake-up is lost needs that the
entry of a process outside `set_stop_semaphore()` names the semaphore it will
wait on, and that a process which read a clear flag still holds the mutex
(`EntryInv`). That a request sticks needs that a process which unregistered
after being asked never registers again (`RequestInv`, `UnregisteredInv`).
`IInv` is these with the type invariant; `TypeNext` and `IInvNext` have a step
for every action, `ProcImplements` and `StopperImplements` map every step to
one of `StopContract` or to a stutter (`alive <- Alive`, `stop <- target`).

*Expansion.* That the lengths agree at the end is not inductive, for the second
pass starts again from the left. `trail` remembers each position the first pass
visited with the length it had measured there; `ExpInv` says that the successor
of every position visited is in it, with the length of the piece added, so that
the second pass visits the same positions and has written at each what the first
had measured. That it is also the right text needs `MeaningInv`: the second pass
has written what the positions it has passed stand for by themselves. A pass
decides whether a `%` starts a placeholder by how it got there, `Meaning` by the
run of `%` it stands in; the two agree because a pass stands on a position only
if the position before it starts no placeholder (`Even`, where `%%` has a
meaning: an even number of `%` stands right before it).

*UnitFiles.* For all `Inputs` that satisfy `InputsAssumption`. The code goes
about a directory with a stack and cursors, a unit in hand and a pass in the
middle of a key; `UnitsMeant` and `Meant` know none of these. What relates them
is what is left to do:

- `BaseInv`: types, which stage has what in hand (`StageInv`, `UnitInv`), that an
  expansion under way is of the key or target in hand (`JobInv`), and `ExpInv`
  and `MeaningInv` of it. `UnitFilesFit` follows.
- `UnitsInv` and `RulesInv`: what was read, followed by what the unit in hand
  will be (`Making`) and by what the files left on the stack mean
  (`Remaining`), is what the whole directory means. A step of the walk moves an
  entry from one part to another (`WalkRemains`, `LeaveRemains`, `FileRemains`).
  `Under` is a recursive function over directories that need not be well-founded
  for arbitrary directories; here it unfolds (`UnderUnfolds`), because a path
  gets longer with each entry and finitely many directories bound it.
  The unit in hand will be the same before and after each key, since expanding a
  key gives its meaning (`Full`). `TokensAreWords` is the lemma about arguments
  and name lists: the cursor that skips blanks and cuts tokens yields the
  stretches without a separator, and as many as were counted.
- `WantedInv`: the unit in hand for a target is of a name nothing has, or of an
  inactive library's instance that is to be made again, and never for a stop.
- `ServicesInv`: when the units are read, their services are those meant and stay
  at the front of the registry; what follows are instances made on demand, which
  is where `Build` puts an instance that is made again (`ReplacedPlace`).
  `UnitFilesUnitsRight` follows.
- `MadeInv`: an instance made on demand is in the registry after the start that
  made it, and the other way round; it is the one last made (`LastOf`), for one
  that is made again takes the old one's place. So a name that is looked up
  finds the unit of the directory, the instance last made or nothing, which is
  what `Expected` says of the log (`ExpectedNow`).
- `AgendaInv`: what has been started, followed by the `Agenda` (the instance
  being made, the targets expanded, those still to expand, and the reports still
  to come), is `Meant`, and each start so far came to what it was to (`Right`).
  The second half of a removal is next on the agenda once its first is in hand
  (`HalvesIs`, `LaterIs`). When no report is left the agenda is empty, and that
  is `ReportsRight`.

These invariants are stated in `UnitFiles_proofs`; they were checked with TLC on
the instance of the run `unit_files` before they were proved.

*ServiceLifecycle.* The types of the counters need `Counted`: a callback is on a
running process or fires, and the unit's handle is of such a one; without it
unregistering could count below zero. This holds for all settings.

The other four theorems assume that every element of `Settings` is `Calm`: no
hand-over in the middle of a call, and either exits are handled between the
calls, whatever the policy, or they come anywhere and no policy restarts the
unit. These are the settings of the run `supervision`, for any number of
processes and callers and with any of the rare events: failing spawns, kills
and registrations, processes that end before their callback is on them, units
that stop themselves. Outside them the properties are false (section 3). The
properties speak of moments without a call; the invariant `IInv` says what holds
in between. `TurnInv`: callers, launchers and restarting exits take turns.
`CallbackInv`: there is at most one callback, it is where the handle says and
that is the tracked process. `UnitInv`: the process of the unit is tracked as
soon as it is recorded; and where callbacks stay (`CallbacksStay`: neither a
kill nor a registration fails, nor does a process end too early), a tracked
process that runs has one unless a call is about to put it on or has just taken
it off. That the status is right does not need the callback: a PID that nobody
releases is that of a process that ended (`NotFound`), and its id is not given
to another (`Fresh`). `CallInv`: what a call knows at
each of its steps of the process it works on, which may have ended since it was
spawned; `HandOverInv` the same for a launcher and its payload. A call makes its
steps `Alone`, and then what is said of others holds at once (`AloneRest`); what
can fall between them is the end of a process, the callback that follows it, and
the spawn of a payload (`OwnExitKeeps`, `FireKeeps`, `SpawnPayloadKeeps`). TLC
found this invariant to hold for every set of rare events, with three processes
and two callers.

*StartingOrder.* `PassInv` says that the units visited without a change in the
current pass are past their dependencies; a last pass without a change has
visited all. That is all there is to the early end of the loop; that the bound
on the passes suffices needs more. A unit is `Settled` if it belongs to a set of
units that holds all they depend on, each past it: what is settled stays so, also while a cycle beside it pushes its own orders up. By
`Progress` each pass that is over has settled a unit more, or every unit that
depends on no cycle is settled: while one is not there is a unit to settle next
(`Ready`), or else the unsettled ones would keep each other up, which is what a
cycle is (`SomeReady`). `Reason` says that an order above the old one is one
more than what some dependency had. Resolved orders are therefore levels, and
levels are unique where there is no cycle, by the same argument
(`LevelsUnique`), which makes the order the least. `OrderInv` is these.

*Lists.* Induction over data is done in the form of sets, for the library's
induction theorems cannot be instantiated: a set of numbers has a least one, for
the intervals below its elements are finite sets and inclusion orders these well
(`LeastNumber`), so a set that has 0 and the successors of its elements has all
numbers (`IntervalInduction`). `LoopExists` uses it to show that a function
defined by recursion over positions is the one its equations describe;
`KeepFacts` says what `Keep` returns: a list of exactly the elements to be kept,
and of none twice if none was there twice. What the library's `FlattenSeq`
computes is such a loop, too. `FlatMap` concatenates what a function makes of
each element of a list; that it distributes over `\o` (`FlatMapConcat`) is what
the walks and the agenda of `UnitFiles` are proved with.

*ConfigDirs.* For any directories, mount points, names and loads. Three
invariants, each on top of the one before:

- `TypeInv`, whatever overlaps: the lists have each name once (`Singles`), all
  that is in them was read from a loaded directory and no rule of a loaded one is
  missing (`Sources`), and a mount has its units sorted (`StartsInOrder`).
  `RulesFollowDirs` alone is not inductive: a directory that is listed twice has
  its rules added twice by the next load. Neither is `DependencyOrder`, which is
  about what is left to start after a step.
- `HandInv`, what each thread has in hand: what a scan is to stop is of an
  earlier load than anything registered, what a mount is to start is registered
  and of its directory, what an unmount is to stop is of none that is loaded.
  With it `RunningInv` and `StartedInv` say of each service what is still owed
  to it: what runs is registered, somebody has yet to stop it
  (`ToBeStopped`) or it is one of the `survivors` of a failed stop (`Held` is
  what runs and is none), what is registered runs or somebody has yet to start it
  (`ToBeStarted`). This needs `"unmount" \notin Overlap`; without it `Tracked`,
  `NoDangling` and `ScanInRange` are false (section 3). `ScanStaysInRange` is the
  other half of the run `scan_past_end`: that the loop reads past the list takes
  an unmount.
- `TurnInv`: while a scan stops the previous generation, nothing of the new one
  runs or is about to be started by a mount, and every unit to be stopped that is
  not an instance has its name taken in the new generation. This is what keeps a
  mount from starting a unit beside the one the scan has yet to stop, and needs
  that no call by name falls into that part of a scan (section 3 has what
  happens otherwise).

The run `mounts` satisfies all these assumptions.

*LibraryUnit.* `StatusTrue` is not inductive: it says nothing of a unit whose
module is disabled and whose flag is still set, which an enable by others would
then report RUNNING. `FlagInv` says which units these are: the flag is set
exactly if there is an instance, but for the units in `taken` (flag, no
instance) and in `left` (instance, no flag), and no unit is in both; instances
are of enabled modules. `ArgumentsMatch` is part of it because an instance that
was left may run with arguments its new service does not have. Nothing is
assumed of the failures or of the other users of a module.

*Devices.* For any number of devices, mount points, rules, templates and loads
of rules. `IInv` has the types, what a call must hold of the unit it has in hand
(`Proper`), that no two threads are about to spawn one unit (`OneSpawner`) and
that what is there is remembered. `OneProcess` is false without
`Overlap \cap {"start"} = {}` (section 3), `TypeOK` without
`Overlap \cap {"unload"} = {}`. Each of the three properties of a device then
needs an invariant that says who still has to do what:

- `Promise`: what a device that is there should have started runs, or some
  thread owes it (`Owes`): it has not yet copied the devices, the device is in
  its copy, or the unit is among those it will start. A report that remembers
  the device before a copy is taken is matched by the copy, a later one by
  itself; a load of rules is followed by a copy. `StartedStay` says that rules
  start nothing that ends by itself.
- `Waited`: a cleaning unit that runs is waited for by its removal, or its time
  is up. `Apart` is needed because a unit that something else may start has
  nobody who waits for it.
- `Accounted`: what runs is registered and of a device that is there or whose
  removal is about to stop it, or an unmount is about to stop it (`ToStop`,
  `Due`); with `Known`, nothing else is remembered, and `Ready`, a thread only
  starts for devices that are there. `Lost` is the unit in a thread's list whose
  mount point went, which the thread will no longer find. `RulesStay` is needed:
  a unit started by a rule that is not there any more is stopped by nobody
  (`serviceapi.c:4059`); rules that come and go with their mount point's own
  templates satisfy it.

The run `devices` satisfies all these assumptions.

### Only model-checked

- All liveness (`StopCompletes`, `RequestHeard`, `ContractFair`,
  `RestartHonoured`, `Terminates`, `RemovalCompletes`), for fairness and
  `ENABLED` are beyond the prover.
- `ConfigDirs` with unmounts inside a scan beyond `TypeInv`: `Tracked`,
  `NoDangling` and `ScanInRange` are false there.

## 6. Not modelled, and why

- *Readers*: logging, `libsystemd_list()` and the status and list commands, which
  change nothing. (`service status` prints strings of a service after the lock
  is released, `service.c:141`.)
- *How dmini reads a file*: a file is the keys and values it has.
- *Out of memory*, except where its rollback is the point (`AddEntry`).
- *Loading and unloading libsystemd itself*: `Init` is the module after its
  initialization; the loader does not unload a module in use.
- *A rescan under devices*: `Devices` has the first scan only, `ConfigDirs` no
  devices.
- *Reported values that change*: in `Devices` `AddRemember` keeps the first one,
  as the code does, but its run gives each device one value; values that change
  between reports, and what becomes of an instance then, are in `UnitFiles`.
- *The list operations of `set_stop_semaphore()`*: `SetApply` is the whole change
  under the mutex. A process may be killed before it, after it and while it waits
  for the mutex, but not between two operations of dmlist within it.
- *A hand-over by name*: the launcher's branch of `notify_main_pid()` is the one
  that finds the unit by the caller's PID. The lookup by name (3590-3593) gets
  to the same unit; the return for a PID that is tracked already (3617-3620)
  changes nothing.
- *Rules that name one unit twice, and their order*: what a report starts is a
  set in `Devices` (`Targets`); their order, and a unit that two rules name, are
  in `UnitFiles`.
- *Refreshes in the middle of a report*: an instance that is made again is one
  step of `LibraryUnit` and its expansion is in `UnitFiles`; that an instance is
  made again is no step of `ConfigDirs` and `Devices`, where it would keep its
  name and place (and its order would begin at zero until the next resolution).
- *Two mount points of one device name* (`/mnt/SD` and `/mnt_SD`, 4126): the
  names are in `UnitFiles`, two of them at once in no run.
- *dmosi, the loader, dmlist, dmini and dmvfs* are outside the repository and
  modelled from how libsystemd uses them. What is assumed of dmosi: exit
  callbacks are detached when a process ends and run after it, in another
  context; a killed thread keeps the mutexes it holds; a process id is not
  reused while the process is not freed.

## 7. Plan

Done, in this order: stop requests with their contract and proofs; the life of
a unit; the starting order with proofs; library units; the registry and its
directories; devices; proofs for library units; restarts by the program and
hand-overs during a stop; expansion with its proof; unit and rule files; calls
by name and instances made on demand beside scans and mounts; services replaced
after a stop that failed; proofs for the life of a unit; proofs for devices;
proofs that the passes of the starting order suffice; lists stated as functions
and proofs for the registry and its directories; what an expansion means and
proofs for unit files and reports; proofs for the life of a unit with its
failures; stops that fail in the registry, instances that are made again and
removals in the unit files, other users and forgotten instances in the library
units, with their proofs.

1. `Devices` composed with `ConfigDirs`: rescans under devices, two mount points
   of one device name.
2. An abstract contract of a unit (down, up, stopped) that `ServiceLifecycle`
   implements and `ConfigDirs` and `Devices` use.
