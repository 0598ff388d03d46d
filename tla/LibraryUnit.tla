----------------------------- MODULE LibraryUnit -----------------------------
(***************************************************************************)
(* Units of type=library (libsystemd/src/serviceapi.c): several units may  *)
(* share one module, which other modules use through its API as well.  A   *)
(* module with the paired service DIF runs an instance per unit; a plain   *)
(* module is enabled by a start and disabled and unloaded by a stop.       *)
(*                                                                         *)
(* bound is the module's own state, outside libsystemd: START makes the    *)
(* unit's instance with the arguments it gets, STOP ends it, and a module  *)
(* that is disabled loses them all.                                        *)
(***************************************************************************)
CONSTANTS
    Unit, Module,
    exec,         \* exec[u]: the module of unit u
    Paired,       \* modules with both START and STOP
    Partial,      \* modules with START only
    Value,        \* device values (%v) a template is expanded with
    NULL,         \* no value
    Template,     \* units instantiated from a template
    Fails         \* the operations that may fail

ASSUME Assumptions ==
    /\ exec \in [Unit -> Module]
    /\ Paired \subseteq Module
    /\ Partial \subseteq Module \ Paired
    /\ NULL \notin Value
    /\ Template \subseteq Unit
    /\ Fails \subseteq {"refresh", "enable", "disable", "unload", "start", "stop"}

VARIABLES
    loaded,           \* Dmod_IsModuleLoaded()
    enabled,          \* Dmod_IsModuleEnabled()
    library_started,  \* the units with the flag set
    argv,             \* argv[u]: the value u's arguments were expanded with
    bound,            \* bound[u]: the value u's instance runs with; NULL: no instance
    taken,            \* history: active units whose instance went when somebody else
                      \* disabled the module, until they are started or stopped
    left              \* history: units with an instance that was left behind when
                      \* their service was destroyed, until it goes or is taken over

moduleVars == <<loaded, enabled>>
history == <<taken, left>>
vars == <<moduleVars, library_started, argv, bound, history>>

HasStart(m) == m \in Paired \cup Partial
HasStop(m)  == m \in Paired

\* What is left of the instances when module m is disabled.
Without(m) == [u \in Unit |-> IF exec[u] = m THEN NULL ELSE bound[u]]

Init ==
    /\ loaded = {} /\ enabled = {}
    /\ library_started = {}
    /\ \E v \in Value : argv = [u \in Unit |-> v]
    /\ bound = [u \in Unit |-> NULL]
    /\ taken = {} /\ left = {}

-----------------------------------------------------------------------------
(* libsystemd_start_service() of a library unit                            *)

\* Mutant: an active unit is expanded again as well.
RefreshedAlways(u, v) == u \in Template /\ v # NULL

\* Mutant: the arguments of an instance are made once.
RefreshedNever(u, v) == FALSE

\* libsystemd_refresh_library_instance(): whether u is expanded again with v.
Refreshed(u, v) ==
    /\ u \in Template /\ v # NULL
    /\ u \notin library_started
    /\ exec[u] \in enabled => HasStart(exec[u])

Refresh(u, v) == argv' = IF Refreshed(u, v) THEN [argv EXCEPT ![u] = v] ELSE argv

\* The template of an instance is gone, or cannot be read.
RefreshFails(u, v) ==
    /\ Refreshed(u, v) /\ "refresh" \in Fails
    /\ UNCHANGED vars

\* The module is not found (-ENOENT) or cannot be enabled (-EIO, and what was
\* loaded for it is unloaded).
StartNotEnabled(u, v) ==
    /\ exec[u] \notin enabled /\ "enable" \in Fails
    /\ Refresh(u, v)
    /\ UNCHANGED <<moduleVars, library_started, bound, history>>

\* -ENOTSUP, half of the pair: a module loaded for it goes again, if it can.
StartPartial(u, v) ==
    LET m == exec[u] IN
    /\ m \in Partial
    /\ Refresh(u, v)
    /\ \/ m \notin loaded /\ UNCHANGED moduleVars
       \/ m \notin loaded /\ "unload" \in Fails /\ loaded' = loaded \cup {m} /\ UNCHANGED enabled
       \/ /\ m \in loaded \/ "disable" \in Fails
          /\ loaded' = loaded \cup {m} /\ enabled' = enabled \cup {m}
    /\ UNCHANGED <<library_started, bound, history>>

\* A plain library is enabled, or was (-EALREADY).
StartPlain(u, v) ==
    LET m == exec[u] IN
    /\ ~HasStart(m)
    /\ Refresh(u, v)
    /\ loaded' = loaded \cup {m} /\ enabled' = enabled \cup {m}
    /\ UNCHANGED <<library_started, bound, history>>

\* -EALREADY.
StartAlready(u, v) ==
    /\ exec[u] \in Paired \cap enabled
    /\ u \in library_started
    /\ Refresh(u, v)
    /\ UNCHANGED <<moduleVars, library_started, bound, history>>

\* Mutant: a START that failed counts as one that succeeded.
StartCallbackUnchecked(u, v) ==
    LET m == exec[u] IN
    /\ m \in Paired
    /\ ~(m \in enabled /\ u \in library_started)
    /\ Refresh(u, v)
    /\ loaded' = loaded \cup {m} /\ enabled' = enabled \cup {m}
    /\ library_started' = library_started \cup {u}
    /\ \/ bound' = [bound EXCEPT ![u] = argv'[u]]
       \/ "start" \in Fails /\ UNCHANGED bound
    /\ taken' = taken \ {u} /\ left' = left \ {u}

\* The module is enabled if need be, and START called with the arguments.
StartCallback(u, v) ==
    LET m == exec[u] IN
    /\ m \in Paired
    /\ ~(m \in enabled /\ u \in library_started)
    /\ Refresh(u, v)
    /\ loaded' = loaded \cup {m} /\ enabled' = enabled \cup {m}
    /\ \/ /\ bound' = [bound EXCEPT ![u] = argv'[u]]
          /\ library_started' = library_started \cup {u}
          /\ left' = left \ {u}
       \/ /\ "start" \in Fails
          /\ library_started' = library_started \ {u}
          /\ UNCHANGED <<bound, left>>
    /\ taken' = taken \ {u}

Start(u, v) ==
    \/ RefreshFails(u, v) \/ StartNotEnabled(u, v) \/ StartPartial(u, v) \/ StartPlain(u, v)
    \/ StartAlready(u, v) \/ StartCallback(u, v)

-----------------------------------------------------------------------------
(* libsystemd_stop_service() of a library unit                             *)

\* The module is disabled, by somebody else: nothing to stop, but a module
\* that is still loaded goes, unless it was u's flag that was found.
StopInactive(u) ==
    LET m == exec[u] IN
    /\ m \notin enabled
    /\ library_started' = library_started \ {u}
    /\ \/ (m \notin loaded \/ u \in library_started) /\ UNCHANGED loaded
       \/ m \in loaded /\ u \notin library_started /\ loaded' = loaded \ {m}
       \/ m \in loaded /\ u \notin library_started /\ "unload" \in Fails /\ UNCHANGED loaded
    /\ taken' = taken \ {u}
    /\ UNCHANGED <<enabled, argv, bound, left>>

\* STOP ends the unit's instance; an error leaves it active.
StopCallback(u) ==
    /\ exec[u] \in enabled /\ HasStop(exec[u])
    /\ \/ /\ u \in library_started
          /\ library_started' = library_started \ {u}
          /\ bound' = [bound EXCEPT ![u] = NULL]
          /\ taken' = taken \ {u}
       \/ /\ u \notin library_started \/ "stop" \in Fails
          /\ UNCHANGED <<library_started, bound, taken>>
    /\ UNCHANGED <<moduleVars, argv, left>>

\* Mutant: STOP or not, the module is disabled with the unit.
StopPlainAny(u) ==
    LET m == exec[u] IN
    /\ m \in enabled
    /\ loaded' = loaded \ {m} /\ enabled' = enabled \ {m}
    /\ library_started' = library_started \ {u}
    /\ bound' = Without(m)
    /\ UNCHANGED <<argv, history>>

\* A module without STOP is disabled and unloaded (-EIO if that fails).
StopPlain(u) ==
    LET m == exec[u] IN
    /\ m \in enabled /\ ~HasStop(m)
    /\ \/ enabled' = enabled \ {m} /\ loaded' = loaded \ {m}
       \/ "unload" \in Fails /\ enabled' = enabled \ {m} /\ UNCHANGED loaded
       \/ "disable" \in Fails /\ UNCHANGED moduleVars
    /\ UNCHANGED <<library_started, argv, bound, history>>

Stop(u) == StopInactive(u) \/ StopCallback(u) \/ StopPlain(u)

\* Mutant: an unmount destroys the service of an active unit without a stop.
ReplaceRunning(u, v) ==
    /\ library_started' = library_started \ {u}
    /\ argv' = [argv EXCEPT ![u] = v]
    /\ taken' = taken \ {u}
    /\ UNCHANGED <<moduleVars, bound, left>>

\* A scan or an unmount destroys the service after its stop (a step of its
\* own), also where that failed or, the module not being loaded, was not tried.
\* The service that is parsed or made later has arguments of its own and starts
\* without the flag.
Replace(u, v) ==
    /\ u \in library_started => "stop" \in Fails \/ exec[u] \notin loaded
    /\ library_started' = library_started \ {u}
    /\ argv' = [argv EXCEPT ![u] = v]
    /\ taken' = taken \ {u}
    /\ left' = IF bound[u] = NULL THEN left ELSE left \cup {u}
    /\ UNCHANGED <<moduleVars, bound>>

-----------------------------------------------------------------------------
(* Everybody else: modules that use the API of m, or the shell             *)

\* A module is loaded, or enabled, or disabled under its instances.
Others(m) ==
    /\ \/ loaded' = loaded \cup {m} /\ UNCHANGED <<enabled, bound, history>>
       \/ /\ loaded' = loaded \cup {m} /\ enabled' = enabled \cup {m}
          /\ UNCHANGED <<bound, history>>
       \/ /\ enabled' = enabled \ {m}
          /\ loaded' \in {loaded, loaded \ {m}}
          /\ bound' = Without(m)
          /\ taken' = taken \cup {u \in library_started : bound[u] # bound'[u]}
          /\ left' = {u \in left : exec[u] # m}
    /\ UNCHANGED <<library_started, argv>>

Next ==
    \/ \E u \in Unit : Stop(u) \/ \E v \in Value \cup {NULL} : Start(u, v)
    \/ \E u \in Unit, v \in Value : Replace(u, v)
    \/ \E m \in Module : Others(m)

Spec == Init /\ [][Next]_vars

-----------------------------------------------------------------------------
\* libsystemd_fill_status() of a library unit.
Status(u) ==
    IF exec[u] \in enabled /\ (HasStart(exec[u]) => u \in library_started)
      THEN "RUNNING" ELSE "CREATED"

(* Properties                                                              *)

\* Every variable keeps its type, and an enabled module is loaded.
TypeOK ==
    /\ loaded \in SUBSET Module /\ enabled \in SUBSET loaded
    /\ library_started \in SUBSET Unit
    /\ argv \in [Unit -> Value]
    /\ bound \in [Unit -> Value \cup {NULL}]

\* A callback-backed unit is reported RUNNING exactly while its module has an
\* instance for it, whatever fails and whoever else loads, enables or disables
\* the module.  What the flag cannot know: that somebody else disabled the
\* module, once it is enabled again; and the instance of a service that was
\* destroyed before it could be stopped.
StatusTrue ==
    \A u \in Unit : exec[u] \in Paired =>
        \/ Status(u) = "RUNNING" <=> bound[u] # NULL
        \/ u \in taken /\ exec[u] \in enabled
        \/ u \in left /\ Status(u) = "CREATED"

\* An active unit keeps the arguments its instance was started with, even if it
\* is started again with the value of another device.
ArgumentsMatch == \A u \in Unit \ left : bound[u] \in {argv[u], NULL}

\* The start of u with v makes an instance, or takes over one that was left.
MakesInstance(u, v) ==
    /\ Start(u, v)
    /\ (bound[u] = NULL /\ bound'[u] # NULL) \/ u \in left \ left'

\* A start that makes a template's instance runs it with the value of this very
\* event: the path of a device that was removed is not used again.  Not so where
\* somebody else disabled the module under the unit: its flag is still set, so it
\* is not expanded again, and its next instance gets the old value.
FreshValue ==
    [][\A u \in Template, v \in Value :
         MakesInstance(u, v) => u \in taken \/ bound'[u] = v]_vars

\* Starting or stopping a unit leaves the instances of all others alone, of the
\* same module or not, whatever fails on the way.
OthersKeepRunning ==
    [][\A u \in Unit : Stop(u) \/ (\E v \in Value \cup {NULL} : Start(u, v))
         => \A w \in Unit \ {u} : bound'[w] = bound[w]]_vars

\* Inductive: the units with the flag set are those the module has an instance
\* of, but for those whose instance was taken from them and those that left one
\* behind; instances are of enabled paired modules, and active units keep their
\* arguments.
FlagInv ==
    /\ TypeOK
    /\ \A u \in Unit :
         \/ u \in taken \ left /\ u \in library_started /\ bound[u] = NULL
         \/ u \in left \ taken /\ u \notin library_started /\ bound[u] # NULL
         \/ u \notin taken \cup left /\ (u \in library_started <=> bound[u] # NULL)
    /\ \A u \in Unit : bound[u] # NULL => exec[u] \in Paired \cap enabled
    /\ ArgumentsMatch
=============================================================================
