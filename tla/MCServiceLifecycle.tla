------------------------- MODULE MCServiceLifecycle -------------------------
(* Instances of ServiceLifecycle for TLC. *)
EXTENDS ServiceLifecycle, TLC

Setting(policies, exits, faults) ==
    [policies |-> policies, launcher |-> TRUE, exits |-> exits,
     handover |-> FALSE, faults |-> faults]

\* Processes end anywhere in a call; a policy restarts them; rare events.
EndsAnywhere == Setting({"no"}, "atomic", {"spawn_fails"})
Restarts == Setting({"always", "on-failure"}, "no", {})
Failures == Setting({"always", "on-failure"}, "no",
                    {"early_exit", "kill_fails", "attach_fails", "self_stop"})

Supervision == {EndsAnywhere, Restarts, Failures}

StrayExits == {[Setting({"always"}, "free", {}) EXCEPT !.launcher = FALSE]}

\* Process ids are interchangeable (safety runs only).
Symmetry == Permutations(Pid)
=============================================================================
