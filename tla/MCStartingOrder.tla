-------------------------- MODULE MCStartingOrder ---------------------------
(* Instances of StartingOrder for TLC. *)
EXTENDS StartingOrder

\* Every dependency graph, cycles and self-dependencies included.
AllGraphs == [Unit -> SUBSET Unit]
=============================================================================
