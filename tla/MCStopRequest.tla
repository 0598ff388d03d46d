--------------------------- MODULE MCStopRequest ----------------------------
(* Instances of StopRequest for TLC. *)
EXTENDS StopRequest, TLC

\* Stoppers and semaphores are interchangeable (safety runs only).
Symmetry == Permutations(Stopper) \cup Permutations(Sem)
=============================================================================
