--------------------------- MODULE MCLibraryUnit ----------------------------
(* Instances of LibraryUnit for TLC: two instances of a paired module, *)
(* one plain module and one with half of the pair.                     *)
EXTENDS LibraryUnit, TLC

CONSTANTS u1, u2, u3, u4, paired, plain, partial

Exec == (u1 :> paired) @@ (u2 :> paired) @@ (u3 :> plain) @@ (u4 :> partial)
=============================================================================
