----------------------------- MODULE MCConfigDirs -----------------------------
(* Instances of ConfigDirs for TLC: a firmware of two units, a card with a   *)
(* pair of units read in the wrong order and a card that repeats a name. One *)
(* name is both a unit of a card and what a template is asked for.           *)
EXTENDS ConfigDirs, TLC

CONSTANTS cardA, cardB, empty, f1, f2, a1, a2, b1, r1, r2, r3

Units == (Root :> <<f2, f1>>) @@ (cardA :> <<a2, a1>>) @@ (cardB :> <<a1, b1>>)
Templates == (Root :> <<f1>>) @@ (cardA :> <<a1>>) @@ (cardB :> <<f1, a1, b1>>)
Rules == (Root :> <<r1>>) @@ (cardA :> <<r2>>) @@ (cardB :> <<r3>>)
Prefix == (b1 :> f1)
Requires == (f2 :> {f1, a1}) @@ (a2 :> {a1, f1}) @@ (f1 :> {}) @@ (a1 :> {}) @@ (b1 :> {f2})
===============================================================================
