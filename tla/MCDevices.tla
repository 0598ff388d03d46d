------------------------------ MODULE MCDevices ------------------------------
(* Instances of Devices for TLC: a terminal and a card.  The firmware has    *)
(* the terminal's template, the card one more for terminals and the rule     *)
(* that starts it.                                                           *)
EXTENDS Devices, TLC

CONSTANTS tty1, card, tty, mount, getty, log, show, tidy

Class == (tty1 :> tty) @@ (card :> mount)
Source == (getty :> Boot) @@ (log :> card) @@ (show :> Boot) @@ (tidy :> Boot)

Rule(c, s, r) == [class |-> c, start |-> s, remove |-> r]

\* Not loaded yet, and rules for terminals and mounts.
RuleSets == (0 :> {}) @@ (1 :> {Rule(tty, getty, NULL), Rule(mount, show, tidy)})

Brings == (card :> {Rule(tty, log, NULL)})
===============================================================================
