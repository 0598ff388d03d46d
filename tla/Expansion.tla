----------------------------- MODULE Expansion -----------------------------
(***************************************************************************)
(* Expansion of placeholders in a text (libsystemd/src/serviceapi.c): the  *)
(* `%`-specifiers of a template instance's keys, `%m` in the keys of any   *)
(* other unit, `%name` in the targets of a rule.  Each of the three does   *)
(* it in two passes: one measures the result and allocates it, one writes  *)
(* it, without a check of its own, into what was allocated.                *)
(*                                                                         *)
(* A text is a sequence of symbols; the letters of `%name` after the `%`   *)
(* are one symbol.  Running out of memory is left out.                     *)
(***************************************************************************)
EXTENDS Naturals, SequencesExt

CONSTANT Char  \* the symbols texts are made of

Text == Seq(Char)

\* The texts symbols stand for when they follow a `%`.
Withs == UNION {[D -> Text] : D \in SUBSET Char}

\* What to expand, and with what.
Job == [text : Text, with : Withs]

VARIABLES
    job,      \* the element of Job in hand
    pass,     \* "idle", "count", "fill", or "done" when `out` can be taken
    scan,     \* the position the pass looks at
    out_len,  \* the length the first pass has measured
    out,      \* what the second pass has written
    trail     \* history: each position of the first pass with out_len there

expVars == <<job, pass, scan, out_len, out, trail>>

ExpInit ==
    /\ job = [text |-> <<>>, with |-> [c \in {} |-> <<>>]]
    /\ pass = "idle"
    /\ scan = 1 /\ out_len = 0
    /\ out = <<>>
    /\ trail = {}

-----------------------------------------------------------------------------
\* A placeholder starts at position p.  A `%` that is the last symbol, or that
\* no symbol with a meaning follows, is a symbol like any other.
Marked(j, p) ==
    /\ j.text[p] = "%"
    /\ p < Len(j.text)
    /\ j.text[p + 1] \in DOMAIN j.with

After(j, p) == IF Marked(j, p) THEN p + 2 ELSE p + 1

Piece(j, p) == IF Marked(j, p) THEN j.with[j.text[p + 1]] ELSE <<j.text[p]>>

Begin(j) ==
    /\ pass = "idle"
    /\ job' = j
    /\ pass' = "count"
    /\ scan' = 1 /\ out_len' = 0
    /\ out' = <<>>
    /\ trail' = {<<1, 0>>}

\* Mutant: a placeholder is counted as the two symbols it is written with.
CountAsWritten ==
    /\ pass = "count" /\ scan <= Len(job.text)
    /\ scan' = After(job, scan)
    /\ out_len' = out_len + (After(job, scan) - scan)
    /\ trail' = trail \cup {<<scan', out_len'>>}
    /\ UNCHANGED <<job, pass, out>>

Count ==
    /\ pass = "count" /\ scan <= Len(job.text)
    /\ scan' = After(job, scan)
    /\ out_len' = out_len + Len(Piece(job, scan))
    /\ trail' = trail \cup {<<scan', out_len'>>}
    /\ UNCHANGED <<job, pass, out>>

Allocate ==
    /\ pass = "count" /\ scan > Len(job.text)
    /\ pass' = "fill"
    /\ scan' = 1
    /\ UNCHANGED <<job, out_len, out, trail>>

Fill ==
    /\ pass = "fill" /\ scan <= Len(job.text)
    /\ scan' = After(job, scan)
    /\ out' = out \o Piece(job, scan)
    /\ UNCHANGED <<job, pass, out_len, trail>>

Finish ==
    /\ pass = "fill" /\ scan > Len(job.text)
    /\ pass' = "done"
    /\ UNCHANGED <<job, scan, out_len, out, trail>>

\* The caller takes the result.
Take ==
    /\ pass = "done"
    /\ pass' = "idle"
    /\ UNCHANGED <<job, scan, out_len, out, trail>>

ExpStep == Count \/ Allocate \/ Fill \/ Finish

ExpNext == (\E j \in Job : Begin(j)) \/ ExpStep \/ Take

ExpSpec == ExpInit /\ [][ExpNext]_expVars

-----------------------------------------------------------------------------
(* What a text means: the same, said of each of its positions by itself.   *)

\* Where the run of `%` that p ends begins.
RunStart(text, p) == Min({a \in 1 .. p : \A q \in a .. p : text[q] = "%"})

\* A `%` starts a placeholder if an even number of `%` stands right before it
\* (where `%%` has a meaning), and a symbol with a meaning behind it.
Means(text, with) ==
    {p \in 1 .. Len(text) - 1 :
        /\ text[p] = "%" /\ text[p + 1] \in DOMAIN with
        /\ "%" \in DOMAIN with => (p - RunStart(text, p)) % 2 = 0}

Share(text, with, p) ==
    IF p \in Means(text, with) THEN with[text[p + 1]]
    ELSE IF p - 1 \in Means(text, with) THEN <<>> ELSE <<text[p]>>

Meaning(text, with) == FlattenSeq([p \in DOMAIN text |-> Share(text, with, p)])

-----------------------------------------------------------------------------
(* Properties                                                              *)

\* The second pass never writes past what the first one allocated, and it fills
\* it: libsystemd_substitute_specifiers() and its two siblings decide the same
\* way in both of their loops, whatever the text and the replacements are.
Fits ==
    /\ pass = "fill" => Len(out) <= out_len
    /\ pass = "done" => Len(out) = out_len

\* The inductive form of Fits: both passes walk the same positions, and at each
\* the second has written what the first had measured.
ExpInv ==
    /\ job \in Job
    /\ pass \in {"idle", "count", "fill", "done"}
    /\ out_len \in Nat
    /\ out \in Text
    /\ scan \in 1 .. Len(job.text) + 1
    /\ trail \subseteq (1 .. Len(job.text) + 1) \X (0 .. out_len)
    /\ pass = "count" =>
         /\ out = <<>>
         /\ <<1, 0>> \in trail /\ <<scan, out_len>> \in trail
         /\ \A e \in trail : e[1] <= scan /\ (e[1] = scan => e[2] = out_len)
         /\ \A e \in trail : e[1] # scan =>
              <<After(job, e[1]), e[2] + Len(Piece(job, e[1]))>> \in trail
    /\ pass \in {"fill", "done"} =>
         /\ <<scan, Len(out)>> \in trail
         /\ \A e \in trail : e[1] > Len(job.text) => e[2] = out_len
         /\ \A e \in trail : e[1] <= Len(job.text) =>
              <<After(job, e[1]), e[2] + Len(Piece(job, e[1]))>> \in trail
    /\ pass = "done" => scan > Len(job.text)
=============================================================================
