-------------------------------- MODULE Lists --------------------------------
(***************************************************************************)
(* What a loop over a list (dmlist) leaves of it.  A recursive function of *)
(* the position stands for SelectSeq, of which nothing could be proved.    *)
(***************************************************************************)
EXTENDS Naturals, SequencesExt

\* The elements of list that are in S, in their order.
Keep(list, S) ==
    LET kept[i \in 0..Len(list)] ==
          IF i = 0 THEN <<>>
          ELSE IF list[i] \in S THEN Append(kept[i - 1], list[i]) ELSE kept[i - 1]
    IN  kept[Len(list)]
===============================================================================
