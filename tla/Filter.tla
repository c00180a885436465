------------------------------- MODULE Filter -------------------------------
(* Loops over the elements of a sequence.                                  *)
EXTENDS Naturals, Sequences

(* The elements of s that are in the set wanted, in their order. It is not *)
(* SelectSeq, because nothing can be proved about that.                     *)
Filter(s, wanted) ==
    LET kept[i \in 0..Len(s)] ==
          IF i = 0 THEN <<>>
          ELSE IF s[i] \in wanted THEN Append(kept[i - 1], s[i])
          ELSE kept[i - 1]
    IN  kept[Len(s)]

(* What is left of base after a step for each element of s, in their order. *)
Loop(step(_, _), base, s) ==
    LET run[k \in 0..Len(s)] == IF k = 0 THEN base ELSE step(run[k - 1], s[k])
    IN  run[Len(s)]
=============================================================================
