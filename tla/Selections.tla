------------------------------ MODULE Selections ------------------------------
(* The members of a sequence that are in a set, in their order.  It is SelectSeq
   with the test given as a set, in a form that proofs can reason about.       *)
EXTENDS Naturals, Sequences

Selected(s, S) ==
    LET kept[n \in 0..Len(s)] ==
          IF n = 0 THEN <<>>
          ELSE IF s[n] \in S THEN Append(kept[n - 1], s[n]) ELSE kept[n - 1]
    IN kept[Len(s)]
=============================================================================
