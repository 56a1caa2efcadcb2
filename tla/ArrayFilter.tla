----------------------------- MODULE ArrayFilter -----------------------------
(***************************************************************************)
(* Array.prototype.filter, given the positions of the elements that pass:  *)
(* SelectSeq, in a form the proofs can look into.                          *)
(***************************************************************************)
EXTENDS Naturals, Sequences

\* The elements of list at the positions in kept, in their order.
Filtered(list, kept) ==
    LET upTo[i \in 0..Len(list)] ==
            IF i = 0 THEN << >>
            ELSE IF i \in kept THEN Append(upTo[i - 1], list[i])
            ELSE upTo[i - 1]
    IN  upTo[Len(list)]
=============================================================================
