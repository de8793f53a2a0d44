----------------------------- MODULE Selection -----------------------------
(***************************************************************************)
(* A loop over a slice that keeps some of its elements, as the code has in *)
(* several places.                                                         *)
(***************************************************************************)
EXTENDS Integers, Sequences

(* The elements of seq that are in kept, in their order. *)
Select(seq, kept) ==
  LET upTo[i \in 0..Len(seq)] ==
        IF i = 0 THEN <<>>
        ELSE IF seq[i] \in kept THEN Append(upTo[i - 1], seq[i])
        ELSE upTo[i - 1]
  IN upTo[Len(seq)]
=============================================================================
