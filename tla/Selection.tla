----------------------------- MODULE Selection -----------------------------
(***************************************************************************)
(* The elements of a sequence that are in a set, in their order: what a    *)
(* comprehension with an `if` over a list returns. SelectSeq() is the same *)
(* with a predicate; the provers know nothing of it.                       *)
(***************************************************************************)
EXTENDS Naturals, Sequences

Filtered(s, S) ==
    LET upTo[n \in 0 .. Len(s)] ==
          IF n = 0 THEN <<>>
          ELSE IF s[n] \in S THEN Append(upTo[n - 1], s[n]) ELSE upTo[n - 1]
    IN  upTo[Len(s)]
=============================================================================
