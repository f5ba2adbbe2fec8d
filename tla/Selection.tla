------------------------------ MODULE Selection ------------------------------
(***************************************************************************)
(* The elements of a sequence at some of its positions, in their order: what *)
(* SelectSeq gives for the positions that pass its test.  The positions are  *)
(* a set and not an operator, so that lemmas can speak of any selection.     *)
(***************************************************************************)
EXTENDS Integers, Sequences

SelectAt(s, at) ==
    LET upTo[n \in 0..Len(s)] ==
            IF n = 0 THEN <<>>
            ELSE IF n \in at THEN Append(upTo[n - 1], s[n]) ELSE upTo[n - 1]
    IN  upTo[Len(s)]
=============================================================================
