------------------------------- MODULE Selection -------------------------------
(***************************************************************************)
(* The loop by which the mail clients pick lines out of an answer: those   *)
(* that match an expression are appended to a vector.  Selected is SelectSeq *)
(* with a set in place of the test, so that facts about it can be proved.  *)
(***************************************************************************)
EXTENDS Integers, Sequences

\* The elements of sequence s that are in set S, in their order.
Selected(s, S) ==
    LET upTo[n \in 0 .. Len(s)] ==
            IF n = 0 THEN <<>>
            ELSE IF s[n] \in S THEN Append(upTo[n - 1], s[n]) ELSE upTo[n - 1]
    IN upTo[Len(s)]
=============================================================================
