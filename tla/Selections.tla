----------------------------- MODULE Selections -----------------------------
(***************************************************************************)
(* Selecting from a sequence.  (SelectSeq takes a predicate, which nothing *)
(* can be proved of.)                                                      *)
(***************************************************************************)
EXTENDS Integers, Sequences

\* What is left of a sequence of those in the set, in order.
Among(seq, set) ==
  LET kept[i \in 0 .. Len(seq)] ==
        IF i = 0 THEN <<>>
        ELSE IF seq[i] \in set THEN Append(kept[i - 1], seq[i]) ELSE kept[i - 1]
  IN  kept[Len(seq)]
=============================================================================
