------------------------------- MODULE Filtering -------------------------------
(***************************************************************************)
(* The elements of a sequence that are in a set, in their order: what a    *)
(* loop that appends some of the elements it visits collects.              *)
(***************************************************************************)
EXTENDS Integers, Sequences

Select(seq, S) ==
    LET chosen[n \in 0..Len(seq)] ==
          IF n = 0 THEN << >>
          ELSE IF seq[n] \in S THEN Append(chosen[n - 1], seq[n])
          ELSE chosen[n - 1]
    IN  chosen[Len(seq)]
==============================================================================
