------------------------------- MODULE Filters -------------------------------
(***************************************************************************)
(* The loops of the programs that pass over some elements of a list and    *)
(* keep the others.  SelectSeq does the same for a predicate; this is a    *)
(* function defined on the lengths of the list, of which theorems can be   *)
(* proved (FilterProofs).                                                  *)
(***************************************************************************)
EXTENDS Naturals, Sequences

\* The elements of s that are in kept, in the order of s
Filter(s, kept) ==
  LET Left[n \in 0..Len(s)] ==
        IF n = 0 THEN <<>>
        ELSE IF s[n] \in kept THEN Append(Left[n - 1], s[n])
        ELSE Left[n - 1]
  IN  Left[Len(s)]

=============================================================================
