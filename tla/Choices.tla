------------------------------- MODULE Choices -------------------------------
(***************************************************************************)
(* What a walk over a list picks: the part of a sequence that has its      *)
(* indices in a given set, in the order of the sequence.                   *)
(***************************************************************************)
EXTENDS Naturals, Sequences, SequencesExt

Chosen(s, K) ==
    FlattenSeq([n \in 1..Len(s) |-> IF n \in K THEN << s[n] >> ELSE << >>])
=============================================================================
