---------------------------- MODULE ReviewMergeMC ----------------------------
(***************************************************************************)
(* Instances of ReviewMerge for TLC: the model values the configurations   *)
(* give its actors and contents.                                           *)
(***************************************************************************)
EXTENDS ReviewMerge, TLC

CONSTANTS loop, op, d1, d2, none

\* The contents are interchangeable.
MCSymmetry == Permutations(Diffs)
=============================================================================
