--------------------------- MODULE IssueDispatchMC --------------------------
(* Instances of IssueDispatch for TLC. *)
EXTENDS IssueDispatch, TLC

CONSTANTS p1, p2, i1, i2, s1, s2, s3

MCSymmetry == Permutations(Sessions) \cup Permutations(Passes)
=============================================================================
