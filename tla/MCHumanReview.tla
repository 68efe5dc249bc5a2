---------------------------- MODULE MCHumanReview ----------------------------
(* Instances of HumanReview for TLC. *)
EXTENDS HumanReview, TLC

CONSTANTS g1, g2, r1, r2, r3

Symmetry == Permutations(Gate) \cup Permutations(Reviewer)

=============================================================================
