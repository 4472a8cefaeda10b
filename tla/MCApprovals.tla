---------------------------- MODULE MCApprovals ----------------------------
(* TLC instances of Approvals: model values, and symmetry for safety runs. *)
EXTENDS Approvals, TLC

CallsAndPosts == Permutations(Calls) \cup Permutations(Posts)
=============================================================================
