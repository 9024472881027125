---------------------------- MODULE MCShortcuts ----------------------------
(* Three shortcuts of one user and two requests under way at a time: every  *)
(* pair of operations meets, over up to three rows.                         *)
EXTENDS Shortcuts, TLC

RequestSymmetry == Permutations(Requests)

=============================================================================
