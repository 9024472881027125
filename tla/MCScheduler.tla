---------------------------- MODULE MCScheduler ----------------------------
(***************************************************************************)
(* Scheduler for TLC.                                                      *)
(***************************************************************************)
EXTENDS Scheduler, TLC

CONSTANTS hourly, manual

Symmetry == Permutations(Tasks)

IntervalOf == [j \in Jobs |-> IF j = manual THEN 0 ELSE 1]

=============================================================================
