-------------------------- MODULE MCNotifications --------------------------
(***************************************************************************)
(* Notifications for TLC.                                                  *)
(***************************************************************************)
EXTENDS Notifications, TLC

CONSTANTS ann, bob, cid

Symmetry == Permutations(Events) \cup Permutations(Clients)

ThresholdOf == [u \in Users |-> CASE u = ann -> 1 [] u = bob -> 2 [] OTHER -> None]

=============================================================================
