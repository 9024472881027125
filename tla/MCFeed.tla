------------------------------- MODULE MCFeed -------------------------------
(* Two articles in one feed, a household of one, two requests under way.     *)
EXTENDS Feed

CONSTANT u1

MCOwner == [i \in Items |-> u1]

=============================================================================
