------------------------------- MODULE Mailbox -------------------------------
(***************************************************************************)
(* What the notifications promise: a box per user, into which a note is    *)
(* put once and out of which the user takes all notes at once, each of     *)
(* them for the first and last time.  The box of a user who is "spoiled"   *)
(* may do anything; it does nothing to the boxes of others.                *)
(***************************************************************************)
CONSTANTS Users, Events

VARIABLES box, shown, again, spoiled

vars == <<box, shown, again, spoiled>>

Init ==
  /\ box     = [u \in Users |-> {}]
  /\ shown   = [u \in Users |-> {}]
  /\ again   = [u \in Users |-> {}]
  /\ spoiled = {}

Post(u, e) ==
  /\ e \notin box[u] \cup shown[u]
  /\ box' = [box EXCEPT ![u] = @ \cup {e}]
  /\ UNCHANGED <<shown, again>>

Collect(u) ==
  /\ box[u] \cap shown[u] = {}
  /\ box'   = [box EXCEPT ![u] = {}]
  /\ shown' = [shown EXCEPT ![u] = @ \cup box[u]]
  /\ UNCHANGED again

Spoil(u) ==
  /\ spoiled' = spoiled \cup {u}
  /\ \A v \in Users \ {u} :
       box'[v] = box[v] /\ shown'[v] = shown[v] /\ again'[v] = again[v]

Next ==
  \E u \in Users :
    \/ /\ u \notin spoiled /\ UNCHANGED spoiled
       /\ Collect(u) \/ \E e \in Events : Post(u, e)
    \/ Spoil(u)

Spec == Init /\ [][Next]_vars

=============================================================================
