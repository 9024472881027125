-------------------------------- MODULE Menu --------------------------------
(***************************************************************************)
(* What the shortcuts promise: every user has some, in an order.  A new    *)
(* one comes last, one that is taken away leaves the others in their       *)
(* order, and any other order is, as a whole, one that was asked for.  A   *)
(* "spoiled" user keeps the shortcuts, whatever their order.               *)
(***************************************************************************)
EXTENDS Naturals

CONSTANTS Users, Ids, Requests

\* An order holds pairs: the first of a pair comes before the second.  A
\* request asks for places, or for nothing: << >>.
VARIABLES mine, order, asked, spoiled

vars == <<mine, order, asked, spoiled>>

Init ==
  /\ mine    = [u \in Users |-> {}]
  /\ order   = [u \in Users |-> {}]
  /\ asked   = [r \in Requests |-> << >>]
  /\ spoiled = {}

\* The order of u, unless spoiled, becomes "new", and nobody else's changes.
Ordered(u, new) ==
  \A v \in Users \ spoiled' : order'[v] = IF v = u THEN new ELSE order[v]

Append(u, i) ==
  /\ \A v \in Users : i \notin mine[v]
  /\ mine' = [mine EXCEPT ![u] = @ \cup {i}]
  /\ Ordered(u, order[u] \cup (mine[u] \X {i}))

Remove(u, i) ==
  /\ i \in mine[u]
  /\ mine' = [mine EXCEPT ![u] = @ \ {i}]
  /\ Ordered(u, order[u] \cap (mine'[u] \X mine'[u]))

\* The places r has asked for are places for all there is.
Arrange(r, u) ==
  /\ UNCHANGED mine
  /\ mine[u] \subseteq DOMAIN asked[r]
  /\ Ordered(u, {p \in mine[u] \X mine[u] : asked[r][p[1]] < asked[r][p[2]]})

\* All stays in its order.
Keep ==
  /\ UNCHANGED mine
  /\ \A v \in Users \ spoiled' : order'[v] = order[v]

\* What a request has asked for stays so until it ends.
WishesStay ==
  \A r \in Requests : asked[r] # << >> => asked'[r] \in {asked[r], << >>}

Next ==
  /\ spoiled \subseteq spoiled'
  /\ WishesStay
  /\ \/ Keep
     \/ \E u \in Users :
          \/ \E r \in Requests : Arrange(r, u)
          \/ \E i \in Ids : Append(u, i) \/ Remove(u, i)

Spec == Init /\ [][Next]_vars

=============================================================================
