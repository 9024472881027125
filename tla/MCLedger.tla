------------------------------ MODULE MCLedger ------------------------------
(***************************************************************************)
(* Ledger for TLC: symmetry, and a start in the middle for liveness.       *)
(***************************************************************************)
EXTENDS Ledger, TLC

Symmetry == Permutations(Requests) \cup Permutations(Ids)
              \cup Permutations(Currencies) \cup Permutations(Names)

\* The state after one cost was added: two requests more already compete.
OneCost ==
  \E i \in Ids, c \in Currencies, n \in Names, v \in Values :
    /\ status    = [d \in Currencies |-> "open"]
    /\ records   = [k \in Ids |-> IF k = i THEN Cost(n, c, v) ELSE None]
    /\ equity    = [d \in Currencies |-> IF d = c THEN -v ELSE 0]
    /\ issued    = {i}
    /\ pc        = [r \in Requests |-> "idle"]
    /\ job       = [r \in Requests |-> NoJob]
    /\ held      = [r \in Requests |-> {}]
    /\ shared    = [r \in Requests |-> {}]
    /\ contended = {}
    /\ stale     = {}

FairFromOneCost == OneCost /\ [][Next]_vars /\ Fairness

=============================================================================
