---------------------------- MODULE LedgerProofs ----------------------------
(***************************************************************************)
(* Proofs about Ledger, for every set of currencies, records and requests. *)
(*                                                                         *)
(* The inductive invariant says what a request's job is worth at every     *)
(* point of its transaction: that its adjustments were computed from its   *)
(* snapshot, that the identifier of an insert is its own, that a record    *)
(* never changes its kind, and that the currencies a foreign key check     *)
(* found stay locked, so still exist at the commit.                        *)
(*                                                                         *)
(* On top of it, the overlap invariant says what a request can still rely  *)
(* on while no other request for its record has committed, and the lock    *)
(* invariant that a row has one exclusive holder and that a job holds what *)
(* its statements so far have locked.                                      *)
(*                                                                         *)
(* Ledger implements Books: every commit that did not write from an        *)
(* outdated snapshot is one entry, amendment or removal of a record that   *)
(* moves each equity by what the record's contribution changes.  So the    *)
(* equities are sums over the records; what a sum over a finite set does   *)
(* when one of its terms changes is proved from its recursive definition,  *)
(* by the smallest counterexample.                                         *)
(***************************************************************************)
EXTENDS Ledger, FiniteSetTheorems, TLAPS

WellFormed(rec) ==
  /\ rec \in LedgerRecord
  /\ rec.legs[1].cur \in Currencies
  /\ rec.kind \in {"cost", "income"} => rec.legs[2] = Blank
  /\ rec.kind = "exchange" => /\ rec.legs[2].cur \in Currencies
                              /\ rec.legs[1].cur # rec.legs[2].cur

\* Statements have been executed, the transaction is not committed.
Locking == {"first", "second", "commit"}

RecordsInv ==
  \A i \in Ids : records[i] # None => WellFormed(records[i]) /\ i \in issued

\* A leg of a job's adjustments names a currency unless it is not used, and
\* two legs in use name different ones.
Usable(leg)    == leg = Blank \/ leg.cur \in Currencies
Distinct(legs) == legs[2] # Blank => legs[1].cur # legs[2].cur

\* What a job says about itself.
JobShape(j) ==
  /\ j.op \in {"add", "update", "delete"}
  /\ j.id \in issued
  /\ j.op = "add" => WellFormed(j.new) /\ j.adjust = j.new.legs
  /\ j.op # "add" => WellFormed(j.snap)
  /\ j.op = "update" => /\ j.snap.kind \in {"cost", "income"}
                        /\ j.adjust = Adjustments(j.snap, j.patch)
  /\ j.op = "delete" => j.adjust = Reversed(j.snap.legs)
  /\ Usable(j.adjust[1]) /\ Usable(j.adjust[2]) /\ Distinct(j.adjust)

JobInv ==
  \A r \in Requests : /\ pc[r] \in Active => JobShape(job[r])
                      /\ pc[r] = "first" => job[r].adjust[1] # Blank
                      /\ pc[r] = "second" => job[r].adjust[2] # Blank
                      /\ pc[r] \in Closing => job[r].op = "close" /\ job[r].id \in Currencies

\* The identifier of an insert under way is nobody else's.
InsertInv ==
  \A r \in Requests : pc[r] \in Writing /\ job[r].op = "add" =>
    /\ records[job[r].id] = None
    /\ \A q \in Requests \ {r} : pc[q] \in Active => job[q].id # job[r].id

\* The record under a job's identifier, if it is there, has the kind it had.
KindInv ==
  \A r \in Requests :
    pc[r] \in Writing /\ job[r].op # "add" /\ records[job[r].id] # None =>
      records[job[r].id].kind = job[r].snap.kind

\* Currencies a foreign key check found are locked until the commit, and a
\* locked currency exists.
ForeignKeyInv ==
  \A r \in Requests :
    /\ pc[r] \in Locking /\ (job[r].op = "add" \/ records[job[r].id] # None) =>
         Referenced(job[r]) \subseteq shared[r]
    /\ \A c \in shared[r] : status[c] = "open"

\* A DELETE of a currency that has its row lock found the row, and has it alone:
\* no foreign key check refers to it any more.
ClosingInv ==
  \A r \in Requests : pc[r] = "check" =>
    /\ held[r] = {job[r].id} /\ status[job[r].id] = "open"
    /\ \A q \in Requests : job[r].id \notin shared[q]
    /\ \A q \in Requests \ {r} : pc[q] = "check" => job[q].id # job[r].id

LInv == /\ TypeOK
        /\ RecordsInv
        /\ JobInv
        /\ InsertInv
        /\ KindInv
        /\ ForeignKeyInv
        /\ ClosingInv
        /\ NoDanglingCurrency

-----------------------------------------------------------------------------
(* The record algebra.                                                     *)

LEMMA LegFacts ==
  /\ Blank \in LegSet /\ Blank.cur = None /\ Blank.by = 0
  /\ \A c, n : Leg(c, n).cur = c /\ Leg(c, n).by = n
  /\ \A c \in Currencies : \A n \in Int : Leg(c, n) \in LegSet /\ Leg(c, n) # Blank
BY NoneAssumption DEF Blank, Leg, LegSet

LEMMA ValuesAreAmounts == \A v \in Values : v \in Int /\ v >= 0 /\ v # None
<1>1. \A v \in Values : v \in Nat /\ v # None
  BY ValuesAssumption
<1> QED
  BY <1>1

LEMMA CostIsWellFormed ==
  ASSUME NEW n \in Names, NEW c \in Currencies, NEW v \in Values
  PROVE  WellFormed(Cost(n, c, v)) /\ WellFormed(Income(n, c, v))
<1>1. v \in Int /\ -v \in Int
  BY ValuesAssumption
<1>2. <<Leg(c, -v), Blank>> \in LegPairs /\ <<Leg(c, v), Blank>> \in LegPairs
  BY <1>1, LegFacts DEF LegPairs
<1> QED
  BY <1>2, LegFacts DEF Cost, Income, WellFormed, LedgerRecord

LEMMA ExchangeIsWellFormed ==
  ASSUME NEW n \in Names, NEW from \in Currencies, NEW to \in Currencies, from # to,
         NEW given \in Values, NEW received \in Values
  PROVE  WellFormed(Exchange(n, from, given, to, received))
<1>1. -given \in Int /\ received \in Int
  BY ValuesAssumption
<1>2. <<Leg(from, -given), Leg(to, received)>> \in LegPairs
  BY <1>1, LegFacts DEF LegPairs
<1> QED
  BY <1>2, LegFacts DEF Exchange, WellFormed, LedgerRecord

LEMMA WellFormedLegs ==
  ASSUME NEW rec, WellFormed(rec)
  PROVE  /\ rec \in LedgerRecord /\ rec # None /\ rec.legs \in LegPairs
         /\ rec.legs[1] \in LegSet /\ rec.legs[2] \in LegSet
         /\ rec.legs[1].by \in Int /\ rec.legs[2].by \in Int
         /\ rec.legs[1].cur \in Currencies
         /\ Usable(rec.legs[1]) /\ Usable(rec.legs[2]) /\ Distinct(rec.legs)
<1>1. rec \in LedgerRecord /\ rec # None
  BY NoneAssumption DEF WellFormed
<1>2. rec.legs \in LegPairs /\ rec.legs[1] \in LegSet /\ rec.legs[2] \in LegSet
  BY <1>1 DEF LedgerRecord, LegPairs
<1>3. rec.kind \in {"cost", "income", "exchange"}
  BY <1>1 DEF LedgerRecord
<1> QED
  BY <1>1, <1>2, <1>3 DEF WellFormed, Usable, Distinct, LegSet

\* A patch is written into a cost or an income: its one leg is replaced.
LEMMA OutcomeOfUpdate ==
  ASSUME NEW j \in JobType, j.op = "update", NEW old, WellFormed(old),
         old.kind \in {"cost", "income"}
  PROVE  LET c == IF j.patch.cur = None THEN old.legs[1].cur ELSE j.patch.cur
             b == IF j.patch.value = None THEN old.legs[1].by
                                          ELSE Signed(old.kind, j.patch.value)
         IN  /\ Outcome(j, old).legs = <<Leg(c, b), Blank>>
             /\ Outcome(j, old).kind = old.kind
             /\ c \in Currencies /\ b \in Int
             /\ WellFormed(Outcome(j, old))
<1> DEFINE c == IF j.patch.cur = None THEN old.legs[1].cur ELSE j.patch.cur
           b == IF j.patch.value = None THEN old.legs[1].by
                                        ELSE Signed(old.kind, j.patch.value)
           n == IF j.patch.name = None THEN old.name ELSE j.patch.name
<1>1. /\ old \in LedgerRecord /\ old # None /\ old.legs[2] = Blank
      /\ old.legs[1].by \in Int /\ old.legs[1].cur \in Currencies
  BY WellFormedLegs DEF WellFormed
<1>2. j.patch \in Patch
  BY DEF JobType
<1>3. c \in Currencies /\ n \in Names
  BY <1>1, <1>2 DEF Patch, LedgerRecord
<1>4. b \in Int
  <2>1. j.patch.value \in Values \cup {None}
    BY <1>2 DEF Patch
  <2>2. j.patch.value # None => j.patch.value \in Int
    BY <2>1, ValuesAreAmounts, Zenon
  <2> QED
    BY <2>2, <1>1 DEF Signed
<1>5. Outcome(j, old) = [old EXCEPT !.name = n, !.legs = <<Leg(c, b), Blank>>]
  BY <1>1 DEF Outcome, LedgerRecord
<1>6. <<Leg(c, b), Blank>> \in LegPairs
  BY <1>3, <1>4, LegFacts DEF LegPairs
<1>7. Outcome(j, old) \in LedgerRecord
  BY <1>1, <1>3, <1>5, <1>6 DEF LedgerRecord
<1>8. /\ Outcome(j, old).legs = <<Leg(c, b), Blank>>
      /\ Outcome(j, old).kind = old.kind
  BY <1>1, <1>5 DEF LedgerRecord
<1>9. WellFormed(Outcome(j, old))
  BY <1>3, <1>7, <1>8, LegFacts DEF WellFormed
<1> QED
  BY <1>3, <1>4, <1>8, <1>9

\* A commit moves every equity by what its record's contribution changes, if
\* the legs it adjusts for are those it replaces.
LEMMA CommitMoves ==
  ASSUME NEW j \in JobType, JobShape(j), NEW old, NEW c \in Currencies,
         old # None => WellFormed(old),
         j.op = "add" => old = None,
         j.op # "add" /\ old # None => old.kind = j.snap.kind,
         \/ j.op = "add"
         \/ j.adjust = NoLegs
         \/ old # None /\ old.legs = j.snap.legs
  PROVE  /\ Posted(j.adjust, c) \in Int
         /\ Effect(old, c) \in Int /\ Effect(Outcome(j, old), c) \in Int
         /\ Effect(Outcome(j, old), c) - Effect(old, c) = Posted(j.adjust, c)
<1>1. Posted(NoLegs, c) = 0
  BY LegFacts, NoneAssumption DEF Posted, NoLegs
<1>2. Effect(old, c) \in Int
  BY WellFormedLegs DEF Effect, Posted
<1>3. CASE j.op = "add"
  <2>1. WellFormed(j.new) /\ j.adjust = j.new.legs
    BY <1>3 DEF JobShape
  <2>2. Outcome(j, old) = j.new /\ j.new # None
    BY <1>3, <2>1, WellFormedLegs DEF Outcome
  <2> QED
    BY <1>3, <2>1, <2>2, WellFormedLegs DEF Effect, Posted
<1>4. CASE j.op = "delete"
  <2>1. WellFormed(j.snap) /\ j.adjust = Reversed(j.snap.legs)
    BY <1>4 DEF JobShape
  <2>2. Outcome(j, old) = None
    BY <1>4 DEF Outcome
  <2>3. j.adjust # NoLegs
    <3>1. j.adjust[1].cur = j.snap.legs[1].cur
      BY <2>1, LegFacts DEF Reversed
    <3> QED
      BY <3>1, <2>1, WellFormedLegs, LegFacts, NoneAssumption DEF NoLegs
  <2>4. old # None /\ old.legs = j.snap.legs
    BY <1>4, <2>3
  <2>5. Posted(j.adjust, c) = -Posted(j.snap.legs, c) /\ Posted(j.snap.legs, c) \in Int
    <3> DEFINE l == j.snap.legs
    <3>1. l[1].by \in Int /\ l[2].by \in Int
      BY <2>1, WellFormedLegs
    <3>2. /\ j.adjust[1].cur = l[1].cur /\ j.adjust[1].by = -l[1].by
          /\ j.adjust[2].cur = l[2].cur /\ j.adjust[2].by = -l[2].by
      BY <2>1, LegFacts DEF Reversed
    <3> HIDE DEF l
    <3>3. Posted(j.adjust, c) = -Posted(l, c) /\ Posted(l, c) \in Int
      BY <3>1, <3>2 DEF Posted
    <3> QED
      BY <3>3 DEF l
  <2> QED
    BY <2>2, <2>4, <2>5 DEF Effect
<1>5. CASE j.op = "update" /\ old = None
  <2>1. j.adjust = NoLegs
    BY <1>5
  <2>2. Outcome(j, old) = None
    BY <1>5 DEF Outcome
  <2> QED
    BY <1>1, <1>5, <2>1, <2>2 DEF Effect
<1>6. CASE j.op = "update" /\ old # None
  <2> DEFINE d == IF j.patch.cur = None THEN old.legs[1].cur ELSE j.patch.cur
             b == IF j.patch.value = None THEN old.legs[1].by
                                          ELSE Signed(old.kind, j.patch.value)
  <2>1. /\ WellFormed(j.snap) /\ WellFormed(old) /\ j.snap.kind = old.kind
        /\ old.kind \in {"cost", "income"}
        /\ j.adjust = Adjustments(j.snap, j.patch)
    BY <1>6 DEF JobShape
  <2>2. /\ Outcome(j, old).legs = <<Leg(d, b), Blank>>
        /\ WellFormed(Outcome(j, old)) /\ Outcome(j, old) # None
        /\ d \in Currencies /\ b \in Int
    BY <1>6, <2>1, OutcomeOfUpdate, WellFormedLegs
  <2>3. Effect(Outcome(j, old), c) = IF d = c THEN b ELSE 0
    BY <2>2, LegFacts, NoneAssumption DEF Effect, Posted
  <2>4. Effect(old, c) = IF old.legs[1].cur = c THEN old.legs[1].by ELSE 0
    <3>1. old.legs[2] = Blank /\ old # None
      BY <2>1, WellFormedLegs DEF WellFormed
    <3> QED
      BY <3>1, <2>1, WellFormedLegs, LegFacts, NoneAssumption DEF Effect, Posted
  <2>5. j.patch \in Patch
    BY DEF JobType
  <2>6. /\ j.snap.legs[1].cur \in Currencies /\ j.snap.legs[1].by \in Int
        /\ old.legs[1].cur \in Currencies /\ old.legs[1].by \in Int
    BY <2>1, WellFormedLegs
  <2>7. CASE j.patch.cur # None
    <3> DEFINE new == IF j.patch.value = None THEN j.snap.legs[1].by
                      ELSE Signed(j.snap.kind, j.patch.value)
    <3>1. j.adjust = <<Leg(j.snap.legs[1].cur, -j.snap.legs[1].by), Leg(j.patch.cur, new)>>
      BY <2>1, <2>7 DEF Adjustments
    <3>2. j.adjust # NoLegs
      BY <3>1, <2>6, LegFacts, NoneAssumption DEF NoLegs
    <3>3. old.legs = j.snap.legs
      BY <1>6, <3>2
    <3>4. new = b /\ d = j.patch.cur
      BY <2>1, <2>7, <3>3
    <3>5. Posted(j.adjust, c) = (IF old.legs[1].cur = c THEN -old.legs[1].by ELSE 0)
                              + (IF d = c THEN b ELSE 0)
      BY <3>1, <3>3, <3>4, LegFacts DEF Posted
    <3> QED
      BY <2>2, <2>3, <2>4, <2>6, <3>5
  <2>8. CASE j.patch.cur = None /\ j.patch.value # None
    <3> DEFINE new == Signed(j.snap.kind, j.patch.value)
    <3>1. j.adjust = <<Leg(j.snap.legs[1].cur, new - j.snap.legs[1].by), Blank>>
      BY <2>1, <2>8 DEF Adjustments
    <3>2. j.adjust # NoLegs
      BY <3>1, <2>6, LegFacts, NoneAssumption DEF NoLegs
    <3>3. old.legs = j.snap.legs
      BY <1>6, <3>2
    <3>4. new = b /\ d = old.legs[1].cur
      BY <2>1, <2>8, <3>3
    <3>5. Posted(j.adjust, c) = IF d = c THEN b - old.legs[1].by ELSE 0
      BY <2>2, <2>6, <3>1, <3>3, <3>4, LegFacts, NoneAssumption DEF Posted
    <3> QED
      BY <2>2, <2>3, <2>4, <2>6, <3>4, <3>5
  <2>9. CASE j.patch.cur = None /\ j.patch.value = None
    <3>1. j.adjust = NoLegs
      BY <2>1, <2>9 DEF Adjustments
    <3> QED
      BY <1>1, <2>2, <2>3, <2>4, <2>6, <2>9, <3>1
  <2> QED
    BY <2>7, <2>8, <2>9
<1> QED
  BY <1>3, <1>4, <1>5, <1>6 DEF JobShape

\* What a commit leaves under the identifier is again a proper record, of the
\* same kind, in currencies of the old record or of the foreign key check.
LEMMA OutcomeIsWellFormed ==
  ASSUME NEW j \in JobType, JobShape(j), NEW old,
         old # None => WellFormed(old),
         j.op # "add" /\ old # None => old.kind = j.snap.kind
  PROVE  /\ Outcome(j, old) # None =>
              /\ WellFormed(Outcome(j, old))
              /\ j.op = "add" \/ old # None
              /\ j.op # "add" => Outcome(j, old).kind = old.kind
              /\ CurrenciesOf(Outcome(j, old).legs) \subseteq
                   Referenced(j) \cup (IF j.op = "add" THEN {} ELSE CurrenciesOf(old.legs))
         /\ Outcome(j, old) \in LedgerRecord \cup {None}
<1>1. CASE j.op = "add"
  <2>1. Outcome(j, old) = j.new /\ WellFormed(j.new)
    BY <1>1 DEF Outcome, JobShape
  <2>2. Referenced(j) = CurrenciesOf(j.new.legs)
    BY <1>1 DEF Referenced
  <2> QED
    BY <1>1, <2>1, <2>2, WellFormedLegs
<1>2. CASE j.op = "delete" \/ (j.op = "update" /\ old = None)
  BY <1>2 DEF Outcome
<1>3. CASE j.op = "update" /\ old # None
  <2> DEFINE d == IF j.patch.cur = None THEN old.legs[1].cur ELSE j.patch.cur
             b == IF j.patch.value = None THEN old.legs[1].by
                                          ELSE Signed(old.kind, j.patch.value)
  <2>1. WellFormed(old) /\ old.kind \in {"cost", "income"}
    BY <1>3 DEF JobShape
  <2>2. /\ Outcome(j, old).legs = <<Leg(d, b), Blank>>
        /\ Outcome(j, old).kind = old.kind
        /\ WellFormed(Outcome(j, old)) /\ Outcome(j, old) \in LedgerRecord
    BY <1>3, <2>1, OutcomeOfUpdate, WellFormedLegs
  <2>3. CurrenciesOf(Outcome(j, old).legs) \subseteq {d}
    BY <2>2, LegFacts DEF CurrenciesOf
  <2>4. Referenced(j) = {j.patch.cur} \ {None}
    BY <1>3 DEF Referenced
  <2>5. d \in Referenced(j) \cup CurrenciesOf(old.legs)
    <3>1. old.legs[1].cur \in CurrenciesOf(old.legs)
      BY <2>1, WellFormedLegs, NoneAssumption DEF CurrenciesOf
    <3> QED
      BY <2>4, <3>1
  <2> QED
    BY <1>3, <2>2, <2>3, <2>5
<1> QED
  BY <1>1, <1>2, <1>3 DEF JobShape

\* A job built by an update of a record that was read.
LEMMA UpdateShape ==
  ASSUME NEW rec, WellFormed(rec), rec.kind \in {"cost", "income"},
         NEW p \in Patch, NEW i \in issued, issued \subseteq Ids
  PROVE  LET j == UpdateJob(i, rec, Without(p, rec))
         IN  j \in JobType /\ JobShape(j) /\ j.op = "update" /\ j.id = i /\ j.snap = rec
<1> DEFINE q == Without(p, rec)
           j == UpdateJob(i, rec, q)
<1>1. q \in Patch
  BY DEF Without, Patch
<1>2. /\ rec \in LedgerRecord /\ rec.legs[1].cur \in Currencies
      /\ rec.legs[1].by \in Int
  BY WellFormedLegs
<1>3. q.value # None => Signed(rec.kind, q.value) \in Int
  <2>1. q.value \in Values \cup {None}
    BY <1>1 DEF Patch
  <2>2. q.value # None => q.value \in Int
    BY <2>1, ValuesAreAmounts, Zenon
  <2> QED
    BY <2>2 DEF Signed
<1>4. q.cur \in Currencies \cup {None}
  BY <1>1 DEF Patch
<1>9. q.cur # rec.legs[1].cur
  BY <1>2, NoneAssumption DEF Without
<1>5. /\ Adjustments(rec, q) \in LegPairs
      /\ Usable(Adjustments(rec, q)[1]) /\ Usable(Adjustments(rec, q)[2])
      /\ Distinct(Adjustments(rec, q))
  <2>1. CASE q.cur # None
    <3> DEFINE new == IF q.value = None THEN rec.legs[1].by ELSE Signed(rec.kind, q.value)
    <3>1. /\ Adjustments(rec, q) = <<Leg(rec.legs[1].cur, -rec.legs[1].by), Leg(q.cur, new)>>
          /\ new \in Int /\ -rec.legs[1].by \in Int
      BY <1>2, <1>3, <2>1 DEF Adjustments
    <3> QED
      BY <1>2, <1>4, <1>9, <2>1, <3>1, LegFacts DEF LegPairs, Usable, Distinct
  <2>2. CASE q.cur = None /\ q.value # None
    <3>1. /\ Adjustments(rec, q) =
               <<Leg(rec.legs[1].cur, Signed(rec.kind, q.value) - rec.legs[1].by), Blank>>
          /\ Signed(rec.kind, q.value) - rec.legs[1].by \in Int
      BY <1>2, <1>3, <2>2 DEF Adjustments
    <3> QED
      BY <1>2, <3>1, LegFacts DEF LegPairs, Usable, Distinct
  <2>3. CASE q.cur = None /\ q.value = None
    BY <2>3, LegFacts DEF Adjustments, NoLegs, LegPairs, Usable, Distinct
  <2> QED
    BY <2>1, <2>2, <2>3
<1>6. j = [op |-> "update", id |-> i, snap |-> rec, new |-> None, patch |-> q,
           adjust |-> Adjustments(rec, q)]
  BY DEF UpdateJob
<1> HIDE DEF q, j
<1>7. j \in JobType
  BY <1>1, <1>2, <1>5, <1>6 DEF JobType
<1>8. JobShape(j)
  BY <1>5, <1>6 DEF JobShape
<1> QED
  BY <1>6, <1>7, <1>8 DEF j, q

\* A job built by a deletion of a record that was read.
LEMMA DeleteShape ==
  ASSUME NEW rec, WellFormed(rec), NEW i \in issued, issued \subseteq Ids
  PROVE  LET j == DeleteJob(i, rec)
         IN  j \in JobType /\ JobShape(j) /\ j.op = "delete" /\ j.id = i /\ j.snap = rec
<1> DEFINE l == rec.legs
           j == DeleteJob(i, rec)
<1>1. /\ rec \in LedgerRecord /\ l[1] \in LegSet /\ l[2] \in LegSet
      /\ l[1].by \in Int /\ l[2].by \in Int
      /\ Usable(l[1]) /\ Usable(l[2]) /\ Distinct(l)
  BY WellFormedLegs
<1>2. j = [op |-> "delete", id |-> i, snap |-> rec, new |-> None, patch |-> NoPatch,
           adjust |-> Reversed(l)]
  BY DEF DeleteJob
<1>3. NoPatch \in Patch
  BY DEF NoPatch, Patch
<1>4. \A leg \in LegSet : leg.by \in Int /\ Usable(leg) =>
        Leg(leg.cur, -leg.by) \in LegSet /\ Usable(Leg(leg.cur, -leg.by))
  <2> SUFFICES ASSUME NEW leg \in LegSet, leg.by \in Int, Usable(leg)
               PROVE  Leg(leg.cur, -leg.by) \in LegSet /\ Usable(Leg(leg.cur, -leg.by))
    OBVIOUS
  <2>1. leg = Blank => Leg(leg.cur, -leg.by) = Blank
    BY DEF Blank, Leg
  <2>2. leg.cur \in Currencies => Leg(leg.cur, -leg.by) \in LegSet
    BY LegFacts
  <2> QED
    BY <2>1, <2>2, LegFacts DEF Usable
<1>5. /\ Reversed(l) \in LegPairs
      /\ Usable(Reversed(l)[1]) /\ Usable(Reversed(l)[2]) /\ Distinct(Reversed(l))
  <2>1. l[2] = Blank => Reversed(l)[2] = Blank
    BY DEF Reversed, Blank, Leg
  <2>2. /\ Reversed(l)[1].cur = l[1].cur
        /\ Reversed(l)[2].cur = l[2].cur
    BY LegFacts DEF Reversed
  <2> QED
    BY <1>1, <1>4, <2>1, <2>2 DEF Reversed, LegPairs, Distinct
<1> HIDE DEF j, l
<1>6. j \in JobType
  BY <1>1, <1>2, <1>3, <1>5 DEF JobType
<1>7. JobShape(j)
  BY <1>2, <1>5 DEF JobShape, l
<1> QED
  BY <1>2, <1>6, <1>7 DEF j, l

\* A job built for a new record.
LEMMA AddShape ==
  ASSUME NEW rec, WellFormed(rec), NEW i \in Ids
  PROVE  LET j == AddJob(i, rec)
         IN  /\ j \in JobType /\ j.op = "add" /\ j.id = i
             /\ i \in issued' => JobShape(j)'
<1> DEFINE j == AddJob(i, rec)
<1>1. /\ rec \in LedgerRecord /\ rec.legs \in LegPairs
      /\ Usable(rec.legs[1]) /\ Usable(rec.legs[2]) /\ Distinct(rec.legs)
  BY WellFormedLegs
<1>2. j = [op |-> "add", id |-> i, snap |-> None, new |-> rec, patch |-> NoPatch,
           adjust |-> rec.legs]
  BY DEF AddJob
<1>3. NoPatch \in Patch
  BY DEF NoPatch, Patch
<1> HIDE DEF j
<1>4. j \in JobType
  BY <1>1, <1>2, <1>3 DEF JobType
<1>5. i \in issued' => JobShape(j)'
  BY <1>1, <1>2 DEF JobShape
<1> QED
  BY <1>2, <1>4, <1>5 DEF j

-----------------------------------------------------------------------------
(* The invariant is preserved by every step.                               *)

LEMMA PcFacts ==
  /\ Active = {"write", "first", "second", "commit", "reread"}
  /\ Writing = {"write", "first", "second", "commit"}
  /\ Answers = {"ok", "badrequest", "notfound", "error"}
  /\ Closing = {"close", "check"}
  /\ \A j, at : NextStatement(j, at) \in Locking
  /\ \A j, at : NextStatement(j, at) = "first" => j.adjust[1] # Blank
  /\ \A j, at : NextStatement(j, at) = "second" => j.adjust[2] # Blank
BY DEF Active, Writing, Answers, Closing, Locking, NextStatement

LEMMA NoJobType == NoJob \in JobType
<1>1. NoLegs \in LegPairs /\ NoPatch \in Patch
  BY LegFacts DEF NoLegs, LegPairs, NoPatch, Patch
<1> QED
  BY <1>1 DEF NoJob, JobType

LEMMA InvInit == Init => LInv
<1> SUFFICES ASSUME Init PROVE LInv
  OBVIOUS
<1>1. TypeOK
  BY NoJobType DEF Init, TypeOK
<1>2. RecordsInv /\ JobInv /\ InsertInv /\ KindInv /\ ForeignKeyInv /\ ClosingInv
  BY PcFacts DEF Init, RecordsInv, JobInv, InsertInv, KindInv, ForeignKeyInv, Locking,
                 ClosingInv
<1>3. NoDanglingCurrency
  BY DEF Init, NoDanglingCurrency
<1> QED
  BY <1>1, <1>2, <1>3 DEF LInv

LEMMA InvStutters == LInv /\ UNCHANGED vars => LInv'
<1> SUFFICES ASSUME LInv, UNCHANGED vars PROVE LInv'
  OBVIOUS
<1> USE DEF LInv, vars
<1>1. TypeOK'
  BY DEF TypeOK
<1>2. RecordsInv' /\ NoDanglingCurrency'
  BY DEF RecordsInv, NoDanglingCurrency
<1>3. JobInv' /\ InsertInv'
  BY DEF JobInv, InsertInv, JobShape
<1>4. KindInv' /\ ForeignKeyInv' /\ ClosingInv'
  BY DEF KindInv, ForeignKeyInv, ClosingInv
<1> QED
  BY <1>1, <1>2, <1>3, <1>4

\* A request that ends takes its job and its locks with it.  It may open a
\* currency, or close one that no record refers to and no check has locked.
LEMMA InvEnd ==
  ASSUME LInv, NEW r \in Requests, NEW a \in Answers, Answer(r, a),
         UNCHANGED <<equity, records, issued>>,
         status' \in [Currencies -> {"new", "open", "closed"}],
         \A c \in Currencies : \/ status'[c] = status[c] \/ status'[c] = "open"
                               \/ /\ ~InUse(c) /\ \A q \in Requests : c \notin shared[q]
                                  /\ \A q \in Requests \ {r} :
                                       pc[q] = "check" => job[q].id # c,
         contended' \subseteq Ids, stale' \subseteq Ids
  PROVE  LInv'
<1> USE DEF LInv, Answer
<1>0. TypeOK
  OBVIOUS
<1>1. TypeOK'
  BY <1>0, NoJobType DEF TypeOK
<1>2. RecordsInv' /\ NoDanglingCurrency'
  <2>1. RecordsInv'
    BY DEF RecordsInv
  <2>2. NoDanglingCurrency'
    <3> SUFFICES ASSUME NEW i \in Ids, records[i] # None,
                        NEW c \in CurrenciesOf(records[i].legs)
                 PROVE  status'[c] = "open"
      BY DEF NoDanglingCurrency, CurrenciesOf
    <3>1. records[i] \in LedgerRecord
      BY <1>0 DEF TypeOK
    <3>2. c \in Currencies
      BY <3>1 DEF LedgerRecord, LegPairs, LegSet, CurrenciesOf
    <3>3. InUse(c)
      BY DEF InUse, Refers
    <3> QED
      BY <3>2, <3>3 DEF NoDanglingCurrency
  <2> QED
    BY <2>1, <2>2
<1>3. pc'[r] \notin Active /\ pc'[r] \notin Closing /\ shared'[r] = {}
  BY <1>0, PcFacts DEF TypeOK
<1>4. \A q \in Requests \ {r} : /\ pc'[q] = pc[q] /\ job'[q] = job[q]
                                /\ shared'[q] = shared[q] /\ held'[q] = held[q]
  BY <1>0 DEF TypeOK
<1>5. JobInv'
  <2> SUFFICES ASSUME NEW q \in Requests
               PROVE  /\ pc'[q] \in Active => JobShape(job[q])'
                      /\ pc'[q] = "first" => job'[q].adjust[1] # Blank
                      /\ pc'[q] = "second" => job'[q].adjust[2] # Blank
                      /\ pc'[q] \in Closing => job'[q].op = "close" /\ job'[q].id \in Currencies
    BY DEF JobInv
  <2>1. CASE q = r
    BY <2>1, <1>3, PcFacts
  <2>2. CASE q # r
    BY <2>2, <1>4 DEF JobInv, JobShape
  <2> QED
    BY <2>1, <2>2
<1>6. InsertInv'
  BY <1>3, <1>4, PcFacts DEF InsertInv
<1>7. KindInv'
  BY <1>3, <1>4, PcFacts DEF KindInv
<1>8. ForeignKeyInv'
  <2> SUFFICES ASSUME NEW q \in Requests
               PROVE  /\ pc'[q] \in Locking /\ (job'[q].op = "add" \/ records[job'[q].id] # None)
                           => Referenced(job'[q]) \subseteq shared'[q]
                      /\ \A c \in shared'[q] : status'[c] = "open"
    BY DEF ForeignKeyInv, Referenced
  <2>1. CASE q = r
    BY <1>3, <2>1, PcFacts DEF Locking
  <2>2. CASE q # r
    <3>1. pc'[q] = pc[q] /\ job'[q] = job[q] /\ shared'[q] = shared[q]
      BY <1>4, <2>2
    <3>2. \A c \in shared[q] : c \in Currencies /\ status[c] = "open"
      BY <1>0 DEF ForeignKeyInv, TypeOK
    <3>3. \A c \in shared[q] : status'[c] = "open"
      BY <3>2
    <3> QED
      BY <3>1, <3>3 DEF ForeignKeyInv
  <2> QED
    BY <2>1, <2>2
<1>9. ClosingInv'
  <2> SUFFICES ASSUME NEW p \in Requests, pc'[p] = "check"
               PROVE  /\ held'[p] = {job'[p].id} /\ status'[job'[p].id] = "open"
                      /\ \A q \in Requests : job'[p].id \notin shared'[q]
                      /\ \A q \in Requests \ {p} : pc'[q] = "check" => job'[q].id # job'[p].id
    BY DEF ClosingInv
  <2>1. p # r /\ pc[p] = "check" /\ job'[p] = job[p] /\ held'[p] = held[p]
    BY <1>3, <1>4, PcFacts
  <2>2. job[p].id \in Currencies
    BY <2>1, PcFacts DEF JobInv
  <2>3. /\ held[p] = {job[p].id} /\ status[job[p].id] = "open"
        /\ \A q \in Requests : job[p].id \notin shared[q]
        /\ \A q \in Requests \ {p} : pc[q] = "check" => job[q].id # job[p].id
    BY <2>1 DEF ClosingInv
  <2>4. status'[job[p].id] = "open"
    BY <2>1, <2>2, <2>3
  <2> QED
    BY <1>3, <1>4, <2>1, <2>3, <2>4, PcFacts
<1> QED
  BY <1>1, <1>2, <1>5, <1>6, <1>7, <1>8, <1>9

\* A request that is answered and leaves the database alone.
LEMMA InvAnswer ==
  ASSUME LInv, NEW r \in Requests, NEW a \in Answers, Answer(r, a),
         UNCHANGED database, contended' \subseteq Ids, stale' \subseteq Ids
  PROVE  LInv'
<1>1. UNCHANGED <<equity, records, issued>> /\ status' = status
  BY DEF database
<1>2. status' \in [Currencies -> {"new", "open", "closed"}]
  BY <1>1 DEF LInv, TypeOK
<1> QED
  BY <1>1, <1>2, InvEnd

\* A statement that does not end the transaction adds locks only.
LEMMA InvStatement ==
  ASSUME LInv, NEW r \in Requests, pc[r] \in {"write", "first", "second"},
         pc' = [pc EXCEPT ![r] = NextStatement(job[r], pc[r])],
         NEW H \in SUBSET (Ids \cup Currencies), held' = [held EXCEPT ![r] = H],
         NEW S \in SUBSET Currencies, shared' = [shared EXCEPT ![r] = S],
         shared[r] \subseteq S, \A c \in S : status[c] = "open" /\ ~BeingClosed(c),
         pc[r] = "write" /\ (job[r].op = "add" \/ records[job[r].id] # None)
           => Referenced(job[r]) \subseteq S,
         UNCHANGED <<database, job, history>>
  PROVE  LInv'
<1> USE DEF LInv, database, history
<1>0. TypeOK
  OBVIOUS
<1>1. TypeOK'
  BY <1>0, PcFacts DEF TypeOK, Locking
<1>2. RecordsInv' /\ NoDanglingCurrency'
  BY DEF RecordsInv, NoDanglingCurrency
<1>3. pc'[r] \in Locking /\ pc[r] \in Active /\ pc[r] \in Writing /\ shared'[r] = S
  BY <1>0, PcFacts DEF TypeOK
<1>4. \A q \in Requests : q # r => /\ pc'[q] = pc[q] /\ shared'[q] = shared[q]
                                  /\ held'[q] = held[q]
  BY <1>0 DEF TypeOK
<1>5. JobInv'
  <2> SUFFICES ASSUME NEW q \in Requests
               PROVE  /\ pc'[q] \in Active => JobShape(job[q])'
                      /\ pc'[q] = "first" => job'[q].adjust[1] # Blank
                      /\ pc'[q] = "second" => job'[q].adjust[2] # Blank
                      /\ pc'[q] \in Closing => job'[q].op = "close" /\ job'[q].id \in Currencies
    BY DEF JobInv
  <2>1. JobShape(job[q])' <=> JobShape(job[q])
    BY DEF JobShape
  <2>2. CASE q = r
    <3>1. pc'[r] = NextStatement(job[r], pc[r])
      BY <1>0 DEF TypeOK
    <3>2. JobShape(job[r])
      BY <1>3 DEF JobInv
    <3>3. pc'[r] \notin Closing
      BY <1>3, PcFacts DEF Locking
    <3> QED
      BY <2>1, <2>2, <3>1, <3>2, <3>3, PcFacts
  <2>3. CASE q # r
    BY <2>1, <2>3, <1>4 DEF JobInv
  <2> QED
    BY <2>2, <2>3
<1>6. InsertInv' /\ KindInv'
  <2>1. \A q \in Requests : /\ pc'[q] \in Writing => pc[q] \in Writing
                            /\ pc'[q] \in Active => pc[q] \in Active
    BY <1>3, <1>4
  <2>2. records' = records /\ job' = job
    OBVIOUS
  <2>3. InsertInv'
    <3> SUFFICES ASSUME NEW p \in Requests, pc'[p] \in Writing, job[p].op = "add"
                 PROVE  /\ records[job[p].id] = None
                        /\ \A q \in Requests \ {p} :
                             pc'[q] \in Active => job[q].id # job[p].id
      BY <2>2 DEF InsertInv
    <3>1. pc[p] \in Writing
      BY <2>1
    <3> QED
      BY <2>1, <3>1 DEF InsertInv
  <2>4. KindInv'
    <3> SUFFICES ASSUME NEW p \in Requests, pc'[p] \in Writing, job[p].op # "add",
                        records[job[p].id] # None
                 PROVE  records[job[p].id].kind = job[p].snap.kind
      BY <2>2 DEF KindInv
    <3>1. pc[p] \in Writing
      BY <2>1
    <3> QED
      BY <3>1 DEF KindInv
  <2> QED
    BY <2>3, <2>4
<1>7. ForeignKeyInv'
  <2> SUFFICES ASSUME NEW q \in Requests
               PROVE  /\ pc'[q] \in Locking /\ (job[q].op = "add" \/ records[job[q].id] # None)
                           => Referenced(job[q]) \subseteq shared'[q]
                      /\ \A c \in shared'[q] : status[c] = "open"
    BY DEF ForeignKeyInv, Referenced
  <2>1. CASE q = r
    <3>1. pc[r] # "write" => pc[r] \in Locking
      BY DEF Locking
    <3> QED
      BY <1>3, <2>1, <3>1 DEF ForeignKeyInv
  <2>2. CASE q # r
    BY <1>4, <2>2 DEF ForeignKeyInv
  <2> QED
    BY <2>1, <2>2
<1>8. ClosingInv'
  <2> SUFFICES ASSUME NEW p \in Requests, pc'[p] = "check"
               PROVE  /\ held'[p] = {job[p].id} /\ status[job[p].id] = "open"
                      /\ \A q \in Requests : job[p].id \notin shared'[q]
                      /\ \A q \in Requests \ {p} : pc'[q] = "check" => job[q].id # job[p].id
    BY DEF ClosingInv
  <2>1. p # r /\ pc[p] = "check" /\ \A q \in Requests : pc'[q] = "check" => pc[q] = "check"
    BY <1>3, <1>4 DEF Locking
  <2>2. job[p].id \notin S
    BY <2>1 DEF BeingClosed
  <2> QED
    BY <1>3, <1>4, <2>1, <2>2 DEF ClosingInv
<1> QED
  BY <1>1, <1>2, <1>5, <1>6, <1>7, <1>8

\* A request takes up a job of its own under a fresh identifier, or a job on a
\* record that it has just read.
LEMMA InvBegin ==
  ASSUME LInv, NEW r \in Requests, pc[r] = "idle",
         NEW j \in JobType, Begin(r, j), JobShape(j)',
         issued \subseteq issued', issued' \subseteq Ids,
         \/ j.op = "add" /\ j.id \in Ids \ issued
         \/ /\ j.op # "add" /\ j.id \in Ids /\ records[j.id] # None
            /\ records[j.id].kind = j.snap.kind,
         UNCHANGED <<status, equity, records, stale>>, contended' \subseteq Ids
  PROVE  LInv'
<1> USE DEF LInv, Begin
<1>0. TypeOK /\ RecordsInv /\ JobInv /\ InsertInv /\ KindInv /\ ForeignKeyInv
        /\ ClosingInv
  OBVIOUS
<1>1. TypeOK'
  BY <1>0, PcFacts DEF TypeOK
<1>2. RecordsInv' /\ NoDanglingCurrency'
  BY <1>0 DEF RecordsInv, NoDanglingCurrency
<1>3. pc'[r] = "write" /\ job'[r] = j
  BY <1>0 DEF TypeOK
<1>4. \A q \in Requests : q # r => pc'[q] = pc[q] /\ job'[q] = job[q]
  BY <1>0 DEF TypeOK
<1>5. JobInv'
  <2> SUFFICES ASSUME NEW q \in Requests
               PROVE  /\ pc'[q] \in Active => JobShape(job[q])'
                      /\ pc'[q] = "first" => job'[q].adjust[1] # Blank
                      /\ pc'[q] = "second" => job'[q].adjust[2] # Blank
                      /\ pc'[q] \in Closing => job'[q].op = "close" /\ job'[q].id \in Currencies
    BY DEF JobInv
  <2>1. CASE q = r
    BY <2>1, <1>3, PcFacts DEF JobShape
  <2>2. CASE q # r
    <3>1. pc[q] \in Active => JobShape(job[q])
      BY <1>0 DEF JobInv
    <3>2. pc[q] \in Active => JobShape(job[q])'
      BY <1>4, <2>2, <3>1 DEF JobShape
    <3> QED
      BY <1>0, <1>4, <2>2, <3>2 DEF JobInv
  <2> QED
    BY <2>1, <2>2
<1>6. \A q \in Requests : q # r /\ pc[q] \in Active => job[q].id \in issued
  BY <1>0 DEF JobInv, JobShape
<1>7. InsertInv'
  <2> SUFFICES ASSUME NEW p \in Requests, pc'[p] \in Writing, job'[p].op = "add"
               PROVE  /\ records[job'[p].id] = None
                      /\ \A q \in Requests \ {p} :
                           pc'[q] \in Active => job'[q].id # job'[p].id
    BY DEF InsertInv
  <2>1. CASE p = r
    <3>1. j.op = "add" /\ j.id \in Ids \ issued
      BY <2>1, <1>3
    <3>2. records[j.id] = None
      BY <1>0, <3>1 DEF RecordsInv
    <3> QED
      BY <1>3, <1>4, <1>6, <2>1, <3>1, <3>2
  <2>2. CASE p # r
    <3>1. pc[p] \in Writing /\ pc[p] \in Active /\ job[p].op = "add" /\ job'[p] = job[p]
      BY <1>4, <2>2, PcFacts
    <3>2. /\ records[job[p].id] = None
          /\ \A q \in Requests \ {p} : pc[q] \in Active => job[q].id # job[p].id
      BY <1>0, <3>1 DEF InsertInv
    <3>3. j.id # job[p].id
      BY <1>6, <2>2, <3>1, <3>2
    <3> QED
      BY <1>3, <1>4, <3>1, <3>2, <3>3
  <2> QED
    BY <2>1, <2>2
<1>8. KindInv'
  <2> SUFFICES ASSUME NEW p \in Requests, pc'[p] \in Writing, job'[p].op # "add",
                      records[job'[p].id] # None
               PROVE  records[job'[p].id].kind = job'[p].snap.kind
    BY DEF KindInv
  <2> QED
    BY <1>0, <1>3, <1>4 DEF KindInv
<1>9. ForeignKeyInv'
  <2> SUFFICES ASSUME NEW q \in Requests
               PROVE  /\ pc'[q] \in Locking /\ (job'[q].op = "add" \/ records[job'[q].id] # None)
                           => Referenced(job'[q]) \subseteq shared[q]
                      /\ \A c \in shared[q] : status[c] = "open"
    BY DEF ForeignKeyInv, Referenced
  <2> QED
    BY <1>0, <1>3, <1>4 DEF ForeignKeyInv, Locking
<1>10. ClosingInv'
  BY <1>0, <1>3, <1>4 DEF ClosingInv
<1> QED
  BY <1>1, <1>2, <1>5, <1>7, <1>8, <1>9, <1>10

\* A commit replaces the record under the job's identifier and moves equities.
LEMMA InvCommit ==
  ASSUME LInv, NEW r \in Requests, Commit(r)
  PROVE  LInv'
<1> DEFINE j == job[r]
           old == records[j.id]
           new == Outcome(j, old)
<1>0. TypeOK /\ RecordsInv /\ JobInv /\ InsertInv /\ KindInv /\ ForeignKeyInv
        /\ ClosingInv /\ NoDanglingCurrency
  BY DEF LInv
<1>1. pc[r] = "commit" /\ pc[r] \in Active /\ pc[r] \in Writing /\ pc[r] \in Locking
  BY PcFacts DEF Commit, Locking
<1>2. JobShape(j) /\ j \in JobType /\ j.id \in Ids /\ j.id \in issued
  <2>1. JobShape(j)
    BY <1>0, <1>1 DEF JobInv
  <2> QED
    BY <1>0, <2>1 DEF TypeOK, JobShape
<1>3. old # None => WellFormed(old)
  BY <1>0, <1>2 DEF RecordsInv
<1>4. /\ j.op = "add" => old = None
      /\ j.op # "add" /\ old # None => old.kind = j.snap.kind
  BY <1>0, <1>1 DEF InsertInv, KindInv
<1>5. /\ new # None => /\ WellFormed(new)
                       /\ j.op = "add" \/ old # None
                       /\ j.op # "add" => new.kind = old.kind
                       /\ CurrenciesOf(new.legs) \subseteq
                            Referenced(j) \cup
                              (IF j.op = "add" THEN {} ELSE CurrenciesOf(old.legs))
      /\ new \in LedgerRecord \cup {None}
  BY <1>2, <1>3, <1>4, OutcomeIsWellFormed
<1>6. /\ records' = [records EXCEPT ![j.id] = new]
      /\ UNCHANGED <<status, issued, contended>>
      /\ stale' \subseteq Ids
      /\ \/ Answer(r, "ok")
         \/ /\ pc'     = [pc EXCEPT ![r] = "reread"]
            /\ held'   = [held EXCEPT ![r] = {}]
            /\ shared' = [shared EXCEPT ![r] = {}]
            /\ UNCHANGED job
  BY <1>0, <1>2 DEF Commit, TypeOK
<1> HIDE DEF new
<1>7. records'[j.id] = new /\ \A i \in Ids : i # j.id => records'[i] = records[i]
  BY <1>0, <1>2, <1>6 DEF TypeOK
<1>8. /\ pc'[r] \in {"ok", "reread"} /\ shared'[r] = {}
      /\ pc'[r] = "reread" => job'[r] = job[r]
      /\ \A q \in Requests : q # r => /\ pc'[q] = pc[q] /\ job'[q] = job[q]
                                      /\ shared'[q] = shared[q] /\ held'[q] = held[q]
  BY <1>0, <1>6 DEF TypeOK, Answer
<1>9. TypeOK'
  <2>1. equity' \in [Currencies -> Int]
    <3>1. \A c \in Currencies : Posted(j.adjust, c) \in Int
      <4>1. j.adjust \in LegPairs
        BY <1>2 DEF JobType
      <4>2. j.adjust[1].by \in Int /\ j.adjust[2].by \in Int
        BY <4>1 DEF LegPairs, LegSet
      <4> QED
        BY <4>2 DEF Posted
    <3>2. equity' = [c \in Currencies |-> IF c \in held[r]
                                          THEN equity[c] + Posted(j.adjust, c) ELSE equity[c]]
      BY DEF Commit
    <3> QED
      BY <1>0, <3>1, <3>2 DEF TypeOK
  <2>2. records' \in [Ids -> LedgerRecord \cup {None}]
    BY <1>0, <1>5, <1>6 DEF TypeOK
  <2>3. /\ pc' \in [Requests -> {"idle"} \cup Active \cup Closing \cup Answers]
        /\ job' \in [Requests -> JobType]
        /\ held' \in [Requests -> SUBSET (Ids \cup Currencies)]
        /\ shared' \in [Requests -> SUBSET Currencies]
    BY <1>0, <1>6, PcFacts, NoJobType DEF TypeOK, Answer
  <2> QED
    BY <1>0, <1>6, <2>1, <2>2, <2>3 DEF TypeOK
<1>10. RecordsInv'
  BY <1>0, <1>2, <1>5, <1>6, <1>7 DEF RecordsInv
<1>11. JobInv'
  <2> SUFFICES ASSUME NEW q \in Requests
               PROVE  /\ pc'[q] \in Active => JobShape(job[q])'
                      /\ pc'[q] = "first" => job'[q].adjust[1] # Blank
                      /\ pc'[q] = "second" => job'[q].adjust[2] # Blank
                      /\ pc'[q] \in Closing => job'[q].op = "close" /\ job'[q].id \in Currencies
    BY DEF JobInv
  <2>1. CASE q = r
    <3>1. pc'[r] = "reread" => JobShape(job[r])'
      BY <1>2, <1>6, <1>8 DEF JobShape
    <3> QED
      BY <1>8, <2>1, <3>1, PcFacts
  <2>2. CASE q # r
    <3>1. pc[q] \in Active => JobShape(job[q])
      BY <1>0 DEF JobInv
    <3>2. pc[q] \in Active => JobShape(job[q])'
      BY <1>6, <1>8, <2>2, <3>1 DEF JobShape
    <3> QED
      BY <1>0, <1>8, <2>2, <3>2 DEF JobInv
  <2> QED
    BY <2>1, <2>2
<1>12. \A q \in Requests : pc'[q] \in Writing => q # r /\ pc[q] \in Writing /\ pc[q] \in Active
  BY <1>8, PcFacts
<1>13. \A q \in Requests : pc'[q] \in Active => pc[q] \in Active /\ job'[q] = job[q]
  BY <1>1, <1>8, PcFacts
<1>14. InsertInv'
  <2> SUFFICES ASSUME NEW p \in Requests, pc'[p] \in Writing, job'[p].op = "add"
               PROVE  /\ records'[job'[p].id] = None
                      /\ \A q \in Requests \ {p} :
                           pc'[q] \in Active => job'[q].id # job'[p].id
    BY DEF InsertInv
  <2>1. /\ p # r /\ pc[p] \in Writing /\ pc[p] \in Active
        /\ job'[p] = job[p] /\ job[p].op = "add"
    BY <1>8, <1>12
  <2>2. /\ records[job[p].id] = None
        /\ \A q \in Requests \ {p} : pc[q] \in Active => job[q].id # job[p].id
    BY <1>0, <2>1 DEF InsertInv
  <2>3. job[p].id # j.id /\ job[p].id \in Ids
    <3>1. JobShape(job[p])
      BY <1>0, <2>1 DEF JobInv
    <3> QED
      BY <1>0, <1>1, <2>1, <2>2, <3>1 DEF JobShape, TypeOK
  <2> QED
    BY <1>7, <1>13, <2>1, <2>2, <2>3
<1>15. KindInv'
  <2> SUFFICES ASSUME NEW p \in Requests, pc'[p] \in Writing, job'[p].op # "add",
                      records'[job'[p].id] # None
               PROVE  records'[job'[p].id].kind = job'[p].snap.kind
    BY DEF KindInv
  <2>1. /\ p # r /\ pc[p] \in Writing /\ pc[p] \in Active
        /\ job'[p] = job[p] /\ job[p].op # "add"
    BY <1>8, <1>12
  <2>2. job[p].id \in Ids
    <3>1. JobShape(job[p])
      BY <1>0, <2>1 DEF JobInv
    <3> QED
      BY <1>0, <3>1 DEF JobShape, TypeOK
  <2>3. CASE job[p].id # j.id
    BY <1>0, <1>7, <2>1, <2>2, <2>3 DEF KindInv
  <2>4. CASE job[p].id = j.id
    <3>1. j.op # "add"
      BY <1>0, <1>1, <2>1, <2>4 DEF InsertInv
    <3>2. new # None /\ old # None /\ new.kind = old.kind
      BY <1>5, <1>7, <2>1, <2>4, <3>1
    <3>3. old.kind = job[p].snap.kind
      BY <1>0, <2>1, <2>4, <3>2 DEF KindInv
    <3> QED
      BY <1>7, <2>1, <2>4, <3>2, <3>3
  <2> QED
    BY <2>3, <2>4
<1>16. ForeignKeyInv'
  <2> SUFFICES ASSUME NEW q \in Requests
               PROVE  /\ pc'[q] \in Locking /\ (job'[q].op = "add" \/ records'[job'[q].id] # None)
                           => Referenced(job'[q]) \subseteq shared'[q]
                      /\ \A c \in shared'[q] : status[c] = "open"
    BY <1>6 DEF ForeignKeyInv, Referenced
  <2>1. CASE q = r
    BY <1>8, <2>1 DEF Locking
  <2>2. CASE q # r
    <3>1. pc'[q] = pc[q] /\ job'[q] = job[q] /\ shared'[q] = shared[q]
      BY <1>8, <2>2
    <3>2. ASSUME pc[q] \in Locking, records'[job[q].id] # None, job[q].op # "add"
          PROVE  records[job[q].id] # None
      <4>1. pc[q] \in Writing /\ pc[q] \in Active
        BY <3>2, PcFacts DEF Locking
      <4>2. job[q].id \in Ids
        <5>1. JobShape(job[q])
          BY <1>0, <4>1 DEF JobInv
        <5> QED
          BY <1>0, <5>1 DEF JobShape, TypeOK
      <4>3. CASE job[q].id # j.id
        BY <1>7, <3>2, <4>2, <4>3
      <4>4. CASE job[q].id = j.id
        <5>1. j.op # "add"
          BY <1>0, <1>1, <2>2, <4>1, <4>4 DEF InsertInv
        <5> QED
          BY <1>5, <1>7, <3>2, <4>4, <5>1
      <4> QED
        BY <4>3, <4>4
    <3> QED
      BY <1>0, <3>1, <3>2 DEF ForeignKeyInv
  <2> QED
    BY <2>1, <2>2
<1>17. NoDanglingCurrency'
  <2> SUFFICES ASSUME NEW i \in Ids, records'[i] # None, NEW c \in CurrenciesOf(records'[i].legs)
               PROVE  status[c] = "open"
    BY <1>6 DEF NoDanglingCurrency, CurrenciesOf
  <2>1. CASE i # j.id
    BY <1>0, <1>7, <2>1 DEF NoDanglingCurrency
  <2>2. CASE i = j.id
    <3>1. new # None /\ c \in CurrenciesOf(new.legs)
      BY <1>7, <2>2
    <3>2. CASE c \in Referenced(j)
      <4>1. j.op = "add" \/ old # None
        BY <1>5, <3>1
      <4> QED
        BY <1>0, <1>1, <3>2, <4>1 DEF ForeignKeyInv
    <3>3. CASE c \notin Referenced(j)
      <4>1. j.op # "add" /\ old # None /\ c \in CurrenciesOf(old.legs)
        BY <1>5, <3>1, <3>3
      <4> QED
        BY <1>0, <1>2, <4>1 DEF NoDanglingCurrency
    <3> QED
      BY <3>2, <3>3
  <2> QED
    BY <2>1, <2>2
<1>18. ClosingInv'
  BY <1>0, <1>6, <1>8 DEF ClosingInv
<1> QED
  BY <1>9, <1>10, <1>11, <1>14, <1>15, <1>16, <1>17, <1>18 DEF LInv

\* The check that a currency is not in use found none.
LEMMA InvClose ==
  ASSUME LInv, NEW r \in Requests, pc[r] = "idle", NEW c \in Currencies,
         pc' = [pc EXCEPT ![r] = "close"], job' = [job EXCEPT ![r] = CloseJob(c)],
         UNCHANGED <<held, shared>>, UNCHANGED <<database, history>>
  PROVE  LInv'
<1> USE DEF LInv, database, history
<1>0. TypeOK /\ RecordsInv /\ JobInv /\ InsertInv /\ KindInv /\ ForeignKeyInv
        /\ ClosingInv /\ NoDanglingCurrency
  OBVIOUS
<1>1. CloseJob(c) \in JobType /\ CloseJob(c).id = c /\ CloseJob(c).op = "close"
  <2>1. NoLegs \in LegPairs /\ NoPatch \in Patch
    BY LegFacts DEF NoLegs, LegPairs, NoPatch, Patch
  <2> QED
    BY <2>1 DEF CloseJob, JobType
<1>2. TypeOK'
  BY <1>0, <1>1, PcFacts DEF TypeOK
<1>3. RecordsInv' /\ NoDanglingCurrency'
  BY <1>0 DEF RecordsInv, NoDanglingCurrency
<1>4. /\ pc'[r] = "close" /\ pc'[r] \notin Active
      /\ job'[r].id = c /\ job'[r].op = "close"
      /\ \A q \in Requests : q # r => pc'[q] = pc[q] /\ job'[q] = job[q]
  BY <1>0, <1>1, PcFacts DEF TypeOK
<1>5. JobInv'
  <2> SUFFICES ASSUME NEW q \in Requests
               PROVE  /\ pc'[q] \in Active => JobShape(job[q])'
                      /\ pc'[q] = "first" => job'[q].adjust[1] # Blank
                      /\ pc'[q] = "second" => job'[q].adjust[2] # Blank
                      /\ pc'[q] \in Closing => job'[q].op = "close" /\ job'[q].id \in Currencies
    BY DEF JobInv
  <2>1. CASE q = r
    BY <2>1, <1>4
  <2>2. CASE q # r
    BY <1>0, <2>2, <1>4 DEF JobInv, JobShape
  <2> QED
    BY <2>1, <2>2
<1>6. InsertInv'
  BY <1>0, <1>4, PcFacts DEF InsertInv
<1>7. KindInv'
  BY <1>0, <1>4, PcFacts DEF KindInv
<1>8. ForeignKeyInv'
  <2> SUFFICES ASSUME NEW q \in Requests
               PROVE  /\ pc'[q] \in Locking /\ (job'[q].op = "add" \/ records[job'[q].id] # None)
                           => Referenced(job'[q]) \subseteq shared[q]
                      /\ \A d \in shared[q] : status[d] = "open"
    BY DEF ForeignKeyInv, Referenced
  <2> QED
    BY <1>0, <1>4 DEF ForeignKeyInv, Locking
<1>9. ClosingInv'
  BY <1>0, <1>4 DEF ClosingInv
<1> QED
  BY <1>2, <1>3, <1>5, <1>6, <1>7, <1>8, <1>9

\* The DELETE takes the lock of a row that is there and that nobody has locked.
LEMMA InvLock ==
  ASSUME LInv, NEW r \in Requests, pc[r] = "close", status[job[r].id] = "open",
         \A q \in Requests : job[r].id \notin held[q] \cup shared[q],
         pc' = [pc EXCEPT ![r] = "check"], held' = [held EXCEPT ![r] = {job[r].id}],
         UNCHANGED <<job, shared>>, UNCHANGED <<database, history>>
  PROVE  LInv'
<1> USE DEF LInv, database, history
<1>0. TypeOK /\ RecordsInv /\ JobInv /\ InsertInv /\ KindInv /\ ForeignKeyInv
        /\ ClosingInv /\ NoDanglingCurrency
  OBVIOUS
<1>1. job[r].id \in Currencies /\ job[r].op = "close"
  BY <1>0, PcFacts DEF JobInv
<1>2. TypeOK'
  BY <1>0, <1>1, PcFacts DEF TypeOK
<1>3. RecordsInv' /\ NoDanglingCurrency'
  BY <1>0 DEF RecordsInv, NoDanglingCurrency
<1>4. /\ pc'[r] = "check" /\ pc'[r] \notin Active /\ held'[r] = {job[r].id}
      /\ \A q \in Requests : q # r => pc'[q] = pc[q] /\ held'[q] = held[q]
  BY <1>0, PcFacts DEF TypeOK
<1>5. JobInv'
  <2> SUFFICES ASSUME NEW q \in Requests
               PROVE  /\ pc'[q] \in Active => JobShape(job[q])'
                      /\ pc'[q] = "first" => job[q].adjust[1] # Blank
                      /\ pc'[q] = "second" => job[q].adjust[2] # Blank
                      /\ pc'[q] \in Closing => job[q].op = "close" /\ job[q].id \in Currencies
    BY DEF JobInv
  <2>1. CASE q = r
    BY <2>1, <1>1, <1>4
  <2>2. CASE q # r
    BY <1>0, <2>2, <1>4 DEF JobInv, JobShape
  <2> QED
    BY <2>1, <2>2
<1>6. InsertInv' /\ KindInv'
  BY <1>0, <1>4, PcFacts DEF InsertInv, KindInv
<1>7. ForeignKeyInv'
  BY <1>0, <1>4 DEF ForeignKeyInv, Locking, Referenced
<1>8. ClosingInv'
  BY <1>0, <1>4 DEF ClosingInv
<1> QED
  BY <1>2, <1>3, <1>5, <1>6, <1>7, <1>8

LEMMA InvAdd ==
  ASSUME LInv, NEW r \in Requests, NEW rec, WellFormed(rec),
         pc[r] = "idle", Add(r, rec)
  PROVE  LInv'
<1>1. PICK i \in Ids \ issued : issued' = issued \cup {i} /\ Begin(r, AddJob(i, rec))
  BY DEF Add
<1>2. /\ pc[r] = "idle" /\ UNCHANGED <<status, equity, records, stale>>
      /\ contended' = contended
  BY DEF Add, history
<1>3. issued \subseteq Ids /\ contended \subseteq Ids
  BY DEF LInv, TypeOK
<1>4. /\ AddJob(i, rec) \in JobType /\ AddJob(i, rec).op = "add"
      /\ AddJob(i, rec).id = i /\ JobShape(AddJob(i, rec))'
  BY <1>1, AddShape
<1> QED
  BY <1>1, <1>2, <1>3, <1>4, InvBegin

LEMMA NoteAdds == ASSUME NEW i \in Ids, contended \subseteq Ids, Note(i)
                  PROVE  contended' \subseteq Ids
BY DEF Note

LEMMA InvUpdate ==
  ASSUME LInv, NEW r \in Requests, NEW i \in Ids, NEW kind \in {"cost", "income"},
         NEW p \in Patch, Update(r, i, kind, p)
  PROVE  LInv'
<1> DEFINE rec == records[i]
<1>1. /\ pc[r] = "idle" /\ UNCHANGED database /\ stale' = stale
      /\ stale' \subseteq Ids /\ contended \subseteq Ids
  BY DEF Update, LInv, TypeOK
<1>2. CASE Answer(r, "notfound") /\ UNCHANGED contended
  BY <1>1, <1>2, InvAnswer, PcFacts
<1>3. CASE Answer(r, "badrequest") /\ UNCHANGED contended
  BY <1>1, <1>3, InvAnswer, PcFacts
<1>4. CASE ~Missing(i, kind) /\ Begin(r, UpdateJob(i, rec, Without(p, rec))) /\ Note(i)
  <2>1. /\ rec # None /\ rec.kind = kind /\ WellFormed(rec) /\ i \in issued
        /\ issued \subseteq Ids
    BY <1>4 DEF Missing, LInv, RecordsInv, TypeOK
  <2>2. PICK j \in JobType : /\ j = UpdateJob(i, rec, Without(p, rec))
                             /\ JobShape(j) /\ j.op = "update"
                             /\ j.id = i /\ j.snap = rec
    BY <2>1, UpdateShape
  <2>3. JobShape(j)'
    BY <1>1, <2>2 DEF JobShape, database
  <2>4. contended' \subseteq Ids
    BY <1>1, <1>4, NoteAdds
  <2>5. UNCHANGED <<status, equity, records, stale>> /\ issued' = issued
    BY <1>1 DEF database
  <2> QED
    BY <1>1, <1>4, <2>1, <2>2, <2>3, <2>4, <2>5, InvBegin
<1> QED
  BY <1>2, <1>3, <1>4 DEF Update

LEMMA InvDelete ==
  ASSUME LInv, NEW r \in Requests, NEW i \in Ids, NEW kind, Delete(r, i, kind)
  PROVE  LInv'
<1> DEFINE rec == records[i]
<1>1. /\ pc[r] = "idle" /\ UNCHANGED database /\ stale' = stale
      /\ stale' \subseteq Ids /\ contended \subseteq Ids
  BY DEF Delete, LInv, TypeOK
<1>2. CASE Answer(r, "notfound") /\ UNCHANGED contended
  BY <1>1, <1>2, InvAnswer, PcFacts
<1>3. CASE ~Missing(i, kind) /\ Begin(r, DeleteJob(i, rec)) /\ Note(i)
  <2>1. rec # None /\ WellFormed(rec) /\ i \in issued /\ issued \subseteq Ids
    BY <1>3 DEF Missing, LInv, RecordsInv, TypeOK
  <2>2. PICK j \in JobType : /\ j = DeleteJob(i, rec)
                             /\ JobShape(j) /\ j.op = "delete"
                             /\ j.id = i /\ j.snap = rec
    BY <2>1, DeleteShape
  <2>3. JobShape(j)'
    BY <1>1, <2>2 DEF JobShape, database
  <2>4. contended' \subseteq Ids
    BY <1>1, <1>3, NoteAdds
  <2>5. UNCHANGED <<status, equity, records, stale>> /\ issued' = issued
    BY <1>1 DEF database
  <2> QED
    BY <1>1, <1>3, <2>1, <2>2, <2>3, <2>4, <2>5, InvBegin
<1> QED
  BY <1>2, <1>3 DEF Delete

LEMMA InvArrive == ASSUME LInv, NEW r \in Requests, Arrive(r) PROVE LInv'
<1>0. TypeOK
  BY DEF LInv
<1>1. CASE AddCost(r) \/ AddIncome(r)
  BY <1>1, CostIsWellFormed, InvAdd DEF AddCost, AddIncome
<1>2. CASE CurrencyExchange(r)
  BY <1>2, ExchangeIsWellFormed, InvAdd DEF CurrencyExchange
<1>3. CASE UpdateCost(r)
  BY <1>3, InvUpdate DEF UpdateCost
<1>4. CASE UpdateIncome(r)
  BY <1>4, InvUpdate DEF UpdateIncome
<1>5. CASE DeleteCost(r) \/ DeleteIncome(r) \/ DeleteCurrencyExchange(r)
  BY <1>5, InvDelete DEF DeleteCost, DeleteIncome, DeleteCurrencyExchange
<1>6. CASE OpenCurrency(r)
  <2>1. PICK c \in Currencies : /\ status' = [status EXCEPT ![c] = "open"]
                                /\ Answer(r, "ok")
                                /\ UNCHANGED <<equity, records, issued, history>>
    BY <1>6 DEF OpenCurrency
  <2>2. status' \in [Currencies -> {"new", "open", "closed"}]
    BY <1>0, <2>1 DEF TypeOK
  <2>3. \A d \in Currencies : status'[d] = status[d] \/ status'[d] = "open"
    BY <1>0, <2>1 DEF TypeOK
  <2>4. /\ UNCHANGED <<equity, records, issued>>
        /\ contended' \subseteq Ids /\ stale' \subseteq Ids
    BY <1>0, <2>1 DEF TypeOK, history
  <2> QED
    BY <2>1, <2>2, <2>3, <2>4, InvEnd, PcFacts
<1>7. CASE CloseCurrency(r)
  <2>1. PICK c \in Currencies :
          /\ pc[r] = "idle"
          /\ \/ Answer(r, "badrequest")
             \/ /\ pc'  = [pc EXCEPT ![r] = "close"]
                /\ job' = [job EXCEPT ![r] = CloseJob(c)]
                /\ UNCHANGED <<held, shared>>
          /\ UNCHANGED <<database, history>>
    BY <1>7 DEF CloseCurrency
  <2>2. CASE Answer(r, "badrequest")
    <3>1. UNCHANGED database /\ contended' \subseteq Ids /\ stale' \subseteq Ids
      BY <1>0, <2>1 DEF TypeOK, history
    <3> QED
      BY <2>2, <3>1, InvAnswer, PcFacts
  <2> QED
    BY <2>1, <2>2, InvClose
<1> QED
  BY <1>1, <1>2, <1>3, <1>4, <1>5, <1>6, <1>7 DEF Arrive

LEMMA InvProceed == ASSUME LInv, NEW r \in Requests, Proceed(r) \/ Fail(r) PROVE LInv'
<1>0. TypeOK
  BY DEF LInv
<1>1. ASSUME UNCHANGED <<database, history>>
      PROVE  UNCHANGED database /\ contended' \subseteq Ids /\ stale' \subseteq Ids
  BY <1>0, <1>1 DEF TypeOK, history
<1>2. pc[r] \in Active => JobShape(job[r])
  BY DEF LInv, JobInv
<1>3. \A c \in shared[r] : c \in Currencies /\ status[c] = "open" /\ ~BeingClosed(c)
  BY <1>0 DEF LInv, ForeignKeyInv, ClosingInv, BeingClosed, TypeOK
<1>4. job[r] \in JobType /\ held[r] \subseteq Ids \cup Currencies
  BY <1>0 DEF TypeOK
<1>5. CASE InsertRecord(r)
  <2> DEFINE S == shared[r] \cup Referenced(job[r])
             H == held[r] \cup {job[r].id}
  <2>1. JobShape(job[r]) /\ job[r].id \in Ids
    BY <1>0, <1>2, <1>5, PcFacts DEF InsertRecord, JobShape, TypeOK
  <2>2. Referenced(job[r]) \subseteq Currencies
    <3>1. WellFormed(job[r].new) /\ Referenced(job[r]) = CurrenciesOf(job[r].new.legs)
      BY <1>5, <2>1 DEF InsertRecord, JobShape, Referenced
    <3> QED
      BY <3>1, WellFormedLegs DEF CurrenciesOf, LegSet
  <2>3. /\ pc[r] = "write"
        /\ held' = [held EXCEPT ![r] = H] /\ shared' = [shared EXCEPT ![r] = S]
        /\ pc' = [pc EXCEPT ![r] = NextStatement(job[r], pc[r])]
        /\ UNCHANGED <<database, job, history>>
    BY <1>0, <1>5 DEF InsertRecord, TypeOK
  <2>4. /\ H \subseteq Ids \cup Currencies /\ S \subseteq Currencies
        /\ \A c \in S : status[c] = "open" /\ ~BeingClosed(c)
    BY <1>3, <1>4, <1>5, <2>1, <2>2 DEF InsertRecord, ForeignKeysHold, Sharable
  <2>5. shared[r] \subseteq S /\ Referenced(job[r]) \subseteq S
    OBVIOUS
  <2> HIDE DEF S, H
  <2> QED
    BY <2>3, <2>4, <2>5, InvStatement
<1>6. CASE WriteRecord(r)
  <2> DEFINE gone == records[job[r].id] = None
             S == IF gone THEN shared[r] ELSE shared[r] \cup Referenced(job[r])
             H == IF gone THEN held[r] ELSE held[r] \cup {job[r].id}
  <2>1. JobShape(job[r]) /\ job[r].id \in Ids /\ job[r].op # "add"
    BY <1>0, <1>2, <1>6, PcFacts DEF WriteRecord, JobShape, TypeOK
  <2>2. Referenced(job[r]) \subseteq Currencies
    <3>1. job[r].patch \in Patch
      BY <1>4 DEF JobType
    <3> QED
      BY <2>1, <3>1 DEF Referenced, Patch
  <2>3. /\ pc[r] = "write"
        /\ held' = [held EXCEPT ![r] = H] /\ shared' = [shared EXCEPT ![r] = S]
        /\ pc' = [pc EXCEPT ![r] = NextStatement(job[r], pc[r])]
        /\ UNCHANGED <<database, job, history>>
    BY <1>0, <1>6 DEF WriteRecord, TypeOK
  <2>4. /\ H \subseteq Ids \cup Currencies /\ S \subseteq Currencies
        /\ \A c \in S : status[c] = "open" /\ ~BeingClosed(c)
    BY <1>3, <1>4, <1>6, <2>1, <2>2 DEF WriteRecord, ForeignKeysHold, Sharable
  <2>5. shared[r] \subseteq S /\ (~gone => Referenced(job[r]) \subseteq S)
    OBVIOUS
  <2> HIDE DEF S, H
  <2> QED
    BY <2>1, <2>3, <2>4, <2>5, InvStatement
<1>7. CASE AdjustEquity(r)
  <2> DEFINE leg == CurrentLeg(r)
             H == IF status[leg.cur] = "open" THEN held[r] \cup {leg.cur} ELSE held[r]
  <2>1. JobShape(job[r]) /\ pc[r] \in {"first", "second"}
    BY <1>2, <1>7, PcFacts DEF AdjustEquity
  <2>2. leg # Blank /\ leg.cur \in Currencies
    <3>1. leg # Blank
      BY <2>1 DEF LInv, JobInv, CurrentLeg
    <3> QED
      BY <2>1, <3>1 DEF JobShape, CurrentLeg, Usable
  <2>3. held' = [held EXCEPT ![r] = H] /\ shared' = [shared EXCEPT ![r] = shared[r]]
    BY <1>0, <1>7 DEF AdjustEquity, TypeOK
  <2>4. /\ pc' = [pc EXCEPT ![r] = NextStatement(job[r], pc[r])]
        /\ UNCHANGED <<database, job, history>>
    BY <1>7 DEF AdjustEquity
  <2>5. H \subseteq Ids \cup Currencies /\ shared[r] \subseteq Currencies
    BY <1>3, <1>4, <2>2
  <2> HIDE DEF H
  <2> QED
    BY <1>3, <2>1, <2>3, <2>4, <2>5, InvStatement
<1>8. CASE RejectRecord(r)
  BY <1>1, <1>8, InvAnswer, PcFacts DEF RejectRecord
<1>9. CASE Overflow(r)
  BY <1>1, <1>9, InvAnswer, PcFacts DEF Overflow
<1>10. CASE Commit(r)
  BY <1>10, InvCommit
<1>11. CASE Reread(r)
  BY <1>1, <1>11, InvAnswer, PcFacts DEF Reread
<1>12. CASE DeadlockVictim(r)
  BY <1>1, <1>12, InvAnswer, PcFacts DEF DeadlockVictim
<1>13. CASE Fail(r)
  BY <1>1, <1>13, InvAnswer, PcFacts DEF Fail
<1>14. CASE LockCurrency(r)
  <2>1. CASE Answer(r, "ok")
    BY <1>1, <1>14, <2>1, InvAnswer, PcFacts DEF LockCurrency
  <2>2. CASE /\ status[job[r].id] = "open"
             /\ pc'   = [pc EXCEPT ![r] = "check"]
             /\ held' = [held EXCEPT ![r] = {job[r].id}]
             /\ UNCHANGED <<job, shared>>
    BY <1>14, <2>2, InvLock DEF LockCurrency
  <2> QED
    BY <1>14, <2>1, <2>2 DEF LockCurrency
<1>15. CASE RefuseClose(r)
  BY <1>1, <1>15, InvAnswer, PcFacts DEF RefuseClose
<1>16. CASE DropCurrency(r)
  <2> DEFINE c == job[r].id
  <2>1. /\ pc[r] = "check" /\ ~InUse(c) /\ Answer(r, "ok")
        /\ status' = [status EXCEPT ![c] = "closed"]
        /\ UNCHANGED <<equity, records, issued>>
        /\ contended' \subseteq Ids /\ stale' \subseteq Ids
    BY <1>0, <1>16 DEF DropCurrency, TypeOK, history
  <2>2. /\ \A q \in Requests : c \notin shared[q]
        /\ \A q \in Requests \ {r} : pc[q] = "check" => job[q].id # c
    BY <2>1 DEF LInv, ClosingInv
  <2>3. status' \in [Currencies -> {"new", "open", "closed"}]
    BY <1>0, <2>1 DEF TypeOK
  <2>4. \A d \in Currencies : status'[d] = status[d] \/ d = c
    BY <1>0, <2>1 DEF TypeOK
  <2> HIDE DEF c
  <2> QED
    BY <2>1, <2>2, <2>3, <2>4, InvEnd, PcFacts
<1> QED
  BY <1>5, <1>6, <1>7, <1>8, <1>9, <1>10, <1>11, <1>12, <1>13, <1>14, <1>15, <1>16
     DEF Proceed

\* One step of the system preserves the invariant.
LEMMA StepInv == LInv /\ [Next]_vars => LInv'
<1> SUFFICES ASSUME LInv, [Next]_vars PROVE LInv'
  OBVIOUS
<1>1. CASE UNCHANGED vars
  BY <1>1, InvStutters
<1>2. CASE \E r \in Requests : Arrive(r) \/ Proceed(r) \/ Fail(r)
  BY <1>2, InvArrive, InvProceed
<1>3. CASE Quiet
  BY <1>3, InvStutters DEF Quiet
<1> QED
  BY <1>1, <1>2, <1>3 DEF Next

LEMMA InvHolds == Spec => []LInv
<1>1. Init => LInv
  BY InvInit
<1>2. LInv /\ [Next]_vars => LInv'
  BY StepInv
<1> QED
  BY <1>1, <1>2, PTL DEF Spec

-----------------------------------------------------------------------------
\* Every variable of the ledger keeps its type, whatever requests overlap.
THEOREM TypeCorrect == Spec => []TypeOK
<1>1. LInv => TypeOK
  BY DEF LInv
<1> QED
  BY <1>1, InvHolds, PTL

\* Deleting a currency never leaves a cost, an income or an exchange behind
\* that refers to it, although delete_currency checks and deletes in two
\* sessions: the foreign key lock of an insert or update lasts until its commit.
THEOREM NoDangling == Spec => []NoDanglingCurrency
<1>1. LInv => NoDanglingCurrency
  BY DEF LInv
<1> QED
  BY <1>1, InvHolds, PTL

-----------------------------------------------------------------------------
(* What any step of a request does, as far as rows and locks are concerned. *)

\* Currencies are opened once and closed once.
StatusMoves ==
  \A c \in Currencies :
    \/ status'[c] = status[c]
    \/ status[c] = "new" /\ status'[c] = "open"
    \/ status[c] = "open" /\ status'[c] = "closed"

\* The request is answered; "not found" after its own commit means just that.
Ends(r) ==
  \E a \in Answers :
    /\ Answer(r, a)
    /\ StatusMoves /\ UNCHANGED <<equity, records, issued, history>>
    /\ pc[r] = "reread" /\ a = "notfound" => records[job[r].id] = None

\* It takes up a fresh identifier, or a record as it is at that moment.
Starts(r) ==
  \E j \in JobType :
    /\ pc[r] = "idle" /\ Begin(r, j)
    /\ UNCHANGED <<status, equity, records, stale>>
    /\ \/ /\ j.op = "add" /\ j.id \in Ids \ issued
          /\ issued' = issued \cup {j.id} /\ UNCHANGED contended
       \/ /\ j.op # "add" /\ j.id \in Ids /\ UNCHANGED issued
          /\ j.snap = records[j.id] /\ records[j.id] # None
          /\ Note(j.id)

Closes(r) ==
  \E c \in Currencies :
    /\ pc[r] = "idle"
    /\ pc'  = [pc EXCEPT ![r] = "close"]
    /\ job' = [job EXCEPT ![r] = CloseJob(c)]
    /\ UNCHANGED <<held, shared, database, history>>

\* The DELETE of a currency takes the lock of its row.
Locks(r) ==
  /\ pc[r] = "close" /\ status[job[r].id] = "open"
  /\ \A q \in Requests : job[r].id \notin held[q]
  /\ pc'   = [pc EXCEPT ![r] = "check"]
  /\ held' = [held EXCEPT ![r] = {job[r].id}]
  /\ UNCHANGED <<job, shared, database, history>>

\* A statement locks its row, if it is there, unless somebody else has; an
\* equity that is moved fits its column.
Executes(r) ==
  \E H \in SUBSET {Row(r)} :
    /\ pc[r] \in {"write", "first", "second"}
    /\ pc'   = [pc EXCEPT ![r] = NextStatement(job[r], pc[r])]
    /\ held' = [held EXCEPT ![r] = @ \cup H]
    /\ (pc[r] = "write" /\ job[r].op = "add") \/ Free(r, Row(r))
    /\ pc[r] # "write" =>
         IF status[Row(r)] = "open"
           THEN H = {Row(r)} /\ InRange(equity[Row(r)] + CurrentLeg(r).by)
           ELSE H = {}
    /\ \A q \in Requests \ {r} : shared'[q] = shared[q]
    /\ UNCHANGED <<database, job, history>>

LEMMA ArriveKinds ==
  ASSUME LInv, NEW r \in Requests, Arrive(r)
  PROVE  Ends(r) \/ Starts(r) \/ Closes(r)
<1>1. ASSUME NEW rec, WellFormed(rec), pc[r] = "idle", Add(r, rec)
      PROVE  Starts(r)
  <2>1. PICK i \in Ids \ issued : Begin(r, AddJob(i, rec)) /\ issued' = issued \cup {i}
    BY <1>1 DEF Add
  <2>2. AddJob(i, rec) \in JobType /\ AddJob(i, rec).op = "add" /\ AddJob(i, rec).id = i
    BY <1>1, AddShape
  <2>3. UNCHANGED <<status, equity, records, stale, contended>>
    BY <1>1 DEF Add, history
  <2> QED
    BY <1>1, <2>1, <2>2, <2>3 DEF Starts
<1>2. CASE AddCost(r) \/ AddIncome(r)
  BY <1>1, <1>2, CostIsWellFormed DEF AddCost, AddIncome
<1>3. CASE CurrencyExchange(r)
  BY <1>1, <1>3, ExchangeIsWellFormed DEF CurrencyExchange
<1>4. ASSUME NEW a \in Answers, Answer(r, a), pc[r] = "idle",
             UNCHANGED <<database, history>>
      PROVE  Ends(r)
  BY <1>4 DEF Ends, StatusMoves, database
<1>5. ASSUME NEW i \in Ids, NEW kind \in {"cost", "income"}, NEW p \in Patch,
             Update(r, i, kind, p)
      PROVE  Ends(r) \/ Starts(r)
  <2>1. pc[r] = "idle" /\ UNCHANGED <<database, stale>>
    BY <1>5 DEF Update
  <2>2. CASE Answer(r, "notfound") /\ UNCHANGED contended
    BY <1>4, <2>1, <2>2, PcFacts DEF history
  <2>3. CASE Answer(r, "badrequest") /\ UNCHANGED contended
    BY <1>4, <2>1, <2>3, PcFacts DEF history
  <2>4. CASE /\ ~Missing(i, kind)
             /\ Begin(r, UpdateJob(i, records[i], Without(p, records[i]))) /\ Note(i)
    <3>1. /\ records[i] # None /\ records[i].kind = kind /\ WellFormed(records[i])
          /\ i \in issued /\ issued \subseteq Ids
      BY <2>4 DEF Missing, LInv, RecordsInv, TypeOK
    <3>2. PICK j \in JobType : /\ j = UpdateJob(i, records[i], Without(p, records[i]))
                               /\ j.op = "update" /\ j.id = i /\ j.snap = records[i]
      BY <3>1, UpdateShape
    <3> QED
      BY <2>1, <2>4, <3>1, <3>2 DEF Starts, database
  <2> QED
    BY <1>5, <2>2, <2>3, <2>4 DEF Update
<1>6. ASSUME NEW i \in Ids, NEW kind, Delete(r, i, kind)
      PROVE  Ends(r) \/ Starts(r)
  <2>1. pc[r] = "idle" /\ UNCHANGED <<database, stale>>
    BY <1>6 DEF Delete
  <2>2. CASE Answer(r, "notfound") /\ UNCHANGED contended
    BY <1>4, <2>1, <2>2, PcFacts DEF history
  <2>3. CASE ~Missing(i, kind) /\ Begin(r, DeleteJob(i, records[i])) /\ Note(i)
    <3>1. records[i] # None /\ WellFormed(records[i]) /\ i \in issued /\ issued \subseteq Ids
      BY <2>3 DEF Missing, LInv, RecordsInv, TypeOK
    <3>2. PICK j \in JobType : /\ j = DeleteJob(i, records[i])
                               /\ j.op = "delete" /\ j.id = i /\ j.snap = records[i]
      BY <3>1, DeleteShape
    <3> QED
      BY <2>1, <2>3, <3>1, <3>2 DEF Starts, database
  <2> QED
    BY <1>6, <2>2, <2>3 DEF Delete
<1>7. CASE UpdateCost(r) \/ UpdateIncome(r)
  BY <1>5, <1>7 DEF UpdateCost, UpdateIncome
<1>8. CASE DeleteCost(r) \/ DeleteIncome(r) \/ DeleteCurrencyExchange(r)
  BY <1>6, <1>8 DEF DeleteCost, DeleteIncome, DeleteCurrencyExchange
<1>9. CASE OpenCurrency(r)
  <2>1. PICK c \in Currencies : /\ pc[r] = "idle" /\ status[c] = "new"
                                /\ status' = [status EXCEPT ![c] = "open"]
                                /\ Answer(r, "ok")
                                /\ UNCHANGED <<equity, records, issued, history>>
    BY <1>9 DEF OpenCurrency
  <2>2. StatusMoves
    BY <2>1 DEF StatusMoves, LInv, TypeOK
  <2> QED
    BY <2>1, <2>2, PcFacts DEF Ends
<1>10. CASE CloseCurrency(r)
  <2>1. PICK c \in Currencies :
          /\ pc[r] = "idle"
          /\ \/ Answer(r, "badrequest")
             \/ /\ pc'  = [pc EXCEPT ![r] = "close"]
                /\ job' = [job EXCEPT ![r] = CloseJob(c)]
                /\ UNCHANGED <<held, shared>>
          /\ UNCHANGED <<database, history>>
    BY <1>10 DEF CloseCurrency
  <2>3. CASE Answer(r, "badrequest")
    BY <1>4, <2>1, <2>3, PcFacts
  <2>4. CASE /\ pc'  = [pc EXCEPT ![r] = "close"]
             /\ job' = [job EXCEPT ![r] = CloseJob(c)]
             /\ UNCHANGED <<held, shared>>
    BY <2>1, <2>4 DEF Closes
  <2> QED
    BY <2>1, <2>3, <2>4
<1> QED
  BY <1>2, <1>3, <1>7, <1>8, <1>9, <1>10 DEF Arrive

LEMMA ProceedKinds ==
  ASSUME LInv, NEW r \in Requests, Proceed(r) \/ Fail(r)
  PROVE  Ends(r) \/ Locks(r) \/ Executes(r) \/ Commit(r)
<1>1. ASSUME NEW a \in Answers, Answer(r, a), UNCHANGED <<database, history>>,
             pc[r] = "reread" /\ a = "notfound" => records[job[r].id] = None
      PROVE  Ends(r)
  BY <1>1 DEF Ends, StatusMoves, database
<1>0. TypeOK
  BY DEF LInv
<1>2. CASE InsertRecord(r)
  <2>1. /\ pc[r] = "write" /\ Row(r) = job[r].id /\ job[r].op = "add"
        /\ UNCHANGED <<database, job, history>>
    BY <1>2 DEF InsertRecord, Row
  <2>2. pc' = [pc EXCEPT ![r] = NextStatement(job[r], pc[r])]
    BY <1>2, <2>1 DEF InsertRecord
  <2>3. held' = [held EXCEPT ![r] = @ \cup {Row(r)}]
    BY <1>2, <2>1 DEF InsertRecord
  <2>4. \A q \in Requests \ {r} : shared'[q] = shared[q]
    BY <1>0, <1>2 DEF InsertRecord, TypeOK
  <2> QED
    BY <2>1, <2>2, <2>3, <2>4 DEF Executes
<1>3. CASE WriteRecord(r)
  <2> DEFINE H == IF records[job[r].id] = None THEN {} ELSE {Row(r)}
  <2>1. /\ pc[r] = "write" /\ Row(r) = job[r].id /\ Free(r, Row(r))
        /\ UNCHANGED <<database, job, history>>
    BY <1>3 DEF WriteRecord, Row
  <2>2. pc' = [pc EXCEPT ![r] = NextStatement(job[r], pc[r])]
    BY <1>3, <2>1 DEF WriteRecord
  <2>3. held' = [held EXCEPT ![r] = @ \cup H] /\ H \in SUBSET {Row(r)}
    BY <1>3, <2>1 DEF WriteRecord
  <2>4. \A q \in Requests \ {r} : shared'[q] = shared[q]
    BY <1>0, <1>3 DEF WriteRecord, TypeOK
  <2> QED
    BY <2>1, <2>2, <2>3, <2>4 DEF Executes
<1>4. CASE AdjustEquity(r)
  <2> DEFINE H == IF status[Row(r)] = "open" THEN {Row(r)} ELSE {}
  <2>1. /\ pc[r] \in {"first", "second"} /\ Row(r) = CurrentLeg(r).cur /\ Free(r, Row(r))
        /\ status[Row(r)] = "open" => InRange(equity[Row(r)] + CurrentLeg(r).by)
        /\ UNCHANGED <<database, job, history>>
    BY <1>4 DEF AdjustEquity, Row
  <2>2. pc' = [pc EXCEPT ![r] = NextStatement(job[r], pc[r])]
    BY <1>4 DEF AdjustEquity
  <2>3. held' = [held EXCEPT ![r] = @ \cup H] /\ H \in SUBSET {Row(r)}
    BY <1>4, <2>1 DEF AdjustEquity
  <2>4. \A q \in Requests \ {r} : shared'[q] = shared[q]
    BY <1>4 DEF AdjustEquity
  <2> QED
    BY <2>1, <2>2, <2>3, <2>4 DEF Executes
<1>5. CASE RejectRecord(r)
  BY <1>1, <1>5, PcFacts DEF RejectRecord
<1>6. CASE Overflow(r)
  BY <1>1, <1>6, PcFacts DEF Overflow
<1>7. CASE Reread(r)
  BY <1>1, <1>7, PcFacts DEF Reread
<1>8. CASE DeadlockVictim(r)
  BY <1>1, <1>8, PcFacts DEF DeadlockVictim
<1>9. CASE Fail(r)
  BY <1>1, <1>9, PcFacts DEF Fail
<1>10. CASE LockCurrency(r)
  BY <1>1, <1>10, PcFacts DEF LockCurrency, Locks
<1>11. CASE RefuseClose(r)
  BY <1>1, <1>11, PcFacts DEF RefuseClose
<1>12. CASE DropCurrency(r)
  <2>1. /\ pc[r] = "check" /\ Answer(r, "ok")
        /\ status' = [status EXCEPT ![job[r].id] = "closed"]
        /\ UNCHANGED <<equity, records, issued, history>>
    BY <1>12 DEF DropCurrency
  <2>2. status[job[r].id] = "open"
    BY <2>1 DEF LInv, ClosingInv
  <2>3. StatusMoves
    BY <1>0, <2>1, <2>2 DEF StatusMoves, TypeOK
  <2> QED
    BY <2>1, <2>3, PcFacts DEF Ends
<1> QED
  BY <1>2, <1>3, <1>4, <1>5, <1>6, <1>7, <1>8, <1>9, <1>10, <1>11, <1>12 DEF Proceed

\* Every step is one of these, or leaves everything as it is.
LEMMA StepKinds ==
  ASSUME LInv, [Next]_vars
  PROVE  \/ \E r \in Requests :
              \/ Ends(r) \/ Starts(r) \/ Closes(r) \/ Locks(r)
              \/ Executes(r) \/ Commit(r)
         \/ UNCHANGED vars
BY ArriveKinds, ProceedKinds DEF Next, Quiet


-----------------------------------------------------------------------------
(* Requests that overlap in time.                                          *)

\* Two requests at work on one record have been noticed.
OverlapInv ==
  \A r, q \in Requests :
    r # q /\ pc[r] \in Active /\ pc[q] \in Active /\ job[r].id = job[q].id =>
      job[r].id \in contended

\* A snapshot nobody else interferes with is still current.
SnapInv ==
  \A r \in Requests :
    pc[r] \in Writing /\ job[r].op # "add" /\ job[r].id \notin contended =>
      records[job[r].id] = job[r].snap

\* So is the record a request has just committed and reads again.
RereadInv ==
  \A r \in Requests :
    pc[r] = "reread" /\ job[r].id \notin contended => records[job[r].id] # None

OInv == /\ OverlapInv
        /\ SnapInv
        /\ RereadInv
        /\ StaleOnlyWhenContended

LEMMA OverlapInit == Init => OInv
BY PcFacts DEF Init, OInv, OverlapInv, SnapInv, RereadInv, StaleOnlyWhenContended

\* A step of r that keeps the records and lets r work on nothing new.
LEMMA OverlapQuiet ==
  ASSUME LInv, OInv, NEW r \in Requests,
         \A q \in Requests \ {r} : pc'[q] = pc[q] /\ job'[q] = job[q],
         pc'[r] \in Active => pc[r] \in Active /\ job'[r] = job[r] /\ pc'[r] \in Writing
                              /\ pc[r] \in Writing,
         UNCHANGED <<records, history>>
  PROVE  OInv'
<1>1. \A q \in Requests : /\ pc'[q] \in Active => pc[q] \in Active /\ job'[q] = job[q]
                          /\ pc'[q] \in Writing => pc[q] \in Writing
                          /\ pc'[q] = "reread" => pc[q] = "reread"
  BY PcFacts
<1>2. UNCHANGED <<records, contended, stale>>
  BY DEF history
<1>3. OverlapInv'
  BY <1>1, <1>2 DEF OInv, OverlapInv
<1>4. SnapInv'
  BY <1>1, <1>2, PcFacts DEF OInv, SnapInv
<1>5. RereadInv'
  BY <1>1, <1>2, PcFacts DEF OInv, RereadInv
<1>6. StaleOnlyWhenContended'
  BY <1>2 DEF OInv, StaleOnlyWhenContended
<1> QED
  BY <1>3, <1>4, <1>5, <1>6 DEF OInv

LEMMA OverlapStarts ==
  ASSUME LInv, OInv, NEW r \in Requests, Starts(r)
  PROVE  OInv'
<1>0. TypeOK /\ JobInv
  BY DEF LInv
<1>1. PICK j \in JobType :
        /\ pc[r] = "idle" /\ Begin(r, j)
        /\ UNCHANGED <<status, equity, records, stale>>
        /\ \/ j.op = "add" /\ j.id \in Ids \ issued /\ UNCHANGED contended
           \/ /\ j.op # "add" /\ j.id \in Ids
              /\ j.snap = records[j.id] /\ records[j.id] # None
              /\ Note(j.id)
  BY DEF Starts
<1>2. /\ pc'[r] = "write" /\ job'[r] = j
      /\ \A q \in Requests \ {r} : pc'[q] = pc[q] /\ job'[q] = job[q]
  BY <1>0, <1>1 DEF Begin, TypeOK
<1>3. \A q \in Requests : pc[q] \in Active => job[q].id \in issued
  BY <1>0 DEF JobInv, JobShape
<1>4. contended \subseteq contended'
  BY <1>1 DEF Note
<1>5. \A q \in Requests \ {r} : pc[q] \in Active /\ job[q].id = j.id => j.id \in contended'
  BY <1>1, <1>3 DEF Note
<1>6. OverlapInv'
  <2> SUFFICES ASSUME NEW p \in Requests, NEW q \in Requests, p # q,
                      pc'[p] \in Active, pc'[q] \in Active, job'[p].id = job'[q].id
               PROVE  job'[p].id \in contended'
    BY DEF OverlapInv
  <2>1. CASE p = r \/ q = r
    BY <1>2, <1>5, <2>1
  <2>2. CASE p # r /\ q # r
    BY <1>2, <1>4, <2>2 DEF OInv, OverlapInv
  <2> QED
    BY <2>1, <2>2
<1>7. SnapInv'
  <2> SUFFICES ASSUME NEW q \in Requests, pc'[q] \in Writing, job'[q].op # "add",
                      job'[q].id \notin contended'
               PROVE  records'[job'[q].id] = job'[q].snap
    BY DEF SnapInv
  <2>1. CASE q = r
    BY <1>1, <1>2, <2>1
  <2>2. CASE q # r
    BY <1>1, <1>2, <1>4, <2>2 DEF OInv, SnapInv
  <2> QED
    BY <2>1, <2>2
<1>8. RereadInv'
  BY <1>1, <1>2, <1>4 DEF OInv, RereadInv
<1>9. StaleOnlyWhenContended'
  BY <1>1, <1>4 DEF OInv, StaleOnlyWhenContended
<1> QED
  BY <1>6, <1>7, <1>8, <1>9 DEF OInv

LEMMA OverlapCommit ==
  ASSUME LInv, OInv, NEW r \in Requests, Commit(r)
  PROVE  OInv'
<1> DEFINE j == job[r]
           old == records[j.id]
           new == Outcome(j, old)
<1>0. TypeOK /\ JobInv /\ RecordsInv
  BY DEF LInv
<1>1. /\ pc[r] = "commit" /\ pc[r] \in Active /\ pc[r] \in Writing
      /\ records' = [records EXCEPT ![j.id] = new]
      /\ contended' = contended
  BY PcFacts DEF Commit
<1>2. JobShape(j) /\ j.id \in Ids
  BY <1>0, <1>1 DEF JobInv, JobShape, TypeOK
<1>3. /\ records'[j.id] = new
      /\ \A k \in Ids \ {j.id} : records'[k] = records[k]
  BY <1>0, <1>1, <1>2 DEF TypeOK
<1>4. \/ j.op = "delete" /\ Answer(r, "ok")
      \/ /\ j.op # "delete"
         /\ pc' = [pc EXCEPT ![r] = "reread"] /\ job' = job
  BY DEF Commit
<1>5. \A q \in Requests \ {r} : pc'[q] = pc[q] /\ job'[q] = job[q]
  BY <1>0, <1>4 DEF TypeOK, Answer
<1>6. /\ pc'[r] \notin Writing
      /\ pc'[r] \in Active => pc'[r] = "reread" /\ j.op # "delete" /\ job'[r] = j
  BY <1>0, <1>4, PcFacts DEF TypeOK, Answer
<1>7. j.op # "add" /\ j.id \notin contended => old = j.snap
  BY <1>1 DEF OInv, SnapInv
<1>8. \A q \in Requests \ {r} : pc[q] \in Active /\ j.id \notin contended => job[q].id # j.id
  BY <1>1 DEF OInv, OverlapInv
<1> HIDE DEF new, old
<1>9. \A q \in Requests \ {r} : pc[q] \in Active /\ job[q].id \notin contended =>
        job[q].id \in Ids /\ records'[job[q].id] = records[job[q].id]
  <2> SUFFICES ASSUME NEW q \in Requests \ {r}, pc[q] \in Active, job[q].id \notin contended
               PROVE  job[q].id \in Ids /\ records'[job[q].id] = records[job[q].id]
    OBVIOUS
  <2>1. job[q].id \in Ids
    BY <1>0 DEF JobInv, JobShape, TypeOK
  <2> QED
    BY <1>3, <1>8, <2>1
<1>10. OverlapInv'
  <2> SUFFICES ASSUME NEW p \in Requests, NEW q \in Requests, p # q,
                      pc'[p] \in Active, pc'[q] \in Active, job'[p].id = job'[q].id
               PROVE  job'[p].id \in contended'
    BY DEF OverlapInv
  <2>1. /\ pc[p] \in Active /\ pc[q] \in Active
        /\ job'[p] = job[p] /\ job'[q] = job[q]
    BY <1>1, <1>5, <1>6
  <2> QED
    BY <1>1, <2>1 DEF OInv, OverlapInv
<1>11. SnapInv'
  <2> SUFFICES ASSUME NEW q \in Requests, pc'[q] \in Writing, job'[q].op # "add",
                      job'[q].id \notin contended'
               PROVE  records'[job'[q].id] = job'[q].snap
    BY DEF SnapInv
  <2>1. q # r /\ pc[q] \in Writing /\ pc[q] \in Active /\ job'[q] = job[q]
    BY <1>5, <1>6, PcFacts
  <2> QED
    BY <1>1, <1>9, <2>1 DEF OInv, SnapInv
<1>12. RereadInv'
  <2> SUFFICES ASSUME NEW q \in Requests, pc'[q] = "reread", job'[q].id \notin contended'
               PROVE  records'[job'[q].id] # None
    BY DEF RereadInv
  <2>1. CASE q = r
    <3>1. j.op # "delete" /\ job'[r] = j /\ j.id \notin contended
      BY <1>1, <1>6, <2>1, PcFacts
    <3>2. CASE j.op = "add"
      BY <1>2, <1>3, <2>1, <3>1, <3>2, WellFormedLegs DEF JobShape, Outcome, new
    <3>3. CASE j.op = "update"
      <4>1. old # None /\ WellFormed(old) /\ old.kind \in {"cost", "income"}
        BY <1>2, <1>7, <3>1, <3>3, WellFormedLegs DEF JobShape
      <4>2. new # None
        BY <1>0, <3>3, <4>1, OutcomeOfUpdate, WellFormedLegs DEF TypeOK, new
      <4> QED
        BY <1>3, <2>1, <3>1, <4>2
    <3> QED
      BY <1>2, <3>1, <3>2, <3>3 DEF JobShape
  <2>2. CASE q # r
    <3>1. pc[q] = "reread" /\ pc[q] \in Active /\ job'[q] = job[q]
      BY <1>5, <2>2, PcFacts
    <3> QED
      BY <1>1, <1>9, <2>2, <3>1 DEF OInv, RereadInv
  <2> QED
    BY <2>1, <2>2
<1>13. StaleOnlyWhenContended'
  <2>1. CASE stale' = stale
    BY <1>1, <2>1 DEF OInv, StaleOnlyWhenContended
  <2>2. CASE /\ stale' = stale \cup {j.id} /\ j.op # "add"
             /\ (old = None \/ old.legs # j.snap.legs)
    <3>1. j.snap # None
      BY <1>2, <2>2, WellFormedLegs DEF JobShape
    <3>2. j.id \in contended
      BY <1>7, <2>2, <3>1
    <3> QED
      BY <1>1, <2>2, <3>2 DEF OInv, StaleOnlyWhenContended
  <2> QED
    BY <2>1, <2>2 DEF Commit, old
<1> QED
  BY <1>10, <1>11, <1>12, <1>13 DEF OInv

LEMMA OverlapStep == LInv /\ OInv /\ [Next]_vars => OInv'
<1> SUFFICES ASSUME LInv, OInv, [Next]_vars PROVE OInv'
  OBVIOUS
<1>0. TypeOK
  BY DEF LInv
<1>1. ASSUME NEW r \in Requests, Ends(r) PROVE OInv'
  <2>1. PICK a \in Answers : Answer(r, a) /\ UNCHANGED <<records, history>>
    BY <1>1 DEF Ends
  <2>2. /\ pc'[r] \notin Active
        /\ \A q \in Requests \ {r} : pc'[q] = pc[q] /\ job'[q] = job[q]
    BY <1>0, <2>1, PcFacts DEF Answer, TypeOK
  <2> QED
    BY <2>1, <2>2, OverlapQuiet
<1>2. ASSUME NEW r \in Requests, Starts(r) PROVE OInv'
  BY <1>2, OverlapStarts
<1>3. ASSUME NEW r \in Requests, Closes(r) \/ Locks(r) PROVE OInv'
  <2>1. /\ pc'[r] \notin Active /\ UNCHANGED <<records, history>>
        /\ \A q \in Requests \ {r} : pc'[q] = pc[q] /\ job'[q] = job[q]
    BY <1>0, <1>3, PcFacts DEF Closes, Locks, TypeOK, database
  <2> QED
    BY <2>1, OverlapQuiet
<1>4. ASSUME NEW r \in Requests, Executes(r) PROVE OInv'
  <2>1. /\ pc[r] \in {"write", "first", "second"} /\ job' = job
        /\ pc' = [pc EXCEPT ![r] = NextStatement(job[r], pc[r])]
        /\ UNCHANGED <<records, history>>
    BY <1>4 DEF Executes, database
  <2>2. pc'[r] \in Locking /\ \A q \in Requests \ {r} : pc'[q] = pc[q]
    BY <1>0, <2>1, PcFacts DEF TypeOK
  <2>3. pc'[r] \in Writing /\ pc[r] \in Writing /\ pc[r] \in Active
    BY <2>1, <2>2, PcFacts DEF Locking
  <2> QED
    BY <2>1, <2>2, <2>3, OverlapQuiet
<1>5. ASSUME NEW r \in Requests, Commit(r) PROVE OInv'
  BY <1>5, OverlapCommit
<1>6. CASE UNCHANGED vars
  BY <1>6 DEF vars, OInv, OverlapInv, SnapInv, RereadInv, StaleOnlyWhenContended
<1> QED
  BY <1>1, <1>2, <1>3, <1>4, <1>5, <1>6, StepKinds

LEMMA OverlapHolds == Spec => []OInv
<1>1. Init => OInv
  BY OverlapInit
<1>2. LInv /\ OInv /\ [Next]_vars => OInv'
  BY OverlapStep
<1> QED
  BY <1>1, <1>2, InvHolds, PTL DEF Spec

\* A transaction writes from an outdated snapshot only if two requests for the
\* record overlapped: update and delete read the record in a session of their
\* own, and nothing but another request can change it until they commit.
THEOREM StaleNeedsOverlap == Spec => []StaleOnlyWhenContended
<1>1. OInv => StaleOnlyWhenContended
  BY DEF OInv
<1> QED
  BY <1>1, OverlapHolds, PTL

\* A request that has committed is answered "not found" by the read that
\* follows only if another request worked on its record meanwhile.
THEOREM CommittedRecordIsFound == Spec => CommittedIsFound
<1>1. LInv /\ OInv /\ [Next]_vars => LateNotFound
  <2> SUFFICES ASSUME LInv, OInv, [Next]_vars, NEW r \in Requests,
                      pc[r] = "reread", pc'[r] = "notfound"
               PROVE  job[r].id \in contended
    BY DEF LateNotFound
  <2>0. TypeOK
    BY DEF LInv
  <2>1. ASSUME NEW q \in Requests,
               Ends(q) \/ Starts(q) \/ Closes(q) \/ Locks(q) \/ Executes(q) \/ Commit(q)
        PROVE  q = r /\ Ends(r)
    <3>1. q = r
      <4> SUFFICES ASSUME q # r PROVE pc'[r] = pc[r]
        OBVIOUS
      <4> QED
        BY <2>0, <2>1
           DEF Ends, Starts, Closes, Locks, Executes, Commit, Answer, Begin, TypeOK
    <3>2. ~Starts(r) /\ ~Closes(r) /\ ~Locks(r) /\ ~Executes(r) /\ ~Commit(r)
      BY DEF Starts, Closes, Locks, Executes, Commit
    <3> QED
      BY <2>1, <3>1, <3>2
  <2>2. Ends(r)
    BY <2>1, StepKinds DEF vars
  <2>3. PICK a \in Answers : /\ Answer(r, a)
                             /\ a = "notfound" => records[job[r].id] = None
    BY <2>2 DEF Ends
  <2>4. a = "notfound"
    BY <2>0, <2>3 DEF Answer, TypeOK
  <2> QED
    BY <2>3, <2>4 DEF OInv, RereadInv
<1> QED
  BY <1>1, InvHolds, OverlapHolds, PTL DEF Spec, CommittedIsFound


-----------------------------------------------------------------------------
(* Row locks, and what a statement found when it took them.                *)

Rows(j) == {j.id, j.adjust[1].cur, j.adjust[2].cur}

\* The UPDATE for the k-th adjustment has been executed.
Done(r, k) == pc[r] = "commit" \/ (pc[r] = "second" /\ k = 1)

\* A transaction locks rows in the order of its statements.
HeldInv ==
  \A r \in Requests :
    /\ pc[r] \notin Locking \cup {"check"} => held[r] = {}
    /\ pc[r] \notin Locking => shared[r] = {}
    /\ pc[r] = "first" => held[r] \subseteq {job[r].id}
    /\ pc[r] = "second" => held[r] \subseteq {job[r].id, job[r].adjust[1].cur}
    /\ held[r] \subseteq Rows(job[r])

\* No row is locked by two transactions.
ExclusiveInv == \A r, q \in Requests : r # q => held[r] \cap held[q] = {}

\* The currencies of a record that was read have been opened.
SnapOpenInv ==
  \A r \in Requests : pc[r] \in Writing /\ job[r].op # "add" =>
    \A c \in CurrenciesOf(job[r].snap.legs) : status[c] # "new"

\* An UPDATE of an equity missed its row only if the currency was closed by
\* then, or if the record that was to move to it is gone.
FoundInv ==
  \A r \in Requests, k \in {1, 2} : Done(r, k) /\ job[r].adjust[k] # Blank =>
    \/ job[r].adjust[k].cur \in held[r]
    \/ status[job[r].adjust[k].cur] = "closed"
    \/ job[r].op = "update" /\ records[job[r].id] = None

\* What a statement added up still fits when it is committed.
RangeInv ==
  \A r \in Requests, k \in {1, 2} : Done(r, k) /\ job[r].adjust[k].cur \in held[r] =>
    InRange(equity[job[r].adjust[k].cur] + job[r].adjust[k].by)

\* Every equity has a value of its INTEGER column.
EquityFits == \A c \in Currencies : InRange(equity[c])

LockInv == /\ HeldInv
           /\ ExclusiveInv
           /\ SnapOpenInv
           /\ FoundInv
           /\ RangeInv
           /\ EquityFits

LEMMA OrderOfStatements ==
  \A j : /\ NextStatement(j, "write") = "first"
              \/ (NextStatement(j, "write") = "commit" /\ j.adjust[1] = Blank)
         /\ NextStatement(j, "first") = "second"
              \/ (NextStatement(j, "first") = "commit" /\ j.adjust[2] = Blank)
         /\ NextStatement(j, "second") = "commit"
BY DEF NextStatement

\* The first adjustment is used first, and each is for a currency of the
\* record as read or of the foreign key check.
LEMMA AdjustedCurrencies ==
  ASSUME NEW j \in JobType, JobShape(j)
  PROVE  /\ j.adjust[1] = Blank => j.adjust[2] = Blank
         /\ \A k \in {1, 2} : j.adjust[k] # Blank =>
              /\ j.adjust[k].cur \in Currencies
              /\ \/ j.adjust[k].cur \in Referenced(j)
                 \/ j.op # "add" /\ j.adjust[k].cur \in CurrenciesOf(j.snap.legs)
         /\ j.op = "delete" => Referenced(j) = {}
         /\ \A k \in {1, 2} : j.adjust[k].by \in Int
<1>1. j.adjust \in LegPairs
  BY DEF JobType
<1>2. \A k \in {1, 2} : j.adjust[k].by \in Int
  BY <1>1 DEF LegPairs, LegSet
<1>3. \A k \in {1, 2} : j.adjust[k] # Blank => j.adjust[k].cur \in Currencies
  BY DEF JobShape, Usable
<1>4. CASE j.op = "add"
  <2>1. WellFormed(j.new) /\ j.adjust = j.new.legs
    BY <1>4 DEF JobShape
  <2>2. Referenced(j) = CurrenciesOf(j.adjust)
    BY <1>4, <2>1 DEF Referenced
  <2>3. \A k \in {1, 2} : j.adjust[k] # Blank => j.adjust[k].cur \in Referenced(j)
    BY <1>3, <2>2, NoneAssumption DEF CurrenciesOf
  <2>4. j.adjust[1] # Blank
    BY <2>1, LegFacts, NoneAssumption DEF WellFormed
  <2> QED
    BY <1>2, <1>3, <1>4, <2>3, <2>4
<1>5. CASE j.op = "delete"
  <2>1. WellFormed(j.snap) /\ j.adjust = Reversed(j.snap.legs)
    BY <1>5 DEF JobShape
  <2>2. /\ j.adjust[1].cur = j.snap.legs[1].cur
        /\ j.adjust[2].cur = j.snap.legs[2].cur
    BY <2>1, LegFacts DEF Reversed
  <2>3. j.adjust[1] # Blank
    BY <2>1, <2>2, LegFacts, NoneAssumption DEF WellFormed
  <2>4. \A k \in {1, 2} : j.adjust[k] # Blank =>
          j.adjust[k].cur \in CurrenciesOf(j.snap.legs)
    BY <1>3, <2>2, NoneAssumption DEF CurrenciesOf
  <2>5. Referenced(j) = {}
    BY <1>5 DEF Referenced
  <2> QED
    BY <1>2, <1>3, <1>5, <2>3, <2>4, <2>5
<1>6. CASE j.op = "update"
  <2>1. WellFormed(j.snap) /\ j.adjust = Adjustments(j.snap, j.patch)
    BY <1>6 DEF JobShape
  <2>2. j.snap.legs[1].cur \in Currencies /\ j.snap.legs[1].cur \in CurrenciesOf(j.snap.legs)
    BY <2>1, NoneAssumption DEF WellFormed, CurrenciesOf
  <2>3. Referenced(j) = {j.patch.cur} \ {None}
    BY <1>6 DEF Referenced
  <2>4. CASE j.patch.cur # None
    <3>1. /\ j.adjust[1].cur = j.snap.legs[1].cur
          /\ j.adjust[2].cur = j.patch.cur
      BY <2>1, <2>4, LegFacts DEF Adjustments
    <3>2. j.adjust[1] # Blank
      BY <2>2, <3>1, LegFacts, NoneAssumption
    <3> QED
      BY <1>2, <1>3, <1>6, <2>2, <2>3, <2>4, <3>1, <3>2
  <2>5. CASE j.patch.cur = None /\ j.patch.value # None
    <3>1. j.adjust[1].cur = j.snap.legs[1].cur /\ j.adjust[2] = Blank
      BY <2>1, <2>5, LegFacts DEF Adjustments
    <3> QED
      BY <1>2, <1>3, <1>6, <2>2, <3>1
  <2>6. CASE j.patch.cur = None /\ j.patch.value = None
    <3>1. j.adjust = NoLegs
      BY <2>1, <2>6 DEF Adjustments
    <3> QED
      BY <1>2, <1>3, <1>6, <3>1 DEF NoLegs
  <2> QED
    BY <2>4, <2>5, <2>6
<1> QED
  BY <1>4, <1>5, <1>6 DEF JobShape

LEMMA InRangeOfNothing == InRange(0)
BY MaxEquityAssumption DEF InRange

LEMMA LocksInit == Init => LockInv
<1> SUFFICES ASSUME Init PROVE LockInv
  OBVIOUS
<1>1. HeldInv /\ ExclusiveInv /\ SnapOpenInv
  BY PcFacts DEF Init, HeldInv, ExclusiveInv, SnapOpenInv, Locking
<1>2. FoundInv /\ RangeInv
  BY DEF Init, FoundInv, RangeInv, Done
<1>3. EquityFits
  <2>1. \A c \in Currencies : equity[c] = 0
    BY DEF Init
  <2> QED
    BY <2>1, InRangeOfNothing DEF EquityFits
<1> QED
  BY <1>1, <1>2, <1>3 DEF LockInv

\* A step of r after which r has no locks, or just that of the currency it
\* closes, and which moves no equity.
LEMMA LocksGo ==
  ASSUME LInv, LockInv, NEW r \in Requests, pc'[r] \notin Locking, shared'[r] = {},
         \/ held'[r] = {}
         \/ /\ pc'[r] = "check" /\ held'[r] = {job'[r].id}
            /\ \A q \in Requests : job'[r].id \notin held[q],
         \A q \in Requests \ {r} : /\ pc'[q] = pc[q] /\ job'[q] = job[q]
                                   /\ held'[q] = held[q] /\ shared'[q] = shared[q],
         pc'[r] \in Writing /\ job'[r].op # "add" =>
           \A c \in CurrenciesOf(job'[r].snap.legs) : status'[c] # "new",
         StatusMoves, UNCHANGED <<equity, records>>
  PROVE  LockInv'
<1>0. TypeOK /\ JobInv
  BY DEF LInv
<1>1. \A c \in Currencies : /\ status[c] # "new" => status'[c] # "new"
                            /\ status[c] = "closed" => status'[c] = "closed"
  BY DEF StatusMoves
<1>2. HeldInv' /\ ExclusiveInv'
  <2>1. HeldInv'
    BY DEF LockInv, HeldInv, Locking, Rows
  <2>2. ExclusiveInv'
    BY DEF LockInv, ExclusiveInv
  <2> QED
    BY <2>1, <2>2
<1>3. \A rec : WellFormed(rec) => CurrenciesOf(rec.legs) \subseteq Currencies
  BY WellFormedLegs DEF CurrenciesOf, LegSet
<1>4. SnapOpenInv'
  <2> SUFFICES ASSUME NEW q \in Requests, pc'[q] \in Writing, job'[q].op # "add",
                      NEW c \in CurrenciesOf(job'[q].snap.legs)
               PROVE  status'[c] # "new"
    BY DEF SnapOpenInv, CurrenciesOf
  <2>1. CASE q = r
    BY <2>1
  <2>2. CASE q # r
    <3>1. pc[q] \in Writing /\ pc[q] \in Active /\ job'[q] = job[q]
      BY <2>2, PcFacts
    <3>2. WellFormed(job[q].snap)
      BY <1>0, <3>1 DEF JobInv, JobShape
    <3> QED
      BY <1>1, <1>3, <3>1, <3>2 DEF LockInv, SnapOpenInv
  <2> QED
    BY <2>1, <2>2
<1>5. ASSUME NEW q \in Requests, NEW k \in {1, 2}, Done(q, k)'
      PROVE  q # r /\ Done(q, k) /\ job'[q] = job[q] /\ held'[q] = held[q]
             /\ (job[q].adjust[k] # Blank => job[q].adjust[k].cur \in Currencies)
  <2>1. q # r
    BY <1>5 DEF Done, Locking
  <2>2. Done(q, k)
    BY <1>5, <2>1 DEF Done
  <2>3. JobShape(job[q])
    BY <1>0, <2>2, PcFacts DEF Done, JobInv
  <2> QED
    BY <2>1, <2>2, <2>3 DEF JobShape, Usable
<1>6. FoundInv'
  BY <1>1, <1>5 DEF LockInv, FoundInv
<1>7. RangeInv'
  BY <1>5 DEF LockInv, RangeInv, InRange
<1>8. EquityFits'
  BY DEF LockInv, EquityFits, InRange
<1> QED
  BY <1>2, <1>4, <1>6, <1>7, <1>8 DEF LockInv


LEMMA LocksGrow ==
  ASSUME LInv, LockInv, NEW r \in Requests, Executes(r)
  PROVE  LockInv'
<1> DEFINE j == job[r]
<1>0. TypeOK /\ JobInv /\ InsertInv /\ ForeignKeyInv
  BY DEF LInv
<1>1. PICK H \in SUBSET {Row(r)} :
        /\ pc[r] \in {"write", "first", "second"}
        /\ pc'   = [pc EXCEPT ![r] = NextStatement(job[r], pc[r])]
        /\ held' = [held EXCEPT ![r] = @ \cup H]
        /\ (pc[r] = "write" /\ job[r].op = "add") \/ Free(r, Row(r))
        /\ pc[r] # "write" =>
             IF status[Row(r)] = "open"
               THEN H = {Row(r)} /\ InRange(equity[Row(r)] + CurrentLeg(r).by)
               ELSE H = {}
        /\ \A q \in Requests \ {r} : shared'[q] = shared[q]
        /\ UNCHANGED <<database, job, history>>
  BY DEF Executes
<1>2. UNCHANGED <<status, equity, records, job>>
  BY <1>1 DEF database
<1>3. /\ pc'[r] = NextStatement(j, pc[r]) /\ held'[r] = held[r] \cup H
      /\ \A q \in Requests \ {r} : pc'[q] = pc[q] /\ held'[q] = held[q]
  BY <1>0, <1>1 DEF TypeOK
<1>4. /\ pc[r] \in Active /\ pc[r] \in Writing /\ pc'[r] \in Locking
  BY <1>1, <1>3, PcFacts
<1>5. JobShape(j) /\ j \in JobType /\ j.id \in Ids
  BY <1>0, <1>4 DEF JobInv, JobShape, TypeOK
<1>6. \A k \in {1, 2} : /\ j.adjust[k] # Blank => j.adjust[k].cur \in Currencies
                        /\ j.adjust[k].cur # j.id
                        /\ j.adjust[k].cur \in Currencies \cup {None}
  BY <1>5, LegFacts, IdsAssumption DEF JobShape, Usable
<1>7. /\ pc[r] = "write"  => Row(r) = j.id
      /\ pc[r] = "first"  => Row(r) = j.adjust[1].cur /\ CurrentLeg(r) = j.adjust[1]
                             /\ j.adjust[1] # Blank
      /\ pc[r] = "second" => Row(r) = j.adjust[2].cur /\ CurrentLeg(r) = j.adjust[2]
                             /\ j.adjust[2] # Blank
  BY <1>0 DEF Row, CurrentLeg, JobInv
<1>8. /\ pc[r] = "write" => /\ held[r] = {}
                            /\ pc'[r] = "first" \/ (pc'[r] = "commit" /\ j.adjust[1] = Blank)
      /\ pc[r] = "first" => /\ held[r] \subseteq {j.id}
                            /\ pc'[r] = "second" \/ (pc'[r] = "commit" /\ j.adjust[2] = Blank)
      /\ pc[r] = "second" => /\ held[r] \subseteq {j.id, j.adjust[1].cur}
                             /\ pc'[r] = "commit"
  <2>1. pc[r] = "write" => pc[r] \notin Locking \cup {"check"}
    BY DEF Locking
  <2> QED
    BY <1>3, <2>1, OrderOfStatements DEF LockInv, HeldInv
<1>9. HeldInv'
  <2>1. held'[r] \subseteq Rows(j)
    BY <1>1, <1>3, <1>7, <1>8 DEF Rows
  <2>2. pc'[r] = "first" => held'[r] \subseteq {j.id}
    BY <1>1, <1>3, <1>7, <1>8
  <2>3. pc'[r] = "second" => held'[r] \subseteq {j.id, j.adjust[1].cur}
    BY <1>1, <1>3, <1>7, <1>8
  <2> QED
    BY <1>1, <1>2, <1>3, <1>4, <2>1, <2>2, <2>3 DEF LockInv, HeldInv, Rows
<1>10. ExclusiveInv'
  <2>1. \A q \in Requests \ {r} : Row(r) \notin held[q]
    <3>1. CASE Free(r, Row(r))
      BY <3>1 DEF Free
    <3>2. CASE pc[r] = "write" /\ j.op = "add"
      <4> SUFFICES ASSUME NEW q \in Requests \ {r}, j.id \in held[q] PROVE FALSE
        BY <1>7, <3>2
      <4>0. pc[q] # "check"
        \* It holds a currency.
        BY <1>0, <1>5, PcFacts, IdsAssumption DEF LInv, ClosingInv, JobInv
      <4>1. pc[q] \in Active /\ j.id \in Rows(job[q])
        BY <4>0, PcFacts DEF LockInv, HeldInv, Locking
      <4>2. job[q].id # j.id
        BY <1>0, <1>4, <3>2, <4>1 DEF InsertInv
      <4>3. \A k \in {1, 2} : job[q].adjust[k].cur \in Currencies \cup {None}
        BY <1>0, <4>1, LegFacts DEF JobInv, JobShape, Usable
      <4> QED
        BY <1>5, <4>1, <4>2, <4>3, IdsAssumption DEF Rows
    <3> QED
      BY <1>1, <3>1, <3>2
  <2> QED
    BY <1>1, <1>3, <2>1 DEF LockInv, ExclusiveInv
<1>11. SnapOpenInv'
  BY <1>2, <1>3, <1>4 DEF LockInv, SnapOpenInv
\* The statement that was executed is the one for the k-th adjustment.
<1>12. ASSUME NEW k \in {1, 2}, Done(r, k)', j.adjust[k] # Blank
       PROVE  \/ Done(r, k)
              \/ /\ pc[r] # "write" /\ pc[r] \in Locking
                 /\ Row(r) = j.adjust[k].cur /\ CurrentLeg(r) = j.adjust[k]
  <2>1. j.adjust[1] = Blank => j.adjust[2] = Blank
    BY <1>5, AdjustedCurrencies
  <2>2. pc'[r] \in {"second", "commit"} /\ (pc'[r] = "second" => k = 1)
    BY <1>12 DEF Done
  <2> QED
    BY <1>1, <1>7, <1>8, <1>12, <2>1, <2>2 DEF Done, Locking
<1>13. FoundInv'
  <2> SUFFICES ASSUME NEW q \in Requests, NEW k \in {1, 2}, Done(q, k)',
                      job[q].adjust[k] # Blank
               PROVE  \/ job[q].adjust[k].cur \in held'[q]
                      \/ status[job[q].adjust[k].cur] = "closed"
                      \/ job[q].op = "update" /\ records[job[q].id] = None
    BY <1>2 DEF FoundInv
  <2>1. CASE q # r
    BY <1>3, <2>1 DEF LockInv, FoundInv, Done
  <2>2. CASE q = r /\ Done(r, k)
    BY <1>3, <2>2 DEF LockInv, FoundInv
  <2>3. CASE q = r /\ ~Done(r, k)
    <3> DEFINE c == j.adjust[k].cur
    <3>1. /\ pc[r] # "write" /\ pc[r] \in Locking
          /\ Row(r) = c /\ c \in Currencies
      BY <1>6, <1>12, <2>3
    <3>2. CASE status[c] = "open"
      BY <1>1, <1>3, <2>3, <3>1, <3>2
    <3>3. CASE status[c] = "new"
      <4>1. c \in Referenced(j) \/ (j.op # "add" /\ c \in CurrenciesOf(j.snap.legs))
        BY <1>5, <2>3, AdjustedCurrencies
      <4>2. ~(j.op # "add" /\ c \in CurrenciesOf(j.snap.legs))
        BY <1>4, <3>3 DEF LockInv, SnapOpenInv
      <4>3. c \in Referenced(j)
        BY <4>1, <4>2
      <4>4. ~(j.op = "add" \/ records[j.id] # None)
        BY <1>0, <3>1, <3>3, <4>3 DEF ForeignKeyInv
      <4>5. j.op = "update"
        BY <1>5, <4>3, <4>4, AdjustedCurrencies DEF JobShape
      <4> QED
        BY <2>3, <4>4, <4>5
    <3>4. CASE status[c] = "closed"
      BY <2>3, <3>4
    <3> QED
      BY <1>0, <3>1, <3>2, <3>3, <3>4 DEF TypeOK
  <2> QED
    BY <2>1, <2>2, <2>3
<1>14. RangeInv'
  <2> SUFFICES ASSUME NEW q \in Requests, NEW k \in {1, 2}, Done(q, k)',
                      job[q].adjust[k].cur \in held'[q]
               PROVE  InRange(equity[job[q].adjust[k].cur] + job[q].adjust[k].by)
    BY <1>2 DEF RangeInv, InRange
  <2>1. CASE q # r
    BY <1>3, <2>1 DEF LockInv, RangeInv, Done
  <2>2. CASE q = r
    <3> DEFINE c == j.adjust[k].cur
    <3>1. c \in held[r] \cup H /\ c # j.id
      BY <1>3, <1>6, <2>2
    <3>2. c # None
      <4>1. held'[r] \subseteq Rows(j) /\ H \subseteq {Row(r)}
        BY <1>2, <1>9 DEF HeldInv
      <4>2. held[r] \subseteq Ids \cup Currencies
        BY <1>0 DEF TypeOK
      <4>3. Row(r) # None
        BY <1>1, <1>5, <1>6, <1>7, IdsAssumption, NoneAssumption
      <4> QED
        BY <3>1, <4>2, <4>3, IdsAssumption, NoneAssumption
    <3>3. j.adjust[k] # Blank
      BY <3>2, LegFacts
    <3>4. CASE Done(r, k) /\ c \in held[r]
      BY <2>2, <3>4 DEF LockInv, RangeInv
    <3>5. CASE Row(r) = c /\ CurrentLeg(r) = j.adjust[k] /\ pc[r] # "write" /\ c \in H
      BY <1>1, <2>2, <3>5
    <3>6. Distinct(j.adjust)
      BY <1>5 DEF JobShape
    <3>7. Done(r, k) => c \in held[r]
      \* Only the first leg was done, and the second is another currency.
      BY <1>1, <1>7, <3>1, <3>3, <3>6 DEF Done, Distinct
    <3>8. Row(r) = c /\ pc[r] # "write" => c \notin held[r]
      BY <1>1, <1>7, <1>8, <3>1, <3>6 DEF Distinct
    <3> QED
      BY <1>12, <2>2, <3>1, <3>3, <3>4, <3>5, <3>7, <3>8
  <2> QED
    BY <2>1, <2>2
<1>15. EquityFits'
  BY <1>2 DEF LockInv, EquityFits, InRange
<1> QED
  BY <1>9, <1>10, <1>11, <1>13, <1>14, <1>15 DEF LockInv


\* A commit moves an equity only if its row is locked, and then by the one leg
\* that a statement has checked.
LEMMA CommitMovesLocked ==
  ASSUME LInv, LockInv, NEW r \in Requests, Commit(r), NEW c \in Currencies
  PROVE  /\ c \notin held[r] => equity'[c] = equity[c]
         /\ InRange(equity'[c])
<1> DEFINE j == job[r]
<1>0. TypeOK /\ JobInv
  BY DEF LInv
<1>1. /\ pc[r] = "commit"
      /\ equity'[c] = IF c \in held[r] THEN equity[c] + Posted(j.adjust, c) ELSE equity[c]
  BY DEF Commit
<1>2. JobShape(j) /\ j \in JobType /\ j.id \in Ids
  BY <1>0, <1>1, PcFacts DEF JobInv, JobShape, TypeOK
<1>3. CASE c \notin held[r]
  BY <1>1, <1>3 DEF LockInv, EquityFits, InRange
<1>4. CASE c \in held[r]
  <2>1. c \in {j.adjust[1].cur, j.adjust[2].cur}
    BY <1>2, <1>4, IdsAssumption DEF LockInv, HeldInv, Rows
  <2>2. \A k \in {1, 2} : j.adjust[k].cur = c => InRange(equity[c] + j.adjust[k].by)
    BY <1>1, <1>4 DEF LockInv, RangeInv, Done
  <2>3. /\ j.adjust[2] # Blank => j.adjust[1].cur # j.adjust[2].cur
        /\ j.adjust[1].by \in Int /\ j.adjust[2].by \in Int
        /\ j.adjust[2] = Blank => j.adjust[2].cur # c
    BY <1>2, AdjustedCurrencies, LegFacts, NoneAssumption DEF JobShape, Distinct
  <2>4. PICK k \in {1, 2} : j.adjust[k].cur = c /\ Posted(j.adjust, c) = j.adjust[k].by
    BY <2>1, <2>3 DEF Posted
  <2> QED
    BY <1>1, <1>4, <2>2, <2>4
<1> QED
  BY <1>3, <1>4

LEMMA LocksCommit ==
  ASSUME LInv, LockInv, NEW r \in Requests, Commit(r)
  PROVE  LockInv'
<1> DEFINE j == job[r]
           new == Outcome(j, records[j.id])
<1>0. TypeOK /\ JobInv /\ InsertInv /\ RecordsInv /\ KindInv
  BY DEF LInv
<1>1. /\ pc[r] = "commit" /\ pc[r] \in Active /\ pc[r] \in Writing
      /\ records' = [records EXCEPT ![j.id] = new]
      /\ status' = status
  BY PcFacts DEF Commit
<1>2. JobShape(j) /\ j \in JobType /\ j.id \in Ids
  BY <1>0, <1>1 DEF JobInv, JobShape, TypeOK
<1>3. \/ Answer(r, "ok")
      \/ /\ pc'     = [pc EXCEPT ![r] = "reread"]
         /\ held'   = [held EXCEPT ![r] = {}]
         /\ shared' = [shared EXCEPT ![r] = {}]
         /\ UNCHANGED job
  BY DEF Commit
<1>4. /\ held'[r] = {} /\ shared'[r] = {}
      /\ pc'[r] \notin Locking /\ pc'[r] \notin Writing
  BY <1>0, <1>3, PcFacts DEF TypeOK, Answer, Locking
<1>5. \A q \in Requests \ {r} : /\ pc'[q] = pc[q] /\ job'[q] = job[q]
                                /\ held'[q] = held[q] /\ shared'[q] = shared[q]
  BY <1>0, <1>3 DEF TypeOK, Answer
<1>6. HeldInv'
  BY <1>4, <1>5 DEF LockInv, HeldInv, Locking, Rows
<1>7. ExclusiveInv'
  BY <1>4, <1>5 DEF LockInv, ExclusiveInv
<1>8. SnapOpenInv'
  BY <1>1, <1>4, <1>5 DEF LockInv, SnapOpenInv
<1>9. ASSUME NEW q \in Requests, NEW k \in {1, 2}, Done(q, k)'
      PROVE  /\ q # r /\ Done(q, k) /\ job'[q] = job[q] /\ held'[q] = held[q]
             /\ pc[q] \in Active /\ JobShape(job[q]) /\ job[q].id \in Ids
  <2>1. q # r
    BY <1>4, <1>9 DEF Done, Locking
  <2>2. Done(q, k) /\ pc[q] \in Active
    BY <1>5, <1>9, <2>1, PcFacts DEF Done
  <2> QED
    BY <1>0, <1>5, <2>1, <2>2 DEF JobInv, JobShape, TypeOK
<1>10. FoundInv'
  <2> SUFFICES ASSUME NEW q \in Requests, NEW k \in {1, 2}, Done(q, k)',
                      job'[q].adjust[k] # Blank
               PROVE  \/ job'[q].adjust[k].cur \in held'[q]
                      \/ status'[job'[q].adjust[k].cur] = "closed"
                      \/ job'[q].op = "update" /\ records'[job'[q].id] = None
    BY DEF FoundInv
  <2>1. \/ job[q].adjust[k].cur \in held[q]
        \/ status[job[q].adjust[k].cur] = "closed"
        \/ job[q].op = "update" /\ records[job[q].id] = None
    BY <1>9 DEF LockInv, FoundInv
  <2>2. ASSUME records[job[q].id] = None, job[q].id = j.id PROVE new = None
    <3>1. j.op # "add"
      BY <1>0, <1>1, <1>9, <2>2 DEF InsertInv
    <3> QED
      BY <1>2, <2>2, <3>1 DEF Outcome, JobShape
  <2>3. records[job[q].id] = None => records'[job[q].id] = None
    BY <1>0, <1>1, <1>9, <2>2 DEF TypeOK
  <2> QED
    BY <1>1, <1>9, <2>1, <2>3
<1>11. RangeInv'
  <2> SUFFICES ASSUME NEW q \in Requests, NEW k \in {1, 2}, Done(q, k)',
                      job'[q].adjust[k].cur \in held'[q]
               PROVE  InRange(equity'[job'[q].adjust[k].cur] + job'[q].adjust[k].by)
    BY DEF RangeInv, InRange
  <2> DEFINE c == job[q].adjust[k].cur
  <2>1. c \in held[q] /\ InRange(equity[c] + job[q].adjust[k].by)
    BY <1>9 DEF LockInv, RangeInv
  <2>2. c \notin held[r]
    BY <1>9, <2>1 DEF LockInv, ExclusiveInv
  <2>3. c \in Currencies
    BY <1>0, <1>9, <2>1, LegFacts, IdsAssumption, NoneAssumption DEF JobShape, Usable, TypeOK
  <2>4. equity'[c] = equity[c]
    BY <2>2, <2>3, CommitMovesLocked
  <2> QED
    BY <1>9, <2>1, <2>4
<1>12. EquityFits'
  BY CommitMovesLocked DEF EquityFits, InRange
<1> QED
  BY <1>6, <1>7, <1>8, <1>10, <1>11, <1>12 DEF LockInv

LEMMA LocksStep == LInv /\ LockInv /\ [Next]_vars => LockInv'
<1> SUFFICES ASSUME LInv, LockInv, [Next]_vars PROVE LockInv'
  OBVIOUS
<1>0. TypeOK /\ NoDanglingCurrency
  BY DEF LInv
<1>1. ASSUME NEW r \in Requests, Ends(r) PROVE LockInv'
  <2>1. PICK a \in Answers : Answer(r, a) /\ StatusMoves /\ UNCHANGED <<equity, records>>
    BY <1>1 DEF Ends
  <2>2. /\ pc'[r] \notin Locking /\ pc'[r] \notin Writing
        /\ held'[r] = {} /\ shared'[r] = {}
        /\ \A q \in Requests \ {r} : /\ pc'[q] = pc[q] /\ job'[q] = job[q]
                                     /\ held'[q] = held[q] /\ shared'[q] = shared[q]
    BY <1>0, <2>1, PcFacts DEF Answer, TypeOK, Locking
  <2> QED
    BY <2>1, <2>2, LocksGo
<1>2. ASSUME NEW r \in Requests, Starts(r) PROVE LockInv'
  <2>1. PICK j \in JobType :
          /\ pc[r] = "idle" /\ Begin(r, j)
          /\ UNCHANGED <<status, equity, records, stale>>
          /\ j.op # "add" => /\ j.id \in Ids /\ j.snap = records[j.id]
                             /\ records[j.id] # None
    BY <1>2 DEF Starts
  <2>2. /\ pc'[r] = "write" /\ job'[r] = j /\ held' = held /\ shared' = shared
        /\ \A q \in Requests \ {r} : pc'[q] = pc[q] /\ job'[q] = job[q]
    BY <1>0, <2>1 DEF Begin, TypeOK
  <2>3. held[r] = {} /\ shared[r] = {}
    BY <2>1 DEF LockInv, HeldInv, Locking
  <2>4. StatusMoves
    BY <2>1 DEF StatusMoves
  <2>5. j.op # "add" => \A c \in CurrenciesOf(j.snap.legs) : status'[c] # "new"
    BY <1>0, <2>1 DEF NoDanglingCurrency
  <2>6. pc'[r] \notin Locking /\ UNCHANGED <<equity, records>>
    BY <2>1, <2>2 DEF Locking
  <2> QED
    BY <2>2, <2>3, <2>4, <2>5, <2>6, LocksGo
<1>3. ASSUME NEW r \in Requests, Closes(r) PROVE LockInv'
  <2>1. /\ pc[r] = "idle" /\ pc'[r] = "close" /\ held' = held /\ shared' = shared
        /\ UNCHANGED <<status, equity, records>>
        /\ \A q \in Requests \ {r} : pc'[q] = pc[q] /\ job'[q] = job[q]
    BY <1>0, <1>3 DEF Closes, TypeOK, database
  <2>2. /\ held'[r] = {} /\ shared'[r] = {}
        /\ pc'[r] \notin Locking /\ pc'[r] \notin Writing
    BY <2>1 DEF LockInv, HeldInv, Locking, Writing
  <2>3. StatusMoves
    BY <2>1 DEF StatusMoves
  <2> QED
    BY <2>1, <2>2, <2>3, LocksGo
<1>7. ASSUME NEW r \in Requests, Locks(r) PROVE LockInv'
  <2>1. /\ pc[r] = "close" /\ pc'[r] = "check" /\ held'[r] = {job[r].id}
        /\ \A q \in Requests : job[r].id \notin held[q]
        /\ UNCHANGED <<status, equity, records, job, shared>>
        /\ \A q \in Requests \ {r} : pc'[q] = pc[q] /\ held'[q] = held[q]
    BY <1>0, <1>7 DEF Locks, TypeOK, database
  <2>2. /\ shared'[r] = {} /\ job' = job
        /\ pc'[r] \notin Locking /\ pc'[r] \notin Writing
    BY <2>1 DEF LockInv, HeldInv, Locking, Writing
  <2>3. StatusMoves
    BY <2>1 DEF StatusMoves
  <2> QED
    BY <2>1, <2>2, <2>3, LocksGo
<1>4. ASSUME NEW r \in Requests, Executes(r) PROVE LockInv'
  BY <1>4, LocksGrow
<1>5. ASSUME NEW r \in Requests, Commit(r) PROVE LockInv'
  BY <1>5, LocksCommit
<1>6. CASE UNCHANGED vars
  <2>1. UNCHANGED <<status, equity, records, pc, job, held, shared>>
    BY <1>6 DEF vars
  <2>2. HeldInv' /\ ExclusiveInv' /\ SnapOpenInv'
    BY <2>1 DEF LockInv, HeldInv, ExclusiveInv, SnapOpenInv, Rows
  <2>3. FoundInv' /\ RangeInv' /\ EquityFits'
    BY <2>1 DEF LockInv, FoundInv, RangeInv, EquityFits, Done, InRange
  <2> QED
    BY <2>2, <2>3 DEF LockInv
<1> QED
  BY <1>1, <1>2, <1>3, <1>4, <1>5, <1>6, <1>7, StepKinds

LEMMA LocksHold == Spec => []LockInv
<1>1. Init => LockInv
  BY LocksInit
<1>2. LInv /\ LockInv /\ [Next]_vars => LockInv'
  BY LocksStep
<1> QED
  BY <1>1, <1>2, InvHolds, PTL DEF Spec

\* Somebody waits for r, and r for somebody else: while neither closes a
\* currency, r has moved a first currency and waits for a second.
LEMMA WaitedForIsSecond ==
  ASSUME LInv, LockInv, NEW C \in SUBSET Requests, WaitCycle(C),
         NEW r \in C, pc[r] \notin Closing,
         NEW s \in C, pc[s] \notin Closing, BlockedBy(s, r)
  PROVE  /\ pc[r] = "second" /\ JobShape(job[r]) /\ job[r].adjust[2] # Blank
         /\ pc[s] \in {"first", "second"} /\ Row(s) = job[r].adjust[1].cur
<1>0. TypeOK /\ JobInv /\ InsertInv
  BY DEF LInv
<1>1. /\ pc[s] \in {"write", "first", "second"} /\ Row(s) \in held[r] /\ s # r
  BY PcFacts DEF BlockedBy, WaitsForRow, WaitsForClose, WaitsToClose, QueuesBehind,
                 WaitsForDelete
<1>2. pc[r] \in Locking
  BY <1>1, PcFacts DEF LockInv, HeldInv
<1>3. pc[r] \in {"first", "second"}
  <2>1. PICK t \in C : BlockedBy(r, t)
    BY DEF WaitCycle
  <2> QED
    BY <1>2, <2>1 DEF BlockedBy, WaitsForRow, WaitsForClose, WaitsToClose, QueuesBehind,
                      WaitsForDelete, Locking
<1>4. JobShape(job[r]) /\ job[r].id \in Ids /\ JobShape(job[s]) /\ job[s].id \in Ids
  BY <1>0, <1>1, <1>3, PcFacts DEF JobInv, JobShape, TypeOK
<1>5. held[r] \subseteq {job[r].id, job[r].adjust[1].cur}
  BY <1>3 DEF LockInv, HeldInv
\* A request that waits for its record's row is in nobody's way.
<1>6. pc[s] # "write"
  <2> SUFFICES ASSUME pc[s] = "write" PROVE FALSE
    OBVIOUS
  <2>1. Row(s) = job[s].id
    BY DEF Row
  <2>2. job[r].adjust[1].cur \notin Ids
    BY <1>4, LegFacts, IdsAssumption DEF JobShape, Usable
  <2>3. job[s].id = job[r].id
    BY <1>1, <1>4, <1>5, <2>1, <2>2
  <2>4. job[s].op # "add"
    BY <1>0, <1>1, <1>3, <2>3, PcFacts DEF InsertInv
  <2>5. held[s] = {} /\ shared[s] = {}
    BY DEF LockInv, HeldInv, Locking
  <2>6. PICK u \in C : BlockedBy(u, s)
    BY DEF WaitCycle
  <2> QED
    BY <2>4, <2>5, <2>6 DEF BlockedBy, WaitsForRow, WaitsForClose, WaitsToClose,
                            PartlyShared, QueuesBehind, WaitsForDelete
<1>7. Row(s) \in Currencies
  <2>1. \/ pc[s] = "first" /\ Row(s) = job[s].adjust[1].cur /\ job[s].adjust[1] # Blank
        \/ pc[s] = "second" /\ Row(s) = job[s].adjust[2].cur /\ job[s].adjust[2] # Blank
    BY <1>0, <1>1, <1>6 DEF Row, CurrentLeg, JobInv
  <2> QED
    BY <1>4, <2>1 DEF JobShape, Usable
<1>8. Row(s) = job[r].adjust[1].cur
  BY <1>1, <1>4, <1>5, <1>7, IdsAssumption
<1>9. pc[r] = "second"
  BY <1>1, <1>3, <1>4, <1>7, IdsAssumption DEF LockInv, HeldInv
<1> QED
  BY <1>0, <1>1, <1>4, <1>6, <1>8, <1>9 DEF JobInv

\* Whoever is in a wait cycle has moved one currency and waits for a second, or
\* closes a currency, or is in the way of a member that closes one.
THEOREM CyclesNeedTwoOrClose == Spec => []CyclesMoveTwoOrClose
<1>1. LInv /\ LockInv => CyclesMoveTwoOrClose
  <2> SUFFICES ASSUME LInv, LockInv, NEW C \in SUBSET Requests, WaitCycle(C), NEW r \in C,
                      pc[r] \notin Closing,
                      \A q \in C : ~(pc[q] \in Closing /\ BlockedBy(q, r))
               PROVE  pc[r] = "second" /\ job[r].adjust[1].cur # job[r].adjust[2].cur
    BY DEF CyclesMoveTwoOrClose
  <2>1. PICK s \in C : BlockedBy(s, r)
    BY DEF WaitCycle
  <2> QED
    BY <2>1, WaitedForIsSecond DEF JobShape, Distinct
<1> QED
  BY <1>1, InvHolds, LocksHold, PTL

\* r moves a first currency and then a second, q the second and then the first.
Opposite(r, q) ==
  /\ job[r].adjust[1].cur = job[q].adjust[2].cur
  /\ job[q].adjust[1].cur = job[r].adjust[2].cur

\* r closes a currency and waits for the record q deletes; q is about to give
\* the record's amount back to that currency.
CloseMeetsDelete(r, q) ==
  /\ pc[r] = "check" /\ pc[q] \in {"first", "second"}
  /\ job[q].op = "delete" /\ job[q].id \in held[q] /\ Refers(job[q].id, job[r].id)
  /\ CurrentLeg(q).cur = job[r].id

PairsCross ==
  \A r, q \in Requests : r # q /\ WaitCycle({r, q}) =>
    Opposite(r, q) \/ CloseMeetsDelete(r, q) \/ CloseMeetsDelete(q, r)

\* A request that closes a currency is in a deadlock with one other only while
\* RESTRICT waits for a record of the currency that the other is deleting.
LEMMA ClosePair ==
  ASSUME LInv, LockInv, NEW r \in Requests, NEW q \in Requests, r # q,
         BlockedBy(r, q), BlockedBy(q, r), pc[r] \in Closing
  PROVE  CloseMeetsDelete(r, q)
<1>0. TypeOK /\ JobInv /\ ClosingInv
  BY DEF LInv
<1>1. job[r].op = "close" /\ job[r].id \in Currencies
  BY <1>0 DEF JobInv
<1>2. pc[r] # "close"
  <2> SUFFICES ASSUME pc[r] = "close" PROVE FALSE
    OBVIOUS
  <2>1. held[r] = {} /\ shared[r] = {} /\ PartlyShared(r) = {}
    BY DEF LockInv, HeldInv, Locking, PartlyShared
  <2>2. QueuesBehind(q, r)
    BY <1>1, <2>1 DEF BlockedBy, WaitsForRow, WaitsForClose, WaitsToClose, WaitsForDelete
  <2>3. job[r].id \in held[q] \cup shared[q] \cup PartlyShared(q)
    BY DEF BlockedBy, WaitsForRow, WaitsForClose, WaitsToClose, QueuesBehind, WaitsForDelete
  <2>4. pc[q] \in {"first", "second"} /\ Row(q) \in held[q] /\ Row(q) \in Currencies
    BY <1>1, <2>2, <2>3 DEF QueuesBehind, PartlyShared
  <2>5. JobShape(job[q]) /\ job[q].id \in Ids
    BY <1>0, <2>4, PcFacts DEF JobInv, JobShape, TypeOK
  <2>6. pc[q] = "second" /\ Row(q) = job[q].adjust[1].cur
    BY <2>4, <2>5, IdsAssumption DEF LockInv, HeldInv
  <2>7. Row(q) = job[q].adjust[2].cur /\ job[q].adjust[2] # Blank
    BY <1>0, <2>6 DEF Row, CurrentLeg, JobInv
  <2> QED
    BY <2>5, <2>6, <2>7 DEF JobShape, Distinct
<1>3. pc[r] = "check" /\ held[r] = {job[r].id}
  BY <1>0, <1>2, PcFacts DEF ClosingInv
<1>4. job[q].op = "delete" /\ job[q].id \in held[q] /\ Refers(job[q].id, job[r].id)
  BY <1>3 DEF BlockedBy, WaitsForRow, WaitsForClose, WaitsToClose, QueuesBehind, WaitsForDelete
<1>5. pc[q] \in Locking
  <2>1. pc[q] \notin Closing
    BY <1>0, <1>4 DEF JobInv
  <2> QED
    BY <1>4, <2>1, PcFacts DEF LockInv, HeldInv
<1>6. pc[q] \in {"first", "second"} /\ Row(q) \in held[r]
  BY <1>1, <1>3, <1>5
     DEF BlockedBy, WaitsForRow, WaitsForClose, WaitsToClose, QueuesBehind, WaitsForDelete,
         Locking
<1>7. CurrentLeg(q).cur = job[r].id
  BY <1>3, <1>6 DEF Row
<1> QED
  BY <1>3, <1>4, <1>6, <1>7 DEF CloseMeetsDelete

\* Two requests wait for each other in two ways only: they move the same two
\* currencies in opposite orders, or one closes the currency of a record that
\* the other is deleting.
THEOREM DeadlocksOfTwo == Spec => []PairsCross
<1>1. LInv /\ LockInv => PairsCross
  <2> SUFFICES ASSUME LInv, LockInv, NEW r \in Requests, NEW q \in Requests, r # q,
                      WaitCycle({r, q})
               PROVE  Opposite(r, q) \/ CloseMeetsDelete(r, q) \/ CloseMeetsDelete(q, r)
    BY DEF PairsCross
  <2>1. BlockedBy(r, q) /\ BlockedBy(q, r)
    BY DEF WaitCycle, BlockedBy
  <2>2. CASE pc[r] \in Closing \/ pc[q] \in Closing
    BY <2>1, <2>2, ClosePair
  <2>3. CASE pc[r] \notin Closing /\ pc[q] \notin Closing
    <3>1. /\ pc[r] = "second" /\ Row(q) = job[r].adjust[1].cur
          /\ pc[q] = "second" /\ Row(r) = job[q].adjust[1].cur
      BY <2>1, <2>3, WaitedForIsSecond
    <3>2. Row(q) = job[q].adjust[2].cur /\ Row(r) = job[r].adjust[2].cur
      BY <3>1 DEF Row, CurrentLeg
    <3> QED
      BY <3>1, <3>2 DEF Opposite
  <2> QED
    BY <2>2, <2>3
<1> QED
  BY <1>1, InvHolds, LocksHold, PTL

\* No commit takes an equity out of the range of its INTEGER column, although
\* the range is checked by a statement and the sum is visible only at the commit:
\* the row lock in between keeps every other transaction out.
THEOREM EquityNeverOverflows == Spec => []EquityFits
<1>1. LockInv => EquityFits
  BY DEF LockInv
<1> QED
  BY <1>1, LocksHold, PTL

-----------------------------------------------------------------------------
(* The ledger implements the abstract books.                               *)

LEMMA BooksBegin == Init => Book!Init
BY DEF Init, Book!Init

\* A record contributes nothing to a currency it does not refer to.
LEMMA NoEffect ==
  ASSUME NEW rec, rec # None => WellFormed(rec), NEW c \in Currencies,
         rec # None => c \notin CurrenciesOf(rec.legs)
  PROVE  Effect(rec, c) = 0
<1>1. CASE rec = None
  BY <1>1 DEF Effect
<1>2. CASE rec # None
  <2>1. rec.legs[1].cur # c /\ rec.legs[2].cur # c
    BY <1>2, NoneAssumption DEF CurrenciesOf
  <2> QED
    BY <1>2, <2>1 DEF Effect, Posted
<1> QED
  BY <1>1, <1>2

\* A commit from a snapshot that is still current.
LEMMA SoundCommit ==
  ASSUME LInv, LInv', LockInv, NEW r \in Requests, Commit(r), stale = {}, stale' = {}
  PROVE  \/ \E i \in Ids : Book!Enter(i) \/ Book!Amend(i) \/ Book!Strike(i)
         \/ UNCHANGED <<status, equity, records>>
<1> DEFINE j == job[r]
           old == records[j.id]
           new == Outcome(j, old)
<1>0. TypeOK /\ RecordsInv /\ RecordsInv' /\ NoDanglingCurrency /\ NoDanglingCurrency'
  BY DEF LInv
<1>1. pc[r] = "commit" /\ pc[r] \in Active /\ pc[r] \in Writing /\ status' = status
  BY PcFacts DEF Commit
<1>2. JobShape(j) /\ j \in JobType /\ j.id \in Ids
  BY <1>0, <1>1 DEF LInv, JobInv, TypeOK, JobShape
<1>3. /\ old # None => WellFormed(old)
      /\ j.op = "add" => old = None
      /\ j.op # "add" /\ old # None => old.kind = j.snap.kind
  BY <1>0, <1>1, <1>2 DEF LInv, RecordsInv, InsertInv, KindInv
<1>4. \/ j.op = "add" \/ j.adjust = NoLegs
      \/ old # None /\ old.legs = j.snap.legs
  BY DEF Commit
<1>5. /\ records'[j.id] = new
      /\ \A k \in Ids \ {j.id} : records'[k] = records[k]
  BY <1>0, <1>2 DEF Commit, TypeOK
<1>6. /\ new # None => WellFormed(new) /\ (j.op = "add" \/ old # None)
      /\ new # None /\ old # None => new.kind = old.kind
  BY <1>2, <1>3, OutcomeIsWellFormed
<1>7. \A c \in Currencies :
        /\ equity[c] \in Int /\ Effect(old, c) \in Int /\ Effect(new, c) \in Int
        /\ Effect(new, c) - Effect(old, c) = Posted(j.adjust, c)
  BY <1>0, <1>2, <1>3, <1>4, CommitMoves DEF TypeOK
<1> HIDE DEF new
<1>8. equity' = [c \in Currencies |-> equity[c] + Effect(new, c) - Effect(old, c)]
  <2>1. equity' = [c \in Currencies |-> IF c \in held[r]
                                        THEN equity[c] + Posted(j.adjust, c) ELSE equity[c]]
    BY DEF Commit
  <2>2. ASSUME NEW c \in Currencies, c \in held[r]
        PROVE  equity[c] + Posted(j.adjust, c) = equity[c] + Effect(new, c) - Effect(old, c)
    BY <1>7
\* Without the lock there was nothing to adjust, or no such currency any more.
  <2>3. ASSUME NEW c \in Currencies, c \notin held[r]
        PROVE  equity[c] = equity[c] + Effect(new, c) - Effect(old, c)
    <3>1. CASE status[c] # "open"
      <4>1. Effect(old, c) = 0
        BY <1>0, <1>2, <1>3, <3>1, NoEffect DEF NoDanglingCurrency
      <4>2. new # None => c \notin CurrenciesOf(new.legs)
        BY <1>0, <1>1, <1>2, <1>5, <3>1 DEF NoDanglingCurrency, CurrenciesOf
      <4>3. Effect(new, c) = 0
        BY <1>6, <4>2, NoEffect
      <4> QED
        BY <1>7, <4>1, <4>3
    <3>2. CASE status[c] = "open"
      <4>1. \A k \in {1, 2} : j.adjust[k] # Blank => j.adjust[k].cur # c
        <5> SUFFICES ASSUME NEW k \in {1, 2}, j.adjust[k] # Blank, j.adjust[k].cur = c
                     PROVE  FALSE
          OBVIOUS
        <5>1. j.op = "update" /\ old = None
          BY <1>1, <2>3, <3>2 DEF LockInv, FoundInv, Done
        <5>2. j.adjust = NoLegs
          BY <1>4, <5>1
        <5> QED
          BY <5>2 DEF NoLegs
      <4>2. \A k \in {1, 2} : j.adjust[k].cur # c
        BY <4>1, LegFacts, NoneAssumption
      <4>3. Posted(j.adjust, c) = 0
        BY <4>2 DEF Posted
      <4> QED
        BY <1>7, <4>3
    <3> QED
      BY <3>1, <3>2
  <2> QED
    BY <2>1, <2>2, <2>3
<1>9. Book!MoneyFollows(j.id)
  BY <1>1, <1>5, <1>8 DEF Book!MoneyFollows, Book!Effect, Book!Posted, Effect, Posted
<1>10. new # None => Book!InOpenCurrencies(records'[j.id])
  BY <1>0, <1>1, <1>2, <1>5
     DEF Book!InOpenCurrencies, Book!CurrenciesOf, CurrenciesOf, NoDanglingCurrency
<1>11. CASE old = None /\ new # None
  BY <1>2, <1>5, <1>9, <1>10, <1>11 DEF Book!Enter
<1>12. CASE old # None /\ new # None
  BY <1>2, <1>5, <1>6, <1>9, <1>10, <1>12 DEF Book!Amend
<1>13. CASE old # None /\ new = None
  BY <1>2, <1>5, <1>9, <1>13 DEF Book!Strike
<1>14. CASE old = None /\ new = None
  <2>1. records' = records
    BY <1>0, <1>2, <1>5, <1>14 DEF Commit, TypeOK, new
  <2>2. equity' = [c \in Currencies |-> equity[c]]
    BY <1>7, <1>8, <1>14 DEF Effect
  <2> QED
    BY <1>0, <1>1, <2>1, <2>2 DEF TypeOK
<1> QED
  BY <1>11, <1>12, <1>13, <1>14

LEMMA BooksStep == LInv /\ LInv' /\ LockInv /\ [Next]_vars => [Book!Next]_Book!vars
<1> SUFFICES ASSUME LInv, LInv', LockInv, [Next]_vars PROVE [Book!Next]_Book!vars
  OBVIOUS
<1>0. TypeOK
  BY DEF LInv
<1>1. CASE stale' # {}
  BY <1>1 DEF Book!Next
<1>2. CASE UNCHANGED <<database, stale>>
  BY <1>2 DEF database, Book!vars
<1>3. ASSUME stale' = {}, NEW r \in Requests, Arrive(r) \/ Proceed(r) \/ Fail(r)
      PROVE  [Book!Next]_Book!vars
  <2>1. CASE Commit(r)
    <3>1. stale = {}
      BY <1>3, <2>1 DEF Commit
    <3>2. \/ \E i \in Ids : Book!Enter(i) \/ Book!Amend(i) \/ Book!Strike(i)
          \/ UNCHANGED <<status, equity, records>>
      BY <1>3, <2>1, <3>1, SoundCommit
    <3> QED
      BY <1>3, <3>1, <3>2 DEF Book!Next, Book!vars
  <2>2. CASE AddCost(r) \/ AddIncome(r) \/ CurrencyExchange(r)
    <3>1. UNCHANGED <<status, equity, records, stale>>
      BY <2>2 DEF AddCost, AddIncome, CurrencyExchange, Add, history
    <3> QED
      BY <3>1 DEF Book!vars
  <2>3. CASE OpenCurrency(r)
    <3>1. PICK c \in Currencies : Book!Open(c) /\ UNCHANGED stale
      BY <2>3 DEF OpenCurrency, Book!Open, history
    <3> QED
      BY <1>3, <3>1 DEF Book!Next
  <2>4. CASE DropCurrency(r)
    <3> DEFINE c == job[r].id
    <3>1. /\ pc[r] = "check" /\ ~InUse(c) /\ status' = [status EXCEPT ![c] = "closed"]
          /\ UNCHANGED <<equity, records, stale>>
      BY <2>4 DEF DropCurrency, history
    <3>2. c \in Currencies /\ status[c] = "open"
      BY <3>1, PcFacts DEF LInv, JobInv, ClosingInv
    <3>3. Book!Close(c)
      BY <3>1, <3>2 DEF Book!Close, InUse, Refers, Book!CurrenciesOf, CurrenciesOf
    <3> QED
      BY <1>3, <3>1, <3>2, <3>3 DEF Book!Next
  <2>5. CASE \/ UpdateCost(r) \/ UpdateIncome(r)
             \/ DeleteCost(r) \/ DeleteIncome(r) \/ DeleteCurrencyExchange(r)
    <3>1. UNCHANGED <<database, stale>>
      BY <2>5 DEF UpdateCost, UpdateIncome, DeleteCost, DeleteIncome,
                  DeleteCurrencyExchange, Update, Delete
    <3> QED
      BY <1>2, <3>1
  <2>6. CASE \/ CloseCurrency(r) \/ InsertRecord(r) \/ WriteRecord(r) \/ RejectRecord(r)
             \/ AdjustEquity(r) \/ Overflow(r) \/ Reread(r) \/ LockCurrency(r)
             \/ RefuseClose(r) \/ DeadlockVictim(r) \/ Fail(r)
    <3>1. UNCHANGED <<database, stale>>
      BY <2>6 DEF CloseCurrency, InsertRecord, WriteRecord, RejectRecord, AdjustEquity,
                  Overflow, Reread, LockCurrency, RefuseClose, DeadlockVictim, Fail,
                  history
    <3> QED
      BY <1>2, <3>1
  <2> QED
    BY <1>3, <2>1, <2>2, <2>3, <2>4, <2>5, <2>6 DEF Arrive, Proceed
<1>4. CASE UNCHANGED vars
  BY <1>2, <1>4 DEF vars, database
<1>5. CASE Quiet
  BY <1>4, <1>5 DEF Quiet
<1> QED
  BY <1>1, <1>3, <1>4, <1>5 DEF Next

\* The conservation law of the ledger, for every set of currencies, records,
\* requests and amounts: as long as no transaction has written from an outdated
\* snapshot, every commit moves the equities by exactly what it does to one
\* record, and a currency closes only without records.
THEOREM LedgerImplementsBooks == Spec => ImplementsBooks
<1>1. Init => Book!Init
  BY BooksBegin
<1>2. LInv /\ LInv' /\ LockInv /\ [Next]_vars => [Book!Next]_Book!vars
  BY BooksStep
<1> QED
  BY <1>1, <1>2, InvHolds, LocksHold, PTL DEF Spec, ImplementsBooks, Book!Spec

-----------------------------------------------------------------------------
(* Finite sums, by smallest counterexample: what SumFunction returns when  *)
(* arguments are added that count nothing, and when one value changes.     *)

Pick(S) == CHOOSE x \in S : TRUE

\* What the sum over S is, in terms of the sums over smaller sets.
Peel(g, f, S) == IF S = {} THEN 0 ELSE f[Pick(S)] + g[S \ {Pick(S)}]

\* g holds the sum of f over every subset of D.
Sums(g, f, D) == /\ g \in [SUBSET D -> Int]
                 /\ \A S \in SUBSET D : g[S] = Peel(g, f, S)

Splits(g, f, S, x) == g[S] = f[x] + g[S \ {x}]
Agree(f, h, S) == \A x \in S : f[x] = h[x]

LEMMA SmallestSubset ==
  ASSUME NEW D, IsFiniteSet(D), NEW B, B \subseteq SUBSET D, B # {}
  PROVE  \E S \in B : \A x \in S : S \ {x} \notin B
<1>1. FiniteSubsetsOf(D) = SUBSET D
  BY FS_FiniteSubsetsOfFinite
<1>2. IsWellFoundedOn(StrictSubsetOrdering(D), SUBSET D)
  BY <1>1, FS_StrictSubsetOrderingWellFounded
<1>3. PICK S \in B : \A U \in B : <<U, S>> \notin StrictSubsetOrdering(D)
  BY <1>2, WFMin
<1>4. ASSUME NEW x \in S, S \ {x} \in B PROVE FALSE
  BY <1>3, <1>4 DEF StrictSubsetOrdering
<1> QED
  BY <1>4

LEMMA PickIsMember == ASSUME NEW S, S # {} PROVE Pick(S) \in S
BY DEF Pick

\* Sums of functions that agree are equal.
LEMMA SumsAgree ==
  ASSUME NEW D, IsFiniteSet(D), NEW E, IsFiniteSet(E), NEW f, NEW h,
         NEW g, Sums(g, f, D), NEW k, Sums(k, h, E),
         NEW A, A \subseteq D, A \subseteq E, Agree(f, h, A)
  PROVE  g[A] = k[A]
<1> DEFINE B == {S \in SUBSET A : g[S] # k[S]}
<1>1. ASSUME B # {} PROVE FALSE
  <2>1. B \subseteq SUBSET D
    OBVIOUS
  <2>2. PICK S \in B : \A x \in S : S \ {x} \notin B
    BY <1>1, <2>1, SmallestSubset
  <2>3. g[S] = Peel(g, f, S) /\ k[S] = Peel(k, h, S)
    BY DEF Sums
  <2>4. S # {}
    BY <2>3 DEF Peel
  <2>5. Pick(S) \in S
    BY <2>4, PickIsMember
  <2>6. g[S \ {Pick(S)}] = k[S \ {Pick(S)}] /\ f[Pick(S)] = h[Pick(S)]
    BY <2>2, <2>5 DEF Agree
  <2> QED
    BY <2>3, <2>4, <2>6 DEF Peel
<1> QED
  BY <1>1

\* Every function on a finite set has sums.
LEMMA SumsExist ==
  ASSUME NEW D, IsFiniteSet(D), NEW f \in [D -> Int]
  PROVE  \E g : Sums(g, f, D)
<1> DEFINE B == {T \in SUBSET D : ~ \E g : Sums(g, f, T)}
           sol(T) == CHOOSE g : Sums(g, f, T)
<1>1. ASSUME B # {} PROVE FALSE
  <2>1. PICK T \in B : \A U \in B : <<U, T>> \notin StrictSubsetOrdering(D)
    <3>1. FiniteSubsetsOf(D) = SUBSET D
      BY FS_FiniteSubsetsOfFinite
    <3>2. IsWellFoundedOn(StrictSubsetOrdering(D), SUBSET D)
      BY <3>1, FS_StrictSubsetOrderingWellFounded
    <3> QED
      BY <1>1, <3>2, WFMin
  <2>2. \A U \in SUBSET T : U # T => Sums(sol(U), f, U)
    <3> SUFFICES ASSUME NEW U \in SUBSET T, U # T PROVE \E g : Sums(g, f, U)
      OBVIOUS
    <3> QED
      BY <2>1 DEF StrictSubsetOrdering
  <2>3. \A U \in SUBSET D : IsFiniteSet(U)
    BY FS_Subset
  <2> DEFINE rest == T \ {Pick(T)}
             g == [S \in SUBSET T |->
                     IF S # T THEN sol(S)[S]
                     ELSE IF T = {} THEN 0 ELSE f[Pick(T)] + sol(rest)[rest]]
  <2> HIDE DEF sol
  <2>4. \A S \in SUBSET T : S # T => sol(S)[S] \in Int /\ sol(S)[S] = Peel(sol(S), f, S)
    <3> SUFFICES ASSUME NEW S \in SUBSET T, S # T
                 PROVE  sol(S)[S] \in Int /\ sol(S)[S] = Peel(sol(S), f, S)
      OBVIOUS
    <3>1. Sums(sol(S), f, S) /\ S \in SUBSET S
      BY <2>2
    <3> QED
      BY <3>1 DEF Sums
  <2>5. T # {} => Pick(T) \in T /\ rest \in SUBSET T /\ rest # T
    BY PickIsMember
  <2>6. g \in [SUBSET T -> Int]
    BY <2>4, <2>5
  <2>7. ASSUME NEW S \in SUBSET T PROVE g[S] = Peel(g, f, S)
    <3>1. CASE S = T
      BY <2>5, <3>1 DEF Peel
    <3>2. CASE S # T /\ S = {}
      BY <2>4, <3>2 DEF Peel
    <3>3. CASE S # T /\ S # {}
      <4> DEFINE R == S \ {Pick(S)}
      <4>1. Pick(S) \in S /\ R \in SUBSET T /\ R # T /\ R \subseteq S
        BY <3>3, PickIsMember
      <4>2. sol(S)[R] = sol(R)[R]
        <5>1. IsFiniteSet(S) /\ IsFiniteSet(R) /\ Sums(sol(S), f, S) /\ Sums(sol(R), f, R)
          BY <2>2, <2>3, <3>3, <4>1
        <5>2. Agree(f, f, R)
          BY DEF Agree
        <5> HIDE DEF R
        <5> QED
          BY <4>1, <5>1, <5>2, SumsAgree
      <4>3. g[S] = f[Pick(S)] + sol(S)[R]
        BY <2>4, <3>3 DEF Peel
      <4>4. g[R] = sol(R)[R]
        BY <4>1
      <4> HIDE DEF g
      <4> QED
        BY <3>3, <4>2, <4>3, <4>4 DEF Peel
    <3> QED
      BY <3>1, <3>2, <3>3
  <2> HIDE DEF g
  <2>8. Sums(g, f, T)
    BY <2>6, <2>7 DEF Sums
  <2> QED
    BY <2>8
<1> QED
  BY <1>1

\* The library's sum of a function is one of these.
LEMMA SumFunctionIsSum ==
  ASSUME NEW D, IsFiniteSet(D), NEW f \in [D -> Int]
  PROVE  \E g : Sums(g, f, D) /\ SumFunction(f) = g[D]
<1> DEFINE Eq(g) == g = [S \in SUBSET D |-> IF S = {} THEN 0
                                            ELSE f[Pick(S)] + g[S \ {Pick(S)}]]
           sum == CHOOSE g : Eq(g)
<1>1. SumFunction(f) = sum[D]
  <2>1. DOMAIN f = D
    OBVIOUS
  <2> QED
    BY <2>1, Zenon DEF SumFunction, SumFunctionOnSet, FoldFunctionOnSet, MapThenFoldSet, Pick
<1>2. PICK g : Sums(g, f, D)
  BY SumsExist
<1>3. Eq(g)
  BY <1>2 DEF Sums, Peel
<1>4. Eq(sum)
  BY <1>3
<1> HIDE DEF sum
<1>5. \A S \in SUBSET D : sum[S] = Peel(sum, f, S)
  BY <1>4 DEF Peel
<1>6. sum \in [SUBSET D -> Int]
  <2> DEFINE B == {S \in SUBSET D : sum[S] \notin Int}
  <2>1. ASSUME B # {} PROVE FALSE
    <3>1. PICK S \in B : \A x \in S : S \ {x} \notin B
      BY <2>1, SmallestSubset
    <3>2. sum[S] = Peel(sum, f, S)
      BY <1>5
    <3>3. S # {}
      BY <3>1, <3>2 DEF Peel
    <3>4. Pick(S) \in S
      BY <3>3, PickIsMember
    <3>5. sum[S \ {Pick(S)}] \in Int /\ f[Pick(S)] \in Int
      BY <3>1, <3>4
    <3>6. sum[S] \in Int
      BY <3>2, <3>3, <3>5 DEF Peel
    <3> QED
      BY <3>1, <3>6
  <2>2. sum = [S \in SUBSET D |-> sum[S]]
    BY <1>4
  <2> QED
    BY <2>1, <2>2
<1> QED
  BY <1>1, <1>5, <1>6 DEF Sums

\* Any element may be taken out first.
LEMMA SumsPeel ==
  ASSUME NEW D, IsFiniteSet(D), NEW f \in [D -> Int], NEW g, Sums(g, f, D)
  PROVE  \A A \in SUBSET D : \A x \in A : Splits(g, f, A, x)
<1> DEFINE B == {S \in SUBSET D : \E y \in S : g[S] # f[y] + g[S \ {y}]}
<1>1. ASSUME B # {} PROVE FALSE
  <2>1. PICK S \in B : \A y \in S : S \ {y} \notin B
    BY <1>1, SmallestSubset
  <2>2. PICK y \in S : g[S] # f[y] + g[S \ {y}]
    OBVIOUS
  <2> DEFINE p == Pick(S)
  <2>3. p \in S /\ g[S] = f[p] + g[S \ {p}]
    BY PickIsMember DEF Sums, Peel
  <2>4. y # p
    BY <2>2, <2>3
  <2> DEFINE U == (S \ {p}) \ {y}
  <2>5. g[S \ {p}] = f[y] + g[U]
    BY <2>1, <2>3, <2>4
  <2>6. U = (S \ {y}) \ {p} /\ U \in SUBSET D
    OBVIOUS
  <2>7. S \ {y} \notin B /\ p \in S \ {y}
    BY <2>1, <2>3, <2>4
  <2>8. g[S \ {y}] = f[p] + g[U]
    BY <2>6, <2>7
  <2>9. f[p] \in Int /\ f[y] \in Int /\ g[U] \in Int
    BY <2>3, <2>6 DEF Sums
  <2> HIDE DEF p, U
  <2> QED
    BY <2>2, <2>3, <2>5, <2>8, <2>9
<1> QED
  BY <1>1 DEF Splits

\* Zeros may be left out.
LEMMA SumsSkip ==
  ASSUME NEW D, IsFiniteSet(D), NEW f \in [D -> Int], NEW g, Sums(g, f, D),
         NEW Z, Z \subseteq D, Agree(f, [x \in Z |-> 0], Z)
  PROVE  g[D] = g[D \ Z]
<1> DEFINE B == {W \in SUBSET Z : g[D] # g[D \ W]}
<1>1. ASSUME B # {} PROVE FALSE
  <2>1. PICK W \in B : \A x \in W : W \ {x} \notin B
    <3>1. B \subseteq SUBSET D
      OBVIOUS
    <3> QED
      BY <1>1, <3>1, SmallestSubset
  <2>2. W # {}
    <3>1. D \ {} = D
      OBVIOUS
    <3> QED
      BY <3>1
  <2>3. PICK x \in W : TRUE
    BY <2>2
  <2> DEFINE S == D \ (W \ {x})
  <2>4. g[D] = g[S]
    BY <2>1
  <2>5. S \in SUBSET D /\ x \in S /\ S \ {x} = D \ W /\ D \ W \in SUBSET D /\ f[x] = 0
    BY DEF Agree
  <2> HIDE DEF S
  <2>6. g[S] = f[x] + g[D \ W]
    <3>1. Splits(g, f, S, x)
      BY <2>5, SumsPeel
    <3> QED
      BY <2>5, <3>1 DEF Splits
  <2>7. g[D \ W] \in Int
    BY <2>5 DEF Sums
  <2> QED
    BY <2>4, <2>5, <2>6, <2>7
<1>2. Z \notin B
  BY <1>1
<1> QED
  BY <1>2

\* More arguments with the value zero do not change a sum.
LEMMA SumExtends ==
  ASSUME NEW D, IsFiniteSet(D), NEW E \in SUBSET D,
         NEW f \in [E -> Int], NEW h \in [D -> Int],
         \A x \in E : h[x] = f[x], \A x \in D \ E : h[x] = 0
  PROVE  SumFunction(h) = SumFunction(f)
<1>1. IsFiniteSet(E)
  BY FS_Subset
<1>2. PICK g : Sums(g, f, E) /\ SumFunction(f) = g[E]
  BY <1>1, SumFunctionIsSum
<1>3. PICK k : Sums(k, h, D) /\ SumFunction(h) = k[D]
  BY SumFunctionIsSum
<1>4. k[D] = k[D \ (D \ E)]
  <2>1. D \ E \subseteq D /\ Sums(k, h, D) /\ Agree(h, [x \in D \ E |-> 0], D \ E)
    BY <1>3 DEF Agree
  <2> QED
    BY <2>1, SumsSkip
<1>5. D \ (D \ E) = E
  OBVIOUS
<1>6. k[E] = g[E]
  <2>1. Agree(h, f, E)
    BY DEF Agree
  <2> QED
    BY <2>1, <1>1, <1>2, <1>3, SumsAgree
<1> QED
  BY <1>2, <1>3, <1>4, <1>5, <1>6

\* A sum moves by as much as one of its terms.
LEMMA SumMoves ==
  ASSUME NEW D, IsFiniteSet(D), NEW f \in [D -> Int], NEW h \in [D -> Int],
         NEW x \in D, \A y \in D \ {x} : h[y] = f[y]
  PROVE  /\ SumFunction(f) \in Int
         /\ SumFunction(h) = SumFunction(f) + h[x] - f[x]
<1>1. PICK g : Sums(g, f, D) /\ SumFunction(f) = g[D]
  BY SumFunctionIsSum
<1>2. PICK k : Sums(k, h, D) /\ SumFunction(h) = k[D]
  BY SumFunctionIsSum
<1>3. g[D] = f[x] + g[D \ {x}] /\ k[D] = h[x] + k[D \ {x}]
  <2>1. Splits(g, f, D, x)
    BY <1>1, SumsPeel
  <2>2. Splits(k, h, D, x)
    BY <1>2, SumsPeel
  <2> QED
    BY <2>1, <2>2 DEF Splits
<1> DEFINE A == D \ {x}
<1>4. A \subseteq D /\ Agree(f, h, A)
  BY DEF Agree
<1> HIDE DEF A
<1>5. g[A] = k[A]
  BY <1>1, <1>2, <1>4, SumsAgree
<1>6. g[D] \in Int /\ g[A] \in Int
  BY <1>1, <1>4 DEF Sums
<1> QED
  BY <1>1, <1>2, <1>3, <1>5, <1>6 DEF A

-----------------------------------------------------------------------------
(* Every equity is the sum of what the records contribute to it.           *)

\* An identifier that was not handed out has no record, so the sum over the
\* identifiers handed out is the sum over all records; it is finite.
BalanceInv ==
  /\ IsFiniteSet(issued)
  /\ stale = {} => \A c \in Currencies : equity[c] = Due(c)

LEMMA EffectIsInt ==
  ASSUME NEW rec, rec # None => WellFormed(rec), NEW c
  PROVE  Effect(rec, c) \in Int
BY WellFormedLegs DEF Effect, Posted

\* What every step does to the identifiers, the history and the money.
LEMMA MoneyStands ==
  ASSUME LInv, IsFiniteSet(issued), [Next]_vars
  PROVE  /\ IsFiniteSet(issued') /\ issued \subseteq issued' /\ stale \subseteq stale'
         /\ \/ UNCHANGED <<equity, records>>
            \/ UNCHANGED issued /\ \E r \in Requests : Commit(r)
<1>1. ASSUME NEW r \in Requests, Ends(r) \/ Closes(r) \/ Locks(r) \/ Executes(r)
      PROVE  UNCHANGED <<equity, records, issued, stale>>
  BY <1>1 DEF Ends, Closes, Locks, Executes, database, history
<1>2. ASSUME NEW r \in Requests, Starts(r)
      PROVE  /\ UNCHANGED <<equity, records, stale>>
             /\ issued' = issued \/ \E i \in Ids : issued' = issued \cup {i}
  BY <1>2 DEF Starts
<1>3. ASSUME NEW i, issued' = issued \cup {i} PROVE IsFiniteSet(issued')
  BY <1>3, FS_AddElement
<1>4. ASSUME NEW r \in Requests, Commit(r)
      PROVE  UNCHANGED issued /\ stale \subseteq stale'
  BY <1>4 DEF Commit
<1>5. CASE UNCHANGED vars
  BY <1>5 DEF vars
<1>6. ASSUME NEW r \in Requests, Starts(r)
      PROVE  /\ IsFiniteSet(issued') /\ issued \subseteq issued'
             /\ UNCHANGED <<equity, records, stale>>
  BY <1>2, <1>3, <1>6
<1> QED
  BY <1>1, <1>4, <1>5, <1>6, StepKinds

\* More identifiers without a record do not change what is due.
LEMMA DueStands ==
  ASSUME LInv, LInv', IsFiniteSet(issued'), issued \subseteq issued',
         UNCHANGED records, NEW c \in Currencies
  PROVE  Due(c)' = Due(c)
<1> DEFINE f == [i \in issued |-> Effect(records[i], c)]
           h == [i \in issued' |-> Effect(records[i], c)]
<1>1. issued' \subseteq Ids /\ \A i \in Ids : records[i] # None =>
                                  WellFormed(records[i]) /\ i \in issued
  BY DEF LInv, TypeOK, RecordsInv
<1>2. \A i \in issued' : Effect(records[i], c) \in Int
  BY <1>1, EffectIsInt
<1>3. f \in [issued -> Int] /\ h \in [issued' -> Int]
  BY <1>2
<1>4. \A i \in issued : h[i] = f[i]
  OBVIOUS
<1>5. \A i \in issued' \ issued : h[i] = 0
  BY <1>1 DEF Effect
<1>6. Due(c) = SumFunction(f) /\ Due(c)' = SumFunction(h)
  BY DEF Due
<1> HIDE DEF f, h
<1>7. SumFunction(h) = SumFunction(f)
  BY <1>3, <1>4, <1>5, SumExtends
<1> QED
  BY <1>6, <1>7

\* What is due moves by what the one record that changes contributes.
LEMMA DueMoves ==
  ASSUME LInv, LInv', IsFiniteSet(issued), UNCHANGED issued, NEW k \in issued,
         \A i \in Ids \ {k} : records'[i] = records[i], NEW c \in Currencies
  PROVE  /\ Due(c) \in Int
         /\ Due(c)' = Due(c) + Effect(records'[k], c) - Effect(records[k], c)
<1> DEFINE f == [i \in issued |-> Effect(records[i], c)]
           h == [i \in issued |-> Effect(records'[i], c)]
<1>1. /\ issued \subseteq Ids
      /\ \A i \in Ids : records[i] # None => WellFormed(records[i])
      /\ \A i \in Ids : records'[i] # None => WellFormed(records'[i])
  BY DEF LInv, TypeOK, RecordsInv
<1>2. \A i \in issued : Effect(records[i], c) \in Int /\ Effect(records'[i], c) \in Int
  BY <1>1, EffectIsInt
<1>3. f \in [issued -> Int] /\ h \in [issued -> Int]
  BY <1>2
<1>4. \A i \in issued \ {k} : h[i] = f[i]
  BY <1>1
<1>5. Due(c) = SumFunction(f) /\ Due(c)' = SumFunction(h)
  BY DEF Due
<1>6. f[k] = Effect(records[k], c) /\ h[k] = Effect(records'[k], c)
  OBVIOUS
<1> HIDE DEF f, h
<1>7. SumFunction(f) \in Int /\ SumFunction(h) = SumFunction(f) + h[k] - f[k]
  BY <1>3, <1>4, SumMoves
<1> QED
  BY <1>5, <1>6, <1>7

LEMMA BalanceInit == Init => BalanceInv
<1> SUFFICES ASSUME Init PROVE BalanceInv
  OBVIOUS
<1>1. issued = {} /\ IsFiniteSet(issued)
  BY FS_EmptySet DEF Init
<1>2. ASSUME NEW c \in Currencies PROVE equity[c] = Due(c)
  <2> DEFINE f == [i \in issued |-> Effect(records[i], c)]
  <2>1. f \in [{} -> Int]
    BY <1>1
  <2>2. PICK g : Sums(g, f, {}) /\ SumFunction(f) = g[{}]
    BY <1>1, <2>1, SumFunctionIsSum
  <2>3. g[{}] = 0
    BY <2>2 DEF Sums, Peel
  <2> QED
    BY <2>2, <2>3 DEF Due, Init
<1> QED
  BY <1>1, <1>2 DEF BalanceInv

LEMMA BalanceStep == LInv /\ LInv' /\ LockInv /\ BalanceInv /\ [Next]_vars => BalanceInv'
<1> SUFFICES ASSUME LInv, LInv', LockInv, BalanceInv, [Next]_vars PROVE BalanceInv'
  OBVIOUS
<1>1. /\ IsFiniteSet(issued) /\ IsFiniteSet(issued')
      /\ issued \subseteq issued' /\ stale \subseteq stale'
  BY MoneyStands DEF BalanceInv
<1>2. ASSUME stale' = {}, NEW c \in Currencies
      PROVE  equity'[c] = Due(c)'
  <2>1. stale = {} /\ equity[c] = Due(c)
    BY <1>1, <1>2 DEF BalanceInv
  <2>2. CASE UNCHANGED <<equity, records>>
    BY <1>1, <2>1, <2>2, DueStands
  <2>3. ASSUME NEW r \in Requests, Commit(r), UNCHANGED issued
        PROVE  equity'[c] = Due(c)'
    <3>1. \/ \E i \in Ids : Book!Enter(i) \/ Book!Amend(i) \/ Book!Strike(i)
          \/ UNCHANGED <<status, equity, records>>
      BY <1>2, <2>1, <2>3, SoundCommit
    <3>2. ASSUME NEW i \in Ids, Book!Enter(i) \/ Book!Amend(i) \/ Book!Strike(i)
          PROVE  equity'[c] = Due(c)'
      <4>1. Book!MoneyFollows(i) /\ (records[i] # None \/ records'[i] # None)
        BY <3>2 DEF Book!Enter, Book!Amend, Book!Strike
      <4>2. i \in issued
        BY <2>3, <4>1 DEF LInv, RecordsInv
      <4>3. /\ \A k \in Ids \ {i} : records'[k] = records[k]
            /\ equity'[c] = equity[c] + Effect(records'[i], c) - Effect(records[i], c)
        BY <4>1 DEF Book!MoneyFollows, Book!Effect, Book!Posted, Effect, Posted
      <4>4. Due(c)' = Due(c) + Effect(records'[i], c) - Effect(records[i], c)
        BY <1>1, <2>3, <4>2, <4>3, DueMoves
      <4> QED
        BY <2>1, <4>3, <4>4
    <3> QED
      BY <1>1, <2>2, <3>1, <3>2
  <2> QED
    BY <2>2, <2>3, <1>1, MoneyStands
<1> QED
  BY <1>1, <1>2 DEF BalanceInv

LEMMA BalanceHolds == Spec => []BalanceInv
<1>1. LInv /\ LInv' /\ LockInv /\ BalanceInv /\ [Next]_vars => BalanceInv'
  BY BalanceStep
<1> QED
  BY <1>1, BalanceInit, InvHolds, LocksHold, PTL DEF Spec

\* For every set of currencies, records, requests and amounts: as long as no
\* transaction wrote from an outdated snapshot, every equity is the sum of what
\* the committed records contribute to it.
THEOREM EquityIsSumOfRecords == Spec => []BooksBalance
<1>1. BalanceInv => BooksBalance
  BY DEF BalanceInv, BooksBalance, Balanced
<1> QED
  BY <1>1, BalanceHolds, PTL

=============================================================================
