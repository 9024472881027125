--------------------------- MODULE ReportsProofs ---------------------------
(***************************************************************************)
(* Proofs about Reports, for any transactions, filters, queries and page   *)
(* sizes.                                                                  *)
(*                                                                         *)
(* Rows of which no two have one day and id have one order only, so the    *)
(* pages of an undisturbed reading are pieces of the same sequence.  What  *)
(* the statements of an undisturbed report have returned is still so when  *)
(* the last has: it is assembled from one state, of which the sums can be  *)
(* taken apart by category, source and operation.  If rows were only       *)
(* removed, later answers need no more than earlier ones have.             *)
(***************************************************************************)
EXTENDS Reports, FiniteSetTheorems, SequenceTheorems, WellFoundedInduction, TLAPS

-----------------------------------------------------------------------------
(* Orders                                                                  *)

Before(r, s) == r.day > s.day \/ (r.day = s.day /\ r.id > s.id)

Tied(rows) == \E r, s \in rows : r # s /\ r.day = s.day /\ r.id = s.id

LEMMA RowFacts ==
  ASSUME NEW r \in Rows
  PROVE  r.day \in Nat /\ r.id \in Nat
BY ReportsAssumption DEF RowType

\* Among rows without ties the order is strict.
LEMMA OrderIsStrict ==
  ASSUME NEW rows \in SUBSET Rows, ~Tied(rows), NEW r \in rows, NEW s \in rows, r # s,
         InOrder(r, s)
  PROVE  Before(r, s) /\ ~Before(s, r)
<1>1. r.day \in Nat /\ r.id \in Nat /\ s.day \in Nat /\ s.id \in Nat
  BY RowFacts
<1>2. r.day # s.day \/ r.id # s.id
  BY DEF Tied
<1> QED
  BY <1>1, <1>2 DEF InOrder, Before

\* The first n elements of s are the rows, each once, in an order.
Lists(s, rows, n) ==
  /\ \A i \in 1..n : s[i] \in rows
  /\ \A i, j \in 1..n : i < j => s[i] # s[j] /\ InOrder(s[i], s[j])
  /\ \A r \in rows : \E i \in 1..n : s[i] = r

\* An order lists each row once.
LEMMA OrderFacts ==
  ASSUME NEW rows \in SUBSET Rows, NEW s \in Orders(rows)
  PROVE  /\ Cardinality(rows) \in Nat /\ Len(s) = Cardinality(rows)
         /\ s \in Seq(rows) /\ DOMAIN s = 1..Len(s)
         /\ Lists(s, rows, Len(s))
<1>1. IsFiniteSet(rows)
  BY ReportsAssumption, FS_Subset
<1>2. Cardinality(rows) \in Nat
  BY <1>1, FS_CardinalityType
<1> DEFINE n == Cardinality(rows)
<1>3. s \in [1..n -> rows] /\ \A i, j \in 1..n : i # j => s[i] # s[j]
  BY DEF Orders, SetToSeqs
<1> HIDE DEF n
<1>4. n \in Nat
  BY <1>2 DEF n
<1>5. s \in Seq(rows) /\ Len(s) = n /\ DOMAIN s = 1..n
  BY <1>3, <1>4
<1>6. \A i, j \in 1..Len(s) : i < j => InOrder(s[i], s[j])
  BY DEF Orders
<1>7. s \in Injection(1..n, rows)
  BY <1>3 DEF Injection, IsInjective
<1>8. Cardinality(1..n) = n
  BY <1>4, FS_Interval
<1>9. s \in Surjection(1..n, rows)
  BY <1>1, <1>7, <1>8, FS_Injection DEF n
<1>10. \A r \in rows : \E i \in 1..n : s[i] = r
  BY <1>9 DEF Surjection
<1> QED
  BY <1>2, <1>3, <1>4, <1>5, <1>6, <1>10 DEF n, Lists

\* Two sequences of length n differ at k, and are the same before.
DifferFrom(s, t, n, k) ==
  k \in 1..n /\ s[k] # t[k] /\ \A i \in 1..n : i < k => s[i] = t[i]

LEMMA FirstDifference ==
  ASSUME NEW n \in Nat, NEW s, NEW t, NEW j \in 1..n, s[j] # t[j]
  PROVE  \E k : DifferFrom(s, t, n, k)
<1> DEFINE D == {k \in Nat : k \in 1..n /\ s[k] # t[k]}
<1>1. D \subseteq Nat /\ j \in D
  OBVIOUS
<1> HIDE DEF D
<1>2. PICK k \in D : \A i \in D : <<i, k>> \notin OpToRel(<, Nat)
  BY <1>1, NatLessThanWellFounded, WFMin
<1>3. \A i \in D : ~(i < k)
  BY <1>1, <1>2 DEF OpToRel
<1>4. k \in 1..n /\ s[k] # t[k]
  BY <1>2 DEF D
<1>5. ASSUME NEW i \in 1..n, i < k PROVE s[i] = t[i]
  <2>1. i \notin D /\ i \in Nat
    BY <1>3, <1>5
  <2> QED
    BY <2>1 DEF D
<1> QED
  BY <1>4, <1>5 DEF DifferFrom

\* Rows without ties have one order.
LEMMA OneOrder ==
  ASSUME NEW rows \in SUBSET Rows, ~Tied(rows), NEW s \in Orders(rows),
         NEW t \in Orders(rows)
  PROVE  s = t
<1> DEFINE n == Len(s)
<1>1. /\ n \in Nat /\ Len(t) = n /\ s \in Seq(rows) /\ t \in Seq(rows)
      /\ DOMAIN s = 1..n /\ DOMAIN t = 1..n
  BY OrderFacts
<1>2. \A u \in {s, t} : Lists(u, rows, n)
  BY <1>1, OrderFacts
<1> HIDE DEF n
<1>3. ASSUME NEW k \in 1..n, s[k] # t[k], \A i \in 1..n : i < k => s[i] = t[i],
             NEW u \in {s, t}, NEW v \in {s, t}, u # v
      PROVE  Before(u[k], v[k])
  <2>1. PICK m \in 1..n : u[m] = v[k]
    BY <1>2 DEF Lists
  <2>2. m # k /\ u[k] # v[k]
    BY <1>3, <2>1
  <2>3. ~(m < k)
    <3>1. SUFFICES ASSUME m < k PROVE FALSE
      OBVIOUS
    <3>2. v[m] = u[m]
      BY <1>3, <3>1
    <3>3. v[m] # v[k]
      BY <1>2, <1>3, <3>1 DEF Lists
    <3> QED
      BY <2>1, <3>2, <3>3
  <2>4. k < m
    BY <1>1, <2>2, <2>3
  <2>5. InOrder(u[k], v[k])
    BY <1>2, <2>1, <2>4 DEF Lists
  <2>6. u[k] \in rows /\ v[k] \in rows
    BY <1>2 DEF Lists
  <2> QED
    BY <2>2, <2>5, <2>6, OrderIsStrict
<1>4. ASSUME NEW k \in 1..n, s[k] # t[k], \A i \in 1..n : i < k => s[i] = t[i]
      PROVE  FALSE
  <2>1. s # t /\ Before(s[k], t[k]) /\ Before(t[k], s[k])
    BY <1>3, <1>4
  <2>2. s[k] \in rows /\ t[k] \in rows
    BY <1>2 DEF Lists
  <2>3. s[k].day \in Nat /\ s[k].id \in Nat /\ t[k].day \in Nat /\ t[k].id \in Nat
    BY <2>2, RowFacts
  <2> QED
    BY <2>1, <2>3 DEF Before
<1>5. \A j \in 1..n : s[j] = t[j]
  <2> SUFFICES ASSUME NEW j \in 1..n, s[j] # t[j] PROVE FALSE
    OBVIOUS
  <2>1. PICK k : DifferFrom(s, t, n, k)
    BY <1>1, FirstDifference
  <2> QED
    BY <1>4, <2>1 DEF DifferFrom
<1> QED
  BY <1>1, <1>5

-----------------------------------------------------------------------------
(* Pages                                                                   *)

PageAt(s, offset) ==
  SubSeq(s, offset + 1, IF offset + Limit < Len(s) THEN offset + Limit ELSE Len(s))

\* A page continues what was shown, and is empty at the end only.
LEMMA PageFacts ==
  ASSUME NEW rows, NEW s \in Seq(rows), NEW o \in Nat
  PROVE  /\ PageAt(s, o) \in Seq(rows)
         /\ o <= Len(s) =>
              /\ o + Len(PageAt(s, o)) <= Len(s)
              /\ SubSeq(s, 1, o) \o PageAt(s, o) = SubSeq(s, 1, o + Len(PageAt(s, o)))
              /\ PageAt(s, o) = << >> => o = Len(s)
<1> DEFINE m == IF o + Limit < Len(s) THEN o + Limit ELSE Len(s)
<1>1. Limit \in Nat /\ Limit > 0 /\ Len(s) \in Nat
  BY ReportsAssumption
<1>2. m \in Nat /\ m <= Len(s) /\ (o <= Len(s) => o <= m) /\ (m = o => o >= Len(s))
  BY <1>1
<1>3. PageAt(s, o) = SubSeq(s, o + 1, m)
  BY DEF PageAt
<1> HIDE DEF m
<1>4. \A i \in (o + 1)..m : s[i] \in rows
  BY <1>1, <1>2
<1>5. /\ SubSeq(s, o + 1, m) \in Seq(rows)
      /\ Len(SubSeq(s, o + 1, m)) = IF o + 1 <= m THEN m - (o + 1) + 1 ELSE 0
  BY <1>2, <1>4, SubSeqProperties
<1>6. ASSUME o <= Len(s)
      PROVE  /\ Len(PageAt(s, o)) = m - o
             /\ SubSeq(s, 1, o) \o PageAt(s, o) = SubSeq(s, 1, m)
  <2>1. Len(PageAt(s, o)) = m - o
    BY <1>2, <1>3, <1>5, <1>6
  <2>2. 1 \in 1..Len(s) + 1 /\ o \in (1 - 1)..Len(s) /\ m \in o..Len(s)
    BY <1>1, <1>2, <1>6
  <2> QED
    BY <1>3, <2>1, <2>2, ConcatAdjacentSubSeq
<1>7. PageAt(s, o) = << >> => Len(PageAt(s, o)) = 0
  OBVIOUS
<1>8. o <= Len(s) => o + Len(PageAt(s, o)) = m /\ (PageAt(s, o) = << >> => o = Len(s))
  BY <1>1, <1>2, <1>6, <1>7
<1> QED
  BY <1>2, <1>3, <1>5, <1>6, <1>8

-----------------------------------------------------------------------------
(* The invariant                                                           *)

Paging == {"count", "page", "end"}

Listing == [at : Paging, filter : Filters, offset : Nat, total : Nat, shown : Seq(Rows)]

\* A reader has a stage; one that reads a list has all of this.
Reading == /\ "at" \in DOMAIN reader
           /\ reader.at \in Paging => reader \in Listing
           /\ table \in SUBSET Rows /\ writes \in Nat

Undisturbed == reader.at \in Paging /\ writes = 0 /\ ~Tied(Matching(reader.filter))

\* What an undisturbed client has been shown is how every order begins, and
\* after the last page it is all of one.
Beginning(s) == /\ reader.offset <= Len(s)
                /\ reader.shown = SubSeq(s, 1, reader.offset)

ShownInv ==
  Undisturbed =>
    /\ \A s \in Orders(Matching(reader.filter)) : Beginning(s)
    /\ reader.at = "page" => reader.total = Cardinality(Matching(reader.filter))
    /\ reader.at = "end" => reader.shown \in Orders(Matching(reader.filter))

PInv == Reading /\ ShownInv

LEMMA MatchingRows == ASSUME Reading, NEW f PROVE Matching(f) \in SUBSET Rows
BY DEF Reading, Matching

LEMMA PInit == Init => PInv
BY DEF Init, PInv, Reading, ShownInv, Undisturbed, Paging

\* A step that keeps the rows, or after which the reading is disturbed.
LEMMA StartStep ==
  ASSUME PInv, NEW f \in Filters, ListStart(f)
  PROVE  PInv'
<1>1. /\ reader' = [at |-> "count", filter |-> f, offset |-> 0, total |-> 0, shown |-> << >>]
      /\ writes' = 0 /\ table' = table
  BY DEF ListStart, Begin
<1>2. reader' \in Listing
  BY <1>1 DEF Listing, Paging
<1>3. Reading'
  BY <1>1, <1>2 DEF PInv, Reading, Paging
<1>4. ASSUME NEW s \in Orders(Matching(reader.filter))' PROVE Beginning(s)'
  <2>1. Len(s) \in Nat
    BY <1>3, MatchingRows, OrderFacts, <1>4
  <2>2. SubSeq(s, 1, 0) = << >>
    BY SubSeqEmpty
  <2> QED
    BY <1>1, <2>1, <2>2 DEF Beginning
<1> QED
  BY <1>1, <1>3, <1>4 DEF PInv, ShownInv

LEMMA CountStep ==
  ASSUME PInv, ListCount
  PROVE  PInv'
<1>1. /\ reader \in Listing /\ reader.at = "count" /\ writes' = writes /\ table' = table
      /\ reader' = [reader EXCEPT !.at = "page",
                      !.total = Cardinality(Matching(reader.filter))]
  BY DEF ListCount, PInv, Reading, Paging
<1>2. Cardinality(Matching(reader.filter)) \in Nat
  <2>1. IsFiniteSet(Matching(reader.filter))
    BY MatchingRows, ReportsAssumption, FS_Subset DEF PInv
  <2> QED
    BY <2>1, FS_CardinalityType
<1>3. /\ reader' \in Listing /\ reader'.at = "page" /\ reader'.filter = reader.filter
      /\ reader'.offset = reader.offset /\ reader'.shown = reader.shown
      /\ reader'.total = Cardinality(Matching(reader.filter))
  BY <1>1, <1>2 DEF Listing, Paging
<1>4. Matching(reader.filter)' = Matching(reader.filter)
  BY <1>1, <1>3 DEF Matching
<1>5. Reading'
  BY <1>1, <1>3 DEF PInv, Reading, Listing
<1>6. Undisturbed' => Undisturbed
  BY <1>1, <1>3, <1>4 DEF Undisturbed, Paging
<1> QED
  BY <1>1, <1>3, <1>4, <1>5, <1>6 DEF PInv, ShownInv, Beginning

LEMMA PageStep ==
  ASSUME PInv, ListPage
  PROVE  PInv'
<1> DEFINE rows == Matching(reader.filter)
<1>1. reader \in Listing /\ reader.at = "page" /\ writes' = writes /\ table' = table
  BY DEF ListPage, PInv, Reading, Paging
<1>2. PICK s \in Orders(rows) :
        LET page == PageAt(s, reader.offset)
            left == IF page = << >> THEN 0 ELSE reader.total - (reader.offset + Len(page))
        IN reader' = [reader EXCEPT !.at     = IF left > 0 THEN "count" ELSE "end",
                                    !.offset = reader.offset + Len(page),
                                    !.shown  = reader.shown \o page]
  BY DEF ListPage, PageAt, Context
<1> DEFINE page == PageAt(s, reader.offset)
           left == IF page = << >> THEN 0 ELSE reader.total - (reader.offset + Len(page))
<1>3. reader.offset \in Nat /\ reader.total \in Nat /\ reader.shown \in Seq(Rows)
  BY <1>1 DEF Listing
<1>4. rows \in SUBSET Rows
  BY MatchingRows DEF PInv
<1>5. s \in Seq(rows) /\ Len(s) = Cardinality(rows) /\ Cardinality(rows) \in Nat
  BY <1>4, OrderFacts
<1>6. page \in Seq(Rows) /\ Len(page) \in Nat
  <2>1. page \in Seq(rows)
    BY <1>3, <1>5, PageFacts
  <2> HIDE DEF page, rows
  <2> QED
    BY <1>4, <2>1
<1>7. /\ reader'.at = IF left > 0 THEN "count" ELSE "end"
      /\ reader'.filter = reader.filter /\ reader'.total = reader.total
      /\ reader'.offset = reader.offset + Len(page) /\ reader'.shown = reader.shown \o page
      /\ reader' \in Listing
  <2> HIDE DEF page, left, rows
  <2>1. reader' = [reader EXCEPT !.at     = IF left > 0 THEN "count" ELSE "end",
                                 !.offset = reader.offset + Len(page),
                                 !.shown  = reader.shown \o page]
    BY <1>2 DEF page, left
  <2>2. reader.offset + Len(page) \in Nat /\ reader.shown \o page \in Seq(Rows)
    BY <1>3, <1>6
  <2> QED
    BY <1>1, <2>1, <2>2 DEF Listing, Paging
<1>8. Matching(reader.filter)' = rows
  BY <1>1, <1>7 DEF Matching
<1>9. Reading'
  BY <1>1, <1>7 DEF PInv, Reading, Listing
<1>10. ASSUME Undisturbed' PROVE ShownInv'
  <2>1. Undisturbed /\ ~Tied(rows)
    BY <1>1, <1>7, <1>8, <1>10 DEF Undisturbed, Paging
  <2>2. Beginning(s) /\ reader.total = Cardinality(rows)
    BY <1>1, <2>1 DEF PInv, ShownInv
  <2>3. /\ reader.offset + Len(page) <= Len(s)
        /\ reader.shown \o page = SubSeq(s, 1, reader.offset + Len(page))
        /\ page = << >> => reader.offset = Len(s)
    BY <1>3, <1>5, <2>2, PageFacts DEF Beginning
  <2> HIDE DEF page, left, rows
  <2>4. \A t \in Orders(rows) : t = s
    BY <1>4, <2>1, OneOrder
  <2>5. \A t \in Orders(rows) : Beginning(t)'
    BY <1>7, <2>3, <2>4 DEF Beginning
  <2>6. ASSUME reader'.at = "end" PROVE reader'.shown = s
    <3>1. ~(left > 0)
      BY <1>7, <2>6
    <3>2. reader.offset + Len(page) = Len(s)
      <4>1. CASE page = << >>
        BY <1>3, <1>5, <2>3, <4>1
      <4>2. CASE page # << >>
        <5>1. left = reader.total - (reader.offset + Len(page))
          BY <4>2 DEF left
        <5>2. reader.total = Len(s) /\ Len(s) \in Nat /\ reader.offset + Len(page) \in Nat
          BY <1>3, <1>5, <1>6, <2>2
        <5>3. reader.offset + Len(page) <= Len(s)
          BY <2>3
        <5>4. ~(reader.total - (reader.offset + Len(page)) > 0)
          BY <3>1, <5>1
        <5> QED
          BY <5>2, <5>3, <5>4
      <4> QED
        BY <4>1, <4>2
    <3>3. SubSeq(s, 1, Len(s)) = s
      BY <1>5, SubSeqFull
    <3> QED
      BY <1>7, <2>3, <3>2, <3>3
  <2>7. reader'.at # "page"
    BY <1>7
  <2> QED
    BY <1>2, <1>8, <2>5, <2>6, <2>7 DEF ShownInv, rows
<1> QED
  BY <1>9, <1>10 DEF PInv, ShownInv

\* Writes disturb, and a report is not a list.
LEMMA OtherSteps ==
  ASSUME PInv, \/ Write \/ ReportRead \/ ReportFails \/ ReportAssemble
                \/ \E q \in Queries : ReportStart(q)
  PROVE  PInv'
<1>1. CASE Write
  <2>1. reader' = reader /\ writes' = writes + 1 /\ writes \in Nat
    BY <1>1 DEF Write, PInv, Reading
  <2>2. table' \in SUBSET Rows
    BY <1>1 DEF Write, PInv, Reading
  <2>3. ~Undisturbed'
    BY <2>1 DEF Undisturbed
  <2> QED
    BY <2>1, <2>2, <2>3 DEF PInv, Reading, ShownInv
<1>2. CASE ReportRead \/ ReportFails \/ ReportAssemble \/ \E q \in Queries : ReportStart(q)
  <2>1. /\ table' = table /\ writes' \in Nat
        /\ "at" \in DOMAIN reader' /\ reader'.at \notin Paging
    <3>1. CASE ReportRead
      <4>1. reader.at = "read" /\ DOMAIN reader' = DOMAIN reader /\ reader'.at = reader.at
        BY <3>1, Zenon DEF ReportRead, PInv, Reading
      <4> QED
        BY <3>1, <4>1 DEF ReportRead, PInv, Reading, Paging
    <3>2. CASE ReportAssemble
      BY <3>2 DEF ReportAssemble, PInv, Reading, Paging
    <3>3. CASE \E q \in Queries : ReportStart(q)
      BY <3>3 DEF ReportStart, Begin, Paging
    <3>4. CASE ReportFails
      BY <3>4 DEF ReportFails, PInv, Reading, Paging
    <3> QED
      BY <1>2, <3>1, <3>2, <3>3, <3>4
  <2> QED
    BY <2>1 DEF PInv, Reading, ShownInv, Undisturbed
<1> QED
  BY <1>1, <1>2

LEMMA PStep == PInv /\ [Next]_vars => PInv'
<1> SUFFICES ASSUME PInv, [Next]_vars PROVE PInv'
  OBVIOUS
<1>1. CASE UNCHANGED vars
  BY <1>1 DEF vars, PInv, Reading, ShownInv, Undisturbed, Beginning, Matching
<1>2. CASE Next
  BY <1>2, StartStep, CountStep, PageStep, OtherSteps DEF Next
<1> QED
  BY <1>1, <1>2

LEMMA PAlways == Spec => []PInv
BY PInit, PStep, PTL DEF Spec

\* A client that follows get_transactions' pages to the last one, whatever the
\* filter and the size of a page, has seen every transaction once and the newest
\* first, if nothing was written meanwhile and the order is the only one.
THEOREM PagesAreComplete == Spec => []PagesShowEachOnce
<1>1. PInv => PagesShowEachOnce
  <2> DEFINE rows == Matching(reader.filter)
             s    == reader.shown
  <2> SUFFICES ASSUME PInv, reader.at = "end", writes = 0, ~Tied(rows)
               PROVE  /\ Len(s) = Cardinality(rows) /\ ToSet(s) = rows
                      /\ \A i, j \in 1..Len(s) : i < j => Before(s[i], s[j])
    BY DEF PagesShowEachOnce, Tied, Before
  <2>1. rows \in SUBSET Rows /\ s \in Orders(rows)
    BY MatchingRows DEF PInv, ShownInv, Undisturbed, Paging
  <2>2. /\ Len(s) = Cardinality(rows) /\ DOMAIN s = 1..Len(s) /\ Len(s) \in Nat
        /\ Lists(s, rows, Len(s))
    BY <2>1, OrderFacts
  <2> HIDE DEF rows, s
  <2>3. ToSet(s) = rows
    BY <2>2 DEF ToSet, Lists
  <2>4. ASSUME NEW i \in 1..Len(s), NEW j \in 1..Len(s), i < j
        PROVE  Before(s[i], s[j])
    <3>1. s[i] \in rows /\ s[j] \in rows /\ s[i] # s[j] /\ InOrder(s[i], s[j])
      BY <2>2, <2>4 DEF Lists
    <3> QED
      BY <2>1, <3>1, OrderIsStrict
  <2> QED
    BY <2>2, <2>3, <2>4
<1> QED
  BY <1>1, PAlways, PTL

-----------------------------------------------------------------------------
(* Finite sums, by the smallest counterexample: a term may be taken out.   *)

Pick(S) == CHOOSE x \in S : TRUE

\* What the sum over S is, in terms of the sums over smaller sets.
Peel(g, f, S) == IF S = {} THEN 0 ELSE f[Pick(S)] + g[S \ {Pick(S)}]

\* g holds the sum of f over every subset of D.
Sums(g, f, D) == /\ g \in [SUBSET D -> Int]
                 /\ \A S \in SUBSET D : g[S] = Peel(g, f, S)

Agree(f, h, S) == \A x \in S : f[x] = h[x]

LEMMA SmallestSubset ==
  ASSUME NEW D, IsFiniteSet(D), NEW B, B \subseteq SUBSET D, B # {}
  PROVE  \E S \in B : \A x \in S : S \ {x} \notin B
<1>1. FiniteSubsetsOf(D) = SUBSET D
  BY FS_FiniteSubsetsOfFinite
<1>2. IsWellFoundedOn(StrictSubsetOrdering(D), SUBSET D)
  BY <1>1, FS_StrictSubsetOrderingWellFounded
<1>3. PICK S \in B : \A U \in B : <<U, S>> \notin StrictSubsetOrdering(D)
  BY <1>2, WFMin
<1>4. ASSUME NEW x \in S, S \ {x} \in B PROVE FALSE
  BY <1>3, <1>4 DEF StrictSubsetOrdering
<1> QED
  BY <1>4

LEMMA PickIsMember == ASSUME NEW S, S # {} PROVE Pick(S) \in S
BY DEF Pick

\* Sums of functions that agree are equal.
LEMMA SumsAgree ==
  ASSUME NEW D, IsFiniteSet(D), NEW E, IsFiniteSet(E), NEW f, NEW h,
         NEW g, Sums(g, f, D), NEW k, Sums(k, h, E),
         NEW A, A \subseteq D, A \subseteq E, Agree(f, h, A)
  PROVE  g[A] = k[A]
<1> DEFINE B == {S \in SUBSET A : g[S] # k[S]}
<1>1. ASSUME B # {} PROVE FALSE
  <2>1. B \subseteq SUBSET D
    OBVIOUS
  <2>2. PICK S \in B : \A x \in S : S \ {x} \notin B
    BY <1>1, <2>1, SmallestSubset
  <2>3. g[S] = Peel(g, f, S) /\ k[S] = Peel(k, h, S)
    BY DEF Sums
  <2>4. S # {}
    BY <2>3 DEF Peel
  <2>5. Pick(S) \in S
    BY <2>4, PickIsMember
  <2>6. g[S \ {Pick(S)}] = k[S \ {Pick(S)}] /\ f[Pick(S)] = h[Pick(S)]
    BY <2>2, <2>5 DEF Agree
  <2> QED
    BY <2>3, <2>4, <2>6 DEF Peel
<1> QED
  BY <1>1

\* Every function on a finite set has sums.
LEMMA SumsExist ==
  ASSUME NEW D, IsFiniteSet(D), NEW f \in [D -> Int]
  PROVE  \E g : Sums(g, f, D)
<1> DEFINE B == {T \in SUBSET D : ~ \E g : Sums(g, f, T)}
           sol(T) == CHOOSE g : Sums(g, f, T)
<1>1. ASSUME B # {} PROVE FALSE
  <2>1. PICK T \in B : \A U \in B : <<U, T>> \notin StrictSubsetOrdering(D)
    <3>1. FiniteSubsetsOf(D) = SUBSET D
      BY FS_FiniteSubsetsOfFinite
    <3>2. IsWellFoundedOn(StrictSubsetOrdering(D), SUBSET D)
      BY <3>1, FS_StrictSubsetOrderingWellFounded
    <3> QED
      BY <1>1, <3>2, WFMin
  <2>2. \A U \in SUBSET T : U # T => Sums(sol(U), f, U)
    <3> SUFFICES ASSUME NEW U \in SUBSET T, U # T PROVE \E g : Sums(g, f, U)
      OBVIOUS
    <3> QED
      BY <2>1 DEF StrictSubsetOrdering
  <2>3. \A U \in SUBSET D : IsFiniteSet(U)
    BY FS_Subset
  <2> DEFINE rest == T \ {Pick(T)}
             g == [S \in SUBSET T |->
                     IF S # T THEN sol(S)[S]
                     ELSE IF T = {} THEN 0 ELSE f[Pick(T)] + sol(rest)[rest]]
  <2> HIDE DEF sol
  <2>4. \A S \in SUBSET T : S # T => sol(S)[S] \in Int /\ sol(S)[S] = Peel(sol(S), f, S)
    <3> SUFFICES ASSUME NEW S \in SUBSET T, S # T
                 PROVE  sol(S)[S] \in Int /\ sol(S)[S] = Peel(sol(S), f, S)
      OBVIOUS
    <3>1. Sums(sol(S), f, S) /\ S \in SUBSET S
      BY <2>2
    <3> QED
      BY <3>1 DEF Sums
  <2>5. T # {} => Pick(T) \in T /\ rest \in SUBSET T /\ rest # T
    BY PickIsMember
  <2>6. g \in [SUBSET T -> Int]
    BY <2>4, <2>5
  <2>7. ASSUME NEW S \in SUBSET T PROVE g[S] = Peel(g, f, S)
    <3>1. CASE S = T
      BY <2>5, <3>1 DEF Peel
    <3>2. CASE S # T /\ S = {}
      BY <2>4, <3>2 DEF Peel
    <3>3. CASE S # T /\ S # {}
      <4> DEFINE R == S \ {Pick(S)}
      <4>1. Pick(S) \in S /\ R \in SUBSET T /\ R # T /\ R \subseteq S
        BY <3>3, PickIsMember
      <4>2. sol(S)[R] = sol(R)[R]
        <5>1. IsFiniteSet(S) /\ IsFiniteSet(R) /\ Sums(sol(S), f, S) /\ Sums(sol(R), f, R)
          BY <2>2, <2>3, <3>3, <4>1
        <5>2. Agree(f, f, R)
          BY DEF Agree
        <5> HIDE DEF R
        <5> QED
          BY <4>1, <5>1, <5>2, SumsAgree
      <4>3. g[S] = f[Pick(S)] + sol(S)[R]
        BY <2>4, <3>3 DEF Peel
      <4>4. g[R] = sol(R)[R]
        BY <4>1
      <4> HIDE DEF g
      <4> QED
        BY <3>3, <4>2, <4>3, <4>4 DEF Peel
    <3> QED
      BY <3>1, <3>2, <3>3
  <2> HIDE DEF g
  <2>8. Sums(g, f, T)
    BY <2>6, <2>7 DEF Sums
  <2> QED
    BY <2>8
<1> QED
  BY <1>1

\* The library's sums are these.
LEMMA SumIsOne ==
  ASSUME NEW D, NEW f, NEW g, Sums(g, f, D), IsFiniteSet(D)
  PROVE  \A S \in SUBSET D : SumFunctionOnSet(f, S) = g[S]
<1> SUFFICES ASSUME NEW S \in SUBSET D PROVE SumFunctionOnSet(f, S) = g[S]
  OBVIOUS
<1> DEFINE Eq(h) == h = [T \in SUBSET S |-> IF T = {} THEN 0
                                            ELSE f[Pick(T)] + h[T \ {Pick(T)}]]
           sum == CHOOSE h : Eq(h)
           B == {T \in SUBSET S : sum[T] # g[T]}
<1>1. SumFunctionOnSet(f, S) = sum[S]
  BY Zenon DEF SumFunctionOnSet, FoldFunctionOnSet, MapThenFoldSet, Pick
<1>2. Eq([T \in SUBSET S |-> g[T]])
  <2>1. \A T \in SUBSET S : g[T] = Peel(g, f, T)
    BY DEF Sums
  <2>2. \A T \in SUBSET S : T \ {Pick(T)} \in SUBSET S
    OBVIOUS
  <2> QED
    BY <2>1, <2>2 DEF Peel
<1>3. Eq(sum)
  BY <1>2
<1> HIDE DEF sum
<1>4. \A T \in SUBSET S : sum[T] = Peel(sum, f, T)
  BY <1>3 DEF Peel
<1>5. ASSUME B # {} PROVE FALSE
  <2>1. IsFiniteSet(S)
    BY FS_Subset
  <2>2. PICK T \in B : \A x \in T : T \ {x} \notin B
    BY <1>5, <2>1, SmallestSubset
  <2>3. sum[T] = Peel(sum, f, T) /\ g[T] = Peel(g, f, T)
    BY <1>4 DEF Sums
  <2>4. T # {}
    BY <2>3 DEF Peel
  <2>5. Pick(T) \in T
    BY <2>4, PickIsMember
  <2>6. sum[T \ {Pick(T)}] = g[T \ {Pick(T)}]
    BY <2>2, <2>5
  <2> QED
    BY <2>3, <2>4, <2>6 DEF Peel
<1> QED
  BY <1>1, <1>5

Splits(f, S, x) == SumFunctionOnSet(f, S) = f[x] + SumFunctionOnSet(f, S \ {x})

\* A sum is an integer, and any term may be taken out first.
LEMMA SumFacts ==
  ASSUME NEW D, IsFiniteSet(D), NEW f \in [D -> Int]
  PROVE  /\ SumFunctionOnSet(f, {}) = 0
         /\ \A S \in SUBSET D : SumFunctionOnSet(f, S) \in Int
         /\ \A S \in SUBSET D : \A x \in S : Splits(f, S, x)
<1>1. PICK g : Sums(g, f, D)
  BY SumsExist
<1>2. \A S \in SUBSET D : SumFunctionOnSet(f, S) = g[S]
  BY <1>1, SumIsOne
<1>3. \A S \in SUBSET D : g[S] \in Int
  BY <1>1 DEF Sums
<1>4. g[{}] = 0
  BY <1>1 DEF Sums, Peel
<1> DEFINE B == {S \in SUBSET D : \E y \in S : g[S] # f[y] + g[S \ {y}]}
<1>5. ASSUME B # {} PROVE FALSE
  <2>1. PICK S \in B : \A y \in S : S \ {y} \notin B
    BY <1>5, SmallestSubset
  <2>2. PICK y \in S : g[S] # f[y] + g[S \ {y}]
    OBVIOUS
  <2> DEFINE p == Pick(S)
  <2>3. p \in S /\ g[S] = f[p] + g[S \ {p}]
    BY <1>1, PickIsMember DEF Sums, Peel
  <2>4. y # p
    BY <2>2, <2>3
  <2> DEFINE U == (S \ {p}) \ {y}
  <2>5. g[S \ {p}] = f[y] + g[U]
    BY <2>1, <2>3, <2>4
  <2>6. U = (S \ {y}) \ {p} /\ U \in SUBSET D
    OBVIOUS
  <2>7. S \ {y} \notin B /\ p \in S \ {y}
    BY <2>1, <2>3, <2>4
  <2>8. g[S \ {y}] = f[p] + g[U]
    BY <2>6, <2>7
  <2>9. f[p] \in Int /\ f[y] \in Int /\ g[U] \in Int
    BY <1>3, <2>3, <2>6
  <2> HIDE DEF p, U
  <2> QED
    BY <2>2, <2>3, <2>5, <2>8, <2>9
<1>6. ASSUME NEW S \in SUBSET D, NEW x \in S PROVE Splits(f, S, x)
  <2>1. g[S] = f[x] + g[S \ {x}]
    BY <1>5
  <2>2. SumFunctionOnSet(f, S) = g[S] /\ SumFunctionOnSet(f, S \ {x}) = g[S \ {x}]
    BY <1>2
  <2> QED
    BY <2>1, <2>2 DEF Splits
<1>7. SumFunctionOnSet(f, {}) = 0
  BY <1>2, <1>4
<1> QED
  BY <1>2, <1>3, <1>6, <1>7

\* Taking one argument out of a part of S.
Without(f, S, P, x) ==
  SumFunctionOnSet(f, S \cap P) =
    (IF x \in P THEN f[x] ELSE 0) + SumFunctionOnSet(f, (S \ {x}) \cap P)

LEMMA SumOfPart ==
  ASSUME NEW D, IsFiniteSet(D), NEW f \in [D -> Int], NEW S \in SUBSET D, NEW x \in S, NEW P
  PROVE  /\ Without(f, S, P, x)
         /\ SumFunctionOnSet(f, S \cap P) \in Int
         /\ SumFunctionOnSet(f, (S \ {x}) \cap P) \in Int
<1>1. SumFunctionOnSet(f, S \cap P) \in Int /\ SumFunctionOnSet(f, (S \ {x}) \cap P) \in Int
  BY SumFacts
<1>2. CASE x \in P
  <2>1. S \cap P \in SUBSET D /\ x \in S \cap P /\ (S \ {x}) \cap P = (S \cap P) \ {x}
    BY <1>2
  <2>2. Splits(f, S \cap P, x)
    BY <2>1, SumFacts
  <2>3. SumFunctionOnSet(f, S \cap P) = f[x] + SumFunctionOnSet(f, (S \ {x}) \cap P)
    BY <2>1, <2>2 DEF Splits
  <2> QED
    BY <1>1, <1>2, <2>3 DEF Without
<1>3. CASE x \notin P
  <2>1. (S \ {x}) \cap P = S \cap P
    BY <1>3
  <2> DEFINE all == SumFunctionOnSet(f, S \cap P)
             rest == SumFunctionOnSet(f, (S \ {x}) \cap P)
  <2>2. all = 0 + rest
    <3>1. all = rest
      BY <2>1, Zenon
    <3>2. rest \in Int
      BY <1>1
    <3> HIDE DEF all, rest
    <3> QED
      BY <3>1, <3>2
  <2> QED
    BY <1>1, <1>3, <2>2 DEF Without
<1> QED
  BY <1>1, <1>2, <1>3

\* Functions that agree have the same sums.
LEMMA SameSums ==
  ASSUME NEW D, IsFiniteSet(D), NEW f \in [D -> Int], NEW h \in [D -> Int],
         NEW A \in SUBSET D, Agree(f, h, A)
  PROVE  SumFunctionOnSet(f, A) = SumFunctionOnSet(h, A)
<1>1. PICK g : Sums(g, f, D)
  BY SumsExist
<1>2. PICK k : Sums(k, h, D)
  BY SumsExist
<1>3. g[A] = k[A]
  BY <1>1, <1>2, SumsAgree
<1> QED
  BY <1>1, <1>2, <1>3, SumIsOne

\* A sum of terms that are not negative is positive if one of them is.
LEMMA PositiveSum ==
  ASSUME NEW D, IsFiniteSet(D), NEW f \in [D -> Nat], NEW S \in SUBSET D, NEW x \in S, f[x] > 0
  PROVE  SumFunctionOnSet(f, S) > 0
<1>0. f \in [D -> Int]
  OBVIOUS
<1> DEFINE B == {T \in SUBSET D : ~(SumFunctionOnSet(f, T) >= 0)}
<1>1. ASSUME B # {} PROVE FALSE
  <2>1. PICK T \in B : \A y \in T : T \ {y} \notin B
    BY <1>1, SmallestSubset
  <2>2. T # {}
    <3>1. SumFunctionOnSet(f, {}) = 0
      BY <1>0, SumFacts
    <3> QED
      BY <3>1
  <2>3. PICK y \in T : TRUE
    BY <2>2
  <2>4. Splits(f, T, y) /\ SumFunctionOnSet(f, T) \in Int /\ SumFunctionOnSet(f, T \ {y}) \in Int
    BY <1>0, SumFacts
  <2>5. SumFunctionOnSet(f, T \ {y}) >= 0
    BY <2>1
  <2>6. f[y] \in Nat
    OBVIOUS
  <2>7. SumFunctionOnSet(f, T) >= 0
    BY <2>4, <2>5, <2>6 DEF Splits
  <2> QED
    BY <2>7
<1>2. Splits(f, S, x) /\ SumFunctionOnSet(f, S \ {x}) \in Int
  BY <1>0, SumFacts
<1>3. SumFunctionOnSet(f, S \ {x}) >= 0
  BY <1>1
<1>4. f[x] \in Nat
  OBVIOUS
<1> QED
  BY <1>2, <1>3, <1>4 DEF Splits

-----------------------------------------------------------------------------
(* What the totals of a report add up to                                   *)

RowsOf(op)   == {r \in Rows : r.op = op}
In(c)        == {r \in Rows : r.currency = c}
Into(c)      == {r \in Rows : r.to = c}
Touching(c)  == {r \in Rows : c \in Currency(r)}
WorthOf(c)   == [r \in Rows |-> Worth(r, c)]

LEMMA RowTypes ==
  /\ IsFiniteSet(Rows) /\ Value \in [Rows -> Nat] /\ Got \in [Rows -> Nat]
  /\ Value \in [Rows -> Int] /\ Got \in [Rows -> Int]
  /\ \A c : WorthOf(c) \in [Rows -> Int]
<1>1. /\ \A r \in Rows : r.value \in Nat /\ r.got \in Nat
      /\ \A r \in Rows : r.op \in {"cost", "income", "exchange"}
  BY ReportsAssumption DEF RowType
<1>2. \A c : \A r \in Rows : Worth(r, c) \in Int
  BY <1>1 DEF Worth
<1> QED
  BY <1>1, <1>2, ReportsAssumption DEF Value, Got, WorthOf

\* Incomes less costs and what exchanges give, with what they receive.
Result(S, c) ==
  Values(S \cap (RowsOf("income") \cap In(c))) - Values(S \cap (RowsOf("cost") \cap In(c)))
    + (Received(S \cap (RowsOf("exchange") \cap Into(c)))
       - Values(S \cap (RowsOf("exchange") \cap In(c))))

LEMMA ResultIsEffect ==
  ASSUME NEW c, NEW S \in SUBSET Rows
  PROVE  Result(S, c) = SumFunctionOnSet(WorthOf(c), S \cap Touching(c))
<1> DEFINE E(T) == SumFunctionOnSet(WorthOf(c), T \cap Touching(c))
           B == {T \in SUBSET Rows : Result(T, c) # E(T)}
<1>1. ASSUME B # {} PROVE FALSE
  <2>1. PICK T \in B : \A x \in T : T \ {x} \notin B
    BY <1>1, RowTypes, SmallestSubset
  <2>2. T # {}
    <3>1. \A P : {} \cap P = {}
      OBVIOUS
    <3>2. Values({}) = 0 /\ Received({}) = 0 /\ SumFunctionOnSet(WorthOf(c), {}) = 0
      BY RowTypes, SumFacts DEF Values, Received
    <3>3. Result({}, c) = E({})
      BY <3>1, <3>2 DEF Result
    <3> QED
      BY <3>3
  <2>3. PICK x \in T : TRUE
    BY <2>2
  <2> DEFINE R  == T \ {x}
             I  == RowsOf("income") \cap In(c)
             C  == RowsOf("cost") \cap In(c)
             XI == RowsOf("exchange") \cap Into(c)
             XO == RowsOf("exchange") \cap In(c)
  <2>4. Result(R, c) = E(R)
    BY <2>1, <2>3
  <2>5. \A P : /\ Without(Value, T, P, x) /\ Without(Got, T, P, x)
               /\ Values(T \cap P) \in Int /\ Values(R \cap P) \in Int
               /\ Received(T \cap P) \in Int /\ Received(R \cap P) \in Int
    BY RowTypes, SumOfPart DEF Values, Received
  <2>6. /\ Without(WorthOf(c), T, Touching(c), x) /\ E(T) \in Int /\ E(R) \in Int
    BY RowTypes, SumOfPart
  <2>7. /\ x \in Rows /\ Value[x] = x.value /\ Got[x] = x.got /\ WorthOf(c)[x] = Worth(x, c)
        /\ x.value \in Int /\ x.got \in Int /\ x.op \in {"cost", "income", "exchange"}
    BY ReportsAssumption DEF Value, Got, WorthOf, RowType
  <2>8. /\ x \in I <=> x.op = "income" /\ x.currency = c
        /\ x \in C <=> x.op = "cost" /\ x.currency = c
        /\ x \in XI <=> x.op = "exchange" /\ x.to = c
        /\ x \in XO <=> x.op = "exchange" /\ x.currency = c
        /\ x \in Touching(c) <=> x.currency = c \/ (x.op = "exchange" /\ x.to = c)
    BY <2>7 DEF RowsOf, In, Into, Touching, Currency
  <2> DEFINE v(P) == IF x \in P THEN x.value ELSE 0
             g(P) == IF x \in P THEN x.got ELSE 0
             w == IF x \in Touching(c) THEN Worth(x, c) ELSE 0
  <2>9. v(I) - v(C) + (g(XI) - v(XO)) = w
    <3> HIDE DEF I, C, XI, XO
    <3> QED
      BY <2>7, <2>8 DEF Worth
  <2>10. /\ Values(T \cap I) = v(I) + Values(R \cap I)
         /\ Values(T \cap C) = v(C) + Values(R \cap C)
         /\ Received(T \cap XI) = g(XI) + Received(R \cap XI)
         /\ Values(T \cap XO) = v(XO) + Values(R \cap XO)
         /\ E(T) = w + E(R)
    BY <2>5, <2>6, <2>7 DEF Without, Values, Received
  <2>11. /\ v(I) \in Int /\ v(C) \in Int /\ g(XI) \in Int /\ v(XO) \in Int
    BY <2>7
  <2>12. /\ Result(T, c) = Values(T \cap I) - Values(T \cap C)
                             + (Received(T \cap XI) - Values(T \cap XO))
         /\ Result(R, c) = Values(R \cap I) - Values(R \cap C)
                             + (Received(R \cap XI) - Values(R \cap XO))
    BY DEF Result
  <2>13. /\ Values(R \cap I) \in Int /\ Values(R \cap C) \in Int
         /\ Received(R \cap XI) \in Int /\ Values(R \cap XO) \in Int
    BY <2>5
  <2> HIDE DEF R, I, C, XI, XO, E, v, g, w
  <2>14. Result(T, c) = E(T)
    BY <2>4, <2>6, <2>9, <2>10, <2>11, <2>12, <2>13
  <2> QED
    BY <2>1, <2>14
<1> QED
  BY <1>1

LEMMA ZeroSum ==
  ASSUME NEW D, IsFiniteSet(D), NEW f \in [D -> Int], \A x \in D : f[x] = 0
  PROVE  SumFunctionOnSet(f, D) = 0
<1> DEFINE B == {T \in SUBSET D : SumFunctionOnSet(f, T) # 0}
<1>1. ASSUME B # {} PROVE FALSE
  <2>1. PICK T \in B : \A y \in T : T \ {y} \notin B
    BY <1>1, SmallestSubset
  <2>2. T # {}
    <3>1. SumFunctionOnSet(f, {}) = 0
      BY SumFacts
    <3> QED
      BY <3>1
  <2>3. PICK y \in T : TRUE
    BY <2>2
  <2>4. Splits(f, T, y)
    BY SumFacts
  <2>5. SumFunctionOnSet(f, T \ {y}) = 0 /\ f[y] = 0
    BY <2>1
  <2> QED
    BY <2>1, <2>4, <2>5 DEF Splits
<1> QED
  BY <1>1

InGroup(k)     == {r \in Rows : r.cat = k}
Groups(S, K)   == [k \in K |-> Values(S \cap InGroup(k))]

\* Groups add up to the whole.
LEMMA GroupsAddUp ==
  ASSUME NEW A \in SUBSET Rows
  PROVE  SumFunction(Grouped(A)) = Values(A)
<1> DEFINE K == {r.cat : r \in A}
<1>1. Grouped(A) = Groups(A, K)
  <2>1. \A k : {r \in A : r.cat = k} = A \cap InGroup(k)
    BY DEF InGroup
  <2> QED
    BY <2>1, Zenon DEF Grouped, Groups
<1>2. IsFiniteSet(K)
  <2> DEFINE cat == [r \in A |-> r.cat]
  <2>1. cat \in Surjection(A, K)
    BY DEF Surjection
  <2>2. IsFiniteSet(A)
    BY RowTypes, FS_Subset
  <2> HIDE DEF cat, K
  <2> QED
    BY <2>1, <2>2, FS_Surjection
<1>3. SumFunction(Grouped(A)) = SumFunctionOnSet(Groups(A, K), K)
  <2>1. DOMAIN Groups(A, K) = K
    BY DEF Groups
  <2> HIDE DEF K
  <2> QED
    BY <1>1, <2>1, Zenon DEF SumFunction
<1>4. \A S \in SUBSET A : Groups(S, K) \in [K -> Int]
  <2>1. \A S \in SUBSET Rows : Values(S) \in Int
    BY RowTypes, SumFacts DEF Values
  <2>2. \A S \in SUBSET A : \A k : S \cap InGroup(k) \in SUBSET Rows
    OBVIOUS
  <2> HIDE DEF K
  <2> QED
    BY <2>1, <2>2 DEF Groups
<1>5. \A r \in A : r.cat \in K
  OBVIOUS
<1> HIDE DEF K
<1> DEFINE B == {S \in SUBSET A : SumFunctionOnSet(Groups(S, K), K) # Values(S)}
<1>6. ASSUME B # {} PROVE FALSE
  <2>1. PICK S \in B : \A x \in S : S \ {x} \notin B
    <3>1. IsFiniteSet(A)
      BY RowTypes, FS_Subset
    <3> QED
      BY <1>6, <3>1, SmallestSubset
  <2>2. S # {}
    <3>1. Values({}) = 0
      BY RowTypes, SumFacts DEF Values
    <3>2. \A k \in K : Groups({}, K)[k] = 0
      <4>1. \A k : {} \cap InGroup(k) = {}
        OBVIOUS
      <4> QED
        BY <3>1, <4>1 DEF Groups
    <3>3. SumFunctionOnSet(Groups({}, K), K) = 0
      BY <1>2, <1>4, <3>2, ZeroSum
    <3> QED
      BY <3>1, <3>3
  <2>3. PICK x \in S : TRUE
    BY <2>2
  <2> DEFINE R == S \ {x}
             F == Groups(S, K)
             H == Groups(R, K)
             k0 == x.cat
  <2>4. k0 \in K /\ F \in [K -> Int] /\ H \in [K -> Int] /\ S \in SUBSET Rows /\ R \in SUBSET Rows
    BY <1>4, <1>5
  <2>5. F[k0] = x.value + H[k0]
    <3>1. Without(Value, S, InGroup(k0), x)
      BY RowTypes, SumOfPart
    <3>2. x \in InGroup(k0) /\ Value[x] = x.value
      BY DEF InGroup, Value
    <3>3. F[k0] = Values(S \cap InGroup(k0)) /\ H[k0] = Values(R \cap InGroup(k0))
      BY <2>4 DEF Groups
    <3> HIDE DEF F, H
    <3> QED
      BY <3>1, <3>2, <3>3 DEF Without, Values
  <2>6. Agree(F, H, K \ {k0})
    <3> SUFFICES ASSUME NEW k \in K \ {k0} PROVE F[k] = H[k]
      BY DEF Agree
    <3>1. S \cap InGroup(k) = R \cap InGroup(k)
      BY DEF InGroup
    <3> QED
      BY <3>1 DEF Groups
  <2>7. Values(S) = x.value + Values(R) /\ Values(R) \in Int /\ x.value \in Int
    <3>1. Splits(Value, S, x)
      BY <2>4, RowTypes, SumFacts
    <3>2. Value[x] = x.value /\ Value[x] \in Int
      BY <2>4, RowTypes DEF Value
    <3>3. Values(R) \in Int
      BY <2>4, RowTypes, SumFacts DEF Values
    <3> QED
      BY <3>1, <3>2, <3>3 DEF Splits, Values
  <2>8. SumFunctionOnSet(H, K) = Values(R)
    BY <2>1, <2>3
  <2> HIDE DEF F, H, R, k0
  <2>9. /\ SumFunctionOnSet(F, K) = F[k0] + SumFunctionOnSet(F, K \ {k0})
        /\ SumFunctionOnSet(H, K) = H[k0] + SumFunctionOnSet(H, K \ {k0})
        /\ SumFunctionOnSet(H, K \ {k0}) \in Int /\ H[k0] \in Int
    <3>1. /\ Splits(F, K, k0) /\ Splits(H, K, k0)
          /\ SumFunctionOnSet(H, K \ {k0}) \in Int
      BY <1>2, <2>4, SumFacts
    <3> QED
      BY <2>4, <3>1 DEF Splits
  <2>10. SumFunctionOnSet(F, K \ {k0}) = SumFunctionOnSet(H, K \ {k0})
    BY <1>2, <2>4, <2>6, SameSums
  <2>11. SumFunctionOnSet(F, K) = Values(S)
    BY <2>5, <2>7, <2>8, <2>9, <2>10
  <2> QED
    BY <2>1, <2>11 DEF F
<1>7. SumFunctionOnSet(Groups(A, K), K) = Values(A)
  BY <1>6
<1> QED
  BY <1>3, <1>7

-----------------------------------------------------------------------------
(* The invariant of a report                                               *)

Names == {"costs", "categories", "incomes", "sources", "exchanges"}

\* What the statements of a report return in one state.
Answers(q) == [s \in Names |-> Selected(s, q)]

\* The rows refer to currencies there are.
Referred == \A r \in table : Currency(r) \subseteq currencies

\* A reader of a report has run the first statements.
Assembling ==
  /\ reader = [at |-> "read", query |-> reader.query, blocks |-> reader.blocks,
               k |-> reader.k, got |-> reader.got]
  /\ reader.k \in 1..6
  /\ DOMAIN reader.got = {Statements[i] : i \in 1..(reader.k - 1)}
  /\ reader.got = [s \in DOMAIN reader.got |-> reader.got[s]]

\* Undisturbed, what it has read is still so.
Current == /\ reader.blocks = currencies
           /\ \A s \in DOMAIN reader.got : reader.got[s] = Selected(s, reader.query)

\* As long as no row was added, there is a block for every row and, once the
\* totals are read, a total for every cost.
Covered ==
  LET got == reader.got
      costs == Selected("costs", reader.query)
  IN /\ \A r \in table : Currency(r) \subseteq reader.blocks
     /\ \A s \in DOMAIN got : \A r \in got[s] : Currency(r) \subseteq reader.blocks
     /\ "costs" \in DOMAIN got => costs \subseteq got["costs"] /\ got["costs"] \subseteq Rows
     /\ "categories" \in DOMAIN got =>
          \A r \in got["categories"] : r \in got["costs"] /\ r.op = "cost"

RInv ==
  /\ Referred /\ added \in BOOLEAN
  /\ added => writes > 0
  /\ reader.at = "read" => Assembling
  /\ reader.at = "read" /\ writes = 0 => Current
  /\ reader.at = "read" /\ ~added => Covered
  /\ reader.at = "broken" => added
  /\ reader.at = "reported" /\ writes = 0 =>
       reader.blocks = [c \in currencies |-> Block(Answers(reader.query), c)]

LEMMA StatementNames ==
  /\ Len(Statements) = 5 /\ {Statements[i] : i \in 1..5} = Names
  /\ \A i \in 1..5 : Statements[i] \in Names
<1>1. /\ Statements[1] = "costs" /\ Statements[2] = "categories" /\ Statements[3] = "incomes"
      /\ Statements[4] = "sources" /\ Statements[5] = "exchanges" /\ Len(Statements) = 5
  BY DEF Statements
<1>2. 1..5 = {1, 2, 3, 4, 5}
  OBVIOUS
<1> QED
  BY <1>1, <1>2 DEF Names

LEMMA SelectedRows ==
  ASSUME Reading, NEW q
  PROVE  /\ \A s : Selected(s, q) \in SUBSET table /\ Selected(s, q) \in SUBSET Rows
         /\ Selected("categories", q) = Selected("costs", q)
         /\ \A r \in Selected("costs", q) : r.op = "cost"
BY Zenon DEF Reading, Selected, Operation

\* Covered answers can be assembled: each row has its block, and costs have a
\* total, because none of them is zero.
LEMMA CoveredAssemble ==
  ASSUME Assembling, Covered, reader.k = 6
  PROVE  ~Unassembled(reader.got, reader.blocks)
<1> DEFINE got == reader.got
<1>1. "costs" \in DOMAIN got /\ "categories" \in DOMAIN got
  BY StatementNames DEF Assembling, Names
<1>2. ASSUME NEW r \in got["categories"]
      PROVE  Values(Of(got["costs"], r.currency)) # 0
  <2> DEFINE S == Of(got["costs"], r.currency)
  <2>1. r \in got["costs"] /\ got["costs"] \in SUBSET Rows /\ r.op = "cost"
    BY <1>1, <1>2 DEF Covered
  <2>2. S \in SUBSET Rows /\ r \in S
    BY <2>1 DEF Of
  <2>3. Value[r] > 0
    BY <2>1, ReportsAssumption DEF Value
  <2> HIDE DEF S
  <2>4. SumFunctionOnSet(Value, S) > 0 /\ SumFunctionOnSet(Value, S) \in Int
    BY <2>2, <2>3, RowTypes, PositiveSum, SumFacts
  <2>5. Values(S) # 0
    BY <2>4 DEF Values
  <2> QED
    BY <2>5 DEF S
<1>3. \A s \in DOMAIN got : \A r \in got[s] : Currency(r) \subseteq reader.blocks
  BY DEF Covered
<1> QED
  BY <1>2, <1>3, Zenon DEF Unassembled

\* A report of one state is right.
LEMMA AnswersAreRight ==
  ASSUME Reading, NEW q, NEW c
  PROVE  LET b == Block(Answers(q), c)
         IN /\ SumFunction(b.categories) = b.costs
            /\ SumFunction(b.sources) = b.incomes
            /\ ~q.pattern => b.incomes - b.costs + b.exchanges = Effect(c, q)
<1> DEFINE b == Block(Answers(q), c)
           costs == Of(Selected("costs", q), c)
           incomes == Of(Selected("incomes", q), c)
           changes == Selected("exchanges", q)
           S == {r \in table : Within(r, Resolved(q))}
<1>1. /\ Answers(q)["costs"] = Selected("costs", q)
      /\ Answers(q)["categories"] = Selected("costs", q)
      /\ Answers(q)["incomes"] = Selected("incomes", q)
      /\ Answers(q)["sources"] = Selected("incomes", q)
      /\ Answers(q)["exchanges"] = Selected("exchanges", q)
  <2>1. Selected("sources", q) = Selected("incomes", q)
    BY Zenon DEF Selected, Operation
  <2> QED
    BY <2>1, SelectedRows DEF Answers, Names
<1>2. /\ b.costs = Values(costs) /\ b.categories = Grouped(costs)
      /\ b.incomes = Values(incomes) /\ b.sources = Grouped(incomes)
      /\ b.exchanges = Received({r \in changes : r.to = c}) - Values(Of(changes, c))
  BY <1>1 DEF Block, FromExchanges
<1>3. costs \in SUBSET Rows /\ incomes \in SUBSET Rows
  BY SelectedRows DEF Of
<1>4. SumFunction(b.categories) = b.costs /\ SumFunction(b.sources) = b.incomes
  <2> HIDE DEF costs, incomes, b
  <2> QED
    BY <1>2, <1>3, GroupsAddUp
<1>5. ASSUME ~q.pattern
      PROVE  b.incomes - b.costs + b.exchanges = Effect(c, q)
  <2>1. \A s \in Names : Selected(s, q) = {r \in S : r.op = Operation[s]}
    BY <1>5, Zenon DEF Selected
  <2>2. /\ Selected("costs", q) = {r \in S : r.op = "cost"}
        /\ Selected("incomes", q) = {r \in S : r.op = "income"}
        /\ Selected("exchanges", q) = {r \in S : r.op = "exchange"}
    BY <2>1 DEF Names, Operation
  <2>3. S \in SUBSET Rows
    BY DEF Reading
  <2> HIDE DEF S
  <2>4. /\ costs = S \cap (RowsOf("cost") \cap In(c))
        /\ incomes = S \cap (RowsOf("income") \cap In(c))
        /\ {r \in changes : r.to = c} = S \cap (RowsOf("exchange") \cap Into(c))
        /\ Of(changes, c) = S \cap (RowsOf("exchange") \cap In(c))
    BY <2>2, <2>3 DEF Of, RowsOf, In, Into
  <2>5. b.incomes - b.costs + b.exchanges = Result(S, c)
    <3> HIDE DEF b, costs, incomes, changes
    <3> QED
      BY <1>2, <2>4, Zenon DEF Result
  <2>6. Effect(c, q) = SumFunctionOnSet(WorthOf(c), S \cap Touching(c))
    <3>1. {r \in table : Within(r, Resolved(q)) /\ c \in Currency(r)} = S \cap Touching(c)
      BY DEF S, Touching, Reading
    <3> QED
      BY <3>1, Zenon DEF Effect, WorthOf
  <2> QED
    BY <2>3, <2>5, <2>6, ResultIsEffect
<1> QED
  BY <1>4, <1>5

LEMMA RInit == Init => RInv
<1> SUFFICES ASSUME Init PROVE RInv
  OBVIOUS
<1>1. Referred /\ reader.at = "idle"
  BY DEF Init, Referred, AllCurrencies
<1>2. added \in BOOLEAN /\ ~added
  BY Zenon DEF Init
<1> QED
  BY <1>1, <1>2, Zenon DEF RInv

LEMMA RReadStep ==
  ASSUME PInv, RInv, ReportRead
  PROVE  RInv'
<1> DEFINE s == Statements[reader.k]
           got == [t \in DOMAIN reader.got \cup {s} |->
                     IF t = s THEN Selected(s, reader.query) ELSE reader.got[t]]
<1>1. /\ reader.at = "read" /\ reader.k <= 5
      /\ UNCHANGED <<table, currencies, writes, added>>
      /\ reader' = [reader EXCEPT !.k = reader.k + 1, !.got = got]
  BY StatementNames DEF ReportRead
<1>2. Assembling /\ reader.k \in 1..5
  BY <1>1 DEF RInv, Assembling
<1> HIDE DEF got, s
<1>3. reader' = [at |-> "read", query |-> reader.query, blocks |-> reader.blocks,
                 k |-> reader.k + 1, got |-> got]
  BY <1>1, <1>2 DEF Assembling
<1>4. Assembling'
  <2>1. DOMAIN got = DOMAIN reader.got \cup {Statements[reader.k]}
    BY DEF got, s
  <2>2. DOMAIN got = {Statements[i] : i \in 1..reader.k}
    BY <1>2, <2>1 DEF Assembling
  <2>3. got = [t \in DOMAIN got |-> got[t]]
    BY DEF got
  <2> QED
    BY <1>2, <1>3, <2>2, <2>3 DEF Assembling
<1>5. writes = 0 => Current'
  <2> SUFFICES ASSUME writes = 0 PROVE Current'
    OBVIOUS
  <2>1. Current
    BY <1>1 DEF RInv
  <2>2. \A t, q : Selected(t, q)' = Selected(t, q)
    BY <1>1 DEF Selected
  <2>3. \A t \in DOMAIN got : got[t] = Selected(t, reader.query)
    BY <2>1 DEF got, Current
  <2> QED
    BY <1>1, <1>3, <2>1, <2>2, <2>3 DEF Current
<1>6. ~added => Covered'
  <2> SUFFICES ASSUME ~added PROVE Covered'
    OBVIOUS
  <2>1. Covered
    BY <1>1 DEF RInv
  <2>2. \A t, q : Selected(t, q)' = Selected(t, q)
    BY <1>1 DEF Selected
  <2>3. /\ reader'.blocks = reader.blocks /\ reader'.query = reader.query
        /\ reader'.got = got /\ table' = table
    BY <1>1, <1>3
  <2>4. \A t \in DOMAIN got : \A r \in got[t] : Currency(r) \subseteq reader.blocks
    <3> SUFFICES ASSUME NEW t \in DOMAIN got, NEW r \in got[t]
                 PROVE  Currency(r) \subseteq reader.blocks
      OBVIOUS
    <3>1. CASE t = s
      <4>1. r \in table
        BY <3>1, SelectedRows DEF got, PInv
      <4> QED
        BY <2>1, <4>1 DEF Covered
    <3>2. CASE t # s
      BY <2>1, <3>2 DEF got, Covered
    <3> QED
      BY <3>1, <3>2
  <2>5. ASSUME "costs" \in DOMAIN got
        PROVE  Selected("costs", reader.query) \subseteq got["costs"] /\ got["costs"] \subseteq Rows
    <3>1. CASE s = "costs"
      BY <3>1, SelectedRows DEF got, PInv
    <3>2. CASE s # "costs"
      BY <2>1, <2>5, <3>2 DEF got, Covered
    <3> QED
      BY <3>1, <3>2
  <2>6. ASSUME "categories" \in DOMAIN got, NEW r \in got["categories"]
        PROVE  r \in got["costs"] /\ r.op = "cost"
    <3>1. CASE s = "categories"
      <4>1. reader.k = 2
        BY <1>2, <3>1 DEF s, Statements
      <4>2. "costs" \in DOMAIN reader.got
        BY <1>2, <4>1 DEF Assembling, Statements
      <4>3. r \in Selected("costs", reader.query) /\ r.op = "cost"
        BY <2>6, <3>1, SelectedRows DEF got, PInv
      <4> QED
        BY <2>1, <3>1, <4>2, <4>3 DEF got, Covered
    <3>2. CASE s # "categories"
      <4>1. /\ "categories" \in DOMAIN reader.got
            /\ got["categories"] = reader.got["categories"]
        BY <2>6, <3>2 DEF got
      <4>2. r \in reader.got["costs"] /\ r.op = "cost"
        BY <2>1, <2>6, <4>1 DEF Covered
      <4>3. s # "costs" /\ "costs" \in DOMAIN reader.got
        <5>1. \E i \in 1..(reader.k - 1) : Statements[i] = "categories"
          BY <1>2, <4>1 DEF Assembling
        <5>2. reader.k - 1 >= 2 /\ reader.k # 1
          BY <1>2, <5>1 DEF Statements
        <5>3. 1 \in 1..(reader.k - 1) /\ Statements[1] = "costs"
          BY <1>2, <5>2 DEF Statements
        <5>4. Statements[reader.k] # "costs"
          BY <1>2, <5>2 DEF Statements
        <5> QED
          BY <1>2, <5>3, <5>4 DEF Assembling, s
      <4> QED
        BY <4>2, <4>3 DEF got
    <3> QED
      BY <3>1, <3>2
  <2> QED
    BY <2>1, <2>2, <2>3, <2>4, <2>5, <2>6 DEF Covered
<1> QED
  BY <1>1, <1>3, <1>4, <1>5, <1>6 DEF RInv, Referred

LEMMA RAssembleStep ==
  ASSUME PInv, RInv, ReportAssemble
  PROVE  RInv'
<1>1. /\ reader.at = "read" /\ reader.k > 5
      /\ UNCHANGED <<table, currencies, writes, added>>
      /\ reader' = IF Unassembled(reader.got, reader.blocks) THEN [at |-> "broken"]
                   ELSE [at |-> "reported", query |-> reader.query,
                         blocks |-> [c \in reader.blocks |-> Block(reader.got, c)]]
      /\ writes \in Nat /\ Reading /\ Referred
  BY StatementNames DEF ReportAssemble, PInv, Reading, RInv
<1>2. ASSUME writes = 0
      PROVE  reader.got = Answers(reader.query) /\ reader.blocks = currencies
  <2>1. Assembling /\ Current /\ reader.k = 6
    BY <1>1, <1>2 DEF RInv, Assembling
  <2>2. DOMAIN reader.got = Names
    BY <2>1, StatementNames DEF Assembling
  <2>3. \A s \in Names : reader.got[s] = Selected(s, reader.query)
    BY <2>1, <2>2 DEF Current
  <2>4. reader.got = [s \in DOMAIN reader.got |-> reader.got[s]]
    BY <2>1 DEF RInv, Assembling
  <2> QED
    BY <2>1, <2>2, <2>3, <2>4 DEF Answers, Current
<1>3. \A q, c : Block(Answers(q), c)' = Block(Answers(q), c)
  BY <1>1 DEF Answers, Selected
<1>4. CASE Unassembled(reader.got, reader.blocks)
  <2>1. added
    <3>1. Assembling /\ reader.k = 6 /\ (~added => Covered)
      BY <1>1 DEF RInv, Assembling
    <3> QED
      BY <1>4, <3>1, CoveredAssemble
  <2> QED
    BY <1>1, <1>4, <2>1 DEF RInv, Referred
<1>5. CASE ~Unassembled(reader.got, reader.blocks)
  BY <1>1, <1>2, <1>3, <1>5 DEF RInv, Referred
<1> QED
  BY <1>4, <1>5

LEMMA RStep == PInv /\ RInv /\ [Next]_vars => RInv'
<1> SUFFICES ASSUME PInv, RInv, [Next]_vars PROVE RInv'
  OBVIOUS
<1>1. CASE UNCHANGED vars
  BY <1>1 DEF vars, RInv, Referred, Assembling, Current, Covered, Selected, Answers
<1>2. CASE Write
  <2>1. writes' > 0 /\ reader' = reader
    BY <1>2 DEF Write, PInv, Reading
  <2>2. Referred' /\ added' \in BOOLEAN
    BY <1>2 DEF Write, RInv, Referred
  <2>3. ASSUME ~added' PROVE ~added /\ table' \subseteq table
    BY <1>2, <2>3 DEF Write, RInv
  <2>4. ASSUME reader'.at = "read", ~added' PROVE Covered'
    <3>1. Covered
      BY <2>1, <2>3, <2>4 DEF RInv
    <3>2. Selected("costs", reader.query)' \subseteq Selected("costs", reader.query)
      BY <2>1, <2>3, <2>4 DEF Selected
    <3> QED
      BY <2>1, <2>3, <2>4, <3>1, <3>2 DEF Covered
  <2>5. reader'.at = "read" => Assembling'
    BY <2>1 DEF RInv, Assembling
  <2>6. reader'.at = "broken" => added'
    BY <2>1, <2>3 DEF RInv
  <2>7. ~(writes' = 0)
    BY <2>1
  <2> QED
    BY <2>1, <2>2, <2>4, <2>5, <2>6, <2>7 DEF RInv
<1>3. CASE (\E f \in Filters : ListStart(f)) \/ ListCount \/ ListPage
  <2>1. /\ UNCHANGED <<table, currencies>> /\ reader'.at \in Paging
        /\ added' = FALSE \/ UNCHANGED <<writes, added>>
    <3>1. CASE \E f \in Filters : ListStart(f)
      BY <3>1 DEF ListStart, Begin, Paging
    <3>2. CASE ListCount
      BY <3>2 DEF ListCount, PInv, Reading, Paging
    <3>3. CASE ListPage
      BY <3>3 DEF ListPage, PInv, Reading, Paging
    <3> QED
      BY <1>3, <3>1, <3>2, <3>3
  <2>2. added' \in BOOLEAN /\ (added' => writes' > 0)
    <3>1. CASE added' = FALSE
      BY <3>1, Zenon
    <3>2. CASE UNCHANGED <<writes, added>>
      <4>1. added' = added /\ writes' = writes
        BY <3>2
      <4>2. added \in BOOLEAN /\ (added => writes > 0)
        BY Zenon DEF RInv
      <4> QED
        BY <4>1, <4>2, Zenon
    <3> QED
      BY <2>1, <3>1, <3>2, Zenon
  <2>3. Referred' /\ reader'.at \notin {"read", "broken", "reported"}
    BY <2>1 DEF RInv, Referred, Paging
  <2> QED
    BY <2>2, <2>3, Zenon DEF RInv
<1>4. CASE \E q \in Queries : ReportStart(q)
  <2>1. /\ UNCHANGED <<table, currencies>> /\ reader'.at = "read" /\ reader'.k = 1
        /\ reader'.blocks = currencies /\ reader'.got = [s \in {} |-> {}]
        /\ reader' = [at |-> "read", query |-> reader'.query, blocks |-> reader'.blocks,
                      k |-> reader'.k, got |-> reader'.got]
        /\ added' = FALSE
    BY <1>4 DEF ReportStart, Begin
  <2>2. Assembling'
    BY <2>1 DEF Assembling
  <2>3. Current'
    BY <2>1 DEF Current
  <2>4. Covered'
    BY <2>1 DEF Covered, RInv, Referred
  <2> QED
    BY <2>1, <2>2, <2>3, <2>4 DEF RInv, Referred
<1>5. CASE ReportFails
  BY <1>5 DEF ReportFails, RInv, Referred
<1> QED
  BY <1>1, <1>2, <1>3, <1>4, <1>5, RReadStep, RAssembleStep DEF Next

\* A report of which all six statements were answered never breaks for a missing
\* currency or total unless a row was added meanwhile, whatever was removed; and
\* if nothing was written, its categories and sources add up to the totals, and
\* incomes, costs and exchanges to what the days' records changed the equity by.
THEOREM ReportsAreRight == Spec => []ReportIsRight
<1>1. PInv /\ RInv => ReportIsRight
  <2> SUFFICES ASSUME PInv, RInv PROVE ReportIsRight
    OBVIOUS
  <2>1. reader.at = "broken" => added
    BY DEF RInv
  <2>2. ASSUME reader.at = "reported", writes = 0, NEW c \in DOMAIN reader.blocks
        PROVE  reader.blocks[c] = Block(Answers(reader.query), c)
    BY <2>2 DEF RInv
  <2>3. Reading
    BY DEF PInv
  <2>4. ASSUME reader.at = "reported", writes = 0, NEW c \in DOMAIN reader.blocks
        PROVE  LET b == reader.blocks[c]
               IN /\ SumFunction(b.categories) = b.costs
                  /\ SumFunction(b.sources) = b.incomes
                  /\ ~reader.query.pattern =>
                        b.incomes - b.costs + b.exchanges = Effect(c, reader.query)
    <3>1. reader.blocks[c] = Block(Answers(reader.query), c)
      BY <2>2, <2>4
    <3>2. LET b == Block(Answers(reader.query), c)
          IN /\ SumFunction(b.categories) = b.costs
             /\ SumFunction(b.sources) = b.incomes
             /\ ~reader.query.pattern =>
                   b.incomes - b.costs + b.exchanges = Effect(c, reader.query)
      BY <2>3, AnswersAreRight
    <3> QED
      BY <3>1, <3>2, Zenon
  <2> QED
    BY <2>1, <2>4, Zenon DEF ReportIsRight
<1>2. Spec => []RInv
  BY RInit, RStep, PAlways, PTL DEF Spec
<1> QED
  BY <1>1, <1>2, PAlways, PTL

=============================================================================
