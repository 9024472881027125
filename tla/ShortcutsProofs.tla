-------------------------- MODULE ShortcutsProofs --------------------------
(***************************************************************************)
(* Proofs about Shortcuts, for any users, categories and requests.         *)
(*                                                                         *)
(* What a request is going to write is looked at as if it were written:    *)
(* as long as nobody has committed positions of the same user since the    *)
(* request read them, an add will come after every shortcut there is, a    *)
(* renumbering will leave them in their order, and a reordering will       *)
(* leave every shortcut at a place of its own.  The order these commits    *)
(* leave is then what Menu allows.                                         *)
(***************************************************************************)
EXTENDS Shortcuts, FiniteSetTheorems, TLAPS

Shortcut == [user : Users, pos : Nat, category : Categories]

Positions == UNION {[S -> Nat] : S \in SUBSET Nat}

\* What a deletion takes away.
Gone == {{}} \cup {{i} : i \in Ids}

Stage ==
    {Idle}
    \cup [at : {"insert"}, user : Users, category : Categories, pos : Nat, late : BOOLEAN]
    \cup [at : {"rebuild"}, user : Users, gone : Gone]
    \cup [at : {"renumber", "reorder"}, user : Users, gone : Gone,
          todo : Positions, write : Positions, late : BOOLEAN, sent : Positions]
    \cup [at : {"apply", "drop"}, category : Categories]

Types ==
    /\ added \in Nat /\ added <= MaxShortcuts
    /\ DOMAIN rows \subseteq 1..added
    /\ \A i \in DOMAIN rows : rows[i] \in Shortcut
    /\ req \in [Requests -> Stage]
    /\ raced \subseteq Users

Writes(q) == q.at \in {"renumber", "reorder"}

Planned(q) == DOMAIN q.todo \cup DOMAIN q.write

\* The position of shortcut i when q has committed.
After(q, i) ==
    IF i \in DOMAIN q.todo THEN q.todo[i]
    ELSE IF i \in DOMAIN q.write THEN q.write[i] ELSE rows[i].pos

\* A request writes positions of its user's shortcuts only.
PlansOwn(q) ==
    Writes(q) =>
        /\ Planned(q) \subseteq 1..added
        /\ q.at = "reorder" => q.gone = {}
        /\ \A i \in Planned(q) \cap DOMAIN rows : rows[i].user = q.user

\* A reordering writes what was sent.
PlansSent(q) ==
    q.at = "reorder" =>
        /\ \A i \in DOMAIN q.todo : i \in DOMAIN q.sent /\ q.sent[i] = q.todo[i]
        /\ \A i \in DOMAIN q.write : i \in DOMAIN q.sent /\ q.sent[i] = q.write[i]

\* A reordering of all shortcuts puts each at a place of its own ...
PlansApart(q) ==
    q.at = "reorder" /\ ~q.late /\ q.user \notin raced =>
        /\ Own(q.user) \subseteq Planned(q)
        /\ \A i, j \in Own(q.user) \ q.gone : i # j => After(q, i) # After(q, j)

\* ... a renumbering leaves them in the order they are in ...
PlansOrder(q) ==
    q.at = "renumber" /\ ~q.late =>
        \A i, j \in Own(q.user) \ q.gone : Before(i, j) => After(q, i) < After(q, j)

\* ... and the place of a new one is after all others.
PlansFree(q) ==
    q.at = "insert" /\ ~q.late => \A i \in Own(q.user) : rows[i].pos < q.pos

Plans(q) == PlansOwn(q) /\ PlansSent(q) /\ PlansApart(q) /\ PlansOrder(q) /\ PlansFree(q)

SInv == Types /\ ClashNeedsRace /\ \A r \in Requests : Plans(req[r])

-----------------------------------------------------------------------------
(* Where shortcuts are                                                     *)

LEMMA OwnFinite ==
    ASSUME Types, NEW u
    PROVE  Own(u) \subseteq Nat /\ IsFiniteSet(Own(u))
<1>1. Own(u) \subseteq 1..added
    BY DEF Own, Types
<1>2. IsFiniteSet(1..added)
    BY FS_Interval DEF Types
<1> QED
    BY <1>1, <1>2, FS_Subset DEF Types

\* The last of some shortcuts: of the sets of those beyond one of them, take
\* a smallest.
LEMMA LastShortcut ==
    ASSUME Types, NEW u, Own(u) # {}
    PROVE  \E i \in Own(u) : \A j \in Own(u) : rows[j].pos <= rows[i].pos
<1> DEFINE Beyond(i) == {j \in Own(u) : rows[j].pos > rows[i].pos}
           Family == {Beyond(i) : i \in Own(u)}
           Smaller == StrictSubsetOrdering(Own(u))
<1>0. \A i \in Own(u) : rows[i].pos \in Nat
    BY DEF Own, Types, Shortcut
<1>1. Family \subseteq FiniteSubsetsOf(Own(u))
    BY OwnFinite, FS_Subset DEF FiniteSubsetsOf
<1>2. Family # {}
    OBVIOUS
<1>3. PICK B \in Family : \A C \in Family : ~(<<C, B>> \in Smaller)
    <2>1. IsWellFoundedOn(Smaller, FiniteSubsetsOf(Own(u)))
        BY FS_StrictSubsetOrderingWellFounded
    <2> HIDE DEF Family, Smaller
    <2> QED
        BY <1>1, <1>2, <2>1, WFMin
<1>4. PICK i \in Own(u) : B = Beyond(i)
    BY <1>3
<1>5. ASSUME NEW j \in Own(u), ~(rows[j].pos <= rows[i].pos)
      PROVE  FALSE
    <2>1. j \in Beyond(i) /\ j \notin Beyond(j)
        BY <1>0, <1>5
    <2>2. Beyond(j) \subseteq Beyond(i)
        BY <1>0, <1>5
    <2>3. <<Beyond(j), Beyond(i)>> \in Smaller
        BY <2>1, <2>2 DEF StrictSubsetOrdering
    <2> QED
        BY <2>3, <1>3, <1>4
<1> QED
    BY <1>5

\* last_cost_shortcut() + 1 is a place after all.
LEMMA NextPositionIsLast ==
    ASSUME Types, NEW u
    PROVE  /\ NextPosition(u) \in Nat
           /\ \A i \in Own(u) : rows[i].pos < NextPosition(u)
<1>1. CASE Own(u) = {}
    BY <1>1 DEF NextPosition
<1>2. CASE Own(u) # {}
    <2> DEFINE Taken == {rows[i].pos : i \in Own(u)}
               Last(p) == \A i \in Own(u) : rows[i].pos <= p
    <2>1. \E p \in Taken : Last(p)
        BY <1>2, LastShortcut
    <2>2. PICK p : p = CHOOSE x \in Taken : Last(x)
        OBVIOUS
    <2>3. p \in Taken /\ Last(p)
        <3> HIDE DEF Taken, Last
        <3> QED BY <2>1, <2>2
    <2>4. NextPosition(u) = 1 + p
        BY <1>2, <2>2 DEF NextPosition
    <2>5. \A i \in Own(u) : rows[i].pos \in Nat
        BY DEF Own, Types, Shortcut
    <2> QED
        BY <2>3, <2>4, <2>5
<1> QED
    BY <1>1, <1>2

\* A renumbering counts from 1, and what comes later gets a higher number.
LEMMA RankKeepsOrder ==
    ASSUME Types, NEW u, NEW mine \in SUBSET Own(u), NEW i \in mine, NEW j \in mine
    PROVE  /\ Rank(mine, i) \in Nat
           /\ Before(i, j) => Rank(mine, i) < Rank(mine, j)
<1> DEFINE Upto(k) == {m \in mine : \/ rows[m].pos < rows[k].pos
                                    \/ rows[m].pos = rows[k].pos /\ m <= k}
<1>0. \A k \in mine : rows[k].pos \in Nat /\ k \in Nat
    BY OwnFinite DEF Own, Types, Shortcut
<1>1. IsFiniteSet(Upto(i)) /\ IsFiniteSet(Upto(j))
    <2>1. Upto(i) \in SUBSET Own(u) /\ Upto(j) \in SUBSET Own(u)
        OBVIOUS
    <2> QED
        BY <2>1, OwnFinite, FS_Subset
<1>2. Cardinality(Upto(i)) \in Nat /\ Cardinality(Upto(j)) \in Nat
    BY <1>1, FS_CardinalityType
<1>3. Rank(mine, i) = Cardinality(Upto(i)) /\ Rank(mine, j) = Cardinality(Upto(j))
    BY DEF Rank
<1>4. ASSUME Before(i, j) PROVE Cardinality(Upto(i)) < Cardinality(Upto(j))
    <2>1. Upto(i) \subseteq Upto(j)
        BY <1>0, <1>4 DEF Before
    <2>2. j \in Upto(j) /\ j \notin Upto(i)
        BY <1>0, <1>4 DEF Before
    <2>3. /\ Cardinality(Upto(i)) <= Cardinality(Upto(j))
          /\ Cardinality(Upto(j)) = Cardinality(Upto(i)) => Upto(j) = Upto(i)
        BY <2>1, <1>1, FS_Subset
    <2> QED
        BY <2>2, <2>3, <1>2
<1> QED
    BY <1>2, <1>3, <1>4

-----------------------------------------------------------------------------
(* What others do to a request's plans                                     *)

\* Rows come with new ids and keep their users.
RowsStay ==
    /\ added \in Nat /\ added' \in Nat /\ added <= added'
    /\ \A i \in DOMAIN rows' : i \in 1..added =>
          i \in DOMAIN rows /\ rows'[i].user = rows[i].user

LEMMA PlansUndisturbed ==
    ASSUME NEW q, Plans(q), RowsStay, raced \subseteq raced',
           q.at \in {"insert", "renumber", "reorder"} =>
               \A i \in Own(q.user)' : i \in Own(q.user) /\ rows'[i].pos = rows[i].pos
    PROVE  Plans(q)'
<1>1. PlansOwn(q)'
    BY DEF Plans, PlansOwn, Planned, RowsStay, Writes
<1>2. PlansSent(q)' /\ PlansApart(q)'
    BY DEF Plans, PlansSent, PlansApart, After, Own
<1>3. PlansOrder(q)'
    BY DEF Plans, PlansOrder, After, Own, Before
<1>4. PlansFree(q)'
    BY DEF Plans, PlansFree, Own
<1> QED
    BY <1>1, <1>2, <1>3, <1>4 DEF Plans

LEMMA PlansOvertaken ==
    ASSUME NEW q, q \in Stage, q.at \in {"insert", "renumber", "reorder"}, Plans(q), RowsStay
    PROVE  /\ [q EXCEPT !.late = TRUE] \in Stage
           /\ Plans([q EXCEPT !.late = TRUE])'
<1>1. PICK p : p = [q EXCEPT !.late = TRUE]
    OBVIOUS
<1> DEFINE Insert == [at : {"insert"}, user : Users, category : Categories, pos : Nat,
                      late : BOOLEAN]
           Update == [at : {"renumber", "reorder"}, user : Users, gone : Gone,
                      todo : Positions, write : Positions, late : BOOLEAN,
                      sent : Positions]
<1>a. q \in Insert \/ q \in Update
    BY DEF Stage, Idle
<1>b. p \in Stage
    <2>1. q \in Insert => p \in Insert
        BY <1>1
    <2>2. q \in Update => p \in Update
        BY <1>1
    <2> QED
        BY <1>a, <2>1, <2>2 DEF Stage
<1>c. p.late
    BY <1>a, <1>1
<1>2. p \in Stage /\ p.late /\ p.at = q.at /\ p.user = q.user
    <2>1. p.at = q.at /\ p.user = q.user
        BY <1>a, <1>1
    <2> QED
        BY <2>1, <1>b, <1>c
<1>3. Writes(q) => p.todo = q.todo /\ p.write = q.write /\ p.gone = q.gone
    BY <1>a, <1>1 DEF Writes
<1>4. PlansOwn(p)'
    BY <1>2, <1>3 DEF Plans, PlansOwn, Planned, RowsStay, Writes
<1>5. PlansSent(p)'
    <2>1. q.at = "reorder" => p.todo = q.todo /\ p.write = q.write /\ p.sent = q.sent
        BY <1>a, <1>1
    <2> QED
        BY <1>2, <2>1 DEF Plans, PlansSent
<1>6. Plans(p)'
    BY <1>2, <1>4, <1>5 DEF Plans, PlansApart, PlansOrder, PlansFree
<1> QED
    BY <1>1, <1>2, <1>6

\* Request r enters stage q, and the rows stay as they are.
LEMMA OneRequestMoves ==
    ASSUME SInv, NEW r \in Requests, NEW q \in Stage, Become(r, q),
           UNCHANGED <<rows, added>>,
           raced \subseteq raced', raced' \subseteq Users,
           Plans(q)'
    PROVE  SInv'
<1>1. Types'
    BY DEF SInv, Types, Become
<1>2. ClashNeedsRace'
    BY DEF SInv, ClashNeedsRace
<1>3. RowsStay
    BY DEF SInv, Types, RowsStay
<1>4. \A p : Plans(p) => Plans(p)'
    <2> TAKE p
    <2>1. Own(p.user)' = Own(p.user)
        BY DEF Own
    <2> QED
        BY <1>3, <2>1, PlansUndisturbed DEF Own
<1>5. \A p \in Requests : Plans(req[p])'
    <2> TAKE p \in Requests
    <2>1. CASE p = r
        BY <2>1 DEF Become, SInv, Types
    <2>2. CASE p # r
        <3>1. req'[p] = req[p] /\ Plans(req[p])
            BY <2>2 DEF Become, SInv, Types
        <3>2. PICK c : c = req[p]
            OBVIOUS
        <3>3. Plans(c)'
            BY <3>1, <3>2, <1>4
        <3>4. c = req'[p]
            BY <3>1, <3>2
        <3> QED
            BY <3>3, <3>4
    <2> QED
        BY <2>1, <2>2
<1> QED
    BY <1>1, <1>2, <1>5 DEF SInv

-----------------------------------------------------------------------------
(* The steps of a request before its commit                                *)

\* A request that has nothing to write yet has no plans.
LEMMA NoPlans ==
    ASSUME NEW q, q.at \notin {"insert", "renumber", "reorder"}
    PROVE  Plans(q) /\ Plans(q)'
BY DEF Plans, PlansOwn, PlansSent, PlansApart, PlansOrder, PlansFree, Writes

LEMMA InitInv == Init => SInv
<1> SUFFICES ASSUME Init PROVE SInv
    OBVIOUS
<1>1. DOMAIN rows = {}
    BY DEF Init
<1>2. \A r \in Requests : req[r] = Idle
    BY DEF Init
<1>3. Types
    BY <1>1, ShortcutsAssumption DEF Init, Types, Stage
<1>4. \A r \in Requests : Plans(req[r])
    BY <1>2, NoPlans DEF Idle
<1> QED
    BY <1>1, <1>3, <1>4 DEF SInv, ClashNeedsRace

\* A request ends, or reads something that is no position.
LEMMA MovesWithoutPlans ==
    ASSUME SInv, NEW r \in Requests, NEW q \in Stage, Become(r, q),
           UNCHANGED <<rows, added, raced>>,
           q.at \notin {"insert", "renumber", "reorder"}
    PROVE  SInv'
<1>1. Plans(q)'
    BY NoPlans
<1>2. raced' \subseteq Users
    BY DEF SInv, Types
<1> QED
    BY <1>1, <1>2, OneRequestMoves

LEMMA FailsKeeps ==
    ASSUME SInv, NEW r \in Requests, Fails(r)
    PROVE  SInv'
<1>1. Idle \in Stage /\ Idle.at = "idle"
    BY DEF Stage, Idle
<1> QED
    BY <1>1, MovesWithoutPlans DEF Fails

LEMMA AddReadKeeps ==
    ASSUME SInv, NEW r \in Requests, NEW u \in Users, NEW c \in Categories, AddRead(r, u, c)
    PROVE  SInv'
<1>1. PICK q : q = Inserting(u, c, NextPosition(u))
    OBVIOUS
<1>2. NextPosition(u) \in Nat /\ \A i \in Own(u) : rows[i].pos < NextPosition(u)
    BY NextPositionIsLast DEF SInv
<1>3. q \in Stage /\ q.at = "insert" /\ q.user = u /\ q.pos = NextPosition(u)
    BY <1>1, <1>2 DEF Inserting, Stage
<1>4. \A i \in Own(u)' : rows'[i].pos < q.pos
    BY <1>2, <1>3 DEF AddRead, Own
<1>5. Plans(q)'
    BY <1>3, <1>4 DEF Plans, PlansOwn, PlansSent, PlansApart, PlansOrder, PlansFree, Writes
<1>6. Become(r, q) /\ UNCHANGED <<rows, added, raced>>
    BY <1>1 DEF AddRead
<1> QED
    BY <1>3, <1>5, <1>6, OneRequestMoves DEF SInv, Types

LEMMA DeleteRowKeeps ==
    ASSUME SInv, NEW r \in Requests, NEW u \in Users, NEW i \in Ids, DeleteRow(r, u, i)
    PROVE  SInv'
<1>1. PICK q : q = Rebuilding(u, {i} \cap DOMAIN rows)
    OBVIOUS
<1>2. q \in Stage /\ q.at = "rebuild"
    <2>1. {i} \cap DOMAIN rows \in Gone
        BY DEF Gone
    <2> QED
        BY <1>1, <2>1 DEF Rebuilding, Stage
<1> QED
    BY <1>1, <1>2, MovesWithoutPlans DEF DeleteRow

LEMMA ApplyReadKeeps ==
    ASSUME SInv, NEW r \in Requests, NEW u \in Users, NEW i \in Ids, ApplyRead(r, u, i)
    PROVE  SInv'
<1>1. PICK q : q = Applying(rows[i].category)
    OBVIOUS
<1>2. rows[i].category \in Categories
    BY DEF ApplyRead, Own, SInv, Types, Shortcut
<1>3. q \in Stage /\ q.at = "apply"
    BY <1>1, <1>2 DEF Applying, Stage
<1> QED
    BY <1>1, <1>3, MovesWithoutPlans DEF ApplyRead

LEMMA CategoryCheckKeeps ==
    ASSUME SInv, NEW r \in Requests, NEW c \in Categories, CategoryCheck(r, c)
    PROVE  SInv'
<1>1. PICK q : q = Dropping(c)
    OBVIOUS
<1>2. q \in Stage /\ q.at = "drop"
    BY <1>1 DEF Dropping, Stage
<1> QED
    BY <1>1, <1>2, MovesWithoutPlans DEF CategoryCheck

LEMMA ReorderReadKeeps ==
    ASSUME SInv, NEW r \in Requests, NEW u \in Users, ReorderRead(r, u)
    PROVE  SInv'
<1>1. PICK ids \in SUBSET Own(u) : \E positions \in PositionsFor(ids) :
          /\ Become(r, Updating("reorder", u, {}, positions, positions))
          /\ raced' = IF ids # Own(u) THEN raced \cup {u} ELSE raced
    BY DEF ReorderRead
<1>2. PICK positions \in PositionsFor(ids) :
          /\ Become(r, Updating("reorder", u, {}, positions, positions))
          /\ raced' = IF ids # Own(u) THEN raced \cup {u} ELSE raced
    BY <1>1
<1>3. PICK q : q = Updating("reorder", u, {}, positions, positions)
    OBVIOUS
<1>4. /\ ids \subseteq 1..added /\ ids \subseteq DOMAIN rows
      /\ \A i \in ids : rows[i].user = u
      /\ added \in Nat /\ raced \subseteq Users
    BY DEF Own, SInv, Types
<1>5. /\ positions \in [ids -> 0..(Cardinality(ids) - 1)]
      /\ \A i, j \in ids : positions[i] = positions[j] => i = j
    BY DEF PositionsFor, Bijection, Injection, IsInjective
<1>6. positions \in Positions /\ << >> \in Positions
    <2>1. ids \in SUBSET Nat
        BY <1>4
    <2>2. positions \in [ids -> Nat]
        <3>1. IsFiniteSet(ids)
            BY OwnFinite, FS_Subset DEF SInv
        <3>2. Cardinality(ids) \in Nat
            BY <3>1, FS_CardinalityType
        <3> QED
            BY <1>5, <3>2
    <2>3. << >> \in [{} -> Nat]
        OBVIOUS
    <2> QED
        BY <2>1, <2>2, <2>3 DEF Positions
<1>7. /\ q.at = "reorder" /\ q.user = u /\ q.gone = {}
      /\ q.todo = positions /\ q.write = << >> /\ q.sent = positions
    BY <1>3 DEF Updating
<1>8. q \in Stage
    BY <1>3, <1>6 DEF Updating, Stage, Gone
<1>9. UNCHANGED <<rows, added>>
    BY DEF ReorderRead
<1>10. PlansOwn(q)'
    <2>1. Planned(q) = ids
        BY <1>5, <1>7 DEF Planned
    <2>2. added' = added /\ rows' = rows
        BY <1>9
    <2> QED
        BY <2>1, <2>2, <1>4, <1>7 DEF PlansOwn
<1>11. PlansApart(q)'
    <2>0. Own(u)' = Own(u)
        BY <1>9 DEF Own
    <2> SUFFICES ASSUME u \notin raced'
                 PROVE  /\ Own(u) \subseteq Planned(q)
                        /\ \A i, j \in Own(u) : i # j => After(q, i)' # After(q, j)'
        BY <1>7, <2>0 DEF PlansApart, Planned
    <2>1. ids = Own(u)
        BY <1>2
    <2>2. Own(u) \subseteq Planned(q)
        BY <2>1, <1>5, <1>7 DEF Planned
    <2> QED
        BY <2>1, <2>2, <1>5, <1>7 DEF After
<1>12. Plans(q)'
    <2>1. PlansSent(q)'
        BY <1>7 DEF PlansSent
    <2> QED
        BY <1>7, <1>10, <1>11, <2>1 DEF Plans, PlansOrder, PlansFree
<1>13. raced \subseteq raced' /\ raced' \subseteq Users
    BY <1>2, <1>4
<1> QED
    BY <1>2, <1>3, <1>8, <1>9, <1>12, <1>13, OneRequestMoves

LEMMA RebuildReadKeeps ==
    ASSUME SInv, NEW r \in Requests, RebuildRead(r)
    PROVE  SInv'
<1> DEFINE u == req[r].user
           gone == req[r].gone
           mine == Own(u) \ gone
           todo == [i \in {j \in mine : rows[j].pos # Rank(mine, j)} |-> Rank(mine, i)]
<1>1. PICK q : q = Updating("renumber", u, gone, todo, << >>)
    OBVIOUS
<1>2. Become(r, q) /\ UNCHANGED <<rows, added, raced>>
    BY <1>1 DEF RebuildRead
<1>3. u \in Users /\ gone \in Gone
    BY DEF RebuildRead, SInv, Types, Stage, Idle
<1>4. \A i \in mine : Rank(mine, i) \in Nat
    BY RankKeepsOrder DEF SInv
<1>5. todo \in Positions /\ << >> \in Positions
    <2>1. DOMAIN todo \in SUBSET Nat
        BY OwnFinite DEF SInv
    <2>2. todo \in [DOMAIN todo -> Nat]
        BY <1>4
    <2>3. << >> \in [{} -> Nat]
        OBVIOUS
    <2> QED
        BY <2>1, <2>2, <2>3 DEF Positions
<1>6. /\ q.at = "renumber" /\ q.user = u /\ q.gone = gone
      /\ q.todo = todo /\ q.write = << >>
    BY <1>1 DEF Updating
<1>7. q \in Stage
    <2> HIDE DEF u, gone, todo
    <2> QED
        BY <1>1, <1>3, <1>5 DEF Updating, Stage
<1>8. PlansOwn(q)
    <2>1. Planned(q) \subseteq Own(u)
        BY <1>6 DEF Planned
    <2> QED
        BY <2>1, <1>6 DEF PlansOwn, Own, SInv, Types
<1>9. \A i \in mine : After(q, i) = Rank(mine, i)
    BY <1>6 DEF After
<1>10. PlansOrder(q)
    <2> SUFFICES ASSUME NEW i \in mine, NEW j \in mine, Before(i, j)
                 PROVE  After(q, i) < After(q, j)
        BY <1>6 DEF PlansOrder
    <2> QED
        BY <1>9, RankKeepsOrder DEF SInv
<1>11. Plans(q)
    BY <1>6, <1>8, <1>10 DEF Plans, PlansSent, PlansApart, PlansFree
<1>12. Plans(q)'
    <2>1. RowsStay
        BY <1>2 DEF SInv, Types, RowsStay
    <2>2. \A i \in Own(q.user)' : i \in Own(q.user) /\ rows'[i].pos = rows[i].pos
        BY <1>2 DEF Own
    <2> QED
        BY <1>2, <1>11, <2>1, <2>2, PlansUndisturbed
<1> QED
    <2> HIDE DEF u, gone, todo
    <2> QED
        BY <1>2, <1>7, <1>12, OneRequestMoves DEF SInv, Types

LEMMA UpdateRowKeeps ==
    ASSUME SInv, NEW r \in Requests, UpdateRow(r)
    PROVE  SInv'
<1>1. PICK o : o = req[r]
    OBVIOUS
<1>2. /\ o.at \in {"renumber", "reorder"} /\ o.user \in Users
      /\ o.todo \in Positions /\ o.write \in Positions
      /\ o \in Stage
    BY <1>1 DEF UpdateRow, SInv, Types, Stage, Idle
<1>3. PICK i \in DOMAIN o.todo :
          /\ Become(r, [o EXCEPT
                !.todo  = Restrict(@, DOMAIN @ \ {i}),
                !.write = IF i \in DOMAIN rows
                          THEN [j \in DOMAIN @ \cup {i} |->
                                  IF j = i THEN o.todo[i] ELSE @[j]]
                          ELSE @])
          /\ UNCHANGED <<rows, added, raced>>
    BY <1>1 DEF UpdateRow, Turn
<1> DEFINE todo == Restrict(o.todo, DOMAIN o.todo \ {i})
           write == IF i \in DOMAIN rows
                    THEN [j \in DOMAIN o.write \cup {i} |->
                            IF j = i THEN o.todo[i] ELSE o.write[j]]
                    ELSE o.write
<1>4. PICK q : q = [o EXCEPT !.todo = todo, !.write = write]
    OBVIOUS
<1>5. Become(r, q)
    BY <1>3, <1>4
<1>6. /\ q.at = o.at /\ q.user = o.user /\ q.gone = o.gone
      /\ q.todo = todo /\ q.write = write /\ q.late = o.late /\ q.sent = o.sent
    BY <1>2, <1>4 DEF Stage, Idle
<1>7. todo \in Positions /\ write \in Positions
    <2>0. PICK S \in SUBSET Nat, T \in SUBSET Nat :
             o.todo \in [S -> Nat] /\ o.write \in [T -> Nat]
        BY <1>2 DEF Positions
    <2>1. S \ {i} \in SUBSET Nat /\ todo \in [S \ {i} -> Nat]
        BY <2>0 DEF Restrict
    <2>2. i \in Nat /\ o.todo[i] \in Nat
        BY <2>0
    <2>3. CASE i \in DOMAIN rows
        <3>1. T \cup {i} \in SUBSET Nat
            BY <2>2
        <3>2. write = [j \in T \cup {i} |-> IF j = i THEN o.todo[i] ELSE o.write[j]]
            BY <2>0, <2>3
        <3>3. \A j \in T : o.write[j] \in Nat
            BY <2>0
        <3>4. write \in [T \cup {i} -> Nat]
            BY <3>2, <3>3, <2>2
        <3> QED
            BY <2>1, <3>1, <3>4 DEF Positions
    <2>4. CASE i \notin DOMAIN rows
        BY <1>2, <2>1, <2>4 DEF Positions
    <2> QED
        BY <2>3, <2>4
<1>8. q \in Stage
    <2> DEFINE Update == [at : {"renumber", "reorder"}, user : Users, gone : Gone,
                          todo : Positions, write : Positions, late : BOOLEAN,
                          sent : Positions]
    <2>1. o \in Update
        BY <1>2 DEF Stage, Idle
    <2> HIDE DEF todo, write
    <2>2. q \in Update
        BY <1>4, <1>7, <2>1
    <2> QED
        BY <2>2 DEF Stage
<1>9. Plans(o)
    BY <1>1 DEF SInv
<1>10. Planned(q) \subseteq Planned(o)
    BY <1>6 DEF Planned, Restrict
<1>11. \A k \in DOMAIN rows : After(q, k) = After(o, k)
    BY <1>6 DEF After, Restrict
<1>12. PlansOwn(q)
    BY <1>2, <1>6, <1>9, <1>10 DEF Plans, PlansOwn, Writes
<1>13. PlansApart(q) /\ PlansOrder(q)
    <2>1. \A k \in DOMAIN rows : k \in Planned(o) => k \in Planned(q)
        BY <1>6 DEF Planned, Restrict
    <2>2. Own(o.user) \subseteq DOMAIN rows
        BY DEF Own
    <2>3. Own(o.user) \subseteq Planned(o) => Own(q.user) \subseteq Planned(q)
        BY <1>6, <2>1, <2>2
    <2> QED
        BY <1>6, <1>9, <1>11, <2>2, <2>3 DEF Plans, PlansApart, PlansOrder
<1>14. Plans(q)
    <2>1. /\ \A k \in DOMAIN todo : k \in DOMAIN o.todo /\ todo[k] = o.todo[k]
          /\ \A k \in DOMAIN write : \/ k = i /\ write[k] = o.todo[i]
                                     \/ k \in DOMAIN o.write /\ write[k] = o.write[k]
        BY DEF Restrict
    <2> HIDE DEF todo, write
    <2>2. PlansSent(q)
        BY <1>6, <1>9, <2>1 DEF Plans, PlansSent
    <2> QED
        BY <1>2, <1>6, <1>12, <1>13, <2>2 DEF Plans, PlansFree
<1>15. Plans(q)'
    <2>1. RowsStay
        BY <1>3 DEF SInv, Types, RowsStay
    <2>2. \A k \in Own(q.user)' : k \in Own(q.user) /\ rows'[k].pos = rows[k].pos
        BY <1>3 DEF Own
    <2> QED
        BY <1>3, <1>14, <2>1, <2>2, PlansUndisturbed
<1> QED
    BY <1>3, <1>5, <1>8, <1>15, OneRequestMoves DEF SInv, Types

\* The steps that only touch categories and costs.
LEMMA ApplyAddKeeps ==
    ASSUME SInv, NEW r \in Requests, ApplyAdd(r) \/ CategoryDrop(r)
    PROVE  SInv'
<1>1. Idle \in Stage /\ Idle.at = "idle"
    BY DEF Stage, Idle
<1> QED
    BY <1>1, MovesWithoutPlans DEF ApplyAdd, CategoryDrop

LEMMA PositionsUnchanged ==
    ASSUME SInv, UNCHANGED <<rows, added, req, raced>>
    PROVE  SInv'
BY DEF SInv, Types, ClashNeedsRace, Plans, PlansOwn, PlansSent, PlansApart, PlansOrder,
       PlansFree, Planned, Writes, After, Before, Own

-----------------------------------------------------------------------------
(* The commits: one user's positions change, and that user's other         *)
(* requests are late.                                                      *)

LEMMA OthersOvertaken ==
    ASSUME SInv, RowsStay, raced \subseteq raced',
           NEW r \in Requests, NEW u \in Users,
           req' = [Overtaken(r, u) EXCEPT ![r] = Idle],
           \A i \in DOMAIN rows' : rows'[i].user # u =>
               i \in DOMAIN rows /\ rows'[i].user = rows[i].user
                                 /\ rows'[i].pos = rows[i].pos
    PROVE  /\ req' \in [Requests -> Stage]
           /\ \A p \in Requests : Plans(req[p])'
<1> DEFINE Hit(q) == q.at \in {"insert", "renumber", "reorder"} /\ q.user = u
           Now(q) == IF Hit(q) THEN [q EXCEPT !.late = TRUE] ELSE q
<1>1. \A p \in Requests : req'[p] = IF p = r THEN Idle ELSE Now(req[p])
    BY DEF Overtaken
<1>2. DOMAIN req' = Requests /\ req' = [p \in Requests |-> req'[p]]
    BY DEF Overtaken
<1>3. ASSUME NEW q \in Stage, Plans(q) PROVE Now(q) \in Stage /\ Plans(Now(q))'
    <2>1. CASE Hit(q)
        BY <1>3, <2>1, PlansOvertaken
    <2>2. CASE ~Hit(q)
        <3>1. q.at \in {"insert", "renumber", "reorder"} =>
                 \A i \in Own(q.user)' : i \in Own(q.user) /\ rows'[i].pos = rows[i].pos
            BY <2>2 DEF Own
        <3>2. Plans(q)'
            BY <1>3, <3>1, PlansUndisturbed
        <3> QED
            BY <1>3, <2>2, <3>2
    <2> QED
        BY <2>1, <2>2
<1>4. \A p \in Requests : req'[p] \in Stage /\ Plans(req[p])'
    <2> TAKE p \in Requests
    <2>1. CASE p = r
        <3>1. req'[p] = Idle
            BY <1>1, <2>1
        <3>2. Idle \in Stage /\ Idle.at = "idle"
            BY DEF Stage, Idle
        <3> QED
            BY <3>1, <3>2, NoPlans
    <2>2. CASE p # r
        <3>1. PICK q : q = req[p]
            OBVIOUS
        <3>2. q \in Stage /\ Plans(q)
            BY <3>1 DEF SInv, Types
        <3>3. req'[p] = Now(q)
            BY <1>1, <2>2, <3>1
        <3> HIDE DEF Now
        <3>4. Now(q) \in Stage /\ Plans(Now(q))'
            BY <1>3, <3>2
        <3>5. PICK n : n = Now(q)
            OBVIOUS
        <3>6. n \in Stage /\ Plans(n)'
            BY <3>4, <3>5
        <3> QED
            BY <3>3, <3>5, <3>6
    <2> QED
        BY <2>1, <2>2
<1> HIDE DEF Now
<1> QED
    BY <1>2, <1>4

LEMMA AddInsertKeeps ==
    ASSUME SInv, NEW r \in Requests, AddInsert(r)
    PROVE  SInv'
<1> DEFINE u == req[r].user
           new == added + 1
<1>1. /\ u \in Users /\ req[r].category \in Categories /\ req[r].pos \in Nat
      /\ req[r].at = "insert"
    BY DEF AddInsert, SInv, Types, Stage, Idle
<1>2. CASE ~MayRefer(req[r].category)
    <2>1. Idle \in Stage /\ Idle.at = "idle"
        BY DEF Stage, Idle
    <2> QED
        BY <1>2, <2>1, MovesWithoutPlans DEF AddInsert
<1>3. CASE MayRefer(req[r].category)
    <2>1. /\ rows' = [i \in DOMAIN rows \cup {new} |->
                        IF i = new THEN [user |-> u, pos |-> req[r].pos,
                                         category |-> req[r].category]
                        ELSE rows[i]]
          /\ added' = new
          /\ req' = [Overtaken(r, u) EXCEPT ![r] = Idle]
          /\ raced' = IF req[r].late THEN raced \cup {u} ELSE raced
        BY <1>3 DEF AddInsert
    <2>2. new \notin DOMAIN rows /\ new \in Nat /\ added \in Nat
        BY DEF SInv, Types
    <2>3. /\ DOMAIN rows' = DOMAIN rows \cup {new}
          /\ rows'[new].user = u /\ rows'[new].pos = req[r].pos
          /\ rows'[new] \in Shortcut
          /\ \A i \in DOMAIN rows : rows'[i] = rows[i]
        BY <1>1, <2>1, <2>2 DEF Shortcut
    <2>4. RowsStay
        BY <2>1, <2>2, <2>3 DEF RowsStay
    <2>5. /\ req' \in [Requests -> Stage]
          /\ \A p \in Requests : Plans(req[p])'
        BY <1>1, <2>1, <2>3, <2>4, OthersOvertaken
    <2>6. Types'
        <3>1. new <= MaxShortcuts
            BY <2>2, ShortcutsAssumption DEF AddInsert
        <3> QED
            BY <1>1, <2>1, <2>2, <2>3, <2>5, <3>1 DEF SInv, Types
    <2>7. ClashNeedsRace'
        <3> SUFFICES ASSUME NEW i \in DOMAIN rows', NEW j \in DOMAIN rows', i # j,
                            rows'[i].user = rows'[j].user, rows'[i].pos = rows'[j].pos
                     PROVE  rows'[i].user \in raced'
            BY DEF ClashNeedsRace
        <3>1. CASE i \in DOMAIN rows /\ j \in DOMAIN rows
            BY <2>1, <2>3, <3>1 DEF SInv, ClashNeedsRace
        <3>2. CASE i = new \/ j = new
            <4>1. rows'[i].user = u
                BY <2>3, <3>2
            <4>2. PICK k \in Own(u) : rows[k].pos = req[r].pos
                BY <2>3, <3>2, <4>1 DEF Own
            <4>3. req[r].late
                BY <1>1, <4>2 DEF SInv, Plans, PlansFree
            <4> QED
                BY <2>1, <4>1, <4>3
        <3> QED
            BY <2>3, <3>1, <3>2
    <2> QED
        BY <2>5, <2>6, <2>7 DEF SInv
<1> QED
    BY <1>2, <1>3

\* What a commit leaves.
LEMMA Committed ==
    ASSUME SInv, NEW r \in Requests, CommitUpdates(r)
    PROVE  /\ req[r].user \in Users /\ Writes(req[r])
           /\ DOMAIN rows' = DOMAIN rows \ req[r].gone
           /\ \A i \in DOMAIN rows' :
                 /\ rows'[i] \in Shortcut
                 /\ rows'[i].user = rows[i].user /\ rows'[i].category = rows[i].category
                 /\ rows'[i].pos = IF rows[i].user = req[r].user
                                   THEN After(req[r], i) ELSE rows[i].pos
<1>1. PICK q : q = req[r]
    OBVIOUS
<1>2. /\ q.at \in {"renumber", "reorder"} /\ q.user \in Users
      /\ q.write \in Positions /\ q.todo = << >>
    BY <1>1 DEF CommitUpdates, SInv, Types, Stage, Idle
<1>3. rows' = [i \in DOMAIN rows \ q.gone |->
                 IF i \in DOMAIN q.write
                 THEN [rows[i] EXCEPT !.pos = q.write[i]] ELSE rows[i]]
    BY <1>1 DEF CommitUpdates
<1>4. PlansOwn(q)
    BY <1>1 DEF SInv, Plans
<1>5. ASSUME NEW i \in DOMAIN rows'
      PROVE  /\ rows'[i] \in Shortcut
             /\ rows'[i].user = rows[i].user /\ rows'[i].category = rows[i].category
             /\ rows'[i].pos = IF rows[i].user = q.user THEN After(q, i) ELSE rows[i].pos
    <2>1. i \in DOMAIN rows /\ rows[i] \in Shortcut
        BY <1>3, <1>5 DEF SInv, Types
    <2>2. CASE i \in DOMAIN q.write
        <3>1. rows'[i] = [rows[i] EXCEPT !.pos = q.write[i]]
            BY <1>3, <1>5, <2>2
        <3>2. q.write[i] \in Nat
            BY <1>2, <2>2 DEF Positions
        <3>3. rows[i].user = q.user
            BY <1>2, <1>4, <2>1, <2>2 DEF PlansOwn, Planned, Writes
        <3>4. After(q, i) = q.write[i]
            BY <1>2, <2>2 DEF After
        <3> QED
            BY <2>1, <3>1, <3>2, <3>3, <3>4 DEF Shortcut
    <2>3. CASE i \notin DOMAIN q.write
        BY <1>2, <1>3, <1>5, <2>1, <2>3 DEF After
    <2> QED
        BY <2>2, <2>3
<1>6. Writes(q) /\ DOMAIN rows' = DOMAIN rows \ q.gone
    BY <1>2, <1>3 DEF Writes
<1> QED
    BY <1>1, <1>2, <1>5, <1>6, Zenon

\* Of two shortcuts of a user one comes before the other.
LEMMA BeforeTotal ==
    ASSUME Types, NEW i \in DOMAIN rows, NEW j \in DOMAIN rows, i # j
    PROVE  Before(i, j) \/ Before(j, i)
BY DEF Before, Types, Shortcut

LEMMA CommitKeeps ==
    ASSUME SInv, NEW r \in Requests, CommitUpdates(r)
    PROVE  SInv'
<1> DEFINE u == req[r].user
<1>1. /\ u \in Users /\ Writes(req[r])
      /\ DOMAIN rows' = DOMAIN rows \ req[r].gone
      /\ \A i \in DOMAIN rows' :
            /\ rows'[i] \in Shortcut
            /\ rows'[i].user = rows[i].user
            /\ rows'[i].pos = IF rows[i].user = u THEN After(req[r], i) ELSE rows[i].pos
    BY Committed
<1>2. /\ req' = [Overtaken(r, u) EXCEPT ![r] = Idle]
      /\ raced' = IF req[r].late THEN raced \cup {u} ELSE raced
      /\ added' = added /\ added \in Nat
    BY DEF CommitUpdates, SInv, Types
<1>3. RowsStay
    BY <1>1, <1>2 DEF RowsStay
<1>4. /\ req' \in [Requests -> Stage]
      /\ \A p \in Requests : Plans(req[p])'
    BY <1>1, <1>2, <1>3, OthersOvertaken
<1>5. Types'
    BY <1>1, <1>2, <1>4 DEF SInv, Types
<1>6. ClashNeedsRace'
    <2> SUFFICES ASSUME NEW i \in DOMAIN rows', NEW j \in DOMAIN rows', i # j,
                        rows'[i].user = rows'[j].user, rows'[i].pos = rows'[j].pos,
                        rows'[i].user \notin raced'
                 PROVE  FALSE
        BY DEF ClashNeedsRace
    <2>1. CASE rows[i].user # u
        BY <1>1, <1>2, <2>1 DEF SInv, ClashNeedsRace
    <2>2. CASE rows[i].user = u
        <3>1. ~req[r].late /\ u \notin raced
            BY <1>1, <1>2, <2>2
        <3>2. i \in Own(u) \ req[r].gone /\ j \in Own(u) \ req[r].gone
            BY <1>1, <2>2 DEF Own
        <3>3. /\ rows'[i].pos = After(req[r], i) /\ rows'[j].pos = After(req[r], j)
              /\ rows'[i].pos \in Nat /\ rows'[j].pos \in Nat
            BY <1>1, <2>2 DEF Shortcut
        <3>4. CASE req[r].at = "reorder"
            BY <3>1, <3>2, <3>3, <3>4 DEF SInv, Plans, PlansApart
        <3>5. CASE req[r].at = "renumber"
            <4>1. Before(i, j) \/ Before(j, i)
                BY <3>2, BeforeTotal DEF Own, SInv
            <4>2. \/ After(req[r], i) < After(req[r], j)
                  \/ After(req[r], j) < After(req[r], i)
                BY <3>1, <3>2, <3>5, <4>1 DEF SInv, Plans, PlansOrder
            <4>3. rows'[i].pos < rows'[j].pos \/ rows'[j].pos < rows'[i].pos
                BY <3>3, <4>2, Zenon
            <4>4. rows'[i].pos \in Nat /\ rows'[j].pos \in Nat
                BY <3>3
            <4> QED
                BY <4>3, <4>4
        <3> QED
            BY <1>1, <3>4, <3>5 DEF Writes
    <2> QED
        BY <2>1, <2>2
<1> QED
    BY <1>4, <1>5, <1>6 DEF SInv

LEMMA StepKeeps ==
    ASSUME SInv, [Next]_vars
    PROVE  SInv'
<1>1. CASE UNCHANGED vars
    BY <1>1, PositionsUnchanged DEF vars
<1>2. ASSUME NEW r \in Requests, NEW u \in Users,
             \/ \E c \in Categories : AddRead(r, u, c)
             \/ \E i \in Ids : DeleteRow(r, u, i) \/ ApplyRead(r, u, i)
             \/ ReorderRead(r, u)
      PROVE  SInv'
    BY <1>2, AddReadKeeps, DeleteRowKeeps, ApplyReadKeeps, ReorderReadKeeps
<1>3. ASSUME NEW r \in Requests,
             \/ \E c \in Categories : CategoryCheck(r, c)
             \/ AddInsert(r) \/ RebuildRead(r) \/ UpdateRow(r) \/ CommitUpdates(r)
             \/ ApplyAdd(r) \/ CategoryDrop(r) \/ Fails(r)
      PROVE  SInv'
    BY <1>3, CategoryCheckKeeps, AddInsertKeeps, RebuildReadKeeps, UpdateRowKeeps,
       CommitKeeps, ApplyAddKeeps, FailsKeeps
<1>4. ASSUME NEW c \in Categories,
             CategoryCreate(c) \/ CostAdded(c) \/ CostsDeleted(c) \/ DefaultChosen(c)
      PROVE  SInv'
    BY <1>4, PositionsUnchanged DEF CategoryCreate, CostAdded, CostsDeleted, DefaultChosen
<1> QED
    BY <1>1, <1>2, <1>3, <1>4 DEF Next

LEMMA AlwaysSInv == Spec => []SInv
<1>1. Init => SInv
    BY InitInv
<1>2. SInv /\ [Next]_vars => SInv'
    BY StepKeeps
<1> QED
    BY <1>1, <1>2, PTL DEF Spec

\* Two shortcuts of a user share a position only after a race, or after a
\* reordering that left some out.
THEOREM PositionsAreApart == Spec => []ClashNeedsRace
<1>1. SInv => ClashNeedsRace
    BY DEF SInv
<1> QED
    BY <1>1, AlwaysSInv, PTL

-----------------------------------------------------------------------------
(* The order of the shortcuts                                              *)

\* A renumbering leaves what remains in its order, unless it has been overtaken.
LEMMA RenumberingKeepsOrder ==
    ASSUME SInv, NEW r \in Requests, CommitUpdates(r), req[r].at = "renumber",
           NEW i \in DOMAIN rows \cap DOMAIN rows', NEW j \in DOMAIN rows \cap DOMAIN rows',
           rows[i].user = rows[j].user, rows[i].user \notin raced'
    PROVE  Before(i, j) <=> Before(i, j)'
<1> DEFINE u == req[r].user
<1>1. /\ DOMAIN rows' = DOMAIN rows \ req[r].gone
      /\ rows'[i].pos = IF rows[i].user = u THEN After(req[r], i) ELSE rows[i].pos
      /\ rows'[j].pos = IF rows[j].user = u THEN After(req[r], j) ELSE rows[j].pos
      /\ rows'[i].pos \in Nat /\ rows'[j].pos \in Nat
    BY Committed DEF Shortcut
<1>2. CASE rows[i].user # u
    BY <1>1, <1>2 DEF Before
<1>3. CASE rows[i].user = u
    <2>1. ~req[r].late
        BY <1>3 DEF CommitUpdates
    <2>2. i \in Own(u) \ req[r].gone /\ j \in Own(u) \ req[r].gone
        BY <1>1, <1>3 DEF Own
    <2>3. \A a, b \in Own(u) \ req[r].gone :
             Before(a, b) => After(req[r], a) < After(req[r], b)
        BY <2>1 DEF SInv, Plans, PlansOrder
    <2>4. rows'[i].pos = After(req[r], i) /\ rows'[j].pos = After(req[r], j)
        BY <1>1, <1>3
    <2>5. /\ Before(i, j) => rows'[i].pos < rows'[j].pos
          /\ Before(j, i) => rows'[j].pos < rows'[i].pos
        BY <2>2, <2>3, <2>4, Zenon
    <2>6. i # j => Before(i, j) \/ Before(j, i)
        BY BeforeTotal DEF SInv
    <2>7. CASE i = j
        <3>1. i \in Nat /\ rows[i].pos \in Nat
            BY DEF SInv, Types, Shortcut
        <3> QED
            BY <1>1, <2>7, <3>1 DEF Before
    <2>8. CASE i # j /\ Before(i, j)
        BY <2>5, <2>8 DEF Before
    <2>9. CASE i # j /\ Before(j, i)
        <3>1. i \in Nat /\ j \in Nat /\ rows[i].pos \in Nat /\ rows[j].pos \in Nat
            BY DEF SInv, Types, Shortcut
        <3>2. ~Before(i, j)
            BY <2>9, <3>1 DEF Before
        <3>3. rows'[j].pos < rows'[i].pos
            BY <2>5, <2>9
        <3>4. ~(Before(i, j)')
            BY <1>1, <3>3 DEF Before
        <3> QED
            BY <3>2, <3>4
    <2> QED
        BY <2>6, <2>7, <2>8, <2>9
<1> QED
    BY <1>2, <1>3

-----------------------------------------------------------------------------
(* The refinement of Menu: what a step does to the order of each user      *)

\* The steps of Menu, in terms of the rows.
LEMMA MenuKeeps ==
    ASSUME List!WishesStay, raced \subseteq raced',
           \A v \in Users : Own(v)' = Own(v),
           \A v \in Users \ raced' : Order(v)' = Order(v)
    PROVE  List!Next
BY DEF List!Next, List!Keep, Order

LEMMA MenuArranges ==
    ASSUME List!WishesStay, raced \subseteq raced',
           NEW r \in Requests, NEW q, q = req[r], q.at = "reorder",
           NEW u \in Users, Own(u) \subseteq DOMAIN q.sent,
           \A v \in Users : Own(v)' = Own(v),
           \A v \in Users \ raced' :
               Order(v)' = IF v = u
                           THEN {p \in Own(u) \X Own(u) : q.sent[p[1]] < q.sent[p[2]]}
                           ELSE Order(v)
    PROVE  List!Next
<1>1. List!Arrange(r, u)
    BY DEF List!Arrange, List!Ordered
<1> QED
    BY <1>1 DEF List!Next

LEMMA MenuAppends ==
    ASSUME List!WishesStay, raced \subseteq raced', NEW u \in Users, NEW i \in Ids,
           \A v \in Users : i \notin Own(v),
           \A v \in Users : Own(v)' = IF v = u THEN Own(u) \cup {i} ELSE Own(v),
           \A v \in Users \ raced' :
               Order(v)' = IF v = u THEN Order(u) \cup (Own(u) \X {i}) ELSE Order(v)
    PROVE  List!Next
<1>1. List!Append(u, i)
    BY DEF List!Append, List!Ordered, Order
<1> QED
    BY <1>1 DEF List!Next

LEMMA MenuRemoves ==
    ASSUME List!WishesStay, raced \subseteq raced', NEW u \in Users, NEW i \in Ids,
           i \in Own(u),
           \A v \in Users : Own(v)' = IF v = u THEN Own(u) \ {i} ELSE Own(v),
           \A v \in Users \ raced' :
               Order(v)' = IF v = u THEN Order(u) \cap (Own(u)' \X Own(u)') ELSE Order(v)
    PROVE  List!Next
<1>1. List!Remove(u, i)
    BY DEF List!Remove, List!Ordered, Order
<1> QED
    BY <1>1 DEF List!Next

\* Rows that do not change are in the same order.
LEMMA SameOrder ==
    ASSUME NEW v, Own(v)' = Own(v),
           \A i, j \in Own(v) : Before(i, j)' <=> Before(i, j)
    PROVE  Order(v)' = Order(v)
<1>1. Order(v)' = {p \in Own(v)' \X Own(v)' : Before(p[1], p[2])'}
    BY DEF Order
<1>2. \A p \in Own(v) \X Own(v) : Before(p[1], p[2])' <=> Before(p[1], p[2])
    <2> TAKE p \in Own(v) \X Own(v)
    <2>1. p[1] \in Own(v) /\ p[2] \in Own(v)
        OBVIOUS
    <2> QED BY <2>1
<1> QED
    BY <1>1, <1>2 DEF Order

LEMMA RowsKept ==
    ASSUME List!WishesStay, UNCHANGED rows, raced \subseteq raced'
    PROVE  List!Next
<1>1. \A v \in Users : Own(v)' = Own(v) /\ Order(v)' = Order(v)
    BY DEF Own, Order, Before
<1> QED
    BY <1>1, MenuKeeps

\* The order after a step, pair by pair.
LEMMA OrderIs ==
    ASSUME NEW v, NEW new, new \subseteq Own(v)' \X Own(v)',
           \A i, j \in Own(v)' : Before(i, j)' <=> <<i, j>> \in new
    PROVE  Order(v)' = new
<1>1. Order(v)' = {p \in Own(v)' \X Own(v)' : Before(p[1], p[2])'}
    BY DEF Order
<1>2. \A p \in Own(v)' \X Own(v)' : Before(p[1], p[2])' <=> p \in new
    <2> TAKE p \in Own(v)' \X Own(v)'
    <2>1. PICK i \in Own(v)', j \in Own(v)' : p = <<i, j>>
        OBVIOUS
    <2>2. Before(i, j)' <=> <<i, j>> \in new
        BY <2>1
    <2> QED
        BY <2>1, <2>2
<1> QED
    BY <1>1, <1>2

LEMMA InOrder ==
    ASSUME NEW v, NEW i, NEW j
    PROVE  <<i, j>> \in Order(v) <=> i \in Own(v) /\ j \in Own(v) /\ Before(i, j)
BY DEF Order

\* An add comes last, unless it is late.
LEMMA InsertAppends ==
    ASSUME SInv, List!WishesStay, NEW r \in Requests, AddInsert(r), MayRefer(req[r].category)
    PROVE  List!Next
<1>1. PICK q : q = req[r]
    OBVIOUS
<1> DEFINE u == q.user
           new == added + 1
<1>2. /\ u \in Users /\ q.pos \in Nat /\ q.at = "insert" /\ PlansFree(q)
      /\ q.late \in BOOLEAN
    BY <1>1 DEF AddInsert, SInv, Types, Stage, Idle, Plans
<1>3. /\ rows' = [i \in DOMAIN rows \cup {new} |->
                    IF i = new THEN [user |-> u, pos |-> q.pos, category |-> q.category]
                    ELSE rows[i]]
      /\ raced' = IF q.late THEN raced \cup {u} ELSE raced
    BY <1>1 DEF AddInsert
<1>4. new \notin DOMAIN rows /\ new \in Ids
    BY ShortcutsAssumption DEF SInv, Types, AddInsert, Ids
<1>5. /\ DOMAIN rows' = DOMAIN rows \cup {new}
      /\ rows'[new].user = u /\ rows'[new].pos = q.pos
      /\ \A i \in DOMAIN rows : rows'[i] = rows[i]
    BY <1>3, <1>4
<1> HIDE DEF u, new
<1>6. \A v \in Users : Own(v)' = IF v = u THEN Own(u) \cup {new} ELSE Own(v)
    BY <1>5 DEF Own
<1>7. \A v \in Users : new \notin Own(v)
    BY <1>4 DEF Own
<1>8. ASSUME NEW v \in Users \ raced'
      PROVE  Order(v)' = IF v = u THEN Order(u) \cup (Own(u) \X {new}) ELSE Order(v)
    <2>1. \A i, j \in Own(v) : Before(i, j)' <=> Before(i, j)
        BY <1>5 DEF Own, Before
    <2>2. CASE v # u
        BY <1>6, <2>1, <2>2, SameOrder
    <2>3. CASE v = u
        <3> DEFINE wanted == Order(u) \cup (Own(u) \X {new})
        <3>1. Own(u)' = Own(u) \cup {new}
            BY <1>6, <2>3
        <3>2. wanted \subseteq Own(u)' \X Own(u)'
            BY <3>1 DEF Order
        <3>3. \A i \in Own(u) : rows[i].pos \in Nat /\ rows[i].pos < q.pos /\ i \in DOMAIN rows
            <4>1. ~q.late
                BY <1>2, <1>3, <2>3
            <4>2. \A i \in Own(u) : rows[i].pos < q.pos
                BY <1>2, <4>1 DEF PlansFree, u
            <4> QED
                BY <4>2 DEF Own, SInv, Types, Shortcut
        <3>4. ASSUME NEW i \in Own(u)', NEW j \in Own(u)'
              PROVE  Before(i, j)' <=> <<i, j>> \in wanted
            <4>1. CASE i \in Own(u) /\ j \in Own(u)
                <5>1. j # new
                    BY <1>7, <1>2, <4>1
                <5> QED
                    BY <2>1, <2>3, <4>1, <5>1, InOrder
            <4>2. CASE i \in Own(u) /\ j = new
                <5>1. rows'[i].pos < rows'[new].pos
                    BY <1>5, <3>3, <4>2
                <5> QED
                    BY <4>2, <5>1 DEF Before
            <4>3. CASE i = new /\ j \in Own(u)
                <5>1. rows'[j].pos < rows'[new].pos /\ rows'[j].pos \in Nat
                    BY <1>5, <3>3, <4>3
                <5>2. rows'[new].pos \in Nat
                    BY <1>2, <1>5
                <5>3. ~(Before(i, j)')
                    BY <4>3, <5>1, <5>2 DEF Before
                <5>4. new \notin Own(u)
                    BY <1>2, <1>7
                <5> QED
                    BY <4>3, <5>3, <5>4, InOrder
            <4>4. CASE i = new /\ j = new
                <5>1. new \in Nat /\ rows'[new].pos \in Nat
                    BY <1>2, <1>4, <1>5 DEF Ids
                <5>2. ~(Before(i, j)')
                    BY <4>4, <5>1 DEF Before
                <5>3. new \notin Own(u)
                    BY <1>2, <1>7
                <5> QED
                    BY <4>4, <5>2, <5>3, InOrder
            <4> QED
                BY <3>1, <4>1, <4>2, <4>3, <4>4
        <3> HIDE DEF wanted
        <3>5. Order(u)' = wanted
            BY <3>2, <3>4, OrderIs
        <3> QED
            BY <2>3, <3>5 DEF wanted
    <2> QED
        BY <2>2, <2>3
<1>9. raced \subseteq raced'
    BY <1>3
<1> QED
    BY <1>2, <1>4, <1>6, <1>7, <1>8, <1>9, MenuAppends

\* A renumbering and its deletion take one shortcut out of an order, or none.
LEMMA RenumberingRemoves ==
    ASSUME SInv, List!WishesStay, NEW r \in Requests, CommitUpdates(r), req[r].at = "renumber"
    PROVE  List!Next
<1>1. PICK gone \in Gone : gone = req[r].gone
    BY DEF SInv, Types, Stage, Idle, CommitUpdates
<1>2. /\ DOMAIN rows' = DOMAIN rows \ gone
      /\ \A i \in DOMAIN rows' : rows'[i].user = rows[i].user
    BY <1>1, Committed
<1>3. raced \subseteq raced'
    BY DEF CommitUpdates
<1>4. \A v : Own(v)' = Own(v) \ gone
    BY <1>2 DEF Own
<1>5. \A v \in Users \ raced' : \A i, j \in Own(v)' : Before(i, j)' <=> Before(i, j)
    <2> TAKE v \in Users \ raced'
    <2> TAKE i, j \in Own(v)'
    <2>1. /\ i \in DOMAIN rows \cap DOMAIN rows' /\ j \in DOMAIN rows \cap DOMAIN rows'
          /\ rows[i].user = v /\ rows[j].user = v
        BY <1>2 DEF Own
    <2> QED
        BY <2>1, RenumberingKeepsOrder
<1>6. CASE gone \cap DOMAIN rows = {}
    <2>1. \A v : Own(v)' = Own(v)
        BY <1>4, <1>6 DEF Own
    <2>2. \A v \in Users \ raced' : Order(v)' = Order(v)
        BY <1>5, <2>1, SameOrder
    <2> QED
        BY <1>3, <2>1, <2>2, MenuKeeps
<1>7. ASSUME NEW i \in DOMAIN rows, gone = {i}
      PROVE  List!Next
    <2>1. PICK u : u = rows[i].user
        OBVIOUS
    <2>2. u \in Users /\ i \in Ids /\ i \in Own(u)
        BY <2>1, ShortcutsAssumption DEF SInv, Types, Shortcut, Own, Ids
    <2>3. \A v \in Users : Own(v)' = IF v = u THEN Own(u) \ {i} ELSE Own(v)
        BY <1>4, <1>7, <2>1 DEF Own
    <2>4. ASSUME NEW v \in Users \ raced'
          PROVE  Order(v)' = IF v = u THEN Order(u) \cap (Own(u)' \X Own(u)') ELSE Order(v)
        <3>1. CASE v # u
            <4>1. Own(v)' = Own(v)
                BY <2>3, <3>1
            <4> QED
                BY <1>5, <3>1, <4>1, SameOrder
        <3>2. CASE v = u
            <4> DEFINE wanted == Order(u) \cap (Own(u)' \X Own(u)')
            <4>1. \A k, l \in Own(u)' : Before(k, l)' <=> <<k, l>> \in wanted
                <5> TAKE k, l \in Own(u)'
                <5>1. k \in Own(u) /\ l \in Own(u)
                    BY <1>4
                <5>2. Before(k, l)' <=> Before(k, l)
                    BY <1>5, <3>2
                <5> QED
                    BY <5>1, <5>2, InOrder
            <4>2. wanted \subseteq Own(u)' \X Own(u)'
                OBVIOUS
            <4> HIDE DEF wanted
            <4>3. Order(u)' = wanted
                BY <4>1, <4>2, OrderIs
            <4> QED
                BY <3>2, <4>3 DEF wanted
        <3> QED
            BY <3>1, <3>2
    <2> QED
        BY <1>3, <2>2, <2>3, <2>4, MenuRemoves
<1>8. gone = {} \/ \E i \in Ids : gone = {i}
    BY DEF Gone
<1> QED
    BY <1>6, <1>7, <1>8

\* A reordering leaves the order that was asked for, unless it is spoiled.
LEMMA ReorderingArranges ==
    ASSUME SInv, List!WishesStay, NEW r \in Requests, CommitUpdates(r), req[r].at = "reorder"
    PROVE  List!Next
<1>1. PICK q : q = req[r]
    OBVIOUS
<1> DEFINE u == q.user
           new == {p \in Own(u) \X Own(u) : q.sent[p[1]] < q.sent[p[2]]}
<1>2. /\ q.at = "reorder" /\ u \in Users /\ q.todo = << >> /\ q.late \in BOOLEAN
      /\ q.write \in Positions
    BY <1>1 DEF CommitUpdates, SInv, Types, Stage, Idle
<1>3. PlansOwn(q) /\ PlansSent(q) /\ PlansApart(q) /\ q.gone = {}
    BY <1>1, <1>2 DEF SInv, Plans, PlansOwn, Writes
<1>4. /\ DOMAIN rows' = DOMAIN rows
      /\ \A i \in DOMAIN rows' :
            /\ rows'[i].user = rows[i].user
            /\ rows'[i].pos = IF rows[i].user = u THEN After(q, i) ELSE rows[i].pos
    BY <1>1, <1>3, Committed
<1>5. raced' = IF q.late THEN raced \cup {u} ELSE raced
    BY <1>1 DEF CommitUpdates
<1>6. \A v : Own(v)' = Own(v)
    BY <1>4 DEF Own
<1>7. ASSUME NEW v \in Users \ raced', v # u
      PROVE  Order(v)' = Order(v)
    <2>1. \A i, j \in Own(v) : Before(i, j)' <=> Before(i, j)
        BY <1>4, <1>7 DEF Own, Before
    <2> QED
        BY <2>1, <1>6, SameOrder
<1>8. CASE u \in raced'
    <2>1. \A v \in Users \ raced' : Order(v)' = Order(v)
        BY <1>7, <1>8
    <2>2. raced \subseteq raced'
        BY <1>5
    <2> QED
        BY <1>6, <2>1, <2>2, MenuKeeps
<1>9. CASE u \notin raced'
    <2>1. ~q.late /\ u \notin raced /\ raced \subseteq raced'
        BY <1>2, <1>5, <1>9
    <2>2. /\ Own(u) \subseteq DOMAIN q.write
          /\ \A i, j \in Own(u) : i # j => After(q, i) # After(q, j)
        BY <1>2, <1>3, <2>1 DEF PlansApart, Planned
    <2>3. \A i \in Own(u) : /\ i \in DOMAIN q.sent /\ q.sent[i] = After(q, i)
                            /\ After(q, i) \in Nat /\ rows'[i].pos = After(q, i)
        <3> TAKE i \in Own(u)
        <3>1. i \in DOMAIN rows /\ rows[i].user = u /\ i \in DOMAIN q.write
            BY <2>2 DEF Own
        <3>2. After(q, i) = q.write[i]
            BY <1>2, <3>1 DEF After
        <3>3. i \in DOMAIN q.sent /\ q.sent[i] = q.write[i] /\ q.write[i] \in Nat
            BY <1>2, <1>3, <3>1 DEF PlansSent, Positions
        <3>4. rows'[i].pos = After(q, i)
            BY <1>4, <3>1
        <3> QED
            BY <3>2, <3>3, <3>4
    <2>4. \A i, j \in Own(u)' : Before(i, j)' <=> <<i, j>> \in new
        <3> TAKE i, j \in Own(u)'
        <3>1. i \in Own(u) /\ j \in Own(u)
            BY <1>6
        <3>2. <<i, j>> \in new <=> q.sent[i] < q.sent[j]
            BY <3>1
        <3>3. /\ rows'[i].pos = q.sent[i] /\ rows'[j].pos = q.sent[j]
              /\ q.sent[i] \in Nat /\ q.sent[j] \in Nat
              /\ i # j => q.sent[i] # q.sent[j]
            BY <2>2, <2>3, <3>1
        <3>4. i \in Nat /\ j \in Nat
            BY <3>1, OwnFinite DEF SInv
        <3> QED
            BY <3>2, <3>3, <3>4 DEF Before
    <2>5. new \subseteq Own(u)' \X Own(u)'
        BY <1>6
    <2> HIDE DEF new
    <2>6. Order(u)' = new
        BY <2>4, <2>5, OrderIs
    <2>7. \A v \in Users \ raced' : Order(v)' = IF v = u THEN new ELSE Order(v)
        BY <1>7, <2>6
    <2>8. Own(u) \subseteq DOMAIN q.sent
        BY <2>3
    <2> HIDE DEF u
    <2> QED
        BY <1>1, <1>2, <1>6, <2>1, <2>7, <2>8, MenuArranges DEF new
<1> QED
    BY <1>8, <1>9

\* What a reordering was sent stays, whatever happens until it ends.
LEMMA WishKept ==
    ASSUME Types, NEW r \in Requests, NEW q, Become(r, q),
           req[r].at # "reorder" \/ q.at # "reorder" \/ q.sent = req[r].sent
    PROVE  List!WishesStay
<1>1. \A p \in Requests : req'[p] = IF p = r THEN q ELSE req[p]
    BY DEF Become, Types
<1> QED
    BY <1>1 DEF List!WishesStay

LEMMA WishesOvertaken ==
    ASSUME Types, NEW r \in Requests, NEW u \in Users,
           req' = [Overtaken(r, u) EXCEPT ![r] = Idle]
    PROVE  List!WishesStay
<1>1. ASSUME NEW p \in Requests
      PROVE  \/ req'[p].at # "reorder"
             \/ req[p].at = "reorder" /\ req'[p].sent = req[p].sent
    <2>1. CASE p = r
        <3>1. req'[p] = Idle
            BY <2>1 DEF Overtaken
        <3> QED
            BY <3>1 DEF Idle
    <2>2. CASE p # r
        <3>1. PICK q : q = req[p]
            OBVIOUS
        <3>2. req'[p] = q \/ req'[p] = [q EXCEPT !.late = TRUE]
            BY <2>2, <3>1 DEF Overtaken
        <3>3. q \in Stage
            BY <3>1 DEF Types
        <3>4. [q EXCEPT !.late = TRUE].at = q.at
            BY <3>3 DEF Stage, Idle
        <3>5. q.at = "reorder" => [q EXCEPT !.late = TRUE].sent = q.sent
            BY <3>3 DEF Stage, Idle
        <3> QED
            BY <3>1, <3>2, <3>4, <3>5
    <2> QED
        BY <2>1, <2>2
<1> QED
    BY <1>1 DEF List!WishesStay

LEMMA WishesStayStep ==
    ASSUME SInv, [Next]_vars
    PROVE  List!WishesStay
<1>0. Types /\ Idle.at = "idle"
    BY DEF SInv, Idle
<1>1. CASE UNCHANGED req
    BY <1>1 DEF List!WishesStay
<1>2. ASSUME NEW r \in Requests, NEW q, Become(r, q), req[r].at # "reorder" \/ q.at # "reorder"
      PROVE  List!WishesStay
    BY <1>0, <1>2, WishKept
<1>3. ASSUME NEW r \in Requests, AddInsert(r) PROVE List!WishesStay
    <2>1. CASE MayRefer(req[r].category)
        <3>1. req[r].user \in Users
            BY <1>3 DEF AddInsert, SInv, Types, Stage, Idle
        <3> QED
            BY <1>0, <1>3, <2>1, <3>1, WishesOvertaken DEF AddInsert
    <2>2. CASE ~MayRefer(req[r].category)
        BY <1>0, <1>2, <1>3, <2>2 DEF AddInsert
    <2> QED
        BY <2>1, <2>2
<1>4. ASSUME NEW r \in Requests, CommitUpdates(r) PROVE List!WishesStay
    <2>1. req[r].user \in Users
        BY <1>4, Committed
    <2> QED
        BY <1>0, <1>4, <2>1, WishesOvertaken DEF CommitUpdates
<1>5. ASSUME NEW r \in Requests, UpdateRow(r) PROVE List!WishesStay
    <2>1. PICK o : o = req[r]
        OBVIOUS
    <2>2. o \in Stage /\ o.at \in {"renumber", "reorder"}
        BY <1>5, <2>1 DEF UpdateRow, SInv, Types
    <2>3. PICK todo, write : Become(r, [o EXCEPT !.todo = todo, !.write = write])
        BY <1>5, <2>1 DEF UpdateRow
    <2>4. [o EXCEPT !.todo = todo, !.write = write].sent = o.sent
        BY <2>2 DEF Stage, Idle
    <2> QED
        BY <1>0, <2>1, <2>3, <2>4, WishKept
<1>6. ASSUME NEW r \in Requests, NEW u \in Users,
             \/ \E c \in Categories : AddRead(r, u, c)
             \/ \E i \in Ids : DeleteRow(r, u, i) \/ ApplyRead(r, u, i)
             \/ ReorderRead(r, u)
      PROVE  List!WishesStay
    <2>1. req[r].at # "reorder"
        BY <1>0, <1>6 DEF AddRead, DeleteRow, ApplyRead, ReorderRead
    <2>2. \E q : Become(r, q)
        BY <1>6 DEF AddRead, DeleteRow, ApplyRead, ReorderRead
    <2> QED
        BY <1>2, <2>1, <2>2
<1>7. ASSUME NEW r \in Requests, NEW c \in Categories, CategoryCheck(r, c)
      PROVE  List!WishesStay
    BY <1>0, <1>2, <1>7 DEF CategoryCheck
<1>8. ASSUME NEW r \in Requests, RebuildRead(r) PROVE List!WishesStay
    <2>1. req[r].at # "reorder" /\ \E q : Become(r, q)
        BY <1>8 DEF RebuildRead
    <2> QED
        BY <1>2, <2>1
<1>9. ASSUME NEW r \in Requests, ApplyAdd(r) \/ CategoryDrop(r) \/ Fails(r)
      PROVE  List!WishesStay
    BY <1>0, <1>2, <1>9 DEF ApplyAdd, CategoryDrop, Fails
<1>10. CASE \E c \in Categories :
              CategoryCreate(c) \/ CostAdded(c) \/ CostsDeleted(c) \/ DefaultChosen(c)
    BY <1>1, <1>10 DEF CategoryCreate, CostAdded, CostsDeleted, DefaultChosen
<1> QED
    BY <1>1, <1>3, <1>4, <1>5, <1>6, <1>7, <1>8, <1>9, <1>10 DEF Next, vars

LEMMA StepIsMenu == SInv /\ [Next]_vars => [List!Next]_(List!vars)
<1> SUFFICES ASSUME SInv, [Next]_vars PROVE List!Next
    OBVIOUS
<1>0. List!WishesStay
    BY WishesStayStep
<1>1. ASSUME UNCHANGED rows, raced \subseteq raced' PROVE List!Next
    BY <1>0, <1>1, RowsKept
<1>2. CASE UNCHANGED vars
    BY <1>1, <1>2 DEF vars
<1>3. ASSUME NEW r \in Requests, AddInsert(r) PROVE List!Next
    <2>1. CASE MayRefer(req[r].category)
        BY <1>0, <1>3, <2>1, InsertAppends
    <2>2. CASE ~MayRefer(req[r].category)
        BY <1>1, <1>3, <2>2 DEF AddInsert
    <2> QED
        BY <2>1, <2>2
<1>4. ASSUME NEW r \in Requests, CommitUpdates(r) PROVE List!Next
    <2>1. req[r].at \in {"renumber", "reorder"}
        BY <1>4 DEF CommitUpdates
    <2> QED
        BY <1>0, <1>4, <2>1, RenumberingRemoves, ReorderingArranges
<1>5. ASSUME NEW r \in Requests, NEW u \in Users, ReorderRead(r, u) PROVE List!Next
    BY <1>1, <1>5 DEF ReorderRead
<1>6. CASE \E r \in Requests :
             \/ \E u \in Users :
                   \/ \E c \in Categories : AddRead(r, u, c)
                   \/ \E i \in Ids : DeleteRow(r, u, i) \/ ApplyRead(r, u, i)
             \/ \E c \in Categories : CategoryCheck(r, c)
             \/ RebuildRead(r) \/ UpdateRow(r)
             \/ ApplyAdd(r) \/ CategoryDrop(r) \/ Fails(r)
    BY <1>1, <1>6 DEF AddRead, DeleteRow, ApplyRead, CategoryCheck, RebuildRead, UpdateRow,
                      ApplyAdd, CategoryDrop, Fails
<1>7. CASE \E c \in Categories :
             CategoryCreate(c) \/ CostAdded(c) \/ CostsDeleted(c) \/ DefaultChosen(c)
    BY <1>1, <1>7 DEF CategoryCreate, CostAdded, CostsDeleted, DefaultChosen
<1> QED
    BY <1>2, <1>3, <1>4, <1>5, <1>6, <1>7 DEF Next

\* Positions make a list of each user's shortcuts: adds come last, deletions
\* take one out in order, and an order, as a whole, is one that was sent.
THEOREM ShortcutsImplementMenu == Spec => ImplementsMenu
<1>1. Init => List!Init
    <2> SUFFICES ASSUME Init PROVE List!Init
        OBVIOUS
    <2>1. \A u : Own(u) = {} /\ Order(u) = {}
        BY DEF Init, Own, Order
    <2>2. \A r \in Requests : req[r].at # "reorder"
        BY DEF Init, Idle
    <2> QED
        BY <2>1, <2>2 DEF Init, List!Init
<1> QED
    BY <1>1, StepIsMenu, AlwaysSInv, PTL DEF Spec, ImplementsMenu, List!Spec

-----------------------------------------------------------------------------
(* Categories                                                              *)

LEMMA DanglingStep ==
    ASSUME SInv, NothingDangles, [Next]_vars
    PROVE  NothingDangles'
<1>1. ASSUME UNCHANGED <<rows, categories, used, chosen>>
      PROVE  NothingDangles'
    BY <1>1 DEF NothingDangles
<1>2. ASSUME NEW r \in Requests, AddInsert(r) PROVE NothingDangles'
    <2>1. CASE ~MayRefer(req[r].category)
        BY <1>2, <2>1, <1>1 DEF AddInsert
    <2>2. CASE MayRefer(req[r].category)
        BY <1>2, <2>2 DEF AddInsert, NothingDangles, MayRefer
    <2> QED
        BY <2>1, <2>2
<1>3. ASSUME NEW r \in Requests, CommitUpdates(r) PROVE NothingDangles'
    <2>1. /\ DOMAIN rows' \subseteq DOMAIN rows
          /\ \A i \in DOMAIN rows' : rows'[i].category = rows[i].category
        BY <1>3, Committed
    <2>2. UNCHANGED <<categories, used, chosen>>
        BY <1>3 DEF CommitUpdates
    <2> QED
        BY <2>1, <2>2 DEF NothingDangles
<1>4. ASSUME NEW r \in Requests, CategoryDrop(r) PROVE NothingDangles'
    BY <1>4 DEF CategoryDrop, NothingDangles, Droppable
<1>5. ASSUME NEW r \in Requests, ApplyAdd(r) PROVE NothingDangles'
    BY <1>5 DEF ApplyAdd, NothingDangles, MayRefer
<1>6. ASSUME NEW c \in Categories,
             CategoryCreate(c) \/ CostAdded(c) \/ CostsDeleted(c) \/ DefaultChosen(c)
      PROVE  NothingDangles'
    BY <1>6 DEF CategoryCreate, CostAdded, CostsDeleted, DefaultChosen, NothingDangles, MayRefer
<1>7. CASE \E r \in Requests :
             \/ \E u \in Users :
                   \/ \E c \in Categories : AddRead(r, u, c)
                   \/ \E i \in Ids : DeleteRow(r, u, i) \/ ApplyRead(r, u, i)
                   \/ ReorderRead(r, u)
             \/ \E c \in Categories : CategoryCheck(r, c)
             \/ RebuildRead(r) \/ UpdateRow(r) \/ Fails(r)
    BY <1>1, <1>7 DEF AddRead, DeleteRow, ApplyRead, ReorderRead, CategoryCheck,
                      RebuildRead, UpdateRow, Fails
<1> QED
    BY <1>1, <1>2, <1>3, <1>4, <1>5, <1>6, <1>7 DEF Next, vars

\* No shortcut, cost or default ever refers to a category that is gone.
THEOREM CategoriesStay == Spec => []NothingDangles
<1>1. Init => NothingDangles
    BY DEF Init, NothingDangles
<1>2. SInv /\ NothingDangles /\ [Next]_vars => NothingDangles'
    BY DanglingStep
<1> QED
    BY <1>1, <1>2, AlwaysSInv, PTL DEF Spec

=============================================================================
