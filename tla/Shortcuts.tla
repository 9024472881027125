----------------------------- MODULE Shortcuts -----------------------------
(***************************************************************************)
(* Cost shortcuts, the positions they are shown at, and the categories     *)
(* they and the costs refer to.                                            *)
(*                                                                         *)
(* Positions are worked out by the program, each by statements of its own: *)
(* a new shortcut takes the place after the last one, read in a session    *)
(* that ends before the insert; a deletion renumbers what it reads; a      *)
(* reordering writes what the user sends.  PostgreSQL runs the statements  *)
(* at READ COMMITTED: a statement sees what is committed, an UPDATE or     *)
(* DELETE waits for whoever has changed the row, and nothing makes         *)
(* positions unique.                                                       *)
(***************************************************************************)
EXTENDS Naturals, FiniteSets, Functions

CONSTANTS
    Users,          \* who have shortcuts
    Categories,     \* ids of cost categories, each given out once
    Requests,       \* requests that may be under way at a time
    MaxShortcuts    \* bound: shortcuts ever added

ASSUME ShortcutsAssumption == MaxShortcuts \in Nat

Ids == 1..MaxShortcuts

VARIABLES
    rows,           \* cost_shortcuts: id -> user, ui_position_index, category
    added,          \* how many there have been
    categories,     \* the rows of cost_categories
    created,        \* the categories there have been
    used,           \* the categories that have costs
    chosen,         \* the categories some user has as default_cost_category
    req,            \* where each request is; "late" and "sent" are history
    raced           \* history: users of whom two operations overlapped, or who
                    \* reordered some of their shortcuts and left out others

vars == <<rows, added, categories, created, used, chosen, req, raced>>

-----------------------------------------------------------------------------
Idle == [at |-> "idle"]

Inserting(u, c, p)  == [at |-> "insert", user |-> u, category |-> c, pos |-> p,
                        late |-> FALSE]
Rebuilding(u, gone) == [at |-> "rebuild", user |-> u, gone |-> gone]
Updating(stage, u, gone, todo, sent) ==
    [at |-> stage, user |-> u, gone |-> gone, todo |-> todo, write |-> << >>,
     late |-> FALSE, sent |-> sent]
Applying(c)         == [at |-> "apply", category |-> c]
Dropping(c)         == [at |-> "drop", category |-> c]

Become(r, stage) == req' = [req EXCEPT ![r] = stage]

Init ==
    /\ rows = << >> /\ added = 0
    /\ categories = {} /\ created = {} /\ used = {} /\ chosen = {}
    /\ req = [r \in Requests |-> Idle]
    /\ raced = {}

Own(u) == {i \in DOMAIN rows : rows[i].user = u}

\* The rows a transaction has changed and not committed: others wait for it.
Locked(r) == CASE req[r].at = "rebuild" -> req[r].gone
               [] req[r].at \in {"renumber", "reorder"} -> req[r].gone \cup DOMAIN req[r].write
               [] OTHER -> {}

Free(i, r) == \A q \in Requests \ {r} : i \notin Locked(q)

-----------------------------------------------------------------------------
(* add_cost_shortcut                                                       *)

\* last_cost_shortcut() + 1, or 1 when the user has none.
NextPosition(u) ==
    IF Own(u) = {} THEN 1
    ELSE 1 + (CHOOSE p \in {rows[i].pos : i \in Own(u)} :
                \A i \in Own(u) : rows[i].pos <= p)

AddRead(r, u, c) ==
    /\ req[r] = Idle
    /\ added < MaxShortcuts
    /\ Become(r, Inserting(u, c, NextPosition(u)))
    /\ UNCHANGED <<rows, added, categories, created, used, chosen, raced>>

\* History: the other operations of u on positions that are under way do not
\* see what is being committed now.
Overtaken(r, u) ==
    [q \in Requests |->
        IF q # r /\ req[q].at \in {"insert", "renumber", "reorder"} /\ req[q].user = u
        THEN [req[q] EXCEPT !.late = TRUE] ELSE req[q]]

\* A row may refer only to a category there is.
MayRefer(c) == c \in categories

\* The insert and its commit; without the category it is refused.
AddInsert(r) ==
    /\ req[r].at = "insert"
    /\ added < MaxShortcuts
    /\ IF MayRefer(req[r].category)
       THEN /\ rows' = [i \in DOMAIN rows \cup {added + 1} |->
                          IF i = added + 1
                          THEN [user |-> req[r].user, pos |-> req[r].pos,
                                category |-> req[r].category]
                          ELSE rows[i]]
            /\ added' = added + 1
            /\ req' = [Overtaken(r, req[r].user) EXCEPT ![r] = Idle]
            /\ raced' = IF req[r].late THEN raced \cup {req[r].user} ELSE raced
       ELSE /\ Become(r, Idle)
            /\ UNCHANGED <<rows, added, raced>>
    /\ UNCHANGED <<categories, created, used, chosen>>

-----------------------------------------------------------------------------
(* delete_cost_shortcut: the row goes, whoever it belongs to; the          *)
(* shortcuts of the user who asked are numbered again.                     *)

DeleteRow(r, u, i) ==
    /\ req[r] = Idle
    /\ Free(i, r)
    /\ Become(r, Rebuilding(u, {i} \cap DOMAIN rows))
    /\ UNCHANGED <<rows, added, categories, created, used, chosen, raced>>

\* Mutant: by id, whatever the positions were.
RankById(mine, i) == Cardinality({j \in mine : j <= i})

\* Where i comes among mine, by position and then id, from 1.
Rank(mine, i) ==
    Cardinality({j \in mine : \/ rows[j].pos < rows[i].pos
                              \/ rows[j].pos = rows[i].pos /\ j <= i})

\* rebuild_ui_positions reads the positions and will write those that change.
RebuildRead(r) ==
    /\ req[r].at = "rebuild"
    /\ LET mine == Own(req[r].user) \ req[r].gone
           todo == [i \in {j \in mine : rows[j].pos # Rank(mine, j)} |-> Rank(mine, i)]
       IN Become(r, Updating("renumber", req[r].user, req[r].gone, todo, << >>))
    /\ UNCHANGED <<rows, added, categories, created, used, chosen, raced>>

-----------------------------------------------------------------------------
(* cost_shortcut_update_positions                                          *)

\* Mutant: each position is below n, but not each only once.
PositionsBelow(ids) == [ids -> 0..(Cardinality(ids) - 1)]

\* The sorted positions must be range(n), for n distinct ids.
PositionsFor(ids) == Bijection(ids, 0..(Cardinality(ids) - 1))

\* All ids must be the user's; those the user leaves out keep their position.
ReorderRead(r, u) ==
    /\ req[r] = Idle
    /\ \E ids \in (SUBSET Own(u)) \ {{}} : \E positions \in PositionsFor(ids) :
          /\ Become(r, Updating("reorder", u, {}, positions, positions))
          /\ raced' = IF ids # Own(u) THEN raced \cup {u} ELSE raced
    /\ UNCHANGED <<rows, added, categories, created, used, chosen>>

-----------------------------------------------------------------------------
(* The UPDATEs of both, and their commit                                   *)

\* A renumbering goes by position; the order of a request is the user's.
Turn(r) ==
    LET todo == req[r].todo
    IN {i \in DOMAIN todo :
          req[r].at = "renumber" => \A j \in DOMAIN todo : todo[i] <= todo[j]}

\* A row that is gone meanwhile is not updated, and that is no error.
UpdateRow(r) ==
    /\ req[r].at \in {"renumber", "reorder"}
    /\ \E i \in Turn(r) :
          /\ Free(i, r)
          /\ Become(r, [req[r] EXCEPT
                !.todo  = Restrict(@, DOMAIN @ \ {i}),
                !.write = IF i \in DOMAIN rows
                          THEN [j \in DOMAIN @ \cup {i} |->
                                  IF j = i THEN req[r].todo[i] ELSE @[j]]
                          ELSE @])
    /\ UNCHANGED <<rows, added, categories, created, used, chosen, raced>>

CommitUpdates(r) ==
    /\ req[r].at \in {"renumber", "reorder"}
    /\ req[r].todo = << >>
    /\ rows' = [i \in DOMAIN rows \ req[r].gone |->
                  IF i \in DOMAIN req[r].write
                  THEN [rows[i] EXCEPT !.pos = req[r].write[i]] ELSE rows[i]]
    /\ req' = [Overtaken(r, req[r].user) EXCEPT ![r] = Idle]
    /\ raced' = IF req[r].late THEN raced \cup {req[r].user} ELSE raced
    /\ UNCHANGED <<added, categories, created, used, chosen>>

-----------------------------------------------------------------------------
(* apply_cost_shortcut: read, then add_cost in a transaction               *)

ApplyRead(r, u, i) ==
    /\ req[r] = Idle
    /\ i \in Own(u)
    /\ Become(r, Applying(rows[i].category))
    /\ UNCHANGED <<rows, added, categories, created, used, chosen, raced>>

ApplyAdd(r) ==
    /\ req[r].at = "apply"
    /\ used' = IF MayRefer(req[r].category) THEN used \cup {req[r].category} ELSE used
    /\ Become(r, Idle)
    /\ UNCHANGED <<rows, added, categories, created, chosen, raced>>

-----------------------------------------------------------------------------
(* Categories, and the other costs that refer to them                      *)

CategoryCreate(c) ==
    /\ c \notin created
    /\ created' = created \cup {c}
    /\ categories' = categories \cup {c}
    /\ UNCHANGED <<rows, added, used, chosen, req, raced>>

CostAdded(c) ==
    /\ MayRefer(c)
    /\ used' = used \cup {c}
    /\ UNCHANGED <<rows, added, categories, created, chosen, req, raced>>

CostsDeleted(c) ==
    /\ used' = used \ {c}
    /\ UNCHANGED <<rows, added, categories, created, chosen, req, raced>>

\* A user's configuration names a default category, or none.
DefaultChosen(c) ==
    /\ \/ MayRefer(c) /\ chosen' = chosen \cup {c}
       \/ chosen' = chosen \ {c}
    /\ UNCHANGED <<rows, added, categories, created, used, req, raced>>

\* delete_cost_category looks for costs first, in a session of its own.
CategoryCheck(r, c) ==
    /\ req[r] = Idle
    /\ c \notin used
    /\ Become(r, Dropping(c))
    /\ UNCHANGED <<rows, added, categories, created, used, chosen, raced>>

\* Mutant: the check that was made is trusted.
DroppableChecked(c) == c \in categories

\* RESTRICT: nothing refers to it when it is deleted.
Droppable(c) == c \notin used \cup chosen /\ \A i \in DOMAIN rows : rows[i].category # c

CategoryDrop(r) ==
    /\ req[r].at = "drop"
    /\ categories' = IF Droppable(req[r].category)
                     THEN categories \ {req[r].category} ELSE categories
    /\ Become(r, Idle)
    /\ UNCHANGED <<rows, added, created, used, chosen, raced>>

\* A request ends before its commit: a deadlock, a lost connection, a crash.
Fails(r) ==
    /\ req[r] # Idle
    /\ Become(r, Idle)
    /\ UNCHANGED <<rows, added, categories, created, used, chosen, raced>>

-----------------------------------------------------------------------------
Next ==
    \/ \E r \in Requests :
          \/ \E u \in Users :
                \/ \E c \in Categories : AddRead(r, u, c)
                \/ \E i \in Ids : DeleteRow(r, u, i) \/ ApplyRead(r, u, i)
                \/ ReorderRead(r, u)
          \/ \E c \in Categories : CategoryCheck(r, c)
          \/ AddInsert(r) \/ RebuildRead(r) \/ UpdateRow(r) \/ CommitUpdates(r)
          \/ ApplyAdd(r) \/ CategoryDrop(r) \/ Fails(r)
    \/ \E c \in Categories : CategoryCreate(c) \/ CostAdded(c) \/ CostsDeleted(c)
                               \/ DefaultChosen(c)

Spec == Init /\ [][Next]_vars

-----------------------------------------------------------------------------
(* Properties                                                              *)

\* Two shortcuts of a user are at one position only after two of the user's
\* operations overlapped (one committed positions between the other's read
\* and its commit) or a reordering left shortcuts out: adds find a free place,
\* whatever gaps deletions by others leave and from whichever end reorderings
\* and renumberings count.
ClashNeedsRace ==
    \A i, j \in DOMAIN rows :
        i # j /\ rows[i].user = rows[j].user /\ rows[i].pos = rows[j].pos
        => rows[i].user \in raced

\* Does i come before j?
Before(i, j) == rows[i].pos < rows[j].pos \/ (rows[i].pos = rows[j].pos /\ i < j)

Order(u) == LET mine == Own(u) IN {p \in mine \X mine : Before(p[1], p[2])}

List == INSTANCE Menu WITH
    mine    <- [u \in Users |-> Own(u)],
    order   <- [u \in Users |-> Order(u)],
    asked   <- [r \in Requests |-> IF req[r].at = "reorder" THEN req[r].sent ELSE << >>],
    spoiled <- raced

\* Positions make a list of each user's shortcuts: an add comes last, a deletion
\* and its renumbering take one out, and a reordering leaves the order that was
\* sent - the promise of Menu, which ends for a user whose operations overlapped,
\* and for nobody else.
ImplementsMenu == List!Spec

\* Every category a shortcut, a cost or a user refers to exists: the check for
\* costs before a deletion may be out of date, and looks for nothing else.
NothingDangles ==
    /\ used \cup chosen \subseteq categories
    /\ \A i \in DOMAIN rows : rows[i].category \in categories

=============================================================================
