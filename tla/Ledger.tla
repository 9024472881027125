------------------------------- MODULE Ledger -------------------------------
(***************************************************************************)
(* The money core of the kernel: costs, incomes and currency exchanges,    *)
(* and the equity every currency row carries beside them.                  *)
(*                                                                         *)
(* Nothing recomputes an equity: it is correct only as long as every       *)
(* request moves it by exactly what the request does to a record.  A       *)
(* request that changes an existing record reads it in a session of its    *)
(* own, decides from that snapshot what to write and by how much to move   *)
(* which equity, and only then opens the write transaction.  PostgreSQL    *)
(* runs at READ COMMITTED: a statement waits for the row locks of others   *)
(* and then works on the row as committed; a row that is gone meanwhile is *)
(* zero rows, and no code looks at the row count.                          *)
(***************************************************************************)
EXTENDS Records, Functions

CONSTANTS
  Ids,          \* identifiers of cost, income and exchange rows
  Requests,     \* HTTP requests; each is served once
  Values,       \* amounts in cents; an exchange may truncate one to 0
  MaxEquity     \* the largest value of the INTEGER column "equity"

ASSUME ValuesAssumption    == Values \subseteq Nat /\ None \notin Values
ASSUME MaxEquityAssumption == MaxEquity \in Nat
ASSUME IdsAssumption       == None \notin Ids /\ Currencies \cap Ids = {}

VARIABLES
  status,     \* of each currency identifier: never used, a row, deleted
  equity,     \* the committed equity of each currency
  records,    \* the committed record under each identifier, or None
  issued,     \* record identifiers the sequences have handed out
  pc,         \* where each request is, or what it was answered
  job,        \* what each request decided to do
  held,       \* row locks each request's transaction has from its UPDATEs
              \* (FOR NO KEY UPDATE) and DELETEs (FOR UPDATE)
  shared,     \* currency rows locked FOR KEY SHARE by foreign key checks
  contended,  \* history: identifiers two requests worked on at the same time
  stale       \* history: identifiers written from an outdated snapshot

database == <<status, equity, records, issued>>
history  == <<contended, stale>>
vars     == <<status, equity, records, issued, pc, job, held, shared,
              contended, stale>>

-----------------------------------------------------------------------------
(* Jobs.  A patch names the new currency, value and name, None for what it *)
(* leaves alone.                                                           *)

Patch   == [cur : Currencies \cup {None}, value : Values \cup {None},
            name : Names \cup {None}]
NoPatch == [cur |-> None, value |-> None, name |-> None]

\* The attributes of the payload that equal the snapshot's are dropped.
Without(p, rec) ==
  [cur   |-> IF p.cur = rec.legs[1].cur THEN None ELSE p.cur,
   value |-> IF p.value # None /\ Signed(rec.kind, p.value) = rec.legs[1].by
               THEN None ELSE p.value,
   name  |-> IF p.name = rec.name THEN None ELSE p.name]

\* Mutant: the old currency is not given back what the record took from it.
AdjustmentsWithoutRefund(rec, p) ==
  LET old == rec.legs[1]
      new == IF p.value = None THEN old.by ELSE Signed(rec.kind, p.value)
  IN  CASE p.cur # None   -> <<Leg(p.cur, new), Blank>>
        [] p.cur = None /\ p.value # None -> <<Leg(old.cur, new - old.by), Blank>>
        [] OTHER          -> NoLegs

\* "add equity adjustments", all computed from the snapshot.
Adjustments(rec, p) ==
  LET old == rec.legs[1]
      new == IF p.value = None THEN old.by ELSE Signed(rec.kind, p.value)
  IN  CASE p.cur # None   -> <<Leg(old.cur, -old.by), Leg(p.cur, new)>>
        [] p.cur = None /\ p.value # None -> <<Leg(old.cur, new - old.by), Blank>>
        [] OTHER          -> NoLegs

\* op: what the transaction does to the record; id: which; snap: the record
\* as read; new: the record to insert; patch: the fields to set; adjust: how
\* to move the equities, in the order of the UPDATE statements.
NoJob == [op |-> "none", id |-> None, snap |-> None, new |-> None,
          patch |-> NoPatch, adjust |-> NoLegs]

AddJob(i, rec) ==
  [op |-> "add", id |-> i, snap |-> None, new |-> rec, patch |-> NoPatch,
   adjust |-> rec.legs]
\* Mutant: the row object is patched before the adjustments are computed.
UpdateJobInPlace(i, rec, p) ==
  LET leg == Leg(IF p.cur = None THEN rec.legs[1].cur ELSE p.cur,
                 IF p.value = None THEN rec.legs[1].by ELSE Signed(rec.kind, p.value))
      new == [rec EXCEPT !.legs = <<leg, Blank>>]
  IN  [op |-> "update", id |-> i, snap |-> new, new |-> None, patch |-> p,
       adjust |-> Adjustments(new, p)]
UpdateJob(i, rec, p) ==
  [op |-> "update", id |-> i, snap |-> rec, new |-> None, patch |-> p,
   adjust |-> Adjustments(rec, p)]
\* Mutant: deleting an exchange gives back the first currency only.
DeleteJobOneLeg(i, rec) ==
  [op |-> "delete", id |-> i, snap |-> rec, new |-> None, patch |-> NoPatch,
   adjust |-> <<Reversed(rec.legs)[1], Blank>>]
DeleteJob(i, rec) ==
  [op |-> "delete", id |-> i, snap |-> rec, new |-> None, patch |-> NoPatch,
   adjust |-> Reversed(rec.legs)]
CloseJob(c) ==
  [op |-> "close", id |-> c, snap |-> None, new |-> None, patch |-> NoPatch,
   adjust |-> NoLegs]

\* Mutant: the fields the request leaves out are written as well.
OutcomeOfEveryField(j, cur) ==
  CASE j.op = "add" -> j.new
    [] j.op = "update" /\ cur # None -> [cur EXCEPT !.name = j.patch.name]
    [] OTHER -> None

\* Mutant: the new record is never added to the session.
OutcomeWithoutInsert(j, cur) ==
  IF j.op = "update" /\ cur # None /\ j.patch.name # None
    THEN [cur EXCEPT !.name = j.patch.name] ELSE None

\* The record the transaction leaves when cur is the committed one: UPDATE and
\* DELETE of a row that is gone do nothing.
Outcome(j, cur) ==
  CASE j.op = "add" -> j.new
    [] j.op = "update" /\ cur # None ->
         [cur EXCEPT
            !.name = IF j.patch.name = None THEN @ ELSE j.patch.name,
            !.legs = <<Leg(IF j.patch.cur = None THEN @[1].cur ELSE j.patch.cur,
                           IF j.patch.value = None THEN @[1].by
                                     ELSE Signed(cur.kind, j.patch.value)),
                       @[2]>>]
    [] OTHER -> None

-----------------------------------------------------------------------------
Answers == {"ok", "badrequest", "notfound", "error"}
\* Inside the write transaction, and inside the request after it.
Writing == {"write", "first", "second", "commit"}
Active  == Writing \cup {"reread"}
\* Before the DELETE of a currency has its row lock, and after.
Closing == {"close", "check"}

Init ==
  /\ status \in [Currencies -> {"new", "open"}]
  /\ equity    = [c \in Currencies |-> 0]
  /\ records   = [i \in Ids |-> None]
  /\ issued    = {}
  /\ pc        = [r \in Requests |-> "idle"]
  /\ job       = [r \in Requests |-> NoJob]
  /\ held      = [r \in Requests |-> {}]
  /\ shared    = [r \in Requests |-> {}]
  /\ contended = {}
  /\ stale     = {}

\* Mutant: the session of a finished request is not closed.
AnswerWithoutClose(r, a) ==
  /\ pc'  = [pc EXCEPT ![r] = a]
  /\ job' = [job EXCEPT ![r] = NoJob]
  /\ UNCHANGED <<held, shared>>

\* The request ends: its session closes and its locals are gone.
Answer(r, a) ==
  /\ pc'     = [pc EXCEPT ![r] = a]
  /\ job'    = [job EXCEPT ![r] = NoJob]
  /\ held'   = [held EXCEPT ![r] = {}]
  /\ shared' = [shared EXCEPT ![r] = {}]

\* Mutant: the read takes the row's lock in a mode two readers may share.
BeginWithSharedRead(r, j) ==
  /\ pc'   = [pc EXCEPT ![r] = "write"]
  /\ job'  = [job EXCEPT ![r] = j]
  /\ held' = [held EXCEPT ![r] = {j.id}]
  /\ UNCHANGED shared

\* async with database.transaction(): the statements follow.
Begin(r, j) ==
  /\ pc'  = [pc EXCEPT ![r] = "write"]
  /\ job' = [job EXCEPT ![r] = j]
  /\ UNCHANGED <<held, shared>>

\* History only: another request is working on record i right now.
Note(i) ==
  contended' = IF \E q \in Requests : pc[q] \in Active /\ job[q].id = i
                 THEN contended \cup {i} ELSE contended

-----------------------------------------------------------------------------
(* The operations of application/transactions.py, up to the transaction.   *)

\* The sequence's next identifier is drawn here rather than by the INSERT:
\* nobody sees it before the commit.  Ids bounds how many records are added.
Add(r, rec) ==
  /\ \E i \in Ids \ issued :
       /\ issued' = issued \cup {i}
       /\ Begin(r, AddJob(i, rec))
  /\ UNCHANGED <<status, equity, records, history>>

AddCost(r) ==
  /\ pc[r] = "idle"
  /\ \E n \in Names, c \in Currencies, v \in Values : Add(r, Cost(n, c, v))

AddIncome(r) ==
  /\ pc[r] = "idle"
  /\ \E n \in Names, c \in Currencies, v \in Values : Add(r, Income(n, c, v))

\* The request body refuses equal currencies.
CurrencyExchange(r) ==
  /\ pc[r] = "idle"
  /\ \E n \in Names, from, to \in Currencies, given, received \in Values :
       /\ from # to
       /\ Add(r, Exchange(n, from, given, to, received))

\* SELECT ... WHERE id = i on the table of this kind found nothing.
Missing(i, kind) == ~(records[i] # None /\ records[i].kind = kind)

Update(r, i, kind, p) ==
  LET rec == records[i]
      q   == Without(p, rec)
  IN  /\ pc[r] = "idle"
      /\ \/ /\ Missing(i, kind)
            /\ Answer(r, "notfound")
            /\ UNCHANGED contended
         \/ /\ ~Missing(i, kind)
            /\ q = NoPatch                         \* "nothing to update"
            /\ Answer(r, "badrequest")
            /\ UNCHANGED contended
         \/ /\ ~Missing(i, kind)
            /\ q # NoPatch
            /\ Begin(r, UpdateJob(i, rec, q))
            /\ Note(i)
      /\ UNCHANGED <<database, stale>>

UpdateCost(r)   == \E i \in Ids, p \in Patch : Update(r, i, "cost", p)
UpdateIncome(r) == \E i \in Ids, p \in Patch : Update(r, i, "income", p)

Delete(r, i, kind) ==
  /\ pc[r] = "idle"
  /\ \/ /\ Missing(i, kind)
        /\ Answer(r, "notfound")
        /\ UNCHANGED contended
     \/ /\ ~Missing(i, kind)
        /\ Begin(r, DeleteJob(i, records[i]))
        /\ Note(i)
  /\ UNCHANGED <<database, stale>>

DeleteCost(r)             == \E i \in Ids : Delete(r, i, "cost")
DeleteIncome(r)           == \E i \in Ids : Delete(r, i, "income")
DeleteCurrencyExchange(r) == \E i \in Ids : Delete(r, i, "exchange")

-----------------------------------------------------------------------------
(* The write transaction, statement by statement.                          *)

Free(r, row) == \A q \in Requests \ {r} : row \notin held[q]

\* The pc after a statement: equity updates that are not needed are skipped.
NextStatement(j, at) ==
  CASE at = "write" /\ j.adjust[1] # Blank -> "first"
    [] at = "first" /\ j.adjust[2] # Blank -> "second"
    [] OTHER -> "commit"

\* Currencies a foreign key check has to find when the record is written.
Referenced(j) ==
  CASE j.op = "add"    -> CurrenciesOf(j.new.legs)
    [] j.op = "update" -> {j.patch.cur} \ {None}
    [] OTHER           -> {}

ForeignKeysHold(j) == \A c \in Referenced(j) : status[c] = "open"

\* The check takes the currency's row FOR KEY SHARE, which other checks and an
\* UPDATE of the equity allow, and the DELETE of the currency does not.
BeingClosed(c) == \E q \in Requests : pc[q] = "check" /\ job[q].id = c

Sharable(j) == \A c \in Referenced(j) : ~BeingClosed(c)

\* INSERT: flushed by the first UPDATE of an equity.
InsertRecord(r) ==
  /\ pc[r] = "write" /\ job[r].op = "add"
  /\ ForeignKeysHold(job[r]) /\ Sharable(job[r])
  /\ held'   = [held EXCEPT ![r] = @ \cup {job[r].id}]
  /\ shared' = [shared EXCEPT ![r] = @ \cup Referenced(job[r])]
  /\ pc'     = [pc EXCEPT ![r] = NextStatement(job[r], "write")]
  /\ UNCHANGED <<database, job, history>>

\* UPDATE or DELETE of the record: waits for its row lock, takes it if the row
\* is still there.
WriteRecord(r) ==
  LET i == job[r].id
  IN  /\ pc[r] = "write" /\ job[r].op \in {"update", "delete"}
      /\ Free(r, i)
      /\ records[i] # None => ForeignKeysHold(job[r]) /\ Sharable(job[r])
      /\ held'   = [held EXCEPT ![r] = IF records[i] = None THEN @ ELSE @ \cup {i}]
      /\ shared' = [shared EXCEPT ![r] =
                      IF records[i] = None THEN @ ELSE @ \cup Referenced(job[r])]
      /\ pc'     = [pc EXCEPT ![r] = NextStatement(job[r], "write")]
      /\ UNCHANGED <<database, job, history>>

\* A foreign key violation: rolled back and answered "Invalid input".
RejectRecord(r) ==
  /\ pc[r] = "write"
  /\ job[r].op # "add" => Free(r, job[r].id) /\ records[job[r].id] # None
  /\ ~ForeignKeysHold(job[r])
  /\ Answer(r, "badrequest")
  /\ UNCHANGED <<database, history>>

\* The leg the next equity UPDATE is for.
CurrentLeg(r) == IF pc[r] = "first" THEN job[r].adjust[1] ELSE job[r].adjust[2]

InRange(n) == n \in -MaxEquity..MaxEquity

\* UPDATE currencies SET equity = equity +/- value: on no row, without notice,
\* when the currency is gone.
AdjustEquity(r) ==
  LET leg == CurrentLeg(r)
  IN  /\ pc[r] \in {"first", "second"}
      /\ Free(r, leg.cur)
      /\ status[leg.cur] = "open" => InRange(equity[leg.cur] + leg.by)
      /\ held' = [held EXCEPT ![r] =
                    IF status[leg.cur] = "open" THEN @ \cup {leg.cur} ELSE @]
      /\ pc'   = [pc EXCEPT ![r] = NextStatement(job[r], pc[r])]
      /\ UNCHANGED <<database, job, shared, history>>

\* The sum does not fit the column: rolled back, answered as a DatabaseError.
Overflow(r) ==
  LET leg == CurrentLeg(r)
  IN  /\ pc[r] \in {"first", "second"}
      /\ Free(r, leg.cur)
      /\ status[leg.cur] = "open" /\ ~InRange(equity[leg.cur] + leg.by)
      /\ Answer(r, "error")
      /\ UNCHANGED <<database, history>>

\* session.begin() exits: the writes become visible together and the locks go.
\* An equity was written if the UPDATE found, and so locked, the currency.
Commit(r) ==
  LET j   == job[r]
      old == records[j.id]
  IN  /\ pc[r] = "commit"
      /\ records' = [records EXCEPT ![j.id] = Outcome(j, old)]
      /\ equity'  = [c \in Currencies |->
                       IF c \in held[r] THEN equity[c] + Posted(j.adjust, c)
                                        ELSE equity[c]]
      /\ IF j.op = "delete"
           THEN Answer(r, "ok")
           ELSE /\ pc'     = [pc EXCEPT ![r] = "reread"]
                /\ held'   = [held EXCEPT ![r] = {}]
                /\ shared' = [shared EXCEPT ![r] = {}]
                /\ UNCHANGED job
      /\ stale' = IF j.op # "add" /\ j.adjust # NoLegs
                       /\ (old = None \/ old.legs # j.snap.legs)
                    THEN stale \cup {j.id} ELSE stale
      /\ UNCHANGED <<status, issued, contended>>

\* The committed record is read again for the response, in a new session.
Reread(r) ==
  /\ pc[r] = "reread"
  /\ Answer(r, IF records[job[r].id] = None THEN "notfound" ELSE "ok")
  /\ UNCHANGED <<database, history>>

\* The database is lost, the client's task is cancelled or the process dies:
\* what is not committed is rolled back, what is committed stays.
Fail(r) ==
  /\ pc[r] \in Active \cup Closing
  /\ Answer(r, "error")
  /\ UNCHANGED <<database, history>>

-----------------------------------------------------------------------------
(* Currencies are opened and closed by requests of their own.              *)

Refers(i, c) == records[i] # None /\ c \in CurrenciesOf(records[i].legs)

InUse(c) == \E i \in Ids : Refers(i, c)

OpenCurrency(r) ==
  \E c \in Currencies :
    /\ pc[r] = "idle"
    /\ status[c] = "new"
    /\ status' = [status EXCEPT ![c] = "open"]
    /\ Answer(r, "ok")
    /\ UNCHANGED <<equity, records, issued, history>>

\* The check, in a read session that is closed before the DELETE.
CloseCurrency(r) ==
  \E c \in Currencies :
    /\ pc[r] = "idle"
    /\ \/ /\ InUse(c)
          /\ Answer(r, "badrequest")
       \/ /\ ~InUse(c)
          /\ pc'  = [pc EXCEPT ![r] = "close"]
          /\ job' = [job EXCEPT ![r] = CloseJob(c)]
          /\ UNCHANGED <<held, shared>>
    /\ UNCHANGED <<database, history>>

\* DELETE: waits for every lock on the row, and takes it FOR UPDATE if the row
\* is there.
LockCurrency(r) ==
  LET c == job[r].id
  IN  /\ pc[r] = "close"
      /\ \A q \in Requests : c \notin held[q] \cup shared[q]
      /\ \/ /\ status[c] = "open"
            /\ pc'   = [pc EXCEPT ![r] = "check"]
            /\ held' = [held EXCEPT ![r] = {c}]
            /\ UNCHANGED <<job, shared>>
         \/ /\ status[c] # "open"
            /\ Answer(r, "ok")
      /\ UNCHANGED <<database, history>>

BeingDeleted(i) ==
  \E q \in Requests : job[q].op = "delete" /\ job[q].id = i /\ i \in held[q]

\* ON DELETE RESTRICT looks for records of the currency and locks what it finds
\* FOR KEY SHARE, which an UPDATE of the record allows: a record that is there
\* and that nobody is deleting ends the statement with an error.
RefuseClose(r) ==
  /\ pc[r] = "check"
  /\ \E i \in Ids : Refers(i, job[r].id) /\ ~BeingDeleted(i)
  /\ Answer(r, "error")
  /\ UNCHANGED <<database, history>>

\* Mutant: the DELETE relies on the earlier check, without ON DELETE RESTRICT.
DropCurrencyUnchecked(r) ==
  /\ pc[r] = "check"
  /\ status' = [status EXCEPT ![job[r].id] = "closed"]
  /\ Answer(r, "ok")
  /\ UNCHANGED <<equity, records, issued, history>>

\* RESTRICT waits for the records that others are deleting; once there is none
\* left the DELETE is done, and flush() commits it.
DropCurrency(r) ==
  /\ pc[r] = "check"
  /\ ~InUse(job[r].id)
  /\ status' = [status EXCEPT ![job[r].id] = "closed"]
  /\ Answer(r, "ok")
  /\ UNCHANGED <<equity, records, issued, history>>

-----------------------------------------------------------------------------
(* Deadlocks between transactions, which PostgreSQL resolves.              *)

\* The row a statement of a record's transaction writes.
Row(r) == IF pc[r] = "write" THEN job[r].id ELSE CurrentLeg(r).cur

WaitsForRow(r, q) == pc[r] \in {"write", "first", "second"} /\ Row(r) \in held[q]

\* A foreign key check waits for the DELETE of the currency.
WaitsForClose(r, q) ==
  pc[r] = "write" /\ pc[q] = "check" /\ job[q].id \in Referenced(job[r])

\* What an INSERT has locked whose check of another currency waits.
PartlyShared(q) ==
  IF pc[q] = "write" /\ job[q].op = "add"
    THEN {c \in Referenced(job[q]) : ~BeingClosed(c)} ELSE {}

WaitsToClose(r, q) ==
  pc[r] = "close" /\ job[r].id \in held[q] \cup shared[q] \cup PartlyShared(q)

\* PostgreSQL keeps waiters of a row in a queue: an UPDATE may come to stand
\* behind a DELETE that waits, unless it has a lock on the row itself.
QueuesBehind(r, q) ==
  /\ pc[r] \in {"first", "second"} /\ Row(r) \notin shared[r]
  /\ pc[q] = "close" /\ job[q].id = Row(r)

\* RESTRICT waits for the DELETE of a record.  In which order it finds records,
\* and so whether it waits before it is refused, is up to the database.
WaitsForDelete(r, q) ==
  /\ pc[r] = "check" /\ job[q].op = "delete" /\ job[q].id \in held[q]
  /\ Refers(job[q].id, job[r].id)

BlockedBy(r, q) ==
  /\ q # r
  /\ \/ WaitsForRow(r, q) \/ WaitsForClose(r, q) \/ WaitsToClose(r, q)
     \/ QueuesBehind(r, q) \/ WaitsForDelete(r, q)

\* A union of wait cycles: every member waits for a member and is waited for.
WaitCycle(C) == \A r \in C : /\ \E q \in C : BlockedBy(r, q)
                             /\ \E q \in C : BlockedBy(q, r)

\* The transaction the deadlock detector chooses fails.
DeadlockVictim(r) ==
  /\ \E C \in SUBSET Requests : r \in C /\ WaitCycle(C)
  /\ Answer(r, "error")
  /\ UNCHANGED <<database, history>>

-----------------------------------------------------------------------------
Arrive(r) ==
  \/ AddCost(r) \/ AddIncome(r) \/ CurrencyExchange(r)
  \/ UpdateCost(r) \/ UpdateIncome(r)
  \/ DeleteCost(r) \/ DeleteIncome(r) \/ DeleteCurrencyExchange(r)
  \/ OpenCurrency(r) \/ CloseCurrency(r)

Proceed(r) ==
  \/ InsertRecord(r) \/ WriteRecord(r) \/ RejectRecord(r)
  \/ AdjustEquity(r) \/ Overflow(r) \/ Commit(r) \/ Reread(r)
  \/ LockCurrency(r) \/ RefuseClose(r) \/ DropCurrency(r)
  \/ DeadlockVictim(r)

\* Every request has been answered: the kernel waits for the next one.
Quiet == (\A r \in Requests : pc[r] \in Answers) /\ UNCHANGED vars

Next == (\E r \in Requests : Arrive(r) \/ Proceed(r) \/ Fail(r)) \/ Quiet

Spec == Init /\ [][Next]_vars

\* A request that was taken up goes on: the event loop runs every ready task,
\* the database executes every statement whose locks are free and looks for
\* deadlocks.  Nothing obliges a request to arrive or a failure to occur.
Fairness == \A r \in Requests : WF_vars(Proceed(r))

FairSpec == Spec /\ Fairness

-----------------------------------------------------------------------------
JobType ==
  [op : {"none", "add", "update", "delete", "close"},
   id : Ids \cup Currencies \cup {None},
   snap : LedgerRecord \cup {None}, new : LedgerRecord \cup {None},
   patch : Patch, adjust : LegPairs]

\* Every variable has its type.
TypeOK ==
  /\ status \in [Currencies -> {"new", "open", "closed"}]
  /\ equity \in [Currencies -> Int]
  /\ records \in [Ids -> LedgerRecord \cup {None}]
  /\ issued \subseteq Ids
  /\ pc \in [Requests -> {"idle"} \cup Active \cup Closing \cup Answers]
  /\ job \in [Requests -> JobType]
  /\ held \in [Requests -> SUBSET (Ids \cup Currencies)]
  /\ shared \in [Requests -> SUBSET Currencies]
  /\ contended \subseteq Ids
  /\ stale \subseteq Ids

\* A committed record refers to currency rows that exist, although the
\* "in use" check and the DELETE of a currency are two sessions, and an
\* insert or a move of a record may come between them.
NoDanglingCurrency ==
  \A i \in Ids : records[i] # None =>
    \A c \in CurrenciesOf(records[i].legs) : status[c] = "open"

\* A transaction writes from an outdated snapshot only when two requests for
\* the same record overlapped in time.
StaleOnlyWhenContended == stale \subseteq contended

\* A transaction that waits for its record's row has locked nothing anybody
\* waits for.  So whoever is in a wait cycle waits for a second currency, closes
\* one, or is in the way of somebody who closes one: while no currency is being
\* closed, only requests that move two currencies deadlock.
CyclesMoveTwoOrClose ==
  \A C \in SUBSET Requests : WaitCycle(C) => \A r \in C :
    \/ pc[r] = "second" /\ job[r].adjust[1].cur # job[r].adjust[2].cur
    \/ pc[r] \in Closing
    \/ \E q \in C : pc[q] \in Closing /\ BlockedBy(q, r)

\* What the records say the equity of c should be.
Due(c) == SumFunction([i \in issued |-> Effect(records[i], c)])

Balanced == \A c \in Currencies : status[c] = "open" => equity[c] = Due(c)

\* As long as no transaction wrote from an outdated snapshot, every equity is
\* the sum of what the committed records contribute to it: nothing recomputes
\* it, and every commit moves it by what the commit does to one record.
BooksBalance == stale = {} => Balanced

\* "each operation has a currency and we always have the access to the fresh
\* equity data" (domain/equity/entities.py): every equity is that sum, always.
EquityIsFresh == Balanced

Book == INSTANCE Books WITH sound <- stale = {}

\* Every commit is one entry, amendment or removal of a record that moves each
\* equity by exactly what the record's contribution changes, and a currency is
\* closed only without records: the promise of Books, which ends with the
\* first transaction that wrote from an outdated snapshot.
ImplementsBooks == Book!Spec

\* A request that has committed is told that its record does not exist only
\* if another request worked on that record meanwhile.
LateNotFound ==
  \A r \in Requests :
    pc[r] = "reread" /\ pc'[r] = "notfound" => job[r].id \in contended

CommittedIsFound == [][LateNotFound]_vars

\* Every request that was taken up is answered: no lock is waited for forever.
EveryRequestAnswered ==
  \A r \in Requests : pc[r] # "idle" ~> pc[r] \in Answers

=============================================================================
