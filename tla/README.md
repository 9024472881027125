# A verification model of the family-assistant kernel

The kernel (`src/src`, FastAPI on asyncio, PostgreSQL, memcached) keeps the
money of a household - costs, incomes, currency exchanges, the equity of each
currency -, tells its members of each other's expenses, and runs jobs that
crawl, group and learn from news.  This directory holds TLA+ models of the
parts of it whose behaviour depends on the order in which things happen, the
TLC configurations that check them on small instances, and proofs, checked by
TLAPS, of the main results for instances of any size.

Paths below are relative to `src/src` unless they start with `src/`.

## The system

One process, one event loop.  Every request is an asyncio task; code between
two `await`s is atomic, and everything else may interleave.  State lives in
three places: rows of PostgreSQL (READ COMMITTED), keys of memcached, and a
few module-level variables of the process.

| Component | State | Operations | Interacts with |
|---|---|---|---|
| Ledger (`application/transactions.py`, `infrastructure/repositories/{cost,income,exchange,currency}.py`, `http/resources/{costs,incomes,exchange,currencies}.py`) | rows of costs, incomes, exchanges; `currencies.equity`, a 32-bit integer kept beside them and never recomputed | add, update and delete a cost or an income, add and delete an exchange, open and close a currency | starts notification tasks after an answer; runs on the data access layer |
| Data access layer (`infrastructure/database/{dal,cqs,session}.py`) | one read and one write session per repository object; `transaction()` replaces the write session for a block | `transaction()`, `flush()`, `add`, `delete`, `count` | everything with rows |
| Job scheduler (`application/scheduler`, `http/resources/jobs.py`, `infrastructure/repositories/jobs.py`) | rows of jobs (`is_active`, `next_run_at`, `last_status`, `run_count`); in memory the queue and the registry `_tasks` of named asyncio tasks | bootstrap, trampolines, the queue's worker, create / update / run now / delete a job | runs the crawlers and the kernel jobs |
| Notifications (`application/notifications.py`, `infrastructure/cache.py`) | one memcached key per user | `notify()`, count, show and erase | started by the ledger's requests |
| News ingestion (`application/news.py`, `application/agents/news.py`, crawlers) | rows of news, "seen" keys in memcached | crawl: ask the cache, tell it, filter, group, save; manual submission | jobs, an external model |
| News feed (`infrastructure/repositories/news.py`, `http/resources/news.py`, kernel jobs `gc`, `preferences`) | feedback, reactions, bookmarks, analysis flags, deletion signals, preference profiles | feedback, reaction, bookmark, delete; collect stale items; learn | both kernel jobs change the rows requests work on |
| Cost shortcuts and categories (`application/transactions.py`, `repositories/cost.py`) | rows with a position per user; categories that shortcuts, costs and users refer to | add, apply, delete with renumbering, reorder; create and delete a category | apply adds a cost |
| Exchange rates (`application/analytics.py`, `integrations/nbu.py`, `repositories/exchange_rates.py`) | rows per currency and day; per client an event and a semaphore | read what is missing, fetch, store, fall back to another day's rate | kernel job, analytics requests, a script |
| Analytics and pagination (`infrastructure/query_services/analytics.py`, `http/resources/{transactions,analytics}.py`) | none of their own | pages of a filtered list, a report of six statements | read what the ledger writes |
| Schema (`infrastructure/database/{tables,migrations}`) | tables, columns, constraints, indexes; the revision | upgrade, downgrade | everything with rows |
| Cash, assets | one row per currency, one row per asset | create, update, delete | - |
| Money conversions (`domain/transactions/data_transformation.py`, contracts) | none | decimal to cents and back | every amount of the ledger |
| Users and authentication, agents and prompts, HTTP layer, configuration | none that two steps share | single-row updates, pure I/O | - |

What makes it hard, and what each part has to get right:

* **Ledger.**  An update reads the record in a session of its own, decides,
  and writes in a later transaction; two requests may decide from one
  snapshot.  Row locks of records and currencies are taken in an order that
  depends on the request, so transactions may deadlock.  A currency is checked
  for use in one session and deleted in another, where the database looks again.  *Correct*: the equity of a
  currency is the sum of what the committed records contribute; no record
  refers to a currency that is gone; nothing is half done after a failure;
  every request is answered.
* **Scheduler.**  A restart cancels a task and registers another; the ended
  task's callback unregisters by name, later.  A cancellation may hit an
  execution between its two status updates, and a crash loses the queue and
  the registry.  *Correct*: every active job with an interval is polled and
  executed again and again; one trampoline per type; the row tells the truth
  about the execution.
* **Notifications.**  get / append / set and get / delete on one key with
  other operations in between.  *Correct*: a note is kept until it is shown,
  and shown once.
* **News ingestion.**  The cache is told of an article before anybody has
  decided about it and long before it is saved; crawls of several jobs ask and
  tell beside each other; two agents in a row may fail.  *Correct*: an article
  the cache has is somewhere, or there is a reason why not; none is saved twice
  without a reason.
* **News feed.**  Two jobs read, work for a while, and write in several
  commits, while the household reacts to and deletes the same articles; the
  collector's read has a limit, its delete has none.  *Correct*: no opinion and
  no deletion is forgotten unlearned; what is liked is not collected.
* **Shortcuts.**  Positions are computed from what was read, from 1 or from 0,
  and nothing makes them unique.  *Correct*: no two at one position; an add comes
  last, a deletion takes one out, and only a reordering changes the order.
* **Exchange rates.**  One task per missing day behind an event that whoever is
  limited clears; other runs store the same days.  *Correct*: a run that ends
  well leaves no hole; every run ends.
* **Lists and reports.**  One answer is made of several statements.  *Correct*:
  undisturbed, the pages show everything once and the report adds up; what is
  removed meanwhile does not break a report.
* **Schema.**  Eighteen revisions, some generated, some written by hand, one of
  which may meet rows it cannot keep.  *Correct*: they end at the declared
  tables, a downgrade undoes its upgrade, and only known rows stop one.

`PROJECT.json` lists every component with its status, and every such hazard at
its line with the properties that would catch it.

## Modules

```
Records ── Ledger ── MCLedger                Scheduler ── MCScheduler
   │          │                                  │
 Books ←──────┤ (refinement)                 SchedulerProofs
              │
        LedgerProofs                         Notifications ── MCNotifications
                                                 │   └─→ Mailbox (refinement)
                                             NotificationsProofs

Feed ── MCFeed                               Shortcuts ── MCShortcuts
  │ └─→ Lessons (refinement)                     │   └─→ Menu (refinement)
FeedProofs                                   ShortcutsProofs

Ingest ── MCIngest                           Rates ── MCRates
   │                                             │
IngestProofs                                 RatesProofs

Reports ── MCReports                         Tables ── Migrations ── MCMigrations
   │
ReportsProofs
```

The modules share tables but no variables.  Each takes what the others write as
any write the code can make: `Reports` any transaction that comes or goes,
`Feed` any article that arrives, `Shortcuts` any cost.

### Records, Ledger

`Records` gives costs, incomes and exchanges one shape: two *legs*, each a
currency and the signed amount it moves.  `Ledger` has an action per step of a
request that another request can observe:

* *Arrive*: `AddCost`, `AddIncome`, `CurrencyExchange`, `UpdateCost`,
  `UpdateIncome`, `DeleteCost`, `DeleteIncome`, `DeleteCurrencyExchange`,
  `OpenCurrency`, `CloseCurrency`.  The read session and the decision: 404, 400
  "nothing to update", or a *job* - the record as read, the fields to set, the
  equity adjustments computed from the record as read.
* *Proceed*: `InsertRecord` / `WriteRecord` / `RejectRecord` (a foreign key
  refuses), `AdjustEquity` twice at most, `Overflow`, `Commit`, `Reread` in a
  new session; the deletion of a currency with `LockCurrency` and then
  `DropCurrency` or `RefuseClose`; `DeadlockVictim`.
* `Fail` ends a request anywhere: lost connection, cancelled task, dead process.

The database is modelled from how the code uses it: an UPDATE waits for the
row lock and then works on the committed row; of a row that is gone it updates
nothing, which no code notices (`Commit` writes the equities of the currency
rows it holds, and no others); an inserted or moved record holds a shared
lock on its currency row; a wait cycle is broken by failing one of its members.
A transaction's effect appears at `Commit`; before it only its locks do.

Deleting a currency first locks its row, which waits for adjustments and shared
locks and then keeps them out, and then ON DELETE RESTRICT looks for records: it
is refused by one that is there, and waits for one that a transaction not yet
committed has deleted.  That transaction may in turn wait for the currency row,
to give the record's amount back: a deadlock over one currency.  `BlockedBy` has
this wait and, where PostgreSQL leaves it open, more than happens at once:
RESTRICT may find a record being deleted before or after one that refuses it, an
UPDATE may or may not queue behind a deletion that waits for the same row, and an
insert that waits for one of its currencies may have locked the other.  A victim
can thus be chosen where PostgreSQL might have let all go on.

The names of a record stand for all its attributes without money.  Comparing
`patch` to the record as read (`Without`) is kept, because it decides whether
there is an adjustment.  Sequences hand out identifiers early, which nobody
can see.  Listing, counting and pagination change nothing.

`Books` is the promise: one step enters, amends or strikes one record and
moves the equities by exactly the difference; it holds until some transaction
has written from an outdated snapshot (`stale`).

### Scheduler

One job type whose jobs are rows; tasks are recycled identities.  `RunTask` is
`run_task()` with `cancel_task()`; `Die` delivers a cancellation at an await;
`DoneCallback` pops the registry by name.  `Poll` is the SELECT with the
decision and the sleep that follow it, `StartJob` the status update to
"running", `FinishJob` the handler's end with the second update, as one step
because the handler's own effects are not modelled; a cancelled task may end
at either await, and a statement that was sent may still take effect.
`DatabaseFails` is an exception of a statement: the worker logs it and goes
on, a trampoline ends.  `Create`, `Update`, `RunNow`, `Remove` are the
requests, `Restart` the call of `schedule_type()` after the commit; `Crash`
loses the memory, `ResetStale` and `Bootstrap` are the start of the process.

Time is in minutes relative to now, so it needs no bound.  The name check of
`job_create` and the kernel trampolines (no rows, never restarted) are left out.
A handler that raises an exception without a text leaves the job active, as the
code does.

### Notifications

An event has one task per user in its audience.  `NotifyGet`, `NotifySet` and
`ClientGet`, `ClientDelete` are the cache commands; `NotifyFails` and
`ClientFails` lose the connection, with the command executed or not.  The
audience of a cost compares NULL thresholds as SQL does; the audience of an
income is empty unless there is exactly one other user, because `.one()`
raises in a task nobody awaits.  memcached does not evict here.  `Mailbox` is
the promise: one atomic put, one atomic take, per user.

### Feed, Lessons

A read is a session of its own, a write is there when its transaction commits.
Requests of one statement (`React`, `Feedback`, `Configure`, the end of a queued
analysis `Describe`) are one action; a bookmark reads the flag and writes its
negation (`BookmarkReads`, `BookmarkWrites`); a deletion reads the item and then
stores its signal and deletes it in one transaction.  Both jobs read the users
once and go through them with those configurations: the collector reads at most
`Limit` stale items and then stores their signals and deletes whatever is stale
*now*; the learner reads the flagged items, then the signals, lets the agent
think, and commits the profile, the flags and the deletion of the signals one
after the other.  Their failures differ: an exception ends the collector's whole
run but only the user's part of the learner's.

Titles stand for items (a title that repeats is one entry of a profile), rules
for whatever the agent answers; the length of a profile is counted in entries,
and a profile that is too long is refused by its column.  Weights and the order
of a prompt are left out.  `merge_articles` has no caller.

`Lessons` is the promise about deletions: one waits until it has been made part
of a profile, perhaps more than once, never not at all.

### Ingest

`Offer` is what a site lists, in any order and with repetitions.  `Hit`, `Miss`,
`Tell` are the cache commands of level 1, in the order of the code: all gets,
then all sets; a failing get counts as a miss, a failing set is logged.
`Filter`, `Group` are the agents' answers - any list of indices into the batch,
repeated or missing ones included (one outside of it is skipped by the code), any
calls of the grouping tool, wrong ones included -, `FilterFails` and `GroupFails` their
exceptions; `Save` is the one transaction, `CrawlFails` its failure or the death
of the process anywhere.  A submission asks the rows, not the cache; its agent
saves what it has found, once, repeatedly or never (`SaveManually`), until it ends
(`SubmissionEnds`).  One worker handles the queued submissions; the set
`Submissions` holds those that wait.  Of the rows only their addresses are kept,
and how many have the same.

### Shortcuts, Menu

Every operation statement by statement, with the row locks it holds between
them: `AddRead` / `AddInsert`, `DeleteRow` / `RebuildRead` / `UpdateRow` /
`CommitUpdates`, `ReorderRead` / `UpdateRow` / `CommitUpdates`, `ApplyRead` /
`ApplyAdd`, `CategoryCheck` / `CategoryDrop`.  `DeleteRow` does not ask whose
shortcut it is, because `delete_cost_shortcut` does not.  Foreign keys refuse an
insert without its category and the deletion of one that is referred to.
`raced` remembers whose operations overlapped: one of them committed positions
between the other's read and its commit.

`Menu` is the promise: each user's shortcuts have an order; one that is added
comes last, one that is deleted leaves the others as they were, and any other
order is, as a whole, one that was asked for.  In the mapping the order is that of
position and then id (`Order`); what a request asks for are the positions it was
sent, which stay what they were until it ends (`sent`, a history field of the
request); and users in `raced` are released.

### Rates

A run of `ensure_exchange_rates` goes through the currencies; for each it reads
what is missing, starts a task per day, takes answers in the order the tasks
end, stores each in a transaction of its own and fills what is left.  A task is
before the event, before the semaphore, at the bank, or asleep; `RateLimited`
clears the event unless it was the last attempt, and `WakeUp` sets it for
everybody, whoever else is still pausing.  An answer is for the day that was
asked.  A rate is modelled by the day it is of; the column is `rates`.

### Reports

A reader walks pages (`ListCount`, `ListPage` with a total counted anew for each
page) or assembles a report (`ReportStart`, five `ReportRead`s,
`ReportAssemble`).  The six statements are gathered on one session.  If that has
a connection at once, the statements queue for it and run one at a time, in the
order they were gathered; if it must first open one, all but the first raise, and
the report ends as a `DatabaseError` (`ReportFails`), as it does when any of them
fails.  Whether the pool has an idle connection is not modelled: a report may
fail at any statement.  Assembling breaks (`Unassembled`) for a row of a currency
without a block and for a category of a currency whose total is zero, which one
state of the tables never has but two states together may; a change of a
transaction is modelled as one that goes and one that comes.  `Matches` is the
filter of the list as written: an exchange has the currency it receives but the
value it gives, one date without the other is ignored, categories leave out costs
only.  Ties between tables in the order by day and id are the database's choice.

### Tables, Migrations

`Tables` is the declared schema.  `Migrations` has each revision's statements,
upgrade and downgrade, and what PostgreSQL does with them, rows included only as
far as a statement asks: whether a table has some, whether two agree on columns
that will be unique, whether a column is unset, whether a text is longer than a
later type of its column.  A command is one transaction
(`env.py`), so it works as a whole or not at all; `Upgrade` goes to any later
revision, as a deployment at that time did, `Downgrade` by one.  `Fill`, `Repeat`
and `Lengthen` are the service of that revision at work, whose columns took
longer texts than those of today.

## What the runs check

| Run | States | Shows |
|---|---|---|
| `ledger_safety` | 256 949 | types; `NoDanglingCurrency`; `StaleOnlyWhenContended`; `CyclesMoveTwoOrClose`; `BooksBalance`, the sum over the records; the refinement of `Books`, overflow included; `CommittedIsFound` |
| `ledger_live` | 35 798 | `EveryRequestAnswered` |
| `ledger_fresh` | violation | `EquityIsFresh`: overlapping requests for one record unbalance the books |
| `scheduler_safety` | 496 817 | types; `RegisteredIsCurrent`; `EveryJobIsPolled`; `SurplusOnlyByCallback`; `RunningIsExecuted`; `CountIsTotal` |
| `scheduler_live` | 181 897 | `EveryJobIsExecuted`; `QueueDrains` |
| `notifications_safety` | 110 224 | types; `NoNoteIsLost`; `ShownOnce`; the refinement of `Mailbox` |
| `feed` | 620 786 | types; `OpinionIsKept`; `NothingLikedIsCollected`; `DeletionLeavesSignal`; the refinement of `Lessons`; `SignalsAreLearned` |
| `ingest` | 826 956 | `NoArticleVanishes`; `SavedOnce` |
| `shortcuts` | 2 547 060 | `ClashNeedsRace`; the refinement of `Menu`; `NothingDangles` |
| `rates` | 213 920 | `CoveredAfterRun`; `RefusedOnlyWhenRaced`; `EveryRunEnds` |
| `reports` | 41 682 | `PagesShowEachOnce`; `ReportIsRight` |
| `migrations` | 2 462 | `HeadIsMetadata`; `RevisionFixesSchema`; `StopsOnlyAtTheseRows`; `UpgradeKeepsRows` |

Several properties have the form "only when": an anomaly of which the code does
not protect itself (an outdated snapshot, two overlapping renumberings, an item
over the collector's limit) is named in the property, and the property says that
nothing else leads there.  Under "What the code does not do" the anomalies
themselves are listed.

### Bounds

*Ledger.*  Two currencies and two record identifiers are enough for a wait
cycle and for two requests to meet on one record; three requests let a third
close a currency or delete the record while two others are between their
statements.  Amounts 1 and 2 with `MaxEquity = 3` make overflow reachable in
the middle of a transaction and keep an adjustment of zero apart from none.
The liveness run starts from one committed cost (every contended situation
needs a record) with two requests; it has no symmetry.  Requests are served
once: the set `Requests` bounds how many there are.

*Scheduler.*  Three tasks: a second live trampoline needs the one at startup
and two restarts.  One job with an interval and one that runs on request only
exercise both kinds of poll; two requests, one failed statement and one crash
allow a crash during a cut execution.  Counters are compared modulo 2, which
tells a lost or doubled execution from a counted one.  Liveness has one job
and two tasks.

*Notifications.*  Two events, two requests, any subset of three users of which
one has the lower threshold, one the higher, one none.

*Feed.*  Two articles with a limit of one make the collector's read fall short;
one user, whose own requests and both jobs are what meets on a row; one rule and
a profile of two entries, so that a profile can be full; two days, so that an
article becomes stale and an entry of a profile too old.  Two acts of users and
one fault put an opinion or a deletion at each place between two statements of
a job, with another one or a crash before or after it.

*Ingest.*  Two articles of which memcached refuses one; batches of two, so that
a site lists an article twice and the agents name it twice, drop it or group it
with the other; two crawls that overlap or follow each other, and a submission
that saves up to two rows (`MaxByHand`).

*Shortcuts.*  Three shortcuts: a deletion in the middle leaves two to renumber,
and a partial reordering leaves one out.  Two requests at a time, as many of
them as one likes one after the other.  One user: users meet only where one
deletes another's shortcut, which the proofs cover for any number; a run of two
users was followed to depth 29 and 7.6 million states without a violation, but
takes too long to be one of the runs.

*Rates.*  Two days and one slot make tasks wait for the semaphore and the event
at once; one retry lets a task be limited, wake up and be limited again, on its
last attempt; two runs overlap.  One currency; what carries over from one to the
next is in the proofs.

*Reports.*  Five rows on three days in two currencies, two of them of different
tables with one day and one id; pages of two, so that a list has up to three;
two writes during a reading.  Six filters and seven queries use each field, and
each way to give or leave out dates, period and pattern.

*Migrations.*  Tables whose rows meet a revision that could refuse them, with
those they refer to, and the one column (`ToBeShorter`) that is ever narrowed.  Nothing else is bounded: every path of revisions is taken.

Symmetry is declared only in runs without liveness, over sets whose members
occur nowhere else in the configuration.

### Fairness

*Ledger*: weak fairness of each request's `Proceed`.  The event loop runs every
ready task, PostgreSQL executes a statement whose locks are free and its
detector ends a deadlock.  Nothing obliges a request to arrive or to fail.
Weak fairness suffices because lock holders are not restarted: a finite set of
requests cannot starve a waiting one.

*Scheduler*: weak fairness of each task's steps, of the worker, of owed
restarts, of startup and of time.  That is: the event loop runs ready tasks and
callbacks, statements and handlers end (crawlers have timeouts), the process is
started again by its supervisor.  Requests, failures and crashes are not fair
and finitely many, so a task is not cancelled forever.

*Feed*: weak fairness of the learner as a whole.  It is a kernel trampoline,
which polls for ever; its statements end and the agent answers or fails.  A day
passes, users act and faults happen only if they like, and finitely often.

*Rates*: weak fairness of each run's steps.  Requests to the bank time out
(`httpx`), sleeps end, the database answers or fails.  The bank owes nothing: it
may limit, time out or refuse every time, since attempts are counted.

*Notifications*, *Ingest*, *Shortcuts*, *Reports* and *Migrations* have no
liveness property.  `CHECK_DEADLOCK FALSE` is set where a system may really stop:
all bounded operations done.

## What is proved

TLAPS checks the theorems below for every value of the constants; the
assumptions are the `ASSUME`s of the modules: special values (`None`, the
worker) are not members of the sets they mark the absence from, amounts are
natural numbers (an exchange may be truncated to 0), the rows a report may meet
finitely many and its costs above zero (`cents_from_raw` refuses 0), intervals
natural numbers, retentions integers (the contract accepts negative ones),
identifiers of rows of different tables and of tasks and requests
distinct.  No assumption bounds a set by a number.  That only finitely many records
have been issued, which a sum over them needs, is part of an invariant.

Each proof has an inductive invariant, and under `Next` one step per action.

* **`LedgerProofs`** - `TypeCorrect`, `NoDangling`, `EquityNeverOverflows`.  The
  invariant adds to the types what a job is worth at each point of its
  transaction: records are well formed and their identifiers issued
  (`RecordsInv`); a job's adjustments are those of its snapshot (`JobInv`); an
  insert's identifier is nobody else's (`InsertInv`); a record keeps its kind
  (`KindInv`); and the currencies a foreign key check has found stay locked until
  the commit, so still exist (`ForeignKeyInv`).  The last is what
  `NoDanglingCurrency` needs: without it a close between the check and the commit
  would break it.

  `StaleNeedsOverlap`, `CommittedRecordIsFound`: two requests at work on one
  record have been noticed (`OverlapInv`), so a snapshot of a record that is not
  contended is still what is committed (`SnapInv`), and a record just committed
  is still there to be read again (`RereadInv`).

  `CyclesNeedTwoOrClose`, `DeadlocksOfTwo`: a row has one holder (`ExclusiveInv`),
  a transaction holds the rows of the statements it is through with (`HeldInv`),
  and one that deletes a currency holds that row alone (`ClosingInv`).  Who waits
  for its record therefore holds nothing that a request other than a close waits
  for, and who waits for its first currency holds its record at most, which only
  those wait for who hold nothing, or a close if the record is being deleted.  So
  without a close everybody in a cycle waits for a second currency; and of two
  that wait for each other, either both do and have begun at opposite ends, or one
  is a close and the other a deletion of a record in that currency.  One order of
  the equity UPDATEs would rule the first out and leave the second.  That an
  UPDATE missed its row only if the currency was closed (`FoundInv`, with
  `SnapOpenInv`) and that a sum which fitted at the statement fits at the commit,
  because the row stays locked (`RangeInv`), give the rest.

  `LedgerImplementsBooks`: every commit of a job whose snapshot is current is
  one step of `Books`, everything else is a stutter.  `EquityIsSumOfRecords`: the
  balance of the run is a fold over the set of records; here it is unfolded to its
  recursive function, and what a sum does when one term changes is shown by the
  smallest set (by cardinality) that would be a counterexample.  With that, a step
  of `Books` keeps the balance.
* **`SchedulerProofs`** - `SchedulerTypes`, `RegistryIsCurrent`,
  `JobsArePolled`, `SurplusIsByCallback`, `RunningIsTrue`.  Beside the
  properties themselves the invariant needs that an identity free for a new
  task is not marked as cancelled (`FreshTasks`, else a restart would start a
  task already told to stop) and that an executor has a current snapshot
  exactly while it is between the two status updates (`Executing`).

  `CountsAreTotals`: a snapshot taken before another execution would overwrite its
  count.  Until two executors had a snapshot of a job, at most one has it, and no
  second one waits in the queue behind it (`Alone`); so what an executor has not
  yet begun or ended still counts as the row does (`UpToDate`); and an identifier
  not yet issued has left no trace that could meet its first execution
  (`Traceless`).
  `ExecutedWhenDue`, by the same `Alone`: a batch is executed one job after the
  other, minutes after the rows were read, and nobody looks again; but only the end
  of an execution sets the next run, and whoever could end one of a job that waits
  in a batch would be a second one with a snapshot (`BatchIsDue`).  With a run on
  request in between the job is executed although it is not due.
* **`NotificationsProofs`** - `NotificationTypes`, `NotesAreKept`,
  `NotesAreShownOnce`, `NotificationsImplementMailbox`.  While nothing has
  overlapped on a key, at most one operation is between its commands
  (`AloneInv`), its copy is the value (`CopyInv`), a note not yet set is
  nowhere (`FreshInv`) and none is both stored and shown (`UnseenInv`).
* **`FeedProofs`** - `FeedTypes`, `OpinionsAreKept`, `LikedAreKept`,
  `FeedImplementsLessons`, `DeletionsAreNoticed`.  Between reading an item and
  clearing its flag the learner's own flag cannot go away, because there is one
  learner (`OpinionInv`), and once the profile is saved what is left unlearned of its
  items is late; signals it holds are in the table until it has taught them
  (`LessonInv`).  For deletions: between its statements the collector's cutoff is
  not in the future of its read, so what is stale by it was read, cut off by the
  limit, touched since, or - only if the retention is negative - has just arrived
  (`ReadInv`); and a signal's id is below the next one of its item (`SignalIds`),
  so that a deletion's signal is not taken for one that was there.
* **`IngestProofs`** - `ArticlesDoNotVanish`, `ArticlesAreSavedOnce`.  An article
  without a reason to come up again is tracked (`Tracked`): it is with one crawl at
  most (`Exclusive`), once in its batch or in one group, and in the cache as soon
  as that crawl has told it (`Held`); once it is saved no crawl has it, and the
  cache keeps others from taking it (`Settled`).  The groups of the agent are built
  by a recursive function over its calls; that they contain the batch and nothing
  else, each article once unless it was named twice, is shown by the first call
  after which it would be false.
* **`ShortcutsProofs`** - `PositionsAreApart`, `ShortcutsImplementMenu`,
  `CategoriesStay`.  As long as a user's operations have not overlapped, what an
  operation read is still so: a new position is above all others (`PlansFree`), the
  writes of a renumbering and what it leaves alone make up the ranks of what it
  read (`PlansOrder`), and those of a reordering are what it was sent
  (`PlansSent`), for all of the user's shortcuts and each at a place of its own
  (`PlansApart`).  That ranks are distinct and keep the order is proved from
  cardinalities (`RankKeepsOrder`), that there is a last position from the smallest
  set of shortcuts beyond one (`LastShortcut`).  A commit then changes the order
  pair by pair as `Menu` says: an insert puts the new one after every other
  (`InsertAppends`), a renumbering leaves what remains (`RenumberingRemoves`), a
  reordering leaves the order of its request (`ReorderingArranges`).  A renumbering
  may have deleted another user's shortcut: it is taken out of that user's order.
* **`RatesProofs`** - `RefusalsAreRaced`, `RangesAreCovered`, and
  `ClosestIsKnown` about the fallback.  What a run has still to store is not
  there unless it is raced (`ReallyMissing`), tasks are for such days only
  (`TasksFor`), and of the currencies it is through with (`Done`) and the one it
  is at (`DoneHere`) everything else is there.
* **`ReportsProofs`** - `PagesAreComplete`: rows of which no two have one day and
  id have one order (`OneOrder`, by the first place where two would differ), so as
  long as nothing is written each page continues what was shown (`ShownInv`) up to
  the total that was counted.  `ReportsAreRight`: what the statements have
  returned is what they would still return (`Current`), so a report is assembled
  from one state (`RInv`).  As long as no row was added (`Covered`) every row has a
  block, because rows refer to currencies there are (`Referred`) and these were
  read first, and every category has a total, because the totals were read before
  it, of no fewer costs, and costs are positive.  That groups add up to their total (`GroupsAddUp`)
  and the three tables to the effect on the equity (`ResultIsEffect`) is shown,
  as in the ledger, by the smallest set for which it would be false.

Only model-checked: the liveness properties (`EveryRequestAnswered`,
`EveryJobIsExecuted`, `QueueDrains`, `SignalsAreLearned`, `EveryRunEnds`), which
are out of the prover's reach under fairness; and the properties of `Migrations`, which has no
constant but the rows a table may have: its scripts are one finite computation,
run statement by statement, that TLC covers as a whole.

## What the code does not do

Where a comment, a docstring or a name promises more than the code does, and
what the models say about it.

* *Always the fresh equity* (`domain/equity/entities.py:11`): the run
  `ledger_fresh` shows overlapping requests that unbalance it; `ledger_safety`
  that only those do (`StaleOnlyWhenContended`).
* *One trampoline* (`application/scheduler/_scheduler.py:3`): the callback of a
  replaced task unregisters its successor (`_primitives.py:43`), the next restart
  leaves two.  `SurplusOnlyByCallback` says this is the only way.
* *Ends itself when there are no jobs* (`_scheduler.py:10`): it also ends when a
  statement fails (`:124`); `EveryJobIsPolled` has that case.
* *Errors pause the job* (`_scheduler.py:161`): an exception without a text does
  not (`:200`).
* *Notes are removed once shown* (`application/notifications.py:5`): a task that
  had read the key writes them back (`:46`); `ShownOnce` says only an overlap
  does.
* *The closest rate for each missing date* (`application/analytics.py:27`, `:88`):
  every missing day gets the rate closest to the first day of the range (`:94`).
* *A 429 pauses all requests* (`integrations/nbu.py:170`): the first task to wake
  up lets all go on, also those of a longer `Retry-After`.
* *Positions are 1..N* (`repositories/cost.py:216`): reorderings count from 0,
  adds and renumberings from 1; `ClashNeedsRace` shows that both together still
  keep positions apart.
* *Pagination is skipped for a category* (`http/resources/transactions.py:35`): it
  is not.
* *A minimum value* (`query_services/analytics.py:165`) is compared with what an
  exchange gives, while its currency is the one it receives.
* *50 stale items per user* (`kernel/gc.py:34`) limits the signals, not what is
  deleted; `DeletionLeavesSignal` has that case.
* A retention may be negative (`http/contracts/identity.py:83`, `:163`).  The
  collector then takes articles of today, and with them those that arrive between
  its read and its delete, without a signal; `DeletionLeavesSignal` has that case
  too, and the proof found it.
* An exchange truncates `value * 100` (`http/contracts/transactions.py:288`) where
  other amounts are rounded; a cash step below a cent is stored as 0
  (`http/contracts/cash.py:49`).
* The revisions `cc52aac9ed5e`, `582ba7eac761` (a source of an income longer than
  the four of today), `fc447514f941` and `896bbba0f324` stop on the rows `Obstacle`
  names; `3ef6fd0f6aaf` can never be undone.
* A report fails whenever its session has to open a connection
  (`query_services/analytics.py:364`): six statements are begun on it at once.
* A currency that is deleted beside a deletion of its last record
  (`repositories/currency.py:67`, `application/transactions.py:137`) may end one of
  the two as a deadlock victim.

## Not modelled

* *Cash, assets.*  One statement per request on one row, under a unique or
  foreign key; nothing relates two steps.
* *Money conversions.*  Binary fractions, of which TLC has none.
* *Daily totals, the ratio in USD, first and last transaction, the analytics the
  model writes*: single reads, floating point, or arbitrary text.
* *Agents and prompts*: any answer of their type, or an exception, where they
  are called.
* *Authentication and users, the HTTP layer, tracing, configuration, scripts*:
  single-row steps and pure I/O.
* The connection pool, and the eviction of the notifications' keys.

## Plan

Done: the ledger with its abstract books, the scheduler, notifications, the
feed, ingestion, shortcuts, rates, reports, the schema; proofs of the safety
properties of all but the last, whose scripts TLC covers as a whole.  Left, in
this order:

1. `Ingest` composed with `Feed` over the same rows: an article collected and
   crawled again.
2. The kernel trampolines beside the scheduler's.
