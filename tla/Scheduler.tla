----------------------------- MODULE Scheduler -----------------------------
(***************************************************************************)
(* The job scheduler, for one registered job type whose jobs are rows of   *)
(* the database.                                                           *)
(*                                                                         *)
(* A trampoline is an asyncio task that polls the rows, executes the due   *)
(* ones one after the other and sleeps.  A request that creates or updates *)
(* an active row (re)starts the trampoline: the task registered under the  *)
(* type's key is cancelled and a new one takes its place.  A task that     *)
(* ends is unregistered by a callback which the event loop calls some time *)
(* later and which removes whatever is registered under the key by then.   *)
(* Jobs run on request go through a queue to one worker, which executes    *)
(* the same way.                                                           *)
(*                                                                         *)
(* Every step between two awaits is atomic.  A cancelled task ends at the  *)
(* await it is at, but a statement already on the wire may take effect.    *)
(* Time is counted in minutes, relative to now.                            *)
(***************************************************************************)
EXTENDS Integers, Sequences

CONSTANTS
  Jobs,         \* identifiers of job rows of this type
  Interval,     \* interval_minutes of each job; 0 for "manual only"
  Tasks,        \* asyncio tasks; an ended one is free to be a new one
  Worker,       \* the task that consumes the queue
  None,         \* no row, no task, no job
  CountBase,    \* counters of executions are kept modulo CountBase
  MaxRequests,  \* how many requests are served
  MaxFailures,  \* how many statements fail
  MaxCrashes    \* how often the process dies

ASSUME IntervalAssumption == Interval \in [Jobs -> Nat]
ASSUME BoundsAssumption   ==
  /\ CountBase \in Nat \ {0, 1}
  /\ MaxRequests \in Nat /\ MaxFailures \in Nat /\ MaxCrashes \in Nat

\* What an executor remembers of a row it has read.
Counts    == 0..CountBase-1
Snapshots == [job : Jobs, count : Counts]
Statuses  == {"none", "running", "success", "error", "stale"}
Budgets   == {"requests", "failures", "crashes"}
RowSet    == [active : BOOLEAN, due : Nat, status : Statuses, count : Counts]

ASSUME NoneAssumption == Worker \notin Tasks /\ None \notin Tasks \cup Snapshots

Executors == Tasks \cup {Worker}

VARIABLES
  rows,        \* the committed row of each job, or None
  issued,      \* job identifiers the sequence has handed out
  up,          \* the process: "down", "reset" or "up"
  registered,  \* _tasks["trampoline:<type>"], or None
  pc,          \* where each trampoline and the worker are
  cancelled,   \* tasks that were cancelled and have not ended yet
  batch,       \* snapshots of the rows each executor still has to execute
  current,     \* the snapshot each executor is executing, or None
  age,         \* minutes since that execution started, at most its interval
  nap,         \* minutes a trampoline sleeps when its batch is done
  queue,       \* snapshots queued by "run now"
  owed,        \* requests that have committed and are about to restart
  left,        \* requests, failures and crashes still allowed
  recorded,    \* history: executions whose end was written to the row
  overlapped,  \* history: jobs two executors had a snapshot of
  orphans,     \* history: tasks unregistered by the callback of another
  cut,         \* history: jobs whose last execution did not reach its end
  outage       \* history: a failed statement has ended a trampoline

database == <<rows, issued>>
loop     == <<registered, pc, cancelled, batch, current, age, nap>>
history  == <<recorded, overlapped, orphans, cut, outage>>
vars     == <<rows, issued, up, registered, pc, cancelled, batch, current, age,
              nap, queue, owed, left, recorded, overlapped, orphans, cut, outage>>

-----------------------------------------------------------------------------
Increment(n) == (n + 1) % CountBase
Elapse(n)    == IF n = 0 THEN 0 ELSE n - 1

Row(active, due, status, count) ==
  [active |-> active, due |-> due, status |-> status, count |-> count]

WithStatus(row, status) == Row(row.active, row.due, status, row.count)
Elapsed(row) == Row(row.active, Elapse(row.due), row.status, row.count)

Snapshot(j) == [job |-> j, count |-> rows[j].count]

Longest == CHOOSE n \in {0} \cup {Interval[j] : j \in Jobs} :
             \A j \in Jobs : Interval[j] <= n


\* At an await of its own coroutine: a cancellation can be delivered.
Awaiting == {"poll", "mark", "run", "sleep"}

\* A trampoline that is there and was not told to stop.
Live(t) == pc[t] \in Awaiting /\ t \notin cancelled

Scheduled == {j \in Jobs : rows[j] # None /\ rows[j].active /\ Interval[j] > 0}

\* Snapshots of job j that some executor, or the queue, still holds.
Held(j) ==
  \/ \E e \in Executors : \/ \E s \in batch[e] : s.job = j
                          \/ current[e] # None /\ current[e].job = j
  \/ \E k \in 1..Len(queue) : queue[k].job = j

Init ==
  /\ rows \in [Jobs -> {None, Row(TRUE, 0, "none", 0), Row(FALSE, 0, "none", 0)}]
  /\ issued     = {j \in Jobs : rows[j] # None}
  /\ up         = "down"
  /\ registered = None
  /\ pc         = [e \in Executors |-> IF e = Worker THEN "idle" ELSE "free"]
  /\ cancelled  = {}
  /\ batch      = [e \in Executors |-> {}]
  /\ current    = [e \in Executors |-> None]
  /\ age        = [e \in Executors |-> 0]
  /\ nap        = [e \in Executors |-> 0]
  /\ queue      = <<>>
  /\ owed       = 0
  /\ left       = [b \in Budgets |-> IF b = "requests" THEN MaxRequests
                                  ELSE IF b = "failures" THEN MaxFailures
                                  ELSE MaxCrashes]
  /\ recorded   = [j \in Jobs |-> 0]
  /\ overlapped = {}
  /\ orphans    = {}
  /\ cut        = {}
  /\ outage     = FALSE

-----------------------------------------------------------------------------
(* Named tasks: _primitives.py.                                            *)

\* Mutant: a task that runs under the key already is kept.
RunTaskUnlessRegistered ==
  IF registered # None
    THEN UNCHANGED <<registered, pc, cancelled>>
    ELSE \E t \in Tasks :
           /\ pc[t] = "free"
           /\ pc' = [pc EXCEPT ![t] = "poll"]
           /\ registered' = t
           /\ UNCHANGED cancelled

\* Mutant: the task registered under the key is replaced without a cancel.
RunTaskWithoutCancel ==
  \E t \in Tasks :
    /\ pc[t] = "free"
    /\ pc' = [pc EXCEPT ![t] = "poll"]
    /\ registered' = t
    /\ UNCHANGED cancelled

\* Mutant: the entry of the registry is cancelled without a look at it.
RunTaskUnchecked ==
  \E t \in Tasks :
    /\ pc[t] = "free"
    /\ pc' = [pc EXCEPT ![t] = "poll"]
    /\ registered' = t
    /\ cancelled' = cancelled \cup {registered}

\* Mutant: the new task is registered before the old one is looked up.
RunTaskCancelLast ==
  \E t \in Tasks :
    /\ pc[t] = "free"
    /\ pc' = [pc EXCEPT ![t] = "poll"]
    /\ registered' = t
    /\ cancelled' = cancelled \cup {t}

\* The registered task is cancelled and a new one registered in its place.
RunTask ==
  \E t \in Tasks :
    /\ pc[t] = "free"
    /\ pc' = [pc EXCEPT ![t] = "poll"]
    /\ registered' = t
    /\ cancelled' = IF registered = None THEN cancelled
                                         ELSE cancelled \cup {registered}

\* Mutant: an exception ends the worker like any other task.
LeaveForGood(e) ==
  /\ pc'      = [pc EXCEPT ![e] = "done"]
  /\ batch'   = [batch EXCEPT ![e] = {}]
  /\ current' = [current EXCEPT ![e] = None]
  /\ age'     = [age EXCEPT ![e] = 0]
  /\ nap'     = [nap EXCEPT ![e] = 0]

\* The executor stops what it does: an ended task, or the worker's next turn.
Leave(e) ==
  /\ pc'      = [pc EXCEPT ![e] = IF e = Worker THEN "idle" ELSE "done"]
  /\ batch'   = [batch EXCEPT ![e] = {}]
  /\ current' = [current EXCEPT ![e] = None]
  /\ age'     = [age EXCEPT ![e] = 0]
  /\ nap'     = [nap EXCEPT ![e] = 0]

CutShort(e) == IF current[e] = None THEN cut ELSE cut \cup {current[e].job}

\* CancelledError is raised at the await the task is at.
Die(t) ==
  /\ t \in cancelled /\ pc[t] \in Awaiting
  /\ Leave(t)
  /\ cut' = CutShort(t)
  /\ UNCHANGED <<database, up, registered, cancelled, queue, owed, left,
                 recorded, overlapped, orphans, outage>>

\* The done callback: pop(key, None), whoever is registered by now.
DoneCallback(t) ==
  /\ pc[t] = "done"
  /\ pc' = [pc EXCEPT ![t] = "free"]
  /\ cancelled' = cancelled \ {t}
  /\ registered' = None
  /\ orphans' = (IF registered \in {t, None} THEN orphans
                 ELSE orphans \cup {registered}) \ {t}
  /\ UNCHANGED <<database, up, batch, current, age, nap, queue, owed, left,
                 recorded, overlapped, cut, outage>>

-----------------------------------------------------------------------------
(* The trampoline and the batch: _scheduler.py.                            *)

\* The rows are read, the due ones picked and the sleep decided on; without
\* an active job that has an interval the trampoline returns.
Poll(t) ==
  LET due == {j \in Scheduled : rows[j].due = 0}
  IN  /\ pc[t] = "poll" /\ t \notin cancelled
      /\ \/ /\ Scheduled = {}
            /\ Leave(t)
            /\ UNCHANGED overlapped
         \/ /\ Scheduled # {}
            /\ pc'    = [pc EXCEPT ![t] = IF due = {} THEN "sleep" ELSE "mark"]
            /\ batch' = [batch EXCEPT ![t] = {Snapshot(j) : j \in due}]
            /\ \E n \in {Interval[j] : j \in Scheduled} :
                 /\ \A j \in Scheduled : n <= Interval[j]
                 /\ nap' = [nap EXCEPT ![t] = n]
            /\ overlapped' = overlapped \cup {j \in due : Held(j)}
            /\ UNCHANGED <<current, age>>
      /\ UNCHANGED <<database, up, registered, cancelled, queue, owed, left,
                     recorded, orphans, cut, outage>>

Wake(t) ==
  /\ pc[t] = "sleep" /\ t \notin cancelled /\ nap[t] = 0
  /\ pc' = [pc EXCEPT ![t] = "poll"]
  /\ UNCHANGED <<database, up, registered, cancelled, batch, current, age, nap,
                 queue, owed, left, history>>

\* The next job of the batch is marked as running; no row, no change.
StartJob(e) ==
  \E s \in batch[e] :
    /\ pc[e] = "mark"
    /\ rows' = [rows EXCEPT ![s.job] =
                  IF @ = None THEN None ELSE WithStatus(@, "running")]
    /\ IF e \in cancelled
         THEN Leave(e) /\ cut' = cut \cup {s.job}
         ELSE /\ pc'      = [pc EXCEPT ![e] = "run"]
              /\ batch'   = [batch EXCEPT ![e] = @ \ {s}]
              /\ current' = [current EXCEPT ![e] = s]
              /\ age'     = [age EXCEPT ![e] = 0]
              /\ UNCHANGED <<nap, cut>>
    /\ UNCHANGED <<issued, up, registered, cancelled, queue, owed, left,
                   recorded, overlapped, orphans, outage>>

\* Minutes until the next run, of which the execution took "started".
NextRun(j, row, started) ==
  IF Interval[j] = 0 THEN row.due
  ELSE IF started >= Interval[j] THEN 0 ELSE Interval[j] - started

\* Mutant: the error path leaves the status alone.
AfterExecutionStatusKept(j, row, s, started, verdict, paused) ==
  Row(row.active /\ ~paused, NextRun(j, row, started),
      IF verdict = "error" THEN row.status ELSE verdict, Increment(s.count))

\* Mutant: the count is not part of the update after an error.
AfterExecutionUncounted(j, row, s, started, verdict, paused) ==
  Row(row.active /\ ~paused, NextRun(j, row, started), verdict,
      IF verdict = "error" THEN row.count ELSE Increment(s.count))

\* The row after an execution of job j that began "started" minutes ago; the
\* count comes from the snapshot.
AfterExecution(j, row, s, started, verdict, paused) ==
  Row(row.active /\ ~paused, NextRun(j, row, started), verdict,
      Increment(s.count))

\* The handler has returned or raised, and the row is updated.  An exception
\* pauses the job if it has a text: what is tested is that text.
FinishJob(e) ==
  LET s == current[e]
      j == s.job
  IN  /\ pc[e] = "run"
      /\ \E verdict \in {"success", "error"}, paused \in BOOLEAN :
           /\ paused => verdict = "error"
           /\ rows' = [rows EXCEPT ![j] =
                         IF @ = None THEN None
                         ELSE AfterExecution(j, @, s, age[e], verdict, paused)]
      /\ recorded' = [recorded EXCEPT ![j] =
                        IF rows[j] = None THEN @ ELSE Increment(@)]
      /\ cut' = cut \ {j}
      /\ IF e \in cancelled \/ (e = Worker /\ batch[e] = {})
           THEN Leave(e)
           ELSE /\ pc' = [pc EXCEPT ![e] = IF batch[e] = {} THEN "sleep" ELSE "mark"]
                /\ current' = [current EXCEPT ![e] = None]
                /\ age' = [age EXCEPT ![e] = 0]
                /\ UNCHANGED <<batch, nap>>
      /\ UNCHANGED <<issued, up, registered, cancelled, queue, owed, left,
                     overlapped, orphans, outage>>

\* A statement fails.  The worker logs it and goes on; in a trampoline nobody
\* catches it.
DatabaseFails(e) ==
  /\ left["failures"] > 0
  /\ pc[e] \in {"poll", "mark", "run"}
  /\ left' = [left EXCEPT !["failures"] = @ - 1]
  /\ Leave(e)
  /\ cut' = CutShort(e)
  /\ outage' = (outage \/ e # Worker)
  /\ UNCHANGED <<database, up, registered, cancelled, queue, owed, recorded,
                 overlapped, orphans>>

\* The worker takes the next item of the queue.
Take ==
  /\ up = "up" /\ pc[Worker] = "idle" /\ queue # <<>>
  /\ pc'    = [pc EXCEPT ![Worker] = "mark"]
  /\ batch' = [batch EXCEPT ![Worker] = {Head(queue)}]
  /\ queue' = Tail(queue)
  /\ UNCHANGED <<database, up, registered, cancelled, current, age, nap, owed,
                 left, history>>

-----------------------------------------------------------------------------
(* Requests: http/resources/jobs.py.  A refused request changes nothing.   *)

Request == /\ up = "up" /\ left["requests"] > 0
           /\ left' = [left EXCEPT !["requests"] = @ - 1]

Create(j) ==
  /\ Request
  /\ j \notin issued
  /\ issued' = issued \cup {j}
  /\ rows' = [rows EXCEPT ![j] = Row(TRUE, 0, "none", 0)]
  /\ owed' = owed + 1
  /\ UNCHANGED <<up, loop, queue, history>>

\* Renames the job, or sets is_active; restarts if the row is active now.
Update(j) ==
  \E active \in BOOLEAN :
    /\ Request
    /\ rows[j] # None
    /\ rows' = [rows EXCEPT ![j] = Row(active, @.due, @.status, @.count)]
    /\ owed' = IF active THEN owed + 1 ELSE owed
    /\ UNCHANGED <<issued, up, loop, queue, history>>

\* schedule_type(), once the commit has returned.
Restart ==
  /\ up = "up" /\ owed > 0
  /\ RunTask
  /\ owed' = owed - 1
  /\ UNCHANGED <<database, up, batch, current, age, nap, queue, left, history>>

RunNow(j) ==
  /\ Request
  /\ rows[j] # None
  /\ queue' = Append(queue, Snapshot(j))
  /\ overlapped' = IF Held(j) THEN overlapped \cup {j} ELSE overlapped
  /\ UNCHANGED <<database, up, loop, owed, recorded, orphans, cut, outage>>

Remove(j) ==
  /\ Request
  /\ rows[j] # None
  /\ rows' = [rows EXCEPT ![j] = None]
  /\ UNCHANGED <<issued, up, loop, queue, owed, history>>

-----------------------------------------------------------------------------
(* Start and end of the process: hooks.py.                                 *)

\* Everything in memory is lost; also what a shutdown comes to, with the
\* tasks that are still there cancelled at their awaits.
Crash ==
  /\ up = "up" /\ left["crashes"] > 0
  /\ left' = [left EXCEPT !["crashes"] = @ - 1]
  /\ up' = "down"
  /\ registered' = None
  /\ pc' = [e \in Executors |-> IF e = Worker THEN "idle" ELSE "free"]
  /\ cancelled' = {}
  /\ batch'   = [e \in Executors |-> {}]
  /\ current' = [e \in Executors |-> None]
  /\ age'     = [e \in Executors |-> 0]
  /\ nap'     = [e \in Executors |-> 0]
  /\ queue' = <<>>
  /\ owed' = 0
  /\ cut' = cut \cup {current[e].job : e \in {x \in Executors : current[x] # None}}
  /\ orphans' = {}
  /\ outage' = FALSE
  /\ UNCHANGED <<database, recorded, overlapped>>

\* Rows still "running" that are due are "stale".
ResetStale ==
  /\ up = "down"
  /\ up' = "reset"
  /\ rows' = [j \in Jobs |->
                IF rows[j] # None /\ rows[j].status = "running" /\ rows[j].due = 0
                  THEN WithStatus(rows[j], "stale") ELSE rows[j]]
  /\ UNCHANGED <<issued, loop, queue, owed, left, history>>

\* Mutant: rows that were found stale do not count as active ones.
BootstrapWithoutStale ==
  /\ up = "reset"
  /\ up' = "up"
  /\ IF \E j \in Jobs : rows[j] # None /\ rows[j].active /\ rows[j].status # "stale"
       THEN RunTask
       ELSE UNCHANGED <<registered, pc, cancelled>>
  /\ UNCHANGED <<database, batch, current, age, nap, queue, owed, left, history>>

\* A trampoline if some row is active, with or without an interval.
Bootstrap ==
  /\ up = "reset"
  /\ up' = "up"
  /\ IF \E j \in Jobs : rows[j] # None /\ rows[j].active
       THEN RunTask
       ELSE UNCHANGED <<registered, pc, cancelled>>
  /\ UNCHANGED <<database, batch, current, age, nap, queue, owed, left, history>>

\* A minute passes.
Tick ==
  /\ rows' = [j \in Jobs |-> IF rows[j] = None THEN None
                             ELSE Elapsed(rows[j])]
  /\ age' = [e \in Executors |-> IF pc[e] = "run" /\ age[e] < Longest
                                   THEN age[e] + 1 ELSE age[e]]
  /\ nap' = [e \in Executors |-> IF pc[e] = "sleep" THEN Elapse(nap[e]) ELSE nap[e]]
  /\ UNCHANGED <<issued, up, registered, pc, cancelled, batch, current, queue,
                 owed, left, history>>

-----------------------------------------------------------------------------
Trampoline(t) == Poll(t) \/ Wake(t) \/ StartJob(t) \/ FinishJob(t)
                   \/ Die(t) \/ DoneCallback(t)
Work          == Take \/ StartJob(Worker) \/ FinishJob(Worker)
Startup       == ResetStale \/ Bootstrap
Serve(j)      == Create(j) \/ Update(j) \/ RunNow(j) \/ Remove(j)

Next ==
  \/ \E t \in Tasks : Trampoline(t)
  \/ Work \/ Restart \/ Startup \/ Tick \/ Crash
  \/ \E j \in Jobs : Serve(j)
  \/ \E e \in Executors : DatabaseFails(e)

Spec == Init /\ [][Next]_vars

\* The event loop runs every ready task and callback, statements and handlers
\* end, the process is started again and time passes.
Fairness ==
  /\ \A t \in Tasks : WF_vars(Trampoline(t))
  /\ WF_vars(Work) /\ WF_vars(Restart) /\ WF_vars(Startup) /\ WF_vars(Tick)

FairSpec == Spec /\ Fairness

-----------------------------------------------------------------------------

\* Every variable has its type.
TypeOK ==
  /\ rows \in [Jobs -> RowSet \cup {None}]
  /\ issued \subseteq Jobs
  /\ up \in {"down", "reset", "up"}
  /\ registered \in Tasks \cup {None}
  /\ pc \in [Executors -> {"free", "idle", "done"} \cup Awaiting]
  /\ cancelled \subseteq Tasks
  /\ batch \in [Executors -> SUBSET Snapshots]
  /\ current \in [Executors -> Snapshots \cup {None}]
  /\ age \in [Executors -> Nat]
  /\ nap \in [Executors -> Nat]
  /\ queue \in Seq(Snapshots)
  /\ owed \in Nat
  /\ left \in [Budgets -> Nat]
  /\ recorded \in [Jobs -> Counts]
  /\ overlapped \subseteq Jobs
  /\ orphans \subseteq Tasks
  /\ cut \subseteq Jobs
  /\ outage \in BOOLEAN

\* The registry never holds a task that was told to stop: whoever cancels a
\* task unregisters it, and no callback puts it back.
RegisteredIsCurrent ==
  registered # None => registered \notin cancelled /\ pc[registered] # "free"

\* While the process is up, an active job with an interval has a trampoline
\* that will poll it, or a request on the way to start one, unless a failed
\* statement has ended a trampoline.
EveryJobIsPolled ==
  up = "up" /\ Scheduled # {} /\ ~outage => owed > 0 \/ \E t \in Tasks : Live(t)

\* A trampoline runs unregistered, beside the registered one, only after the
\* done callback of a task it had replaced took it for that task.
SurplusOnlyByCallback ==
  \A t \in Tasks : Live(t) => t = registered \/ t \in orphans

\* A row says "running" only while an executor works on it, unless its last
\* execution was cut short by a restart, a failed statement or a crash.
RunningIsExecuted ==
  \A j \in Jobs : rows[j] # None /\ rows[j].status = "running" =>
    j \in cut \/ \E e \in Executors : current[e] # None /\ current[e].job = j

\* run_count is the number of executions whose end was recorded, as long as no
\* two executors had read the row of the job at the same time.
CountIsTotal ==
  \A j \in Jobs \ overlapped : rows[j] # None => rows[j].count = recorded[j]

\* An active job with an interval is executed again and again, also across
\* restarts of its trampoline and of the process, until it is paused or
\* deleted or a failed statement has ended a trampoline.
EveryJobIsExecuted ==
  \A j \in Jobs, k \in Counts :
    j \in Scheduled /\ recorded[j] = k ~>
      j \notin Scheduled \/ recorded[j] # k \/ outage

\* Every job somebody asked to run now leaves the queue, whatever the runs
\* before it came to: one failing run does not stop the worker.
QueueDrains == queue # <<>> ~> queue = <<>>

=============================================================================
