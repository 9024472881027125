-------------------------- MODULE SchedulerProofs --------------------------
(***************************************************************************)
(* Proofs about Scheduler, for any number of jobs, tasks and requests.     *)
(*                                                                         *)
(* What the properties need beside themselves: a task that is free to be   *)
(* a new one is not marked as cancelled, so a restart gives a live task;   *)
(* and an executor remembers a snapshot exactly while it executes it.  For *)
(* the counters: unless two executors had a snapshot of a job at a time,   *)
(* the snapshot an executor has counts what the row counts; and nobody     *)
(* sets the next run of a job that waits in a batch.                       *)
(***************************************************************************)
EXTENDS Scheduler, TLAPS

FreshTasks == \A t \in cancelled : pc[t] # "free"

Executing == \A e \in Executors : pc[e] = "run" <=> current[e] # None

SInv == /\ TypeOK
        /\ FreshTasks
        /\ Executing
        /\ RegisteredIsCurrent
        /\ EveryJobIsPolled
        /\ SurplusOnlyByCallback
        /\ RunningIsExecuted

-----------------------------------------------------------------------------
(* Operators.                                                              *)

LEMMA CountFacts ==
  /\ 0 \in Counts
  /\ \A n \in Counts : Increment(n) \in Counts
  /\ \A n \in Nat : Elapse(n) \in Nat
<1>1. CountBase \in Nat /\ CountBase > 1
  BY BoundsAssumption
<1>2. \A n \in Nat : (n + 1) % CountBase \in 0..CountBase-1
  BY <1>1
<1> QED
  BY <1>1, <1>2 DEF Counts, Increment, Elapse

LEMMA RowFacts ==
  ASSUME NEW a \in BOOLEAN, NEW d \in Nat, NEW st \in Statuses, NEW n \in Counts
  PROVE  /\ Row(a, d, st, n) \in RowSet
         /\ Row(a, d, st, n).active = a /\ Row(a, d, st, n).due = d
         /\ Row(a, d, st, n).status = st /\ Row(a, d, st, n).count = n
<1>1. Row(a, d, st, n).active = a
  BY Zenon DEF Row
<1>2. /\ Row(a, d, st, n).due = d
      /\ Row(a, d, st, n).status = st /\ Row(a, d, st, n).count = n
  BY DEF Row
<1>3. Row(a, d, st, n) \in RowSet
  BY Zenon DEF Row, RowSet
<1> QED
  BY <1>1, <1>2, <1>3, Zenon

LEMMA FieldFacts ==
  ASSUME NEW row \in RowSet
  PROVE  row.active \in BOOLEAN /\ row.due \in Nat
         /\ row.status \in Statuses /\ row.count \in Counts
BY DEF RowSet

LEMMA StatusFacts ==
  ASSUME NEW row \in RowSet, NEW st \in Statuses
  PROVE  /\ WithStatus(row, st) \in RowSet
         /\ WithStatus(row, st).active = row.active
         /\ WithStatus(row, st).status = st
BY RowFacts, FieldFacts DEF WithStatus

LEMMA ElapsedFacts ==
  ASSUME NEW row \in RowSet
  PROVE  /\ Elapsed(row) \in RowSet
         /\ Elapsed(row).active = row.active
         /\ Elapsed(row).status = row.status
<1>1. /\ row.active \in BOOLEAN /\ Elapse(row.due) \in Nat
      /\ row.status \in Statuses /\ row.count \in Counts
  BY FieldFacts, CountFacts
<1>2. Elapsed(row) \in RowSet
  BY <1>1, Zenon DEF Elapsed, Row, RowSet
<1>3. Elapsed(row).active = row.active
  BY Zenon DEF Elapsed, Row
<1>4. Elapsed(row).status = row.status
  BY DEF Elapsed, Row
<1> QED
  BY <1>2, <1>3, <1>4, Zenon

LEMMA ExecutionIsTyped ==
  ASSUME NEW j \in Jobs, NEW row \in RowSet, NEW s \in Snapshots,
         NEW started \in Nat, NEW verdict \in {"success", "error"},
         NEW paused \in BOOLEAN
  PROVE  /\ AfterExecution(j, row, s, started, verdict, paused) \in RowSet
         /\ AfterExecution(j, row, s, started, verdict, paused).status = verdict
         /\ AfterExecution(j, row, s, started, verdict, paused).active => row.active
<1>1. NextRun(j, row, started) \in Nat
  BY IntervalAssumption, FieldFacts DEF NextRun
<1>2. Increment(s.count) \in Counts
  BY CountFacts DEF Snapshots
<1>3. verdict \in Statuses
  BY DEF Statuses
<1>4. (row.active /\ ~paused) \in BOOLEAN
  OBVIOUS
<1> DEFINE d == NextRun(j, row, started)
           n == Increment(s.count)
           a == row.active /\ ~paused
<1>5. AfterExecution(j, row, s, started, verdict, paused) = Row(a, d, verdict, n)
  BY Zenon DEF AfterExecution
<1>6. /\ Row(a, d, verdict, n) \in RowSet
      /\ Row(a, d, verdict, n).status = verdict
      /\ Row(a, d, verdict, n).active = a
  <2> HIDE DEF a, d, n
  <2>1. a \in BOOLEAN /\ d \in Nat /\ n \in Counts
    BY <1>1, <1>2, <1>4, Zenon DEF a, d, n
  <2>2. Row(a, d, verdict, n) \in RowSet
    BY <2>1, <1>3, Zenon DEF Row, RowSet
  <2>3. Row(a, d, verdict, n).status = verdict
    BY DEF Row
  <2>4. Row(a, d, verdict, n).active = a
    BY Zenon DEF Row
  <2> QED
    BY <2>2, <2>3, <2>4, Zenon
<1>7. a => row.active
  BY Zenon
<1> QED
  BY <1>5, <1>6, <1>7, Zenon

LEMMA LeaveIsTyped ==
  ASSUME TypeOK, NEW e \in Executors, Leave(e)
  PROVE  /\ pc' \in [Executors -> {"free", "idle", "done"} \cup Awaiting]
         /\ batch' \in [Executors -> SUBSET Snapshots]
         /\ current' \in [Executors -> Snapshots \cup {None}]
         /\ age' \in [Executors -> Nat]
         /\ nap' \in [Executors -> Nat]
BY DEF Leave, TypeOK

LEMMA RunTaskIsTyped ==
  ASSUME TypeOK, RunTask
  PROVE  /\ pc' \in [Executors -> {"free", "idle", "done"} \cup Awaiting]
         /\ registered' \in Tasks \cup {None}
         /\ cancelled' \subseteq Tasks
BY DEF RunTask, TypeOK, Awaiting, Executors

LEMMA CutIsTyped ==
  ASSUME TypeOK, NEW e \in Executors
  PROVE  CutShort(e) \subseteq Jobs
BY DEF CutShort, TypeOK, Snapshots

-----------------------------------------------------------------------------
(* Types.                                                                  *)

LEMMA TypeInit == Init => TypeOK
<1> SUFFICES ASSUME Init PROVE TypeOK
  OBVIOUS
<1>1. "none" \in Statuses /\ 0 \in Nat /\ TRUE \in BOOLEAN /\ FALSE \in BOOLEAN
  BY DEF Statuses
<1>2. Row(TRUE, 0, "none", 0) \in RowSet /\ Row(FALSE, 0, "none", 0) \in RowSet
  BY <1>1, CountFacts, RowFacts
<1>3. rows \in [Jobs -> RowSet \cup {None}]
  BY <1>2 DEF Init
<1>4. left \in [Budgets -> Nat]
  BY BoundsAssumption DEF Init, Budgets
<1>5. pc \in [Executors -> {"free", "idle", "done"} \cup Awaiting]
  BY DEF Init
<1>6. /\ batch \in [Executors -> SUBSET Snapshots]
      /\ current \in [Executors -> Snapshots \cup {None}]
      /\ age \in [Executors -> Nat]
      /\ nap \in [Executors -> Nat]
  BY DEF Init
<1>7. recorded \in [Jobs -> Counts]
  BY CountFacts DEF Init
<1>8. outage \in BOOLEAN
  BY Zenon DEF Init
<1>9. /\ issued \subseteq Jobs /\ up \in {"down", "reset", "up"}
      /\ registered \in Tasks \cup {None} /\ cancelled \subseteq Tasks
      /\ queue \in Seq(Snapshots) /\ owed \in Nat
      /\ overlapped \subseteq Jobs /\ orphans \subseteq Tasks
      /\ cut \subseteq Jobs
  BY DEF Init
<1> QED
  BY <1>3, <1>4, <1>5, <1>6, <1>7, <1>8, <1>9 DEF TypeOK

LEMMA TypeTask ==
  ASSUME TypeOK, Executing, NEW t \in Tasks,
         Poll(t) \/ Wake(t) \/ Die(t) \/ DoneCallback(t)
  PROVE  TypeOK'
<1>0. t \in Executors
  BY DEF Executors
<1>1. CASE Poll(t)
  <2>1. UNCHANGED <<database, up, registered, cancelled, queue, owed, left,
                    recorded, orphans, cut, outage>>
    BY <1>1 DEF Poll
  <2>2. CASE Leave(t) /\ UNCHANGED overlapped
    BY <1>0, <2>1, <2>2, LeaveIsTyped DEF TypeOK, database
  <2>3. CASE ~(Leave(t) /\ UNCHANGED overlapped)
    <3> DEFINE due == {j \in Scheduled : rows[j].due = 0}
    <3>1. \A j \in due : j \in Jobs /\ Snapshot(j) \in Snapshots
      BY DEF Scheduled, TypeOK, Snapshot, Snapshots, RowSet
    <3>2. \A j \in Scheduled : Interval[j] \in Nat
      BY IntervalAssumption DEF Scheduled
    <3>3. /\ pc' = [pc EXCEPT ![t] = IF due = {} THEN "sleep" ELSE "mark"]
          /\ batch' = [batch EXCEPT ![t] = {Snapshot(j) : j \in due}]
          /\ \E n \in {Interval[j] : j \in Scheduled} : nap' = [nap EXCEPT ![t] = n]
          /\ overlapped' = overlapped \cup {j \in due : Held(j)}
          /\ UNCHANGED <<current, age>>
      BY <1>1, <2>3 DEF Poll
    <3> HIDE DEF due
    <3>4. {Snapshot(j) : j \in due} \subseteq Snapshots
      BY <3>1
    <3>5. nap' \in [Executors -> Nat]
      BY <1>0, <3>2, <3>3 DEF TypeOK
    <3>6. /\ pc' \in [Executors -> {"free", "idle", "done"} \cup Awaiting]
          /\ batch' \in [Executors -> SUBSET Snapshots]
          /\ overlapped' \subseteq Jobs
      BY <1>0, <3>1, <3>3, <3>4 DEF TypeOK, Awaiting
    <3> QED
      BY <2>1, <3>3, <3>5, <3>6 DEF TypeOK, database
  <2> QED
    BY <2>2, <2>3
<1>2. CASE Wake(t)
  BY <1>0, <1>2 DEF Wake, TypeOK, database, history, Awaiting
<1>3. CASE Die(t)
  BY <1>0, <1>3, LeaveIsTyped, CutIsTyped DEF Die, TypeOK, database
<1>4. CASE DoneCallback(t)
  BY <1>0, <1>4 DEF DoneCallback, TypeOK, database, Awaiting
<1> QED
  BY <1>1, <1>2, <1>3, <1>4

LEMMA TypeExecute ==
  ASSUME TypeOK, Executing, NEW e \in Executors,
         StartJob(e) \/ FinishJob(e) \/ DatabaseFails(e)
  PROVE  TypeOK'
<1>1. CASE StartJob(e)
  <2>1. PICK s \in batch[e] :
          /\ rows' = [rows EXCEPT ![s.job] =
                        IF @ = None THEN None ELSE WithStatus(@, "running")]
          /\ IF e \in cancelled
               THEN Leave(e) /\ cut' = cut \cup {s.job}
               ELSE /\ pc'      = [pc EXCEPT ![e] = "run"]
                    /\ batch'   = [batch EXCEPT ![e] = @ \ {s}]
                    /\ current' = [current EXCEPT ![e] = s]
                    /\ age'     = [age EXCEPT ![e] = 0]
                    /\ UNCHANGED <<nap, cut>>
          /\ UNCHANGED <<issued, up, registered, cancelled, queue, owed, left,
                         recorded, overlapped, orphans, outage>>
    BY <1>1 DEF StartJob
  <2>2. s \in Snapshots /\ s.job \in Jobs
    BY DEF TypeOK, Snapshots
  <2>3. rows' \in [Jobs -> RowSet \cup {None}]
    BY <2>1, <2>2, StatusFacts DEF TypeOK, Statuses
  <2>4. CASE e \in cancelled
    BY <2>1, <2>2, <2>3, <2>4, LeaveIsTyped DEF TypeOK
  <2>5. CASE e \notin cancelled
    <3>1. /\ pc' = [pc EXCEPT ![e] = "run"]
          /\ batch' = [batch EXCEPT ![e] = @ \ {s}]
          /\ current' = [current EXCEPT ![e] = s]
          /\ age' = [age EXCEPT ![e] = 0]
          /\ UNCHANGED <<nap, cut>>
      BY <2>1, <2>5
    <3>2. batch' \in [Executors -> SUBSET Snapshots]
      BY <3>1 DEF TypeOK
    <3>3. current' \in [Executors -> Snapshots \cup {None}]
      BY <2>2, <3>1 DEF TypeOK
    <3>4. pc' \in [Executors -> {"free", "idle", "done"} \cup Awaiting]
      BY <3>1 DEF TypeOK, Awaiting
    <3>5. age' \in [Executors -> Nat]
      BY <3>1 DEF TypeOK
    <3>6. UNCHANGED <<nap, cut, issued, up, registered, cancelled, queue, owed,
                      left, recorded, overlapped, orphans, outage>>
      BY <2>1, <3>1
    <3> QED
      BY <2>3, <3>2, <3>3, <3>4, <3>5, <3>6 DEF TypeOK
  <2> QED
    BY <2>4, <2>5
<1>2. CASE FinishJob(e)
  <2> DEFINE s == current[e]
             j == s.job
  <2>1. s \in Snapshots /\ j \in Jobs
    BY <1>2 DEF FinishJob, Executing, TypeOK, Snapshots
  <2>2. PICK verdict \in {"success", "error"}, paused \in BOOLEAN :
          rows' = [rows EXCEPT ![j] =
                     IF @ = None THEN None
                     ELSE AfterExecution(j, @, s, age[e], verdict, paused)]
    BY <1>2 DEF FinishJob
  <2>3. rows[j] # None =>
          AfterExecution(j, rows[j], s, age[e], verdict, paused) \in RowSet
    <3>1. age[e] \in Nat /\ rows[j] \in RowSet \cup {None}
      BY <2>1 DEF TypeOK
    <3> HIDE DEF s, j
    <3> QED
      BY <2>1, <3>1, ExecutionIsTyped
  <2>4. rows' \in [Jobs -> RowSet \cup {None}]
    BY <2>1, <2>2, <2>3 DEF TypeOK
  <2>5. /\ recorded' \in [Jobs -> Counts]
        /\ cut' \subseteq Jobs
        /\ UNCHANGED <<issued, up, registered, cancelled, queue, owed, left,
                       overlapped, orphans, outage>>
    BY <1>2, <2>1, CountFacts DEF FinishJob, TypeOK
  <2>6. CASE Leave(e)
    BY <2>4, <2>5, <2>6, LeaveIsTyped DEF TypeOK
  <2>7. CASE ~Leave(e)
    <3>1. /\ pc' = [pc EXCEPT ![e] = IF batch[e] = {} THEN "sleep" ELSE "mark"]
          /\ current' = [current EXCEPT ![e] = None]
          /\ age' = [age EXCEPT ![e] = 0]
          /\ UNCHANGED <<batch, nap>>
      BY <1>2, <2>7 DEF FinishJob
    <3> QED
      BY <2>4, <2>5, <3>1 DEF TypeOK, Awaiting
  <2> QED
    BY <2>6, <2>7
<1>3. CASE DatabaseFails(e)
  <2>1. left' \in [Budgets -> Nat]
    BY <1>3 DEF DatabaseFails, TypeOK, Budgets
  <2>2. outage' \in BOOLEAN
    BY <1>3, Zenon DEF DatabaseFails, TypeOK
  <2> QED
    BY <1>3, <2>1, <2>2, LeaveIsTyped, CutIsTyped DEF DatabaseFails, TypeOK, database
<1> QED
  BY <1>1, <1>2, <1>3

LEMMA TypeRequest ==
  ASSUME TypeOK, NEW j \in Jobs, Serve(j)
  PROVE  TypeOK'
<1>0. CASE Request
  <2>1. left' \in [Budgets -> Nat]
    BY <1>0 DEF Request, TypeOK, Budgets
  <2>2. CASE Create(j)
    <3>1. Row(TRUE, 0, "none", 0) \in RowSet
      BY CountFacts, RowFacts DEF Statuses
    <3>2. rows' \in [Jobs -> RowSet \cup {None}]
      BY <2>2, <3>1 DEF Create, TypeOK
    <3>3. owed' \in Nat /\ issued' \subseteq Jobs
      BY <2>2 DEF Create, TypeOK
    <3>4. UNCHANGED <<up, loop, queue, history>>
      BY <2>2 DEF Create
    <3> QED
      BY <2>1, <3>2, <3>3, <3>4 DEF TypeOK, loop, history
  <2>3. CASE Update(j)
    <3>1. PICK active \in BOOLEAN :
            /\ rows[j] # None
            /\ rows' = [rows EXCEPT ![j] = Row(active, @.due, @.status, @.count)]
            /\ owed' = IF active THEN owed + 1 ELSE owed
            /\ UNCHANGED <<issued, up, loop, queue, history>>
      BY <2>3 DEF Update
    <3>2. rows[j] \in RowSet
      BY <3>1 DEF TypeOK
    <3>3. Row(active, rows[j].due, rows[j].status, rows[j].count) \in RowSet
      <4>1. rows[j].due \in Nat /\ rows[j].status \in Statuses
            /\ rows[j].count \in Counts
        BY <3>2, FieldFacts
      <4> QED
        BY <4>1, Zenon DEF Row, RowSet
    <3>4. rows' \in [Jobs -> RowSet \cup {None}]
      BY <3>1, <3>3 DEF TypeOK
    <3>5. owed' \in Nat
      BY <3>1 DEF TypeOK
    <3> QED
      BY <2>1, <3>1, <3>4, <3>5 DEF TypeOK, loop, history
  <2>4. CASE RunNow(j)
    <3>1. Snapshot(j) \in Snapshots
      BY <2>4 DEF RunNow, Snapshot, Snapshots, TypeOK, RowSet
    <3>2. queue' \in Seq(Snapshots)
      BY <2>4, <3>1 DEF RunNow, TypeOK
    <3>3. overlapped' \subseteq Jobs
      BY <2>4 DEF RunNow, TypeOK
    <3> QED
      BY <2>1, <2>4, <3>2, <3>3 DEF RunNow, TypeOK, loop, database
  <2>5. CASE Remove(j)
    BY <2>1, <2>5 DEF Remove, TypeOK, loop, history
  <2> QED
    BY <2>2, <2>3, <2>4, <2>5 DEF Serve
<1> QED
  BY <1>0 DEF Serve, Create, Update, RunNow, Remove

LEMMA TypeSystem ==
  ASSUME TypeOK, Take \/ Restart \/ Startup \/ Tick \/ Crash
  PROVE  TypeOK'
<1>1. CASE Take
  <2>1. queue' \in Seq(Snapshots) /\ Head(queue) \in Snapshots
    BY <1>1 DEF Take, TypeOK
  <2>2. Worker \in Executors
    BY DEF Executors
  <2>3. /\ pc' \in [Executors -> {"free", "idle", "done"} \cup Awaiting]
        /\ batch' \in [Executors -> SUBSET Snapshots]
    BY <1>1, <2>1, <2>2 DEF Take, TypeOK, Awaiting
  <2> QED
    BY <1>1, <2>1, <2>3 DEF Take, TypeOK, database, history
<1>2. CASE Restart
  BY <1>2, RunTaskIsTyped DEF Restart, TypeOK, database, history
<1>3. CASE ResetStale
  <2>1. \A j \in Jobs : rows[j] # None => WithStatus(rows[j], "stale") \in RowSet
    BY StatusFacts DEF TypeOK, Statuses
  <2>2. rows' \in [Jobs -> RowSet \cup {None}]
    BY <1>3, <2>1 DEF ResetStale, TypeOK
  <2> QED
    BY <1>3, <2>2 DEF ResetStale, TypeOK, loop, history
<1>4. CASE Bootstrap
  <2>1. CASE RunTask
    BY <1>4, <2>1, RunTaskIsTyped DEF Bootstrap, TypeOK, database, history
  <2>2. CASE UNCHANGED <<registered, pc, cancelled>>
    BY <1>4, <2>2 DEF Bootstrap, TypeOK, database, history
  <2> QED
    BY <1>4, <2>1, <2>2 DEF Bootstrap
<1>5. CASE Tick
  <2>1. \A j \in Jobs : rows[j] # None => Elapsed(rows[j]) \in RowSet
    BY ElapsedFacts DEF TypeOK
  <2>2. rows' \in [Jobs -> RowSet \cup {None}]
    BY <1>5, <2>1 DEF Tick, TypeOK
  <2>3. age' \in [Executors -> Nat]
    BY <1>5 DEF Tick, TypeOK
  <2>4. nap' \in [Executors -> Nat]
    BY <1>5, CountFacts DEF Tick, TypeOK
  <2> QED
    BY <1>5, <2>2, <2>3, <2>4 DEF Tick, TypeOK, history
<1>6. CASE Crash
  <2>1. left' \in [Budgets -> Nat]
    BY <1>6 DEF Crash, TypeOK, Budgets
  <2>2. /\ pc' \in [Executors -> {"free", "idle", "done"} \cup Awaiting]
        /\ batch' \in [Executors -> SUBSET Snapshots]
        /\ current' \in [Executors -> Snapshots \cup {None}]
        /\ age' \in [Executors -> Nat]
        /\ nap' \in [Executors -> Nat]
    BY <1>6 DEF Crash
  <2>3. cut' \subseteq Jobs
    BY <1>6 DEF Crash, TypeOK, Snapshots
  <2>4. queue' \in Seq(Snapshots) /\ outage' \in BOOLEAN
    <3>1. queue' = <<>> /\ outage' = FALSE
      BY <1>6 DEF Crash
    <3>2. outage' \in BOOLEAN
      BY <3>1, Zenon
    <3> QED
      BY <3>1, <3>2
  <2> QED
    BY <1>6, <2>1, <2>2, <2>3, <2>4 DEF Crash, TypeOK, database
<1> QED
  BY <1>1, <1>2, <1>3, <1>4, <1>5, <1>6 DEF Startup

-----------------------------------------------------------------------------
(* Tasks: FreshTasks, RegisteredIsCurrent and SurplusOnlyByCallback.       *)

\* A step that registers, cancels and frees no task, and that starts none.
Quiet ==
  /\ UNCHANGED <<registered, cancelled, orphans>>
  /\ \A t \in Tasks : pc'[t] = "free" => pc[t] = "free"
  /\ \A t \in Tasks : pc'[t] \in Awaiting => pc[t] \in Awaiting

TaskInv == FreshTasks /\ RegisteredIsCurrent /\ SurplusOnlyByCallback

LEMMA QuietKeeps ==
  ASSUME TypeOK, TaskInv, Quiet
  PROVE  TaskInv'
<1>1. FreshTasks'
  BY DEF TypeOK, TaskInv, Quiet, FreshTasks
<1>2. RegisteredIsCurrent'
  BY DEF TypeOK, TaskInv, Quiet, RegisteredIsCurrent
<1>3. SurplusOnlyByCallback'
  BY DEF TaskInv, Quiet, SurplusOnlyByCallback, Live
<1> QED
  BY <1>1, <1>2, <1>3 DEF TaskInv

LEMMA LeaveEnds ==
  ASSUME TypeOK, NEW e \in Executors, Leave(e)
  PROVE  /\ \A x \in Executors : x # e => pc'[x] = pc[x] /\ current'[x] = current[x]
         /\ pc'[e] = IF e = Worker THEN "idle" ELSE "done"
         /\ current'[e] = None
BY DEF Leave, TypeOK

LEMMA QuietSteps ==
  ASSUME TypeOK, NEW e \in Executors,
         \/ e \in Tasks /\ (Poll(e) \/ Wake(e) \/ Die(e))
         \/ StartJob(e) \/ FinishJob(e) \/ DatabaseFails(e)
         \/ Take \/ ResetStale \/ Tick
         \/ \E j \in Jobs : Serve(j)
  PROVE  Quiet
<1>0. \A t \in Tasks : t \in Executors /\ t # Worker
  BY NoneAssumption DEF Executors
<1>1. ASSUME Leave(e), UNCHANGED <<registered, cancelled, orphans>>
      PROVE  Quiet
  BY <1>0, <1>1, LeaveEnds DEF Quiet, Awaiting
<1>2. ASSUME e \in Tasks => pc[e] \in Awaiting,
             NEW x \in Awaiting, pc' = [pc EXCEPT ![e] = x],
             UNCHANGED <<registered, cancelled, orphans>>
      PROVE  Quiet
  BY <1>0, <1>2 DEF Quiet, Awaiting, TypeOK
<1>3. CASE e \in Tasks /\ Poll(e)
  <2>1. UNCHANGED <<registered, cancelled, orphans>> /\ pc[e] \in Awaiting
    BY <1>3 DEF Poll, Awaiting
  <2>2. CASE Leave(e)
    BY <1>1, <2>1, <2>2
  <2>3. CASE ~Leave(e)
    <3>1. pc' = [pc EXCEPT ![e] = "sleep"] \/ pc' = [pc EXCEPT ![e] = "mark"]
      BY <1>3, <2>3 DEF Poll
    <3> QED
      BY <1>2, <2>1, <3>1 DEF Awaiting
  <2> QED
    BY <2>2, <2>3
<1>4. CASE e \in Tasks /\ Wake(e)
  BY <1>2, <1>4 DEF Wake, Awaiting, history
<1>5. CASE Die(e)
  BY <1>1, <1>5 DEF Die
<1>6. CASE StartJob(e)
  <2>1. UNCHANGED <<registered, cancelled, orphans>> /\ pc[e] \in Awaiting
    BY <1>6 DEF StartJob, Awaiting
  <2>2. Leave(e) \/ pc' = [pc EXCEPT ![e] = "run"]
    BY <1>6 DEF StartJob
  <2> QED
    BY <1>1, <1>2, <2>1, <2>2 DEF Awaiting
<1>7. CASE FinishJob(e)
  <2>1. UNCHANGED <<registered, cancelled, orphans>> /\ pc[e] \in Awaiting
    BY <1>7 DEF FinishJob, Awaiting
  <2>2. \/ Leave(e)
        \/ pc' = [pc EXCEPT ![e] = "sleep"]
        \/ pc' = [pc EXCEPT ![e] = "mark"]
    BY <1>7 DEF FinishJob
  <2> QED
    BY <1>1, <1>2, <2>1, <2>2 DEF Awaiting
<1>8. CASE DatabaseFails(e)
  BY <1>1, <1>8 DEF DatabaseFails
<1>9. CASE Take
  <2>1. pc' = [pc EXCEPT ![Worker] = "mark"]
        /\ UNCHANGED <<registered, cancelled, orphans>>
    BY <1>9 DEF Take, history
  <2> QED
    BY <1>0, <2>1 DEF Quiet, TypeOK
<1>10. CASE ResetStale \/ Tick \/ \E j \in Jobs : Serve(j)
  <2>1. UNCHANGED <<registered, cancelled, orphans, pc>>
    <3>1. CASE ResetStale
      BY <3>1 DEF ResetStale, loop, history
    <3>2. CASE Tick
      BY <3>2 DEF Tick, history
    <3>3. CASE \E j \in Jobs : Serve(j)
      BY <3>3 DEF Serve, Create, Update, RunNow, Remove, loop, history
    <3> QED
      BY <1>10, <3>1, <3>2, <3>3
  <2> QED
    BY <2>1 DEF Quiet
<1> QED
  BY <1>3, <1>4, <1>5, <1>6, <1>7, <1>8, <1>9, <1>10

\* What a restart comes to: a live task that is not cancelled, registered.
LEMMA RunTaskFacts ==
  ASSUME TypeOK, TaskInv, RunTask
  PROVE  \E t \in Tasks :
           /\ registered' = t /\ pc[t] = "free" /\ t \notin cancelled
           /\ pc' = [pc EXCEPT ![t] = "poll"]
           /\ cancelled \subseteq cancelled' /\ t \notin cancelled'
           /\ registered # None => registered \in cancelled' /\ pc[registered] # "free"
           /\ \A x \in cancelled' : x \in cancelled \/ (x = registered /\ x # None)
           /\ pc'[t] = "poll"
<1>1. PICK t \in Tasks :
        /\ pc[t] = "free"
        /\ pc' = [pc EXCEPT ![t] = "poll"]
        /\ registered' = t
        /\ cancelled' = IF registered = None THEN cancelled
                                             ELSE cancelled \cup {registered}
  BY DEF RunTask
<1>2. t \notin cancelled /\ (registered # None => pc[registered] # "free")
  BY <1>1 DEF TaskInv, FreshTasks, RegisteredIsCurrent
<1>3. pc'[t] = "poll"
  BY <1>1 DEF TypeOK, Executors
<1> QED
  BY <1>1, <1>2, <1>3

LEMMA RunTaskKeeps ==
  ASSUME TypeOK, TaskInv, RunTask, UNCHANGED orphans
  PROVE  TaskInv'
<1>1. PICK t \in Tasks :
        /\ registered' = t /\ pc[t] = "free" /\ t \notin cancelled
        /\ pc' = [pc EXCEPT ![t] = "poll"]
        /\ cancelled \subseteq cancelled' /\ t \notin cancelled'
        /\ registered # None => registered \in cancelled' /\ pc[registered] # "free"
        /\ \A x \in cancelled' : x \in cancelled \/ (x = registered /\ x # None)
        /\ pc'[t] = "poll"
  BY RunTaskFacts
<1>2. \A u \in Tasks : u # t => pc'[u] = pc[u]
  BY <1>1 DEF TypeOK, Executors
<1>3. FreshTasks'
  <2> SUFFICES ASSUME NEW u \in cancelled' PROVE pc'[u] # "free"
    BY DEF FreshTasks
  <2>1. u \in Tasks /\ u # t /\ pc[u] # "free"
    BY <1>1, RunTaskIsTyped DEF TypeOK, TaskInv, FreshTasks, RegisteredIsCurrent
  <2> QED
    BY <1>2, <2>1
<1>4. RegisteredIsCurrent'
  BY <1>1 DEF RegisteredIsCurrent
<1>5. SurplusOnlyByCallback'
  <2> SUFFICES ASSUME NEW u \in Tasks, Live(u)', u # registered'
               PROVE  u \in orphans'
    BY DEF SurplusOnlyByCallback
  <2>1. Live(u) /\ u # registered
    BY <1>1, <1>2, NoneAssumption DEF Live
  <2> QED
    BY <2>1 DEF TaskInv, SurplusOnlyByCallback
<1> QED
  BY <1>3, <1>4, <1>5 DEF TaskInv

LEMMA CallbackKeeps ==
  ASSUME TypeOK, TaskInv, NEW t \in Tasks, DoneCallback(t)
  PROVE  TaskInv'
<1>1. \A u \in Tasks : pc'[u] = IF u = t THEN "free" ELSE pc[u]
  BY DEF DoneCallback, TypeOK, Executors
<1>2. FreshTasks'
  BY <1>1 DEF DoneCallback, TaskInv, FreshTasks, TypeOK
<1>3. RegisteredIsCurrent'
  BY DEF DoneCallback, RegisteredIsCurrent
<1>4. SurplusOnlyByCallback'
  <2> SUFFICES ASSUME NEW u \in Tasks, Live(u)'
               PROVE  u \in orphans'
    BY DEF SurplusOnlyByCallback
  <2>1. u # t /\ Live(u)
    BY <1>1 DEF DoneCallback, Live, Awaiting
  <2>2. u # None
    BY NoneAssumption
  <2>3. u = registered \/ u \in orphans
    BY <2>1 DEF TaskInv, SurplusOnlyByCallback
  <2> QED
    BY <2>1, <2>2, <2>3 DEF DoneCallback
<1> QED
  BY <1>2, <1>3, <1>4 DEF TaskInv

LEMMA CrashKeeps ==
  ASSUME Crash
  PROVE  TaskInv'
<1>1. cancelled' = {} /\ registered' = None
  BY DEF Crash
<1>2. \A t \in Tasks : pc'[t] = "free"
  BY NoneAssumption DEF Crash, Executors
<1> QED
  BY <1>1, <1>2 DEF TaskInv, FreshTasks, RegisteredIsCurrent,
                    SurplusOnlyByCallback, Live, Awaiting

-----------------------------------------------------------------------------
(* Executors: Executing.                                                   *)

LEMMA ElsewhereKeepsExecuting ==
  ASSUME TypeOK, Executing, NEW e \in Executors, NEW x,
         pc[e] # "run", x # "run", pc' = [pc EXCEPT ![e] = x], UNCHANGED current
  PROVE  Executing'
BY DEF TypeOK, Executing

LEMMA LeaveKeepsExecuting ==
  ASSUME TypeOK, Executing, NEW e \in Executors, Leave(e)
  PROVE  Executing'
BY LeaveEnds DEF Executing

LEMMA RunTaskKeepsExecuting ==
  ASSUME TypeOK, Executing, RunTask, UNCHANGED current
  PROVE  Executing'
<1>1. PICK t \in Tasks : pc[t] = "free" /\ pc' = [pc EXCEPT ![t] = "poll"]
  BY DEF RunTask
<1>2. t \in Executors
  BY DEF Executors
<1> QED
  BY <1>1, <1>2, ElsewhereKeepsExecuting

LEMMA ExecutingStep == TypeOK /\ Executing /\ [Next]_vars => Executing'
<1> SUFFICES ASSUME TypeOK, Executing, [Next]_vars PROVE Executing'
  OBVIOUS
<1>0. Tasks \subseteq Executors /\ Worker \in Executors
  BY DEF Executors
<1>1. ASSUME NEW t \in Tasks, Poll(t) PROVE Executing'
  <2>1. CASE Leave(t)
    BY <1>0, <2>1, LeaveKeepsExecuting
  <2>2. CASE ~Leave(t)
    <3>1. /\ pc[t] # "run" /\ UNCHANGED current
          /\ pc' = [pc EXCEPT ![t] = "sleep"] \/ pc' = [pc EXCEPT ![t] = "mark"]
      BY <1>1, <2>2 DEF Poll
    <3> QED
      BY <1>0, <3>1, ElsewhereKeepsExecuting
  <2> QED
    BY <2>1, <2>2
<1>2. ASSUME NEW t \in Tasks, Wake(t) PROVE Executing'
  <2>1. pc[t] # "run" /\ UNCHANGED current /\ pc' = [pc EXCEPT ![t] = "poll"]
    BY <1>2 DEF Wake
  <2> QED
    BY <1>0, <2>1, ElsewhereKeepsExecuting
<1>3. ASSUME NEW t \in Tasks, Die(t) PROVE Executing'
  BY <1>0, <1>3, LeaveKeepsExecuting DEF Die
<1>4. ASSUME NEW t \in Tasks, DoneCallback(t) PROVE Executing'
  <2>1. pc[t] # "run" /\ UNCHANGED current /\ pc' = [pc EXCEPT ![t] = "free"]
    BY <1>4 DEF DoneCallback
  <2> QED
    BY <1>0, <2>1, ElsewhereKeepsExecuting
<1>5. ASSUME NEW e \in Executors, StartJob(e) PROVE Executing'
  <2>1. CASE Leave(e)
    BY <2>1, LeaveKeepsExecuting
  <2>2. CASE ~Leave(e)
    <3>1. PICK s \in batch[e] : /\ pc' = [pc EXCEPT ![e] = "run"]
                                /\ current' = [current EXCEPT ![e] = s]
      BY <1>5, <2>2 DEF StartJob
    <3>2. s # None
      BY NoneAssumption DEF TypeOK
    <3> QED
      BY <3>1, <3>2 DEF TypeOK, Executing
  <2> QED
    BY <2>1, <2>2
<1>6. ASSUME NEW e \in Executors, FinishJob(e) PROVE Executing'
  <2>1. CASE Leave(e)
    BY <2>1, LeaveKeepsExecuting
  <2>2. CASE ~Leave(e)
    <3>1. /\ current' = [current EXCEPT ![e] = None]
          /\ pc' = [pc EXCEPT ![e] = "sleep"] \/ pc' = [pc EXCEPT ![e] = "mark"]
      BY <1>6, <2>2 DEF FinishJob
    <3> QED
      BY <3>1 DEF TypeOK, Executing
  <2> QED
    BY <2>1, <2>2
<1>7. ASSUME NEW e \in Executors, DatabaseFails(e) PROVE Executing'
  BY <1>7, LeaveKeepsExecuting DEF DatabaseFails
<1>8. CASE Take
  <2>1. /\ pc[Worker] # "run" /\ UNCHANGED current
        /\ pc' = [pc EXCEPT ![Worker] = "mark"]
    BY <1>8 DEF Take
  <2> QED
    BY <1>0, <2>1, ElsewhereKeepsExecuting
<1>9. CASE Restart
  BY <1>9, RunTaskKeepsExecuting DEF Restart
<1>10. CASE Startup
  <2>1. CASE RunTask
    BY <1>10, <2>1, RunTaskKeepsExecuting DEF Startup, ResetStale, Bootstrap, loop
  <2>2. CASE UNCHANGED pc
    BY <1>10, <2>2 DEF Startup, ResetStale, Bootstrap, loop, Executing
  <2> QED
    BY <1>10, <2>1, <2>2 DEF Startup, ResetStale, Bootstrap, loop
<1>11. CASE Crash
  BY <1>11 DEF Crash, Executing
<1>12. CASE Tick \/ UNCHANGED vars \/ \E j \in Jobs : Serve(j)
  BY <1>12 DEF Tick, vars, Serve, Create, Update, RunNow, Remove, loop, Executing
<1> QED
  BY <1>0, <1>1, <1>2, <1>3, <1>4, <1>5, <1>6, <1>7, <1>8, <1>9, <1>10, <1>11,
     <1>12 DEF Next, Trampoline, Work

-----------------------------------------------------------------------------
(* The whole of TypeOK and of TaskInv.                                     *)

LEMMA TypeStep == TypeOK /\ Executing /\ [Next]_vars => TypeOK'
<1> SUFFICES ASSUME TypeOK, Executing, [Next]_vars PROVE TypeOK'
  OBVIOUS
<1>0. Tasks \subseteq Executors /\ Worker \in Executors
  BY DEF Executors
<1>1. CASE UNCHANGED vars
  BY <1>1 DEF TypeOK, vars
<1>2. ASSUME NEW t \in Tasks, Poll(t) \/ Wake(t) \/ Die(t) \/ DoneCallback(t)
      PROVE  TypeOK'
  BY <1>2, TypeTask
<1>3. ASSUME NEW e \in Executors, StartJob(e) \/ FinishJob(e) \/ DatabaseFails(e)
      PROVE  TypeOK'
  BY <1>3, TypeExecute
<1>4. ASSUME NEW j \in Jobs, Serve(j)
      PROVE  TypeOK'
  BY <1>4, TypeRequest
<1>5. CASE Take \/ Restart \/ Startup \/ Tick \/ Crash
  BY <1>5, TypeSystem
<1> QED
  BY <1>0, <1>1, <1>2, <1>3, <1>4, <1>5 DEF Next, Trampoline, Work

LEMMA TaskStep == TypeOK /\ TaskInv /\ [Next]_vars => TaskInv'
<1> SUFFICES ASSUME TypeOK, TaskInv, [Next]_vars PROVE TaskInv'
  OBVIOUS
<1>0. Tasks \subseteq Executors /\ Worker \in Executors
  BY DEF Executors
<1>1. CASE UNCHANGED vars
  BY <1>1, QuietKeeps DEF Quiet, vars
<1>2. ASSUME NEW e \in Executors,
             \/ e \in Tasks /\ (Poll(e) \/ Wake(e) \/ Die(e))
             \/ StartJob(e) \/ FinishJob(e) \/ DatabaseFails(e)
      PROVE  TaskInv'
  BY <1>2, QuietSteps, QuietKeeps
<1>3. CASE Take \/ ResetStale \/ Tick \/ \E j \in Jobs : Serve(j)
  BY <1>0, <1>3, QuietSteps, QuietKeeps
<1>4. ASSUME NEW t \in Tasks, DoneCallback(t) PROVE TaskInv'
  BY <1>4, CallbackKeeps
<1>5. CASE Restart
  BY <1>5, RunTaskKeeps DEF Restart, history
<1>6. CASE Bootstrap
  <2>1. CASE RunTask
    BY <1>6, <2>1, RunTaskKeeps DEF Bootstrap, history
  <2>2. CASE UNCHANGED <<registered, pc, cancelled>>
    BY <1>6, <2>2, QuietKeeps DEF Bootstrap, history, Quiet
  <2> QED
    BY <1>6, <2>1, <2>2 DEF Bootstrap
<1>7. CASE Crash
  BY <1>7, CrashKeeps
<1> QED
  BY <1>0, <1>1, <1>2, <1>3, <1>4, <1>5, <1>6, <1>7
  DEF Next, Trampoline, Work, Startup

-----------------------------------------------------------------------------
(* Polling: EveryJobIsPolled.                                              *)

\* A step that lets no live trampoline go, schedules no job by itself, serves
\* no owed restart and does not heal an outage.
Harmless ==
  /\ up' = "up" => up = "up"
  /\ Scheduled' \subseteq Scheduled
  /\ UNCHANGED owed
  /\ outage => outage'
  /\ \A t \in Tasks : Live(t) => Live(t)'

LEMMA HarmlessKeeps ==
  ASSUME TypeOK, EveryJobIsPolled, Harmless
  PROVE  EveryJobIsPolled'
<1> SUFFICES ASSUME up' = "up", Scheduled' # {}, ~outage', ~(owed' > 0)
             PROVE  \E t \in Tasks : Live(t)'
  BY DEF EveryJobIsPolled
<1>1. up = "up" /\ Scheduled # {} /\ ~outage
  BY DEF Harmless
<1>2. ~(owed > 0)
  BY DEF Harmless
<1> QED
  BY <1>1, <1>2 DEF EveryJobIsPolled, Harmless

\* The rows an executor writes stay as active as they were.
LEMMA ScheduledShrinks ==
  ASSUME TypeOK,
         \A j \in Jobs : rows'[j] # None =>
           rows[j] # None /\ (rows'[j].active => rows[j].active)
  PROVE  Scheduled' \subseteq Scheduled
BY DEF Scheduled

LEMMA LeaveLetsGo ==
  ASSUME TypeOK, NEW e \in Executors, Leave(e), UNCHANGED cancelled,
         NEW t \in Tasks, t # e, Live(t)
  PROVE  Live(t)'
BY LeaveEnds DEF Live, Executors

LEMMA StayLetsGo ==
  ASSUME TypeOK, NEW e \in Executors, NEW x \in Awaiting,
         pc' = [pc EXCEPT ![e] = x], UNCHANGED cancelled,
         NEW t \in Tasks, Live(t)
  PROVE  Live(t)'
BY DEF TypeOK, Live, Executors

LEMMA RunTaskPolls ==
  ASSUME TypeOK, TaskInv, RunTask
  PROVE  \E t \in Tasks : Live(t)'
BY RunTaskFacts DEF Live, Awaiting

LEMMA PolledTask ==
  ASSUME TypeOK, TaskInv, EveryJobIsPolled, NEW t \in Tasks,
         Poll(t) \/ Wake(t) \/ Die(t) \/ DoneCallback(t)
  PROVE  EveryJobIsPolled'
<1>0. t \in Executors
  BY DEF Executors
<1>1. UNCHANGED <<rows, up, owed, outage>>
  BY DEF Poll, Wake, Die, DoneCallback, database, history
<1>2. Scheduled' = Scheduled
  BY <1>1 DEF Scheduled
<1>3. ASSUME \A u \in Tasks : Live(u) => Live(u)'
      PROVE  EveryJobIsPolled'
  BY <1>1, <1>2, <1>3 DEF EveryJobIsPolled
<1>4. CASE Poll(t)
  <2>1. CASE Scheduled = {}
    BY <1>2, <2>1 DEF EveryJobIsPolled
  <2>2. CASE Scheduled # {}
    <3>1. /\ UNCHANGED cancelled
          /\ pc' = [pc EXCEPT ![t] = "sleep"] \/ pc' = [pc EXCEPT ![t] = "mark"]
      BY <1>4, <2>2 DEF Poll
    <3> QED
      BY <1>0, <1>3, <3>1, StayLetsGo DEF Awaiting
  <2> QED
    BY <2>1, <2>2
<1>5. CASE Wake(t)
  <2>1. UNCHANGED cancelled /\ pc' = [pc EXCEPT ![t] = "poll"]
    BY <1>5 DEF Wake
  <2> QED
    BY <1>0, <1>3, <2>1, StayLetsGo DEF Awaiting
<1>6. CASE Die(t)
  <2>1. Leave(t) /\ UNCHANGED cancelled /\ ~Live(t)
    BY <1>6 DEF Die, Live
  <2> QED
    BY <1>0, <1>3, <2>1, LeaveLetsGo
<1>7. CASE DoneCallback(t)
  <2>1. \A u \in Tasks : u # t => pc'[u] = pc[u]
    BY <1>7 DEF DoneCallback, TypeOK, Executors
  <2>2. cancelled' \subseteq cancelled /\ ~Live(t)
    BY <1>7 DEF DoneCallback, Live, Awaiting
  <2>3. \A u \in Tasks : Live(u) => Live(u)'
    BY <2>1, <2>2 DEF Live
  <2> QED
    BY <1>3, <2>3
<1> QED
  BY <1>4, <1>5, <1>6, <1>7

LEMMA PolledExecute ==
  ASSUME TypeOK, Executing, EveryJobIsPolled, NEW e \in Executors,
         StartJob(e) \/ FinishJob(e)
  PROVE  EveryJobIsPolled'
<1>1. UNCHANGED <<up, owed, outage, cancelled>>
  BY DEF StartJob, FinishJob
<1>2. \A j \in Jobs : rows'[j] # None =>
        rows[j] # None /\ (rows'[j].active => rows[j].active)
  <2> SUFFICES ASSUME NEW j \in Jobs, rows'[j] # None
               PROVE  rows[j] # None /\ (rows'[j].active => rows[j].active)
    OBVIOUS
  <2>1. CASE rows'[j] = rows[j]
    BY <2>1, Zenon
  <2>2. CASE rows'[j] # rows[j] /\ StartJob(e)
    <3>1. rows[j] # None /\ rows'[j] = WithStatus(rows[j], "running")
      BY <2>2 DEF StartJob, TypeOK
    <3>2. rows[j] \in RowSet
      BY <3>1 DEF TypeOK
    <3>3. rows'[j].active = rows[j].active
      BY <3>1, <3>2, StatusFacts DEF Statuses
    <3> QED
      BY <3>1, <3>3, Zenon
  <2>3. CASE rows'[j] # rows[j] /\ FinishJob(e)
    <3>1. PICK verdict \in {"success", "error"}, paused \in BOOLEAN :
            /\ rows[j] # None
            /\ rows'[j] = AfterExecution(j, rows[j], current[e], age[e], verdict, paused)
      BY <2>3 DEF FinishJob, TypeOK
    <3>2. rows[j] \in RowSet /\ current[e] \in Snapshots /\ age[e] \in Nat
      BY <2>3, <3>1 DEF FinishJob, TypeOK, Executing
    <3>3. AfterExecution(j, rows[j], current[e], age[e], verdict, paused).active
            => rows[j].active
      BY <3>2, ExecutionIsTyped
    <3> QED
      BY <3>1, <3>3, Zenon
  <2> QED
    BY <2>1, <2>2, <2>3
<1>3. Scheduled' \subseteq Scheduled
  BY <1>2, ScheduledShrinks
<1>4. \A t \in Tasks : Live(t) => Live(t)'
  <2>1. \/ \E x \in Awaiting : pc' = [pc EXCEPT ![e] = x]
        \/ Leave(e) /\ (e \in Tasks => ~Live(e))
    BY NoneAssumption DEF StartJob, FinishJob, Awaiting, Live
  <2> QED
    BY <1>1, <2>1, StayLetsGo, LeaveLetsGo
<1> QED
  BY <1>1, <1>3, <1>4, HarmlessKeeps DEF Harmless, TypeOK

LEMMA PolledRest ==
  ASSUME TypeOK, TaskInv, EveryJobIsPolled,
         \/ Take \/ Restart \/ Startup \/ Tick \/ Crash
         \/ \E e \in Executors : DatabaseFails(e)
         \/ \E j \in Jobs : Serve(j)
  PROVE  EveryJobIsPolled'
<1>0. owed \in Nat /\ Worker \in Executors /\ Worker \notin Tasks
  BY NoneAssumption DEF TypeOK, Executors
<1>1. CASE Take
  <2>1. UNCHANGED <<rows, up, owed, outage, cancelled>>
        /\ pc' = [pc EXCEPT ![Worker] = "mark"]
    BY <1>1 DEF Take, database, history
  <2>2. \A t \in Tasks : Live(t) => Live(t)'
    BY <1>0, <2>1, StayLetsGo DEF Awaiting
  <2> QED
    BY <1>0, <2>1, <2>2, HarmlessKeeps DEF Harmless, Scheduled
<1>2. CASE Restart
  BY <1>2, RunTaskPolls DEF Restart, EveryJobIsPolled
<1>3. CASE ResetStale \/ Crash
  BY <1>3 DEF ResetStale, Crash, EveryJobIsPolled
<1>4. CASE Bootstrap
  <2>1. CASE RunTask
    BY <2>1, RunTaskPolls DEF EveryJobIsPolled
  <2>2. CASE ~ \E j \in Jobs : rows[j] # None /\ rows[j].active
    BY <1>4, <2>2 DEF Bootstrap, EveryJobIsPolled, Scheduled, database
  <2> QED
    BY <1>4, <2>1, <2>2 DEF Bootstrap
<1>5. CASE Tick
  <2>1. UNCHANGED <<up, owed, outage, cancelled, pc>>
    BY <1>5 DEF Tick, history
  <2>2. \A j \in Jobs : rows'[j] # None =>
          rows[j] # None /\ (rows'[j].active => rows[j].active)
    BY <1>5, ElapsedFacts, Zenon DEF Tick, Elapsed, Row
  <2>3. Scheduled' \subseteq Scheduled
    BY <2>2, ScheduledShrinks
  <2> QED
    BY <1>0, <2>1, <2>3, HarmlessKeeps DEF Harmless, Live
<1>6. ASSUME NEW e \in Executors, DatabaseFails(e) PROVE EveryJobIsPolled'
  <2>1. CASE e = Worker
    <3>1. Leave(e) /\ UNCHANGED <<rows, up, owed, cancelled>> /\ (outage => outage')
      BY <1>6 DEF DatabaseFails, database
    <3>2. \A t \in Tasks : Live(t) => Live(t)'
      BY <1>0, <2>1, <3>1, LeaveLetsGo
    <3> QED
      BY <1>0, <3>1, <3>2, HarmlessKeeps DEF Harmless, Scheduled
  <2>2. CASE e # Worker
    BY <1>6, <2>2 DEF DatabaseFails, EveryJobIsPolled
  <2> QED
    BY <2>1, <2>2
<1>7. ASSUME NEW j \in Jobs, Serve(j) PROVE EveryJobIsPolled'
  <2>1. UNCHANGED <<up, outage, cancelled, pc>>
    BY <1>7 DEF Serve, Create, Update, RunNow, Remove, loop, history
  <2>2. CASE owed' = owed + 1
    BY <1>0, <2>2 DEF EveryJobIsPolled
  <2>3. CASE owed' # owed + 1
    <3>1. UNCHANGED owed
      BY <1>7, <2>3 DEF Serve, Create, Update, RunNow, Remove
    <3>2. \/ rows' = [rows EXCEPT ![j] =
                        Row(FALSE, @.due, @.status, @.count)] /\ rows[j] # None
          \/ UNCHANGED rows
          \/ rows' = [rows EXCEPT ![j] = None]
      BY <1>7, <2>3 DEF Serve, Create, Update, RunNow, Remove, database
    <3>3. \A k \in Jobs : rows'[k] # None =>
            rows[k] # None /\ (rows'[k].active => rows[k].active)
      <4> SUFFICES ASSUME NEW k \in Jobs, rows'[k] # None
                   PROVE  rows[k] # None /\ (rows'[k].active => rows[k].active)
        OBVIOUS
      <4>1. CASE rows'[k] = rows[k]
        BY <4>1, Zenon
      <4>2. CASE rows'[k] # rows[k]
        <5>1. /\ rows[k] # None
              /\ rows'[k] = Row(FALSE, rows[k].due, rows[k].status, rows[k].count)
          BY <3>2, <4>2 DEF TypeOK
        <5>2. \A d, st, n : ~Row(FALSE, d, st, n).active
          BY Zenon DEF Row
        <5> QED
          BY <5>1, <5>2, Zenon
      <4> QED
        BY <4>1, <4>2
    <3>4. Scheduled' \subseteq Scheduled
      BY <3>3, ScheduledShrinks
    <3> QED
      BY <1>0, <2>1, <3>1, <3>4, HarmlessKeeps DEF Harmless, Live
  <2> QED
    BY <2>2, <2>3
<1> QED
  BY <1>1, <1>2, <1>3, <1>4, <1>5, <1>6, <1>7 DEF Startup

-----------------------------------------------------------------------------
(* Status: RunningIsExecuted.                                              *)

Runs(e, j) == current[e] # None /\ current[e].job = j

Accounted(j) == j \in cut \/ \E e \in Executors : Runs(e, j)

LEMMA RunningByAccount ==
  RunningIsExecuted <=> \A j \in Jobs :
    rows[j] # None /\ rows[j].status = "running" => Accounted(j)
BY DEF RunningIsExecuted, Accounted, Runs

LEMMA RunningByAccountNext ==
  RunningIsExecuted' <=> \A j \in Jobs :
    rows'[j] # None /\ rows'[j].status = "running" => Accounted(j)'
BY DEF RunningIsExecuted, Accounted, Runs

\* No row turns "running", and what accounts for one goes on accounting.
LEMMA NoNewRunning ==
  ASSUME RunningIsExecuted,
         \A j \in Jobs : rows'[j] # None /\ rows'[j].status = "running" =>
           rows[j] # None /\ rows[j].status = "running",
         \A j \in Jobs : Accounted(j) => Accounted(j)'
  PROVE  RunningIsExecuted'
BY RunningByAccount, RunningByAccountNext

\* Leaving an execution accounts for it as cut short.
LEMMA LeaveAccounts ==
  ASSUME TypeOK, NEW e \in Executors, Leave(e), cut' = CutShort(e),
         NEW j \in Jobs, Accounted(j)
  PROVE  Accounted(j)'
<1>1. \A x \in Executors : x # e => current'[x] = current[x]
  BY LeaveEnds
<1>2. CASE j \in cut
  BY <1>2 DEF CutShort, Accounted
<1>3. ASSUME NEW x \in Executors, Runs(x, j) PROVE Accounted(j)'
  <2>1. CASE x = e
    BY <1>3, <2>1 DEF CutShort, Accounted, Runs
  <2>2. CASE x # e
    BY <1>1, <1>3, <2>2 DEF Accounted, Runs
  <2> QED
    BY <2>1, <2>2
<1> QED
  BY <1>2, <1>3 DEF Accounted

LEMMA RunningStart ==
  ASSUME TypeOK, Executing, RunningIsExecuted, NEW e \in Executors, StartJob(e)
  PROVE  RunningIsExecuted'
<1>1. PICK s \in batch[e] :
        /\ rows' = [rows EXCEPT ![s.job] =
                      IF @ = None THEN None ELSE WithStatus(@, "running")]
        /\ IF e \in cancelled
             THEN Leave(e) /\ cut' = cut \cup {s.job}
             ELSE current' = [current EXCEPT ![e] = s] /\ UNCHANGED cut
  BY DEF StartJob
<1>2. current[e] = None /\ s \in Snapshots /\ s # None
  BY NoneAssumption DEF StartJob, Executing, TypeOK
<1>3. \A x \in Executors : x # e => current'[x] = current[x]
  BY <1>1, LeaveEnds DEF TypeOK
<1>4. Accounted(s.job)'
  <2>1. CASE e \in cancelled
    BY <1>1, <2>1 DEF Accounted
  <2>2. CASE e \notin cancelled
    <3>1. current'[e] = s
      BY <1>1, <2>2 DEF TypeOK
    <3> QED
      BY <1>2, <3>1 DEF Accounted, Runs
  <2> QED
    BY <2>1, <2>2
<1>5. \A j \in Jobs : Accounted(j) => Accounted(j)'
  BY <1>1, <1>2, <1>3 DEF Accounted, Runs
<1>6. \A j \in Jobs : j # s.job => rows'[j] = rows[j]
  BY <1>1 DEF TypeOK
<1> QED
  BY <1>4, <1>5, <1>6, RunningByAccount, RunningByAccountNext

LEMMA RunningFinish ==
  ASSUME TypeOK, Executing, RunningIsExecuted, NEW e \in Executors, FinishJob(e)
  PROVE  RunningIsExecuted'
<1> DEFINE s == current[e]
<1>1. s \in Snapshots /\ s # None /\ s.job \in Jobs
  BY DEF FinishJob, Executing, TypeOK, Snapshots
<1>2. PICK verdict \in {"success", "error"}, paused \in BOOLEAN :
        rows' = [rows EXCEPT ![s.job] =
                   IF @ = None THEN None
                   ELSE AfterExecution(s.job, @, s, age[e], verdict, paused)]
  BY DEF FinishJob
<1>3. rows'[s.job] # None => rows'[s.job].status # "running"
  <2> SUFFICES ASSUME rows'[s.job] # None
               PROVE  rows'[s.job].status # "running"
    OBVIOUS
  <2>1. /\ rows[s.job] \in RowSet
        /\ rows'[s.job] = AfterExecution(s.job, rows[s.job], s, age[e], verdict, paused)
    BY <1>1, <1>2 DEF TypeOK
  <2>2. age[e] \in Nat
    BY DEF TypeOK
  <2> HIDE DEF s
  <2>3. rows'[s.job].status = verdict
    BY <1>1, <2>1, <2>2, ExecutionIsTyped
  <2> QED
    BY <2>3
<1>4. \A j \in Jobs : j # s.job => rows'[j] = rows[j]
  BY <1>2 DEF TypeOK
<1>5. \A x \in Executors : x # e => current'[x] = current[x]
  BY LeaveEnds DEF FinishJob, TypeOK
<1>6. cut' = cut \ {s.job}
  BY DEF FinishJob
<1>7. \A j \in Jobs : j # s.job /\ Accounted(j) => Accounted(j)'
  BY <1>5, <1>6 DEF Accounted, Runs
<1> QED
  BY <1>3, <1>4, <1>7, RunningByAccount, RunningByAccountNext

LEMMA RunningRest ==
  ASSUME TypeOK, Executing, RunningIsExecuted,
         \/ \E t \in Tasks : Poll(t) \/ Wake(t) \/ Die(t) \/ DoneCallback(t)
         \/ \E e \in Executors : DatabaseFails(e)
         \/ Take \/ Restart \/ Startup \/ Tick \/ Crash
         \/ \E j \in Jobs : Serve(j)
  PROVE  RunningIsExecuted'
<1>0. Tasks \subseteq Executors /\ Worker \in Executors
  BY DEF Executors
<1>1. ASSUME UNCHANGED <<rows, current, cut>> PROVE RunningIsExecuted'
  BY <1>1 DEF RunningIsExecuted
<1>2. ASSUME NEW t \in Tasks, Poll(t) PROVE RunningIsExecuted'
  <2>1. current'[t] = None \/ UNCHANGED current
    BY <1>0, <1>2, LeaveEnds DEF Poll
  <2>2. current[t] = None /\ t \in Executors
    BY <1>0, <1>2 DEF Poll, Executing
  <2>3. UNCHANGED <<rows, cut>> /\ (Leave(t) \/ UNCHANGED current)
    BY <1>2 DEF Poll, database
  <2>4. \A e \in Executors : current'[e] = current[e]
    BY <2>1, <2>2, <2>3, LeaveEnds
  <2> QED
    BY <2>3, <2>4 DEF RunningIsExecuted
<1>3. ASSUME NEW t \in Tasks, Wake(t) \/ DoneCallback(t) PROVE RunningIsExecuted'
  BY <1>1, <1>3 DEF Wake, DoneCallback, database, history
<1>4. ASSUME NEW e \in Executors, Leave(e), cut' = CutShort(e), UNCHANGED rows
      PROVE  RunningIsExecuted'
  BY <1>4, LeaveAccounts, NoNewRunning
<1>5. ASSUME NEW t \in Tasks, Die(t) PROVE RunningIsExecuted'
  BY <1>0, <1>4, <1>5 DEF Die, database
<1>6. ASSUME NEW e \in Executors, DatabaseFails(e) PROVE RunningIsExecuted'
  BY <1>4, <1>6 DEF DatabaseFails, database
<1>7. CASE Take \/ Restart \/ Bootstrap
  BY <1>1, <1>7 DEF Take, Restart, Bootstrap, database, history
<1>8. CASE ResetStale \/ Tick
  <2>1. UNCHANGED <<current, cut>>
    BY <1>8 DEF ResetStale, Tick, loop, history
  <2>2. \A j \in Jobs : rows'[j] # None /\ rows'[j].status = "running" =>
          rows[j] # None /\ rows[j].status = "running"
    <3> SUFFICES ASSUME NEW j \in Jobs, rows'[j] # None,
                        rows'[j].status = "running"
                 PROVE  rows[j] # None /\ rows[j].status = "running"
      OBVIOUS
    <3>1. \/ rows'[j] = rows[j]
          \/ rows[j] # None /\ rows'[j] = Elapsed(rows[j])
          \/ rows[j] # None /\ rows'[j] = WithStatus(rows[j], "stale")
      BY <1>8 DEF ResetStale, Tick
    <3>2. rows[j] # None
      BY <3>1
    <3>3. rows[j] \in RowSet
      BY <3>2 DEF TypeOK
    <3>4. /\ Elapsed(rows[j]).status = rows[j].status
          /\ WithStatus(rows[j], "stale").status = "stale"
      BY <3>3, ElapsedFacts, StatusFacts DEF Statuses
    <3> QED
      BY <3>1, <3>2, <3>4
  <2> QED
    BY <2>1, <2>2, NoNewRunning DEF Accounted, Runs
<1>9. CASE Crash
  <2>1. UNCHANGED rows
    BY <1>9 DEF Crash, database
  <2>2. \A j \in Jobs : Accounted(j) => Accounted(j)'
    BY <1>9 DEF Crash, Accounted, Runs
  <2> QED
    BY <2>1, <2>2, NoNewRunning
<1>10. ASSUME NEW j \in Jobs, Serve(j) PROVE RunningIsExecuted'
  <2>1. UNCHANGED <<current, cut>>
    BY <1>10 DEF Serve, Create, Update, RunNow, Remove, loop, history
  <2>2. \/ UNCHANGED rows
        \/ rows' = [rows EXCEPT ![j] = None]
        \/ rows' = [rows EXCEPT ![j] = Row(TRUE, 0, "none", 0)]
        \/ /\ rows[j] # None
           /\ \E a \in BOOLEAN : rows' = [rows EXCEPT ![j] =
                                            Row(a, @.due, @.status, @.count)]
    BY <1>10 DEF Serve, Create, Update, RunNow, Remove, database
  <2>3. Row(TRUE, 0, "none", 0).status = "none"
    BY Zenon DEF Row
  <2>4. rows'[j] # None => \/ rows[j] # None /\ rows'[j].status = rows[j].status
                           \/ rows'[j].status = "none"
    <3>1. CASE UNCHANGED rows \/ rows' = [rows EXCEPT ![j] = None]
      BY <3>1 DEF TypeOK
    <3>2. CASE rows' = [rows EXCEPT ![j] = Row(TRUE, 0, "none", 0)]
      <4>1. rows'[j] = Row(TRUE, 0, "none", 0)
        BY <3>2, Zenon DEF TypeOK
      <4> QED
        BY <2>3, <4>1, Zenon
    <3>3. ASSUME rows[j] # None, NEW a \in BOOLEAN,
                 rows' = [rows EXCEPT ![j] = Row(a, @.due, @.status, @.count)]
          PROVE  rows'[j].status = rows[j].status
      <4> DEFINE row == Row(a, rows[j].due, rows[j].status, rows[j].count)
      <4>1. rows' = [rows EXCEPT ![j] = row]
        BY <3>3, Zenon
      <4>2. row.status = rows[j].status
        BY Zenon DEF Row
      <4> HIDE DEF row
      <4>3. rows'[j] = row
        BY <4>1 DEF TypeOK
      <4> QED
        BY <4>2, <4>3, Zenon
    <3> QED
      BY <2>2, <3>1, <3>2, <3>3
  <2>5. \A k \in Jobs : k # j => rows'[k] = rows[k]
    BY <2>2 DEF TypeOK
  <2>6. \A k \in Jobs : rows'[k] # None /\ rows'[k].status = "running" =>
          rows[k] # None /\ rows[k].status = "running"
    BY <2>4, <2>5
  <2> QED
    BY <2>1, <2>6, NoNewRunning DEF Accounted, Runs
<1> QED
  BY <1>2, <1>3, <1>5, <1>6, <1>7, <1>8, <1>9, <1>10 DEF Startup

-----------------------------------------------------------------------------
(* The counter: CountIsTotal.                                              *)

\* A snapshot of the job waits in an executor's batch, or in the queue.
Waits(e, j) == \E s \in batch[e] : s.job = j
Holds(e, j) == Waits(e, j) \/ Runs(e, j)
Queued(j)   == \E k \in 1..Len(queue) : queue[k].job = j

\* The row and every snapshot of the job carry the recorded count.
UpToDate(j) ==
  /\ rows[j] # None => rows[j].count = recorded[j]
  /\ \A e \in Executors : \A s \in batch[e] : s.job = j => s.count = recorded[j]
  /\ \A e \in Executors : Runs(e, j) => current[e].count = recorded[j]
  /\ \A k \in 1..Len(queue) : queue[k].job = j => queue[k].count = recorded[j]

\* There is at most one snapshot of the job: whoever records the end of an
\* execution leaves no outdated one behind.
Alone(j) ==
  /\ \A e \in Executors : ~(Runs(e, j) /\ Waits(e, j))
  /\ \A e, x \in Executors : Holds(e, j) /\ Holds(x, j) => e = x
  /\ \A e \in Executors : ~(Holds(e, j) /\ Queued(j))
  /\ \A k, m \in 1..Len(queue) : queue[k].job = j /\ queue[m].job = j => k = m

\* A job that was not created yet has left no trace.
Traceless(j) ==
  /\ rows[j] = None /\ recorded[j] = 0 /\ ~Queued(j)
  /\ \A e \in Executors : ~Holds(e, j)

Counted(j) == /\ j \notin issued => Traceless(j)
              /\ j \notin overlapped => UpToDate(j) /\ Alone(j)

CountInv == \A j \in Jobs : Counted(j)

\* A step that neither records an execution of the job nor reads its row: it
\* may drop snapshots of the job, the row, or the head of the queue.
LetsGo(j) ==
  /\ rows'[j] # None => rows[j] # None /\ rows'[j].count = rows[j].count
  /\ \A e \in Executors : \A s \in batch'[e] : s.job = j => s \in batch[e]
  /\ \A e \in Executors : Runs(e, j)' => current'[e] = current[e]
  /\ \E d \in {0, 1} : \A k \in 1..Len(queue') : queue'[k].job = j =>
       k + d \in 1..Len(queue) /\ queue'[k] = queue[k + d]
  /\ recorded'[j] = recorded[j]
  /\ issued \subseteq issued' /\ overlapped \subseteq overlapped'

LEMMA LetsGoKeeps ==
  ASSUME TypeOK, NEW j \in Jobs, Counted(j), LetsGo(j)
  PROVE  Counted(j)'
<1>1. \A e \in Executors : /\ Waits(e, j)' => Waits(e, j)
                           /\ Runs(e, j)' => Runs(e, j) /\ current'[e] = current[e]
  BY DEF LetsGo, Waits, Runs
<1>2. \A e \in Executors : Holds(e, j)' => Holds(e, j)
  BY <1>1 DEF Holds
<1>3. PICK d \in {0, 1} : \A k \in 1..Len(queue') : queue'[k].job = j =>
        k + d \in 1..Len(queue) /\ queue'[k] = queue[k + d]
  BY DEF LetsGo
<1>4. Queued(j)' => Queued(j)
  BY <1>3 DEF Queued
<1>5. Traceless(j) => Traceless(j)'
  BY <1>2, <1>4 DEF Traceless, LetsGo
<1>6. ASSUME UpToDate(j) PROVE UpToDate(j)'
  BY <1>1, <1>3, <1>6 DEF UpToDate, LetsGo
<1>7. ASSUME Alone(j) PROVE Alone(j)'
  <2>1. \A k, m \in 1..Len(queue') : queue'[k].job = j /\ queue'[m].job = j => k = m
    <3> SUFFICES ASSUME NEW k \in 1..Len(queue'), NEW m \in 1..Len(queue'),
                        queue'[k].job = j, queue'[m].job = j
                 PROVE  k = m
      OBVIOUS
    <3>1. /\ k + d \in 1..Len(queue) /\ queue[k + d].job = j
          /\ m + d \in 1..Len(queue) /\ queue[m + d].job = j
      BY <1>3
    <3>2. k + d = m + d
      BY <1>7, <3>1 DEF Alone
    <3>3. k \in Int /\ m \in Int /\ d \in Int
      BY DEF TypeOK
    <3> QED
      BY <3>2, <3>3
  <2> QED
    BY <1>1, <1>2, <1>4, <1>7, <2>1 DEF Alone
<1> QED
  BY <1>5, <1>6, <1>7 DEF Counted, LetsGo

LEMMA LeaveDrops ==
  ASSUME TypeOK, NEW e \in Executors, Leave(e)
  PROVE  \A x \in Executors : batch'[x] \subseteq batch[x] /\ current'[x] \in {current[x], None}
BY DEF Leave, TypeOK

\* Executors that only drop what they hold, rows that keep their counts.
LEMMA DroppingLetsGo ==
  ASSUME NEW j \in Jobs,
         rows'[j] # None => rows[j] # None /\ rows'[j].count = rows[j].count,
         \A x \in Executors : /\ batch'[x] \subseteq batch[x]
                              /\ current'[x] \in {current[x], None},
         queue' = queue \/ Len(queue') = 0,
         UNCHANGED <<recorded, issued, overlapped>>
  PROVE  LetsGo(j)
<1>1. \A k \in 1..Len(queue') : queue'[k].job = j =>
        k + 0 \in 1..Len(queue) /\ queue'[k] = queue[k + 0]
  BY Z3
<1> QED
  BY <1>1 DEF LetsGo, Runs

LEMMA CountsStay ==
  ASSUME NEW row, NEW st, NEW a
  PROVE  /\ WithStatus(row, st).count = row.count
         /\ Elapsed(row).count = row.count
         /\ Row(a, row.due, row.status, row.count).count = row.count
BY DEF WithStatus, Elapsed, Row

LEMMA CountOthers ==
  ASSUME TypeOK, NEW j \in Jobs,
         \/ \E t \in Tasks : Wake(t) \/ Die(t) \/ DoneCallback(t)
         \/ \E e \in Executors : DatabaseFails(e)
         \/ Restart \/ Startup \/ Tick \/ Crash
         \/ \E k \in Jobs : Update(k) \/ Remove(k)
         \/ UNCHANGED vars
  PROVE  LetsGo(j)
<1>0. Tasks \subseteq Executors
  BY DEF Executors
<1>1. ASSUME UNCHANGED <<rows, issued, batch, current, queue, recorded, overlapped>>
      PROVE  LetsGo(j)
  BY <1>1, DroppingLetsGo
<1>2. ASSUME NEW e \in Executors, Leave(e),
             UNCHANGED <<rows, issued, queue, recorded, overlapped>>
      PROVE  LetsGo(j)
  BY <1>2, LeaveDrops, DroppingLetsGo
<1>3. ASSUME NEW t \in Tasks, Wake(t) \/ DoneCallback(t) PROVE LetsGo(j)
  BY <1>1, <1>3 DEF Wake, DoneCallback, database, history
<1>4. ASSUME NEW t \in Tasks, Die(t) PROVE LetsGo(j)
  BY <1>0, <1>2, <1>4 DEF Die, database
<1>5. ASSUME NEW e \in Executors, DatabaseFails(e) PROVE LetsGo(j)
  BY <1>2, <1>5 DEF DatabaseFails, database
<1>6. CASE Restart \/ Bootstrap \/ UNCHANGED vars
  BY <1>1, <1>6 DEF Restart, Bootstrap, vars, database, history
<1>7. CASE ResetStale \/ Tick
  <2>1. UNCHANGED <<issued, batch, current, queue, recorded, overlapped>>
    BY <1>7 DEF ResetStale, Tick, loop, history
  <2>2. rows'[j] = rows[j] \/ /\ rows[j] # None
                              /\ \/ rows'[j] = WithStatus(rows[j], "stale")
                                 \/ rows'[j] = Elapsed(rows[j])
    BY <1>7 DEF ResetStale, Tick
  <2>3. rows'[j] # None => rows[j] # None /\ rows'[j].count = rows[j].count
    BY <2>2, CountsStay
  <2> QED
    BY <2>1, <2>3, DroppingLetsGo
<1>8. CASE Crash
  <2>1. Len(queue') = 0 /\ UNCHANGED <<rows, issued, recorded, overlapped>>
    BY <1>8 DEF Crash, database
  <2>2. \A x \in Executors : batch'[x] = {} /\ current'[x] = None
    BY <1>8 DEF Crash
  <2> QED
    BY <2>1, <2>2, DroppingLetsGo
<1>9. ASSUME NEW k \in Jobs, Update(k) PROVE LetsGo(j)
  <2>1. PICK a \in BOOLEAN :
          /\ rows[k] # None
          /\ rows' = [rows EXCEPT ![k] = Row(a, @.due, @.status, @.count)]
    BY <1>9 DEF Update
  <2>2. UNCHANGED <<issued, batch, current, queue, recorded, overlapped>>
    BY <1>9 DEF Update, loop, history
  <2>3. \/ rows'[j] = rows[j]
        \/ /\ rows[j] # None
           /\ rows'[j] = Row(a, rows[j].due, rows[j].status, rows[j].count)
    BY <2>1, Zenon DEF TypeOK
  <2>4. rows'[j] # None => rows[j] # None /\ rows'[j].count = rows[j].count
    BY <2>3, CountsStay, Zenon
  <2> QED
    BY <2>2, <2>4, DroppingLetsGo
<1>10. ASSUME NEW k \in Jobs, Remove(k) PROVE LetsGo(j)
  <2>1. rows'[j] = rows[j] \/ rows'[j] = None
    BY <1>10 DEF Remove, TypeOK
  <2>2. UNCHANGED <<issued, batch, current, queue, recorded, overlapped>>
    BY <1>10 DEF Remove, loop, history
  <2> QED
    BY <2>1, <2>2, DroppingLetsGo
<1> QED
  BY <1>3, <1>4, <1>5, <1>6, <1>7, <1>8, <1>9, <1>10 DEF Startup

\* A snapshot goes from the batch into execution; the row keeps its count.
LEMMA CountStart ==
  ASSUME TypeOK, NEW j \in Jobs, Counted(j), NEW e \in Executors, StartJob(e)
  PROVE  Counted(j)'
<1>1. PICK s \in batch[e] :
        /\ rows' = [rows EXCEPT ![s.job] =
                      IF @ = None THEN None ELSE WithStatus(@, "running")]
        /\ IF e \in cancelled
             THEN Leave(e)
             ELSE /\ batch'   = [batch EXCEPT ![e] = @ \ {s}]
                  /\ current' = [current EXCEPT ![e] = s]
        /\ UNCHANGED <<issued, queue, recorded, overlapped>>
  BY DEF StartJob
<1>2. rows'[j] # None => rows[j] # None /\ rows'[j].count = rows[j].count
  <2>1. \/ rows'[j] = rows[j]
        \/ rows[j] # None /\ rows'[j] = WithStatus(rows[j], "running")
    BY <1>1 DEF TypeOK
  <2> QED
    BY <2>1, CountsStay
<1>3. CASE e \in cancelled
  BY <1>1, <1>2, <1>3, LeaveDrops, DroppingLetsGo, LetsGoKeeps
<1>4. CASE e \notin cancelled
  <2>1. /\ \A x \in Executors : batch'[x] = IF x = e THEN batch[e] \ {s} ELSE batch[x]
        /\ \A x \in Executors : current'[x] = IF x = e THEN s ELSE current[x]
    BY <1>1, <1>4 DEF TypeOK
  <2>2. s # None /\ s \in Snapshots
    BY NoneAssumption DEF TypeOK
  <2>3. CASE s.job # j
    <3>1. \A k \in 1..Len(queue') : queue'[k].job = j =>
            k + 0 \in 1..Len(queue) /\ queue'[k] = queue[k + 0]
      BY <1>1, Z3
    <3>2. \A x \in Executors : Runs(x, j)' => current'[x] = current[x]
      BY <2>1, <2>3 DEF Runs
    <3>3. \A x \in Executors : \A u \in batch'[x] : u.job = j => u \in batch[x]
      BY <2>1
    <3> QED
      BY <1>1, <1>2, <3>1, <3>2, <3>3, LetsGoKeeps DEF LetsGo
  <2>4. CASE s.job = j
    <3>1. Waits(e, j) /\ Holds(e, j)
      BY <2>4 DEF Waits, Holds
    <3>2. j \in issued /\ issued' = issued /\ overlapped' = overlapped
      BY <1>1, <3>1 DEF Counted, Traceless
    <3>3. ASSUME j \notin overlapped PROVE UpToDate(j)' /\ Alone(j)'
      <4>1. UpToDate(j) /\ Alone(j)
        BY <3>3 DEF Counted
      <4>2. \A x \in Executors : x # e => ~Holds(x, j)
        BY <3>1, <4>1 DEF Alone
      <4>3. \A u \in batch[e] : u.job = j => u = s
        <5>1. \A u \in batch[e] : u.job = j => u.count = s.count
          BY <2>4, <4>1 DEF UpToDate
        <5>2. \A u \in batch[e] : u \in Snapshots
          BY DEF TypeOK
        <5> QED
          BY <2>2, <2>4, <5>1, <5>2 DEF Snapshots
      <4>4. /\ \A x \in Executors : ~Waits(x, j)'
            /\ \A x \in Executors : Runs(x, j)' => x = e
            /\ Queued(j)' <=> Queued(j)
        BY <1>1, <2>1, <4>2, <4>3 DEF Waits, Holds, Runs, Queued
      <4>5. s.count = recorded[j]
        BY <2>4, <4>1 DEF UpToDate
      <4>6. UpToDate(j)'
        BY <1>1, <1>2, <2>1, <4>1, <4>4, <4>5 DEF UpToDate, Waits
      <4>7. Alone(j)'
        BY <1>1, <3>1, <4>1, <4>4 DEF Alone, Holds
      <4> QED
        BY <4>6, <4>7
    <3> QED
      BY <3>2, <3>3 DEF Counted
  <2> QED
    BY <2>3, <2>4
<1> QED
  BY <1>3, <1>4

\* The end of an execution is recorded: the only snapshot is the one it used.
LEMMA CountFinish ==
  ASSUME TypeOK, Executing, NEW j \in Jobs, Counted(j), NEW e \in Executors, FinishJob(e)
  PROVE  Counted(j)'
<1> DEFINE s == current[e]
<1>1. s \in Snapshots /\ s # None /\ s.job \in Jobs /\ Runs(e, s.job)
  BY DEF FinishJob, Executing, TypeOK, Snapshots, Runs
<1>2. PICK verdict \in {"success", "error"}, paused \in BOOLEAN :
        rows' = [rows EXCEPT ![s.job] =
                   IF @ = None THEN None
                   ELSE AfterExecution(s.job, @, s, age[e], verdict, paused)]
  BY DEF FinishJob
<1>3. /\ recorded' = [recorded EXCEPT ![s.job] =
                        IF rows[s.job] = None THEN @ ELSE Increment(@)]
      /\ UNCHANGED <<issued, queue, overlapped>>
  BY DEF FinishJob
<1>4. /\ \A x \in Executors : /\ batch'[x] \subseteq batch[x]
                              /\ current'[x] \in {current[x], None}
      /\ current'[e] = None
  <2>1. CASE Leave(e)
    BY <2>1, LeaveDrops, LeaveEnds
  <2>2. CASE ~Leave(e)
    <3>1. current' = [current EXCEPT ![e] = None] /\ UNCHANGED batch
      BY <2>2 DEF FinishJob
    <3> QED
      BY <3>1 DEF TypeOK
  <2> QED
    BY <2>1, <2>2
<1>5. CASE s.job # j
  <2>1. rows'[j] = rows[j] /\ recorded'[j] = recorded[j]
    BY <1>1, <1>2, <1>3, <1>5 DEF TypeOK
  <2>2. \A k \in 1..Len(queue') : queue'[k].job = j =>
          k + 0 \in 1..Len(queue) /\ queue'[k] = queue[k + 0]
    BY <1>3, Z3
  <2> QED
    BY <1>3, <1>4, <2>1, <2>2, LetsGoKeeps DEF LetsGo, Runs
<1>6. CASE s.job = j
  <2>1. Runs(e, j) /\ Holds(e, j)
    BY <1>1, <1>6 DEF Holds
  <2>2. j \in issued /\ issued' = issued /\ overlapped' = overlapped
    BY <1>3, <2>1 DEF Counted, Traceless
  <2>3. ASSUME j \notin overlapped PROVE UpToDate(j)' /\ Alone(j)'
    <3>1. UpToDate(j) /\ Alone(j)
      BY <2>3 DEF Counted
    <3>2. \A x \in Executors : ~Waits(x, j) /\ (x # e => ~Holds(x, j))
      BY <2>1, <3>1 DEF Alone, Holds
    <3>3. ~Queued(j)
      BY <2>1, <3>1 DEF Alone
    <3>4. \A x \in Executors : ~Holds(x, j)'
      BY <1>4, <3>2 DEF Holds, Waits, Runs
    <3>5. ~Queued(j)'
      BY <1>3, <3>3 DEF Queued
    <3>6. rows'[j] # None => rows'[j].count = recorded'[j]
      <4> SUFFICES ASSUME rows'[j] # None PROVE rows'[j].count = recorded'[j]
        OBVIOUS
      <4>1. /\ rows[j] # None
            /\ rows'[j] = AfterExecution(j, rows[j], s, age[e], verdict, paused)
            /\ recorded'[j] = Increment(recorded[j])
        BY <1>2, <1>3, <1>6 DEF TypeOK
      <4>2. s.count = recorded[j]
        BY <2>1, <3>1 DEF UpToDate
      <4> HIDE DEF s
      <4>3. rows'[j].count = Increment(s.count)
        BY <4>1 DEF AfterExecution, Row
      <4> QED
        BY <4>1, <4>2, <4>3
    <3> QED
      BY <3>4, <3>5, <3>6 DEF UpToDate, Alone, Holds, Waits, Queued
  <2> QED
    BY <2>2, <2>3 DEF Counted
<1> QED
  BY <1>5, <1>6

\* The rows are read: whoever holds a snapshot of a due one already is noted.
LEMMA CountPoll ==
  ASSUME TypeOK, NEW j \in Jobs, Counted(j), NEW t \in Tasks, Poll(t)
  PROVE  Counted(j)'
<1>0. t \in Executors
  BY DEF Executors
<1>1. UNCHANGED <<rows, issued, queue, recorded>>
  BY DEF Poll, database
<1>2. CASE Leave(t) /\ UNCHANGED overlapped
  BY <1>0, <1>1, <1>2, LeaveDrops, DroppingLetsGo, LetsGoKeeps
<1>3. CASE ~(Leave(t) /\ UNCHANGED overlapped)
  <2> DEFINE due == {i \in Scheduled : rows[i].due = 0}
  <2>1. /\ batch' = [batch EXCEPT ![t] = {Snapshot(i) : i \in due}]
        /\ overlapped' = overlapped \cup {i \in due : Held(i)}
        /\ UNCHANGED current
    BY <1>3 DEF Poll
  <2>2. \A i \in due : rows[i] # None
    BY DEF Scheduled
  <2> HIDE DEF due
  <2>3. /\ batch'[t] = {Snapshot(i) : i \in due}
        /\ \A x \in Executors : x # t => batch'[x] = batch[x]
    BY <1>0, <2>1 DEF TypeOK
  <2>4. \A i : Snapshot(i).job = i /\ Snapshot(i).count = rows[i].count
    BY DEF Snapshot
  <2>5. CASE j \notin due
    <3>1. \A x \in Executors : \A u \in batch'[x] : u.job = j => u \in batch[x]
      BY <2>3, <2>4, <2>5
    <3>2. \A k \in 1..Len(queue') : queue'[k].job = j =>
            k + 0 \in 1..Len(queue) /\ queue'[k] = queue[k + 0]
      BY <1>1, Z3
    <3> QED
      BY <1>1, <2>1, <3>1, <3>2, LetsGoKeeps DEF LetsGo, Runs
  <2>6. CASE j \in due
    <3>1. j \in issued'
      BY <1>1, <2>2, <2>6 DEF Counted, Traceless
    <3>2. ASSUME j \notin overlapped' PROVE UpToDate(j)' /\ Alone(j)'
      <4>1. ~Held(j) /\ UpToDate(j)
        BY <2>1, <2>6, <3>2 DEF Counted
      <4>2. ~Queued(j) /\ \A x \in Executors : ~Waits(x, j) /\ ~Runs(x, j)
        BY <4>1 DEF Held, Queued, Waits, Runs
      <4>3. /\ ~Queued(j)'
            /\ \A x \in Executors : ~Runs(x, j)' /\ (x # t => ~Waits(x, j)')
        BY <1>1, <2>1, <2>3, <4>2 DEF Queued, Waits, Runs
      <4>4. \A u \in batch'[t] : u.job = j => u.count = rows[j].count
        BY <2>3, <2>4
      <4>5. UpToDate(j)'
        BY <1>1, <2>2, <2>6, <4>1, <4>3, <4>4 DEF UpToDate, Queued, Waits
      <4>6. Alone(j)'
        BY <4>3 DEF Alone, Holds, Queued
      <4> QED
        BY <4>5, <4>6
    <3> QED
      BY <3>1, <3>2 DEF Counted
  <2> QED
    BY <2>5, <2>6
<1> QED
  BY <1>2, <1>3

\* The head of the queue becomes the worker's batch.
LEMMA CountTake ==
  ASSUME TypeOK, NEW j \in Jobs, Counted(j), Take
  PROVE  Counted(j)'
<1> DEFINE s == Head(queue)
<1>1. /\ queue # <<>> /\ queue' = Tail(queue)
      /\ batch' = [batch EXCEPT ![Worker] = {s}]
      /\ UNCHANGED <<rows, issued, current, recorded, overlapped>>
  BY DEF Take, database, history
<1>2. /\ Len(queue) \in Nat /\ Len(queue) > 0 /\ s = queue[1]
      /\ Len(queue') = Len(queue) - 1
      /\ \A k \in 1..Len(queue') : k + 1 \in 1..Len(queue) /\ queue'[k] = queue[k + 1]
  BY <1>1 DEF TypeOK
<1>3. /\ Worker \in Executors /\ batch'[Worker] = {s}
      /\ \A x \in Executors : x # Worker => batch'[x] = batch[x]
  BY <1>1 DEF TypeOK, Executors
<1> HIDE DEF s
<1>4. CASE s.job # j
  <2>1. \A x \in Executors : \A u \in batch'[x] : u.job = j => u \in batch[x]
    BY <1>3, <1>4
  <2> QED
    BY <1>1, <1>2, <2>1, LetsGoKeeps DEF LetsGo, Runs
<1>5. CASE s.job = j
  <2>1. 1 \in 1..Len(queue) /\ queue[1].job = j
    BY <1>2, <1>5
  <2>2. j \in issued'
    BY <1>1, <2>1 DEF Counted, Traceless, Queued
  <2>3. ASSUME j \notin overlapped' PROVE UpToDate(j)' /\ Alone(j)'
    <3>1. UpToDate(j) /\ Alone(j)
      BY <1>1, <2>3 DEF Counted
    <3>2. \A x \in Executors : ~Waits(x, j) /\ ~Runs(x, j)
      BY <2>1, <3>1 DEF Alone, Queued, Holds
    <3>3. ~Queued(j)'
      <4>1. \A k \in 1..Len(queue) : queue[k].job = j => k = 1
        BY <2>1, <3>1 DEF Alone
      <4>2. ASSUME NEW k \in 1..Len(queue'), queue'[k].job = j PROVE FALSE
        <5>1. k + 1 \in 1..Len(queue) /\ queue[k + 1].job = j
          BY <1>2, <4>2
        <5>2. k + 1 = 1
          BY <4>1, <5>1
        <5> QED
          BY <5>2
      <4> QED
        BY <4>2 DEF Queued
    <3>4. \A x \in Executors : ~Runs(x, j)' /\ (x # Worker => ~Waits(x, j)')
      BY <1>1, <1>3, <3>2 DEF Waits, Runs
    <3>5. s.count = recorded[j]
      BY <1>2, <2>1, <3>1 DEF UpToDate
    <3>6. UpToDate(j)'
      BY <1>1, <1>3, <3>1, <3>3, <3>4, <3>5 DEF UpToDate, Waits, Queued
    <3>7. Alone(j)'
      BY <3>3, <3>4 DEF Alone, Holds, Queued
    <3> QED
      BY <3>6, <3>7
  <2> QED
    BY <2>2, <2>3 DEF Counted
<1> QED
  BY <1>4, <1>5

\* A new job starts at zero, and nobody has heard of it.
LEMMA CountCreate ==
  ASSUME TypeOK, NEW j \in Jobs, Counted(j), NEW k \in Jobs, Create(k)
  PROVE  Counted(j)'
<1>1. /\ k \notin issued /\ issued' = issued \cup {k}
      /\ rows' = [rows EXCEPT ![k] = Row(TRUE, 0, "none", 0)]
      /\ UNCHANGED <<batch, current, queue, recorded, overlapped>>
  BY DEF Create, loop, history
<1>2. CASE k # j
  <2>1. rows'[j] = rows[j]
    BY <1>1, <1>2 DEF TypeOK
  <2>2. \A m \in 1..Len(queue') : queue'[m].job = j =>
          m + 0 \in 1..Len(queue) /\ queue'[m] = queue[m + 0]
    BY <1>1, Z3
  <2> QED
    BY <1>1, <2>1, <2>2, LetsGoKeeps DEF LetsGo, Runs
<1>3. CASE k = j
  <2>1. Traceless(j)
    BY <1>1, <1>3 DEF Counted
  <2>2. rows'[j] = Row(TRUE, 0, "none", 0)
    BY <1>1, <1>3, Zenon DEF TypeOK
  <2>3. rows'[j].count = 0
    BY <2>2 DEF Row
  <2>4. ~Queued(j)' /\ \A x \in Executors : ~Waits(x, j)' /\ ~Runs(x, j)'
    BY <1>1, <2>1 DEF Traceless, Queued, Holds, Waits, Runs
  <2>5. UpToDate(j)'
    BY <1>1, <2>1, <2>3, <2>4 DEF UpToDate, Traceless, Queued, Waits
  <2>6. Alone(j)'
    BY <2>4 DEF Alone, Holds, Queued
  <2> QED
    BY <1>1, <1>3, <2>5, <2>6 DEF Counted
<1> QED
  BY <1>2, <1>3

\* The row is read for the queue: who holds a snapshot already is noted.
LEMMA CountRunNow ==
  ASSUME TypeOK, NEW j \in Jobs, Counted(j), NEW k \in Jobs, RunNow(k)
  PROVE  Counted(j)'
<1> DEFINE s == Snapshot(k)
           n == Len(queue)
<1>1. /\ rows[k] # None /\ queue' = Append(queue, s)
      /\ overlapped' = IF Held(k) THEN overlapped \cup {k} ELSE overlapped
      /\ UNCHANGED <<rows, issued, batch, current, recorded>>
  BY DEF RunNow, database, loop
<1>2. s.job = k /\ s.count = rows[k].count
  BY DEF Snapshot
<1>3. /\ n \in Nat /\ Len(queue') = n + 1 /\ queue'[n + 1] = s
      /\ \A m \in 1..n : queue'[m] = queue[m]
  BY <1>1 DEF TypeOK
<1>4. \A m \in 1..Len(queue') : m \in 1..n \/ m = n + 1
  BY <1>3
<1> HIDE DEF s
<1>5. CASE k # j
  <2>1. \A m \in 1..Len(queue') : queue'[m].job = j =>
          m + 0 \in 1..Len(queue) /\ queue'[m] = queue[m + 0]
    <3> SUFFICES ASSUME NEW m \in 1..Len(queue'), queue'[m].job = j
                 PROVE  m \in 1..n /\ m + 0 = m /\ queue'[m] = queue[m]
      OBVIOUS
    <3>1. m # n + 1
      BY <1>2, <1>3, <1>5
    <3> QED
      BY <1>3, <1>4, <3>1
  <2> QED
    BY <1>1, <2>1, LetsGoKeeps DEF LetsGo, Runs
<1>6. CASE k = j
  <2>1. j \in issued'
    BY <1>1, <1>6 DEF Counted, Traceless
  <2>2. ASSUME j \notin overlapped' PROVE UpToDate(j)' /\ Alone(j)'
    <3>1. ~Held(j) /\ UpToDate(j)
      BY <1>1, <1>6, <2>2 DEF Counted
    <3>2. ~Queued(j) /\ \A x \in Executors : ~Waits(x, j) /\ ~Runs(x, j)
      BY <3>1 DEF Held, Queued, Waits, Runs
    <3>3. \A x \in Executors : ~Waits(x, j)' /\ ~Runs(x, j)'
      BY <1>1, <3>2 DEF Waits, Runs
    <3>4. \A m \in 1..Len(queue') : queue'[m].job = j => m = n + 1
      BY <1>3, <1>4, <3>2 DEF Queued
    <3>5. s.count = recorded[j]
      BY <1>1, <1>2, <1>6, <3>1 DEF UpToDate
    <3>6. \A m \in 1..Len(queue') : queue'[m].job = j => queue'[m].count = recorded'[j]
      BY <1>1, <1>3, <3>4, <3>5
    <3>7. UpToDate(j)'
      BY <1>1, <3>1, <3>3, <3>6 DEF UpToDate, Waits
    <3>8. Alone(j)'
      BY <3>3, <3>4 DEF Alone, Holds
    <3> QED
      BY <3>7, <3>8
  <2> QED
    BY <2>1, <2>2 DEF Counted
<1> QED
  BY <1>5, <1>6

LEMMA CountInit == Init => CountInv
<1> SUFFICES ASSUME Init, NEW j \in Jobs PROVE Counted(j)
  BY DEF CountInv
<1>1. ~Queued(j) /\ \A e \in Executors : ~Waits(e, j) /\ ~Runs(e, j)
  BY DEF Init, Queued, Waits, Runs
<1>2. recorded[j] = 0 /\ (j \notin issued => rows[j] = None)
  BY DEF Init
<1>3. rows[j] # None => rows[j].count = 0
  <2>1. Row(TRUE, 0, "none", 0).count = 0 /\ Row(FALSE, 0, "none", 0).count = 0
    BY DEF Row
  <2>2. rows[j] \in {None, Row(TRUE, 0, "none", 0), Row(FALSE, 0, "none", 0)}
    BY DEF Init
  <2> QED
    BY <2>1, <2>2
<1>4. UpToDate(j)
  BY <1>1, <1>2, <1>3 DEF UpToDate, Queued, Waits
<1>5. Alone(j) /\ (j \notin issued => Traceless(j))
  BY <1>1, <1>2 DEF Alone, Traceless, Holds, Queued
<1> QED
  BY <1>4, <1>5 DEF Counted

LEMMA CountStep == TypeOK /\ Executing /\ CountInv /\ [Next]_vars => CountInv'
<1> SUFFICES ASSUME TypeOK, Executing, [Next]_vars, NEW j \in Jobs, Counted(j)
             PROVE  Counted(j)'
  BY DEF CountInv
<1>0. Tasks \subseteq Executors /\ Worker \in Executors
  BY DEF Executors
<1>1. ASSUME NEW e \in Executors, StartJob(e) \/ FinishJob(e) PROVE Counted(j)'
  BY <1>1, CountStart, CountFinish
<1>2. ASSUME NEW t \in Tasks, Poll(t) PROVE Counted(j)'
  BY <1>2, CountPoll
<1>3. CASE Take
  BY <1>3, CountTake
<1>4. ASSUME NEW k \in Jobs, Create(k) \/ RunNow(k) PROVE Counted(j)'
  BY <1>4, CountCreate, CountRunNow
<1>5. CASE \/ \E t \in Tasks : Wake(t) \/ Die(t) \/ DoneCallback(t)
           \/ \E e \in Executors : DatabaseFails(e)
           \/ Restart \/ Startup \/ Tick \/ Crash
           \/ \E k \in Jobs : Update(k) \/ Remove(k)
           \/ UNCHANGED vars
  BY <1>5, CountOthers, LetsGoKeeps
<1> QED
  BY <1>0, <1>1, <1>2, <1>3, <1>4, <1>5 DEF Next, Trampoline, Work, Serve

-----------------------------------------------------------------------------
(* The interval: what a trampoline has polled is still due when it gets to *)
(* it.                                                                     *)

\* A snapshot in a trampoline's batch is of a job that is due, although nobody
\* looks again before it is executed - unless another snapshot of the job was
\* there, as that of a request to run it now, and has been executed meanwhile.
BatchIsDue ==
  \A t \in Tasks : \A s \in batch[t] :
    s.job \in overlapped \/ rows[s.job] = None \/ rows[s.job].due = 0

\* What is due stays due, or its row goes.
StaysDue(j) ==
  rows[j] = None \/ rows[j].due = 0 => rows'[j] = None \/ rows'[j].due = 0

LEMMA DueKept ==
  ASSUME TypeOK, BatchIsDue, overlapped \subseteq overlapped',
         \A t \in Tasks : batch'[t] \subseteq batch[t],
         \A t \in Tasks : \A s \in batch'[t] : s.job \notin overlapped => StaysDue(s.job)
  PROVE  BatchIsDue'
BY DEF BatchIsDue, StaysDue

LEMMA DueFields ==
  ASSUME NEW row \in RowSet, NEW st, NEW a
  PROVE  /\ WithStatus(row, st).due = row.due
         /\ row.due = 0 => Elapsed(row).due = 0
         /\ Row(a, row.due, row.status, row.count).due = row.due
BY DEF WithStatus, Elapsed, Elapse, Row

LEMMA DueStart ==
  ASSUME TypeOK, BatchIsDue, NEW e \in Executors, StartJob(e)
  PROVE  BatchIsDue'
<1>0. \A t \in Tasks : t \in Executors
  BY DEF Executors
<1>1. PICK s \in batch[e] :
        /\ rows' = [rows EXCEPT ![s.job] =
                      IF @ = None THEN None ELSE WithStatus(@, "running")]
        /\ Leave(e) \/ batch' = [batch EXCEPT ![e] = @ \ {s}]
        /\ UNCHANGED overlapped
  BY DEF StartJob
<1>2. \A t \in Tasks : batch'[t] \subseteq batch[t]
  <2>1. CASE Leave(e)
    BY <1>0, <2>1, LeaveDrops
  <2>2. CASE batch' = [batch EXCEPT ![e] = @ \ {s}]
    BY <1>0, <2>2 DEF TypeOK
  <2> QED
    BY <1>1, <2>1, <2>2
<1>3. \A j \in Jobs : StaysDue(j)
  <2> TAKE j \in Jobs
  <2>1. rows'[j] = rows[j] \/ rows'[j] = None \/ rows'[j] = WithStatus(rows[j], "running")
    BY <1>1 DEF TypeOK
  <2>2. rows[j] = None => rows'[j] = None
    BY <1>1 DEF TypeOK
  <2>3. rows[j] # None => WithStatus(rows[j], "running").due = rows[j].due
    BY DueFields DEF TypeOK
  <2> QED
    BY <2>1, <2>2, <2>3 DEF StaysDue
<1>4. \A t \in Tasks : \A x \in batch'[t] : x.job \in Jobs
  BY <1>0, <1>2 DEF TypeOK, Snapshots
<1> QED
  BY <1>1, <1>2, <1>3, <1>4, DueKept

\* Whoever records the end of an execution sets the next run of a job that no
\* trampoline has in its batch.
LEMMA DueFinish ==
  ASSUME TypeOK, Executing, CountInv, BatchIsDue, NEW e \in Executors, FinishJob(e)
  PROVE  BatchIsDue'
<1>0. \A t \in Tasks : t \in Executors
  BY DEF Executors
<1>1. PICK k : k = current[e].job
  OBVIOUS
<1>2. k \in Jobs /\ Runs(e, k)
  BY <1>1 DEF FinishJob, Executing, TypeOK, Snapshots, Runs
<1>3. \A t \in Tasks : batch'[t] \subseteq batch[t]
  <2>1. CASE Leave(e)
    BY <1>0, <2>1, LeaveDrops
  <2>2. CASE ~Leave(e)
    BY <1>0, <2>2 DEF FinishJob, TypeOK
  <2> QED
    BY <2>1, <2>2
<1>4. \A j \in Jobs : j # k => rows'[j] = rows[j]
  BY <1>1 DEF FinishJob, TypeOK
<1>5. ASSUME NEW t \in Tasks, NEW s \in batch'[t], s.job \notin overlapped
      PROVE  StaysDue(s.job)
  <2>1. s \in batch[t] /\ s.job \in Jobs
    BY <1>0, <1>3, <1>5 DEF TypeOK, Snapshots
  <2>2. Waits(t, s.job) /\ Alone(s.job)
    BY <2>1, <1>5 DEF Waits, CountInv, Counted
  <2>3. s.job # k
    BY <1>0, <1>2, <2>2 DEF Alone, Holds
  <2> QED
    BY <1>4, <2>1, <2>3 DEF StaysDue
<1>6. overlapped' = overlapped
  BY DEF FinishJob
<1> QED
  BY <1>3, <1>5, <1>6, DueKept

LEMMA DuePoll ==
  ASSUME TypeOK, BatchIsDue, NEW t \in Tasks, Poll(t)
  PROVE  BatchIsDue'
<1>0. \A x \in Tasks : x \in Executors
  BY DEF Executors
<1>1. UNCHANGED rows /\ overlapped \subseteq overlapped'
  BY DEF Poll, database
<1>2. CASE Leave(t)
  <2>1. \A x \in Tasks : batch'[x] \subseteq batch[x]
    BY <1>0, <1>2, LeaveDrops
  <2> QED
    BY <1>1, <2>1, DueKept DEF StaysDue
<1>3. CASE ~Leave(t)
  <2> DEFINE due == {i \in Scheduled : rows[i].due = 0}
  <2>1. batch' = [batch EXCEPT ![t] = {Snapshot(i) : i \in due}]
    BY <1>3 DEF Poll
  <2>2. \A x \in Tasks : x # t => batch'[x] = batch[x]
    BY <1>0, <2>1 DEF TypeOK
  <2>3. \A s \in batch'[t] : rows[s.job].due = 0
    BY <1>0, <2>1 DEF TypeOK, Snapshot
  <2> QED
    BY <1>1, <2>2, <2>3 DEF BatchIsDue
<1> QED
  BY <1>2, <1>3

LEMMA DueRest ==
  ASSUME TypeOK, BatchIsDue,
         \/ \E t \in Tasks : Wake(t) \/ Die(t) \/ DoneCallback(t)
         \/ \E e \in Executors : DatabaseFails(e)
         \/ Take \/ Restart \/ Startup \/ Tick \/ Crash
         \/ \E j \in Jobs : Serve(j)
         \/ UNCHANGED vars
  PROVE  BatchIsDue'
<1>0. \A t \in Tasks : t \in Executors
  BY DEF Executors
<1>a. \A t \in Tasks : \A s \in batch[t] : s.job \in Jobs
  BY <1>0 DEF TypeOK, Snapshots
<1>1. ASSUME \A t \in Tasks : batch'[t] \subseteq batch[t], overlapped \subseteq overlapped',
             \A j \in Jobs : StaysDue(j)
      PROVE  BatchIsDue'
  BY <1>1, <1>a, DueKept
<1>2. ASSUME UNCHANGED rows, overlapped \subseteq overlapped',
             \A t \in Tasks : batch'[t] \subseteq batch[t]
      PROVE  BatchIsDue'
  BY <1>2, <1>1 DEF StaysDue
<1>3. ASSUME NEW e \in Executors, Leave(e), UNCHANGED <<rows, overlapped>>
      PROVE  BatchIsDue'
  BY <1>0, <1>2, <1>3, LeaveDrops
<1>4. ASSUME NEW t \in Tasks, Wake(t) \/ DoneCallback(t) PROVE BatchIsDue'
  BY <1>2, <1>4 DEF Wake, DoneCallback, database, history
<1>5. ASSUME NEW t \in Tasks, Die(t) PROVE BatchIsDue'
  BY <1>0, <1>3, <1>5 DEF Die, database
<1>6. ASSUME NEW e \in Executors, DatabaseFails(e) PROVE BatchIsDue'
  BY <1>3, <1>6 DEF DatabaseFails, database
<1>7. CASE Restart \/ Bootstrap \/ UNCHANGED vars
  BY <1>2, <1>7 DEF Restart, Bootstrap, vars, database, history
<1>8. CASE Take
  <2>1. \A t \in Tasks : batch'[t] = batch[t]
    BY <1>0, <1>8, NoneAssumption DEF Take, TypeOK
  <2> QED
    BY <1>2, <1>8, <2>1 DEF Take, database, history
<1>9. CASE Crash
  <2>1. \A t \in Tasks : batch'[t] = {}
    BY <1>0, <1>9 DEF Crash
  <2> QED
    BY <1>2, <1>9, <2>1 DEF Crash, database
<1>10. CASE ResetStale \/ Tick
  <2>1. UNCHANGED <<batch, overlapped>>
    BY <1>10 DEF ResetStale, Tick, loop, history
  <2>2. ASSUME NEW j \in Jobs PROVE StaysDue(j)
    <3>1. rows'[j] = rows[j] \/ /\ rows[j] # None
                                /\ \/ rows'[j] = WithStatus(rows[j], "stale")
                                   \/ rows'[j] = Elapsed(rows[j])
      BY <1>10 DEF ResetStale, Tick
    <3>2. rows[j] # None => /\ WithStatus(rows[j], "stale").due = rows[j].due
                            /\ rows[j].due = 0 => Elapsed(rows[j]).due = 0
      BY DueFields DEF TypeOK
    <3> QED
      BY <3>1, <3>2 DEF StaysDue
  <2> QED
    BY <1>1, <2>1, <2>2
<1>11. ASSUME NEW k \in Jobs, Create(k) \/ Remove(k) PROVE BatchIsDue'
  <2>1. UNCHANGED <<batch, overlapped>>
    BY <1>11 DEF Create, Remove, loop, history
  <2>2. ASSUME NEW j \in Jobs PROVE StaysDue(j)
    <3>1. rows'[j] = rows[j] \/ rows'[j] = None \/ rows'[j] = Row(TRUE, 0, "none", 0)
      BY <1>11 DEF Create, Remove, TypeOK
    <3>2. Row(TRUE, 0, "none", 0).due = 0
      BY DEF Row
    <3> QED
      BY <3>1, <3>2 DEF StaysDue
  <2> QED
    BY <1>1, <2>1, <2>2
<1>12. ASSUME NEW k \in Jobs, Update(k) PROVE BatchIsDue'
  <2>1. PICK a \in BOOLEAN :
          /\ rows[k] # None
          /\ rows' = [rows EXCEPT ![k] = Row(a, @.due, @.status, @.count)]
    BY <1>12 DEF Update
  <2>2. UNCHANGED <<batch, overlapped>>
    BY <1>12 DEF Update, loop, history
  <2>3. ASSUME NEW j \in Jobs PROVE StaysDue(j)
    <3>1. \/ rows'[j] = rows[j]
          \/ /\ rows[j] # None
             /\ rows'[j] = Row(a, rows[j].due, rows[j].status, rows[j].count)
      BY <2>1, Zenon DEF TypeOK
    <3>2. rows[j] # None =>
            Row(a, rows[j].due, rows[j].status, rows[j].count).due = rows[j].due
      BY DueFields DEF TypeOK
    <3> QED
      BY <3>1, <3>2, Zenon DEF StaysDue
  <2> QED
    BY <1>1, <2>2, <2>3
<1>13. ASSUME NEW k \in Jobs, RunNow(k) PROVE BatchIsDue'
  BY <1>2, <1>13 DEF RunNow, database, loop
<1> QED
  BY <1>4, <1>5, <1>6, <1>7, <1>8, <1>9, <1>10, <1>11, <1>12, <1>13 DEF Startup, Serve

LEMMA DueStep == TypeOK /\ Executing /\ CountInv /\ BatchIsDue /\ [Next]_vars => BatchIsDue'
<1> SUFFICES ASSUME TypeOK, Executing, CountInv, BatchIsDue, [Next]_vars PROVE BatchIsDue'
  OBVIOUS
<1>0. Tasks \subseteq Executors /\ Worker \in Executors
  BY DEF Executors
<1>1. ASSUME NEW e \in Executors, StartJob(e) \/ FinishJob(e) PROVE BatchIsDue'
  BY <1>1, DueStart, DueFinish
<1>2. ASSUME NEW t \in Tasks, Poll(t) PROVE BatchIsDue'
  BY <1>2, DuePoll
<1>3. CASE \/ \E t \in Tasks : Wake(t) \/ Die(t) \/ DoneCallback(t)
           \/ \E e \in Executors : DatabaseFails(e)
           \/ Take \/ Restart \/ Startup \/ Tick \/ Crash
           \/ \E j \in Jobs : Serve(j)
           \/ UNCHANGED vars
  BY <1>3, DueRest
<1> QED
  BY <1>0, <1>1, <1>2, <1>3 DEF Next, Trampoline, Work

-----------------------------------------------------------------------------
(* The theorems.                                                           *)

LEMMA InitSInv == Init => SInv
<1> SUFFICES ASSUME Init PROVE SInv
  OBVIOUS
<1>1. /\ cancelled = {} /\ registered = None /\ up = "down"
      /\ \A e \in Executors : pc[e] \in {"free", "idle"} /\ current[e] = None
      /\ \A t \in Tasks : t \in Executors
  BY DEF Init, Executors
<1>2. \A j \in Jobs : rows[j] # None => rows[j].status = "none"
  <2>1. /\ Row(TRUE, 0, "none", 0).status = "none"
        /\ Row(FALSE, 0, "none", 0).status = "none"
    BY Zenon DEF Row
  <2> QED
    BY <2>1 DEF Init
<1>3. FreshTasks /\ RegisteredIsCurrent /\ EveryJobIsPolled
  BY <1>1 DEF FreshTasks, RegisteredIsCurrent, EveryJobIsPolled
<1>4. SurplusOnlyByCallback /\ Executing
  BY <1>1 DEF SurplusOnlyByCallback, Live, Awaiting, Executing
<1>5. RunningIsExecuted
  BY <1>2 DEF RunningIsExecuted
<1> QED
  BY TypeInit, <1>3, <1>4, <1>5 DEF SInv

LEMMA StepSInv == SInv /\ [Next]_vars => SInv'
<1> SUFFICES ASSUME SInv, [Next]_vars PROVE SInv'
  OBVIOUS
<1>0. /\ TypeOK /\ Executing /\ TaskInv /\ EveryJobIsPolled /\ RunningIsExecuted
      /\ Tasks \subseteq Executors /\ Worker \in Executors
  BY DEF SInv, TaskInv, Executors
<1>1. TypeOK' /\ Executing' /\ TaskInv'
  BY <1>0, TypeStep, ExecutingStep, TaskStep
<1>2. EveryJobIsPolled'
  <2>1. CASE UNCHANGED vars
    BY <1>0, <2>1 DEF vars, EveryJobIsPolled, Scheduled, Live
  <2>2. ASSUME NEW t \in Tasks, Poll(t) \/ Wake(t) \/ Die(t) \/ DoneCallback(t)
        PROVE  EveryJobIsPolled'
    BY <1>0, <2>2, PolledTask
  <2>3. ASSUME NEW e \in Executors, StartJob(e) \/ FinishJob(e)
        PROVE  EveryJobIsPolled'
    BY <1>0, <2>3, PolledExecute
  <2>4. CASE \/ Take \/ Restart \/ Startup \/ Tick \/ Crash
             \/ \E e \in Executors : DatabaseFails(e)
             \/ \E j \in Jobs : Serve(j)
    BY <1>0, <2>4, PolledRest
  <2> QED
    BY <1>0, <2>1, <2>2, <2>3, <2>4 DEF Next, Trampoline, Work
<1>3. RunningIsExecuted'
  <2>1. CASE UNCHANGED vars
    BY <1>0, <2>1 DEF vars, RunningIsExecuted
  <2>2. ASSUME NEW e \in Executors, StartJob(e) \/ FinishJob(e)
        PROVE  RunningIsExecuted'
    BY <1>0, <2>2, RunningStart, RunningFinish
  <2>3. CASE \/ \E t \in Tasks : Poll(t) \/ Wake(t) \/ Die(t) \/ DoneCallback(t)
             \/ \E e \in Executors : DatabaseFails(e)
             \/ Take \/ Restart \/ Startup \/ Tick \/ Crash
             \/ \E j \in Jobs : Serve(j)
    BY <1>0, <2>3, RunningRest
  <2> QED
    BY <1>0, <2>1, <2>2, <2>3 DEF Next, Trampoline, Work
<1> QED
  BY <1>1, <1>2, <1>3 DEF SInv, TaskInv

THEOREM Invariance == Spec => []SInv
BY InitSInv, StepSInv, PTL DEF Spec

\* The registry, the rows, the executors and the queue hold what they should,
\* for any number of jobs, tasks, requests, failures and crashes.
THEOREM SchedulerTypes == Spec => []TypeOK
<1>1. SInv => TypeOK
  BY DEF SInv
<1> QED
  BY <1>1, Invariance, PTL

\* run_task() never leaves a task it has cancelled in the registry, however
\* late the done callbacks of the tasks before it are called.
THEOREM RegistryIsCurrent == Spec => []RegisteredIsCurrent
<1>1. SInv => RegisteredIsCurrent
  BY DEF SInv
<1> QED
  BY <1>1, Invariance, PTL

\* As long as no failed statement has ended a trampoline, an active job with
\* an interval has a live trampoline or a restart on the way: restarts, pauses
\* and callbacks in whatever order never leave it without one.
THEOREM JobsArePolled == Spec => []EveryJobIsPolled
<1>1. SInv => EveryJobIsPolled
  BY DEF SInv
<1> QED
  BY <1>1, Invariance, PTL

\* A second live trampoline only ever comes from the done callback of a task
\* it had replaced: run_task() alone never makes one.
THEOREM SurplusIsByCallback == Spec => []SurplusOnlyByCallback
<1>1. SInv => SurplusOnlyByCallback
  BY DEF SInv
<1> QED
  BY <1>1, Invariance, PTL

\* A row that says "running" is being executed, or its last execution was cut
\* short before its end was recorded.
THEOREM RunningIsTrue == Spec => []RunningIsExecuted
<1>1. SInv => RunningIsExecuted
  BY DEF SInv
<1> QED
  BY <1>1, Invariance, PTL

\* However the trampolines, the worker and the requests interleave, and across
\* crashes: run_count is the number of executions whose end was recorded, for
\* every job of which there was never more than one snapshot at a time.
THEOREM CountsAreTotals == Spec => []CountIsTotal
<1>1. SInv => TypeOK /\ Executing
  BY DEF SInv
<1>2. CountInv => CountIsTotal
  BY DEF CountInv, Counted, UpToDate, CountIsTotal
<1> QED
  BY <1>1, <1>2, CountInit, CountStep, Invariance, PTL DEF Spec

\* A trampoline executes a job only when it is due: between the poll and its
\* turn nobody sets its next run, unless two had a snapshot of it.
THEOREM ExecutedWhenDue == Spec => []BatchIsDue
<1>1. SInv => TypeOK /\ Executing
  BY DEF SInv
<1>2. Init => BatchIsDue
  BY DEF Init, BatchIsDue, Executors
<1> QED
  BY <1>1, <1>2, CountInit, CountStep, DueStep, Invariance, PTL DEF Spec

=============================================================================
