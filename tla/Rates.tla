------------------------------- MODULE Rates -------------------------------
(***************************************************************************)
(* Exchange rates: runs of ensure_exchange_rates, begun by the sync job,   *)
(* by requests for analytics and by a script, each for a range of days.    *)
(* For one currency after the other a run reads which days have no rate,   *)
(* asks the National Bank of Ukraine for them, one task per day, stores    *)
(* each answer in a transaction of its own, and fills what is left with    *)
(* the rate of another day.  Nothing keeps two runs apart but the unique   *)
(* constraint on currency and day.                                         *)
(***************************************************************************)
EXTENDS Integers, FiniteSets, Sequences, Functions

CONSTANTS
    Runs,           \* runs there may be, each once
    Codes,          \* the currencies but UAH, in the order they are read
    Days,           \* an interval of days
    Concurrent,     \* requests a client has under way at a time
    Retries,        \* max_retries of a client
    None

ASSUME RatesAssumption ==
    /\ Days \subseteq Nat /\ None \notin Days
    /\ Codes \in Seq(STRING) /\ Concurrent \in Nat \ {0} /\ Retries \in Nat

VARIABLES
    rates,          \* exchange_rates: <<currency, day>> -> the day the rate is of
    published,      \* the days whose rates the bank has
    run,            \* where each run is
    task,           \* of each run's client: where the task of each day is
    flowing,        \* of each run's client: whether _rate_limit_event is set
    raced           \* history: runs another has stored one of their missing days

vars == <<rates, published, run, task, flowing, raced>>
client == <<task, flowing>>

-----------------------------------------------------------------------------
(* A run is at the currency Codes[k], over the days first..last.           *)

New == [at |-> "new"]

Span(r) == {d \in Days : run[r].first <= d /\ d <= run[r].last}

Code(r) == Codes[run[r].k]

NoTasks == [d \in {} |-> [at |-> "wait", attempt |-> 0]]

Init ==
    /\ rates = << >>
    /\ published \in SUBSET Days
    /\ run = [r \in Runs |-> New]
    /\ task = [r \in Runs |-> NoTasks]
    /\ flowing = [r \in Runs |-> TRUE]
    /\ raced = {}

\* The bank publishes the rates of a day.
Publish(d) ==
    /\ published' = published \cup {d}
    /\ UNCHANGED <<rates, run, client, raced>>

\* A job from the first transaction to today, a request or a script for any.
Start(r) ==
    /\ run[r] = New
    /\ \E first, last \in Days :
          /\ first <= last
          /\ run' = [run EXCEPT ![r] = [at |-> "read", first |-> first, last |-> last,
                                        k |-> 1, missing |-> {}, fetched |-> {},
                                        left |-> {}, from |-> None, bare |-> {}]]
    /\ UNCHANGED <<rates, published, client, raced>>

\* Mutant: the last day of the range is left out.
MissingButLast(r) ==
    {d \in Span(r) : d < run[r].last /\ <<Code(r), d>> \notin DOMAIN rates}

\* all_dates - existing_dates
Missing(r) == {d \in Span(r) : <<Code(r), d>> \notin DOMAIN rates}

\* The days that are missing are read; a client starts a task for each.
ReadMissing(r) ==
    /\ run[r].at = "read"
    /\ run[r].k <= Len(Codes)
    /\ run' = [run EXCEPT ![r].at = "fetch", ![r].missing = Missing(r), ![r].fetched = {}]
    /\ task' = [task EXCEPT ![r] = [d \in Missing(r) |-> [at |-> "wait", attempt |-> 0]]]
    /\ flowing' = [flowing EXCEPT ![r] = TRUE]
    /\ UNCHANGED <<rates, published, raced>>

EndRun(r) ==
    /\ run[r].at = "read"
    /\ run[r].k > Len(Codes)
    /\ run' = [run EXCEPT ![r].at = "done"]
    /\ UNCHANGED <<rates, published, client, raced>>

-----------------------------------------------------------------------------
(* _fetch_single_rate.  A task waits for the event, then for the           *)
(* semaphore, then for the bank.                                           *)

At(r, d, stage) ==
    /\ run[r].at = "fetch"
    /\ d \in DOMAIN task[r]
    /\ task[r][d].at = stage

Move(r, d, stage) == task' = [task EXCEPT ![r][d].at = stage]

PassEvent(r, d) ==
    /\ At(r, d, "wait")
    /\ flowing[r]
    /\ Move(r, d, "queue")
    /\ UNCHANGED <<rates, published, run, flowing, raced>>

Send(r, d) ==
    /\ At(r, d, "queue")
    /\ Cardinality({e \in DOMAIN task[r] : task[r][e].at = "sent"}) < Concurrent
    /\ Move(r, d, "sent")
    /\ UNCHANGED <<rates, published, run, flowing, raced>>

\* A rate for the day, or an empty list.
Answered(r, d) ==
    /\ At(r, d, "sent")
    /\ Move(r, d, IF d \in published THEN "rate" ELSE "none")
    /\ UNCHANGED <<rates, published, run, flowing, raced>>

\* Any other failure: the task gives the day up.
Refused(r, d) ==
    /\ At(r, d, "sent")
    /\ Move(r, d, "none")
    /\ UNCHANGED <<rates, published, run, flowing, raced>>

\* A timeout or a 504: the task sleeps and tries again, if it may.
TimedOut(r, d) ==
    /\ At(r, d, "sent")
    /\ Move(r, d, IF task[r][d].attempt < Retries THEN "sleep" ELSE "none")
    /\ UNCHANGED <<rates, published, run, flowing, raced>>

\* Mutant: the event is cleared before the attempts are counted.
KeepsFlowingNever(r, d) == FALSE

\* Whether the event stays set when the bank limits the rate: the last
\* attempt does not clear it.
KeepsFlowing(r, d) == flowing[r] /\ task[r][d].attempt = Retries

\* 429: the task clears the event, sleeps and will set it.
RateLimited(r, d) ==
    /\ At(r, d, "sent")
    /\ Move(r, d, IF task[r][d].attempt < Retries THEN "pause" ELSE "none")
    /\ flowing' = [flowing EXCEPT ![r] = KeepsFlowing(r, d)]
    /\ UNCHANGED <<rates, published, run, raced>>

\* The sleep ends; after a 429 the event is set, whoever else is pausing.
WakeUp(r, d) ==
    /\ At(r, d, "sleep") \/ At(r, d, "pause")
    /\ task' = [task EXCEPT ![r][d] = [at |-> "wait", attempt |-> @.attempt + 1]]
    /\ flowing' = [flowing EXCEPT ![r] = @ \/ task[r][d].at = "pause"]
    /\ UNCHANGED <<rates, published, run, raced>>

-----------------------------------------------------------------------------
(* The run takes what the tasks return, one after the other.               *)

\* History: a rate that another run misses is stored.
Overtaken(r, d) ==
    raced' = raced \cup {q \in Runs \ {r} :
                           /\ run[q].at \in {"fetch", "fill"}
                           /\ Code(q) = Code(r) /\ d \in run[q].missing}

\* The unique constraint refuses a second rate for the day.
Taken(r, d) == <<Code(r), d>> \in DOMAIN rates

\* An insert and its commit; refused, it ends the run with an error.
Store(r, d, of, next) ==
    IF Taken(r, d)
    THEN /\ run' = [run EXCEPT ![r].at = "failed"]
         /\ UNCHANGED <<rates, raced>>
    ELSE /\ rates' = [x \in DOMAIN rates \cup {<<Code(r), d>>} |->
                        IF x = <<Code(r), d>> THEN of ELSE rates[x]]
         /\ run' = [run EXCEPT ![r] = next]
         /\ Overtaken(r, d)

\* With the run its client ends: the other tasks come to nothing.
TakeRate(r, d) ==
    /\ At(r, d, "rate")
    /\ task' = [task EXCEPT ![r] = IF Taken(r, d) THEN NoTasks
                                   ELSE Restrict(@, DOMAIN @ \ {d})]
    /\ Store(r, d, d, [run[r] EXCEPT !.fetched = @ \cup {d}])
    /\ UNCHANGED <<published, flowing>>

TakeNone(r, d) ==
    /\ At(r, d, "none")
    /\ task' = [task EXCEPT ![r] = Restrict(@, DOMAIN @ \ {d})]
    /\ UNCHANGED <<rates, published, run, flowing, raced>>

-----------------------------------------------------------------------------
(* The fallback                                                            *)

Dist(c, d) == IF c <= d THEN d - c ELSE c - d

\* The days that have a rate of this currency.
Known(r) == {d \in Days : <<Code(r), d>> \in DOMAIN rates}

\* get_closest_rate: the nearest before or after, the earlier when equal.
Closest(r, target) ==
    CHOOSE d \in Known(r) : \A e \in Known(r) :
        \/ Dist(d, target) < Dist(e, target)
        \/ Dist(d, target) = Dist(e, target) /\ d <= e

NextCode(r) == [run[r] EXCEPT !.at = "read", !.k = @ + 1, !.left = {}, !.from = None]

\* Mutant: every day that was missing is filled.
MissingStillAll(r) == run[r].missing

MissingStill(r) == run[r].missing \ run[r].fetched

\* All tasks are through: the days still missing are to be filled with the
\* rate closest to the first day of the range.  Without any rate of the
\* currency they stay as they are.
Fallback(r) ==
    /\ run[r].at = "fetch"
    /\ DOMAIN task[r] = {}
    /\ run' = [run EXCEPT ![r] =
         CASE MissingStill(r) = {} -> NextCode(r)
           [] MissingStill(r) # {} /\ Known(r) = {} ->
                [NextCode(r) EXCEPT !.bare = @ \cup {Code(r)}]
           [] OTHER -> [run[r] EXCEPT !.at = "fill", !.left = MissingStill(r),
                                      !.from = Closest(r, run[r].first)]]
    /\ UNCHANGED <<rates, published, client, raced>>

\* One missing day after the other gets that rate, marked as a fallback.
Fill(r, d) ==
    /\ run[r].at = "fill"
    /\ d \in run[r].left
    /\ Store(r, d, rates[<<Code(r), run[r].from>>],
             IF run[r].left = {d} THEN NextCode(r)
             ELSE [run[r] EXCEPT !.left = @ \ {d}])
    /\ UNCHANGED <<published, client>>

\* The process ends, the job is cancelled or the database cannot be reached.
Dies(r) ==
    /\ run[r].at \in {"read", "fetch", "fill"}
    /\ run' = [run EXCEPT ![r].at = "gone"]
    /\ task' = [task EXCEPT ![r] = NoTasks]
    /\ UNCHANGED <<rates, published, flowing, raced>>

-----------------------------------------------------------------------------
Step(r) ==
    \/ ReadMissing(r) \/ Fallback(r) \/ EndRun(r)
    \/ \E d \in Days :
          \/ PassEvent(r, d) \/ Send(r, d) \/ WakeUp(r, d)
          \/ Answered(r, d) \/ Refused(r, d) \/ TimedOut(r, d) \/ RateLimited(r, d)
          \/ TakeRate(r, d) \/ TakeNone(r, d) \/ Fill(r, d)

Next ==
    \/ \E d \in Days : Publish(d)
    \/ \E r \in Runs : Start(r) \/ Step(r) \/ Dies(r)

Spec == Init /\ [][Next]_vars

\* The event loop runs what can run: requests to the bank time out, sleeps end
\* and the database answers.
FairSpec == Spec /\ \A r \in Runs : WF_vars(Step(r))

-----------------------------------------------------------------------------
(* Properties                                                              *)

\* A run that ended without an error has left a rate for every day of its
\* range and each currency, but for those that had no rate at all: whatever
\* the bank answered, and whatever other runs did meanwhile.
CoveredAfterRun ==
    \A r \in Runs : run[r].at = "done" =>
        \A k \in DOMAIN Codes, d \in Span(r) :
            Codes[k] \in run[r].bare \/ <<Codes[k], d>> \in DOMAIN rates

\* A run is refused a rate only when another run has stored it after this one
\* read that it is missing: it never stores a day twice itself, neither two
\* answers nor an answer and a fallback.
RefusedOnlyWhenRaced == \A r \in Runs : run[r].at = "failed" => r \in raced

\* Every run that has started ends: no task waits for ever for an event that
\* nobody sets or for the semaphore.
EveryRunEnds ==
    \A r \in Runs : run[r].at = "read" ~> run[r].at \in {"done", "failed", "gone"}

=============================================================================
