-------------------------------- MODULE Feed --------------------------------
(***************************************************************************)
(* The news feed: articles that arrive, the opinions of the household on   *)
(* them, the job that removes the stale ones and the job that learns from  *)
(* opinions and removals.  A read is a session of its own, a write is      *)
(* there when its transaction commits; between the two anything may        *)
(* happen.  Both jobs go through the users with the configurations they    *)
(* read when they started.                                                 *)
(***************************************************************************)
EXTENDS Integers, FiniteSets

CONSTANTS
    Items,          \* the ids the sequence of news_items hands out
    Users,
    Owner,          \* the user whose feed an item is in
    Requests,       \* requests of two steps that may be under way at a time
    Rules,          \* rules the preference agent may answer with
    Retentions,     \* values of gc_retention_days
    Lookback,       \* LOOKBACK_DAYS
    Keep,           \* DELETED_RETENTION_DAYS
    Limit,          \* the limit of stale_items()
    Capacity,       \* the length of news_preference_profile, in entries
    Days,           \* bound: the last day of the model
    MaxActs,        \* bound: operations of users
    MaxFaults       \* bound: failures and crashes

ASSUME FeedAssumption ==
    /\ Lookback \in Nat /\ Keep \in Nat /\ Limit \in Nat /\ Capacity \in Nat
    /\ Days \in Nat /\ MaxActs \in Nat /\ MaxFaults \in Nat
    /\ Items \subseteq Nat /\ Owner \in [Items -> Users] /\ Retentions \subseteq Int

Marks == {"reaction", "bookmark", "feedback"}

VARIABLES
    today,
    rows,           \* the items with a row in news_items
    news,           \* the columns of the rows; marks are the opinions that are set
    signals,        \* rows of deleted_signals
    stored,         \* item -> signals ever stored of it: the next one's id
    config,         \* user -> retention, analyze, and the profile
    request,        \* bookmarks and deletions between their two statements
    gc,             \* the garbage collector
    learner,        \* the preference learner
    born,           \* items that have had a row
    acts, faults,   \* how often users and failures may still act
    pending,        \* history: items whose last opinion is in no profile
    late,           \* history: those given while the learner held the item
    taught,         \* history: signals that are or were in a profile
    full            \* history: users whose profile was refused for its length

history == <<pending, late, taught, full>>
budget == <<today, acts, faults>>
vars == <<today, rows, news, signals, stored, config, request, gc, learner, born,
          acts, faults, pending, late, taught, full>>

-----------------------------------------------------------------------------
(* Types                                                                   *)

Entries == Items \X Int

Profile == [rules : SUBSET Rules, deleted : SUBSET Entries]

Config == [retention : Retentions, analyze : BOOLEAN, profile : Profile]

Row == [created : Nat, marks : SUBSET Marks, flag : BOOLEAN]

NewRow(day) == [created |-> day, marks |-> {}, flag |-> FALSE]

Signal == [user : Users, item : Items, id : Nat, date : Nat]

NoRequest == [op |-> "none"]

Request ==
    {NoRequest}
    \cup [op : {"bookmark"}, item : Items, was : BOOLEAN]
    \cup [op : {"delete"}, item : Items, user : Users]

\* A job between two steps: the users it has still to do, their
\* configurations as read, and what it has read for the user at hand.
Idle == [at |-> "idle"]

Job == {Idle} \cup [at : {"users"}, left : SUBSET Users, config : [Users -> Config]]

GC ==
    Job \cup [at : {"delete"}, left : SUBSET Users, config : [Users -> Config],
              user : Users, cutoff : Int, read : SUBSET Items, cut : BOOLEAN,
              touched : SUBSET Items]

Learner ==
    Job \cup [at : {"signals"}, left : SUBSET Users, config : [Users -> Config],
              user : Users, items : SUBSET Items]
        \cup [at : {"think", "clear", "forget"}, left : SUBSET Users,
              config : [Users -> Config], user : Users, items : SUBSET Items,
              signals : SUBSET Signal, deleted : SUBSET Entries]

TypeOK ==
    /\ today \in Nat
    /\ rows \subseteq born /\ born \subseteq Items
    /\ news \in [Items -> Row]
    /\ signals \subseteq Signal
    /\ stored \in [Items -> Nat]
    /\ config \in [Users -> Config]
    /\ request \in [Requests -> Request]
    /\ gc \in GC
    /\ learner \in Learner
    /\ acts \in Nat /\ faults \in Nat
    /\ pending \subseteq Items /\ late \subseteq Items
    /\ taught \subseteq Signal
    /\ full \in [Users -> BOOLEAN]

Init ==
    /\ today = 0
    /\ rows = {} /\ born = {} /\ news = [i \in Items |-> NewRow(0)]
    /\ signals = {} /\ stored = [i \in Items |-> 0]
    /\ config \in [Users -> [retention : Retentions, analyze : {TRUE},
                             profile : {[rules |-> {}, deleted |-> {}]}]]
    /\ request = [r \in Requests |-> NoRequest]
    /\ gc = Idle /\ learner = Idle
    /\ acts = MaxActs /\ faults = MaxFaults
    /\ pending = {} /\ late = {} /\ taught = {} /\ full = [u \in Users |-> FALSE]

-----------------------------------------------------------------------------
(* Articles and opinions                                                   *)

NextDay ==
    /\ today < Days
    /\ today' = today + 1
    /\ UNCHANGED <<rows, news, signals, stored, config, request, gc, learner, born,
                   acts, faults, history>>

\* A crawler or a manual submission saves an article.
Arrive(i) ==
    /\ i \notin born /\ \A j \in Items : j < i => j \in born
    /\ rows' = rows \cup {i} /\ born' = born \cup {i}
    /\ news' = [news EXCEPT ![i] = NewRow(today)]
    /\ UNCHANGED <<signals, stored, config, request, gc, learner, budget, history>>

\* The items the learner has read and will take the flags of.
Held == IF learner.at \in {"signals", "think", "clear"} THEN learner.items ELSE {}

\* The collector, between its read and its delete, remembers (for the
\* properties) which items were touched.
Touched(i) ==
    IF gc.at = "delete" THEN [gc EXCEPT !.touched = @ \cup {i}] ELSE gc

\* One UPDATE of a row, with the flag for the learner.
Mark(i, marks) ==
    /\ news' = [news EXCEPT ![i].marks = marks, ![i].flag = TRUE]
    /\ gc' = Touched(i)
    /\ pending' = pending \cup {i}
    /\ late' = IF i \in Held THEN late \cup {i} ELSE late \ {i}
    /\ UNCHANGED <<today, rows, signals, stored, config, learner, born, faults, taught,
                   full>>

Act == acts > 0 /\ acts' = acts - 1

\* Of an item that is gone nothing is updated: 404.
React(i) ==
    /\ Act /\ i \in rows
    /\ \E m \in {news[i].marks \ {"reaction"}, news[i].marks \cup {"reaction"}} :
          Mark(i, m)
    /\ UNCHANGED request

Feedback(i) ==
    /\ Act /\ i \in rows
    /\ \E m \in {news[i].marks \ {"feedback"}, news[i].marks \cup {"feedback"}} :
          Mark(i, m)
    /\ UNCHANGED request

\* The queued analysis of an article (extend_article) ends with an UPDATE by
\* id that sets the flag, too; of a row that is gone it updates nothing.
Describe(i) ==
    /\ Act /\ i \in rows /\ ~news[i].flag
    /\ news' = [news EXCEPT ![i].flag = TRUE]
    /\ UNCHANGED <<today, rows, signals, stored, config, request, gc, learner, born,
                   faults, history>>

BookmarkReads(r, i) ==
    /\ Act /\ request[r] = NoRequest /\ i \in rows
    /\ request' = [request EXCEPT ![r] =
          [op |-> "bookmark", item |-> i, was |-> "bookmark" \in news[i].marks]]
    /\ UNCHANGED <<today, rows, news, signals, stored, config, gc, learner, born,
                   faults, history>>

\* The negation of what was read is written, whatever the row says by now.
BookmarkWrites(r) ==
    /\ request[r].op = "bookmark"
    /\ LET i == request[r].item
       IN  IF i \in rows
           THEN Mark(i, IF request[r].was THEN news[i].marks \ {"bookmark"}
                        ELSE news[i].marks \cup {"bookmark"})
           ELSE UNCHANGED <<today, rows, news, signals, stored, config, gc, learner,
                            born, faults, history>>
    /\ request' = [request EXCEPT ![r] = NoRequest]
    /\ UNCHANGED acts

\* A signal for user u of every item of I.
NewSignals(u, I) ==
    {[user |-> u, item |-> i, id |-> stored[i], date |-> today] : i \in I}

StoreSignals(u, I) ==
    /\ signals' = signals \cup NewSignals(u, I)
    /\ stored' = [i \in Items |-> IF i \in I THEN stored[i] + 1 ELSE stored[i]]

RemoveRows(I) ==
    /\ rows' = rows \ I
    /\ news' = [i \in Items |-> IF i \in I THEN NewRow(0) ELSE news[i]]
    /\ pending' = pending \ I /\ late' = late \ I

\* Nobody asks whose item it is.
DeleteReads(r, i, u) ==
    /\ Act /\ request[r] = NoRequest /\ i \in rows
    /\ request' = [request EXCEPT ![r] = [op |-> "delete", item |-> i, user |-> u]]
    /\ UNCHANGED <<today, rows, news, signals, stored, config, gc, learner, born,
                   faults, history>>

\* The signal and the deletion are one transaction; it is rolled back when
\* the item is gone.
DeleteWrites(r) ==
    /\ request[r].op = "delete"
    /\ LET i == request[r].item
       IN  IF i \in rows
           THEN StoreSignals(request[r].user, {i}) /\ RemoveRows({i})
           ELSE UNCHANGED <<rows, news, signals, stored, pending, late>>
    /\ request' = [request EXCEPT ![r] = NoRequest]
    /\ UNCHANGED <<config, gc, learner, born, budget, taught, full>>

\* PATCH /identity/users/configuration.
Configure(u) ==
    /\ Act
    /\ \/ \E n \in Retentions \ {config[u].retention} : config' = [config EXCEPT ![u].retention = n]
       \/ config' = [config EXCEPT ![u].analyze = ~@]
       \/ \E R \in SUBSET Rules :
             config' = [config EXCEPT ![u].profile = [rules |-> R, deleted |-> {}]]
    /\ UNCHANGED <<today, rows, news, signals, stored, request, gc, learner, born,
                   faults, history>>

-----------------------------------------------------------------------------
(* The garbage collector                                                   *)

\* The collector sees neither a reaction, a bookmark nor feedback on these.
Stale(u, cutoff) ==
    {i \in rows : Owner[i] = u /\ news[i].created < cutoff /\ news[i].marks = {}}

\* ORDER BY created_at DESC LIMIT n
Newest(I, n) ==
    {S \in SUBSET I :
        /\ Cardinality(S) = IF Cardinality(I) < n THEN Cardinality(I) ELSE n
        /\ \A i \in S, j \in I \ S : news[i].created >= news[j].created}

NextUser(job) ==
    IF job.left = {} THEN Idle
    ELSE [at |-> "users", left |-> job.left, config |-> job.config]

CollectorStarts ==
    /\ gc = Idle
    /\ gc' = NextUser([left |-> Users, config |-> config])
    /\ UNCHANGED <<rows, news, signals, stored, config, request, learner, born, budget,
                   history>>

CollectorReads(u) ==
    /\ gc.at = "users" /\ u \in gc.left
    /\ LET cutoff == today - gc.config[u].retention
           stale == Stale(u, cutoff)
       IN  \E S \in Newest(stale, Limit) :
              gc' = [at |-> "delete", left |-> gc.left \ {u}, config |-> gc.config,
                     user |-> u, cutoff |-> cutoff, read |-> S, cut |-> S # stale,
                     touched |-> {}]
    /\ UNCHANGED <<rows, news, signals, stored, config, request, learner, born, budget,
                   history>>

\* Mutant: what was read is deleted, by its ids.
CollectorDeletesByIds ==
    /\ gc.at = "delete"
    /\ StoreSignals(gc.user, gc.read)
    /\ RemoveRows(gc.read \cap rows)
    /\ gc' = NextUser(gc)
    /\ UNCHANGED <<config, request, learner, born, budget, taught, full>>

\* Mutant: the delete computes its cutoff itself.
CollectorDeletesByToday ==
    /\ gc.at = "delete"
    /\ StoreSignals(gc.user, gc.read)
    /\ RemoveRows(Stale(gc.user, today - gc.config[gc.user].retention))
    /\ gc' = NextUser(gc)
    /\ UNCHANGED <<config, request, learner, born, budget, taught, full>>

\* Signals for what was read; the DELETE looks again, and without a limit.
CollectorDeletes ==
    /\ gc.at = "delete"
    /\ StoreSignals(gc.user, gc.read)
    /\ RemoveRows(Stale(gc.user, gc.cutoff))
    /\ gc' = NextUser(gc)
    /\ UNCHANGED <<config, request, learner, born, budget, taught, full>>

-----------------------------------------------------------------------------
(* The preference learner                                                  *)

LearnerStarts ==
    /\ learner = Idle
    /\ learner' = NextUser([left |-> Users, config |-> config])
    /\ UNCHANGED <<rows, news, signals, stored, config, request, gc, born, budget,
                   history>>

Flagged(u) ==
    {i \in rows : Owner[i] = u /\ news[i].flag /\ news[i].created >= today - Lookback}

SignalsOf(u) == {s \in signals : s.user = u}

LearnerReadsNews(u) ==
    /\ learner.at = "users" /\ u \in learner.left
    /\ learner' = IF learner.config[u].analyze
                  THEN [at |-> "signals", left |-> learner.left \ {u},
                        config |-> learner.config, user |-> u, items |-> Flagged(u)]
                  ELSE NextUser([learner EXCEPT !.left = @ \ {u}])
    /\ UNCHANGED <<rows, news, signals, stored, config, request, gc, born, budget,
                   history>>

\* recently_deleted: what is young enough of the old, then the new by title.
RecentlyDeleted(old, S) ==
    LET kept == {e \in old : e[2] >= today - Keep}
        titles == {e[1] : e \in kept}
    IN  kept \cup {<<s.item, s.date>> : s \in {s \in S : s.item \notin titles}}

\* Mutant: without reactions there is nothing to learn.
LearnerReadsSignalsOfReactions ==
    /\ learner.at = "signals"
    /\ LET u == learner.user
           S == SignalsOf(u)
       IN  learner' =
              IF learner.items = {} THEN NextUser(learner)
              ELSE [at |-> "think", left |-> learner.left, config |-> learner.config,
                    user |-> u, items |-> learner.items, signals |-> S,
                    deleted |-> RecentlyDeleted(learner.config[u].profile.deleted, S)]
    /\ UNCHANGED <<rows, news, signals, stored, config, request, gc, born, budget,
                   history>>

LearnerReadsSignals ==
    /\ learner.at = "signals"
    /\ LET u == learner.user
           S == SignalsOf(u)
       IN  learner' =
              IF learner.items = {} /\ S = {} THEN NextUser(learner)
              ELSE [at |-> "think", left |-> learner.left, config |-> learner.config,
                    user |-> u, items |-> learner.items, signals |-> S,
                    deleted |-> RecentlyDeleted(learner.config[u].profile.deleted, S)]
    /\ UNCHANGED <<rows, news, signals, stored, config, request, gc, born, budget,
                   history>>

\* Mutant: what was deleted becomes a rule, too.
MergedWithTitles(R) ==
    [rules |-> learner.config[learner.user].profile.rules \cup R
               \cup {e[1] : e \in learner.deleted},
     deleted |-> learner.deleted]

\* The profile with the agent's answer R: extended, never replaced.
Merged(R) ==
    [rules |-> learner.config[learner.user].profile.rules \cup R,
     deleted |-> learner.deleted]

Fits(profile) == Cardinality(profile.rules) + Cardinality(profile.deleted) <= Capacity

\* The agent answers and the profile is committed, over whatever the user has
\* written since the job started; a text too long for its column is refused.
LearnerSaves ==
    /\ learner.at = "think"
    /\ \E R \in SUBSET Rules :
          IF Fits(Merged(R))
          THEN /\ config' = [config EXCEPT ![learner.user].profile = Merged(R)]
               /\ learner' = [learner EXCEPT !.at = "clear"]
               /\ pending' = pending \ (learner.items \ late)
               /\ taught' = taught \cup learner.signals
               /\ full' = [full EXCEPT ![learner.user] = FALSE]
               /\ UNCHANGED late
          ELSE /\ learner' = NextUser(learner)
               /\ late' = late \ learner.items
               /\ full' = [full EXCEPT ![learner.user] = TRUE]
               /\ UNCHANGED <<config, pending, taught>>
    /\ UNCHANGED <<rows, news, signals, stored, request, gc, born, budget>>

Unflagged(I) ==
    [i \in Items |-> IF i \in rows \cap I THEN [news[i] EXCEPT !.flag = FALSE]
                     ELSE news[i]]

\* Mutant: the flags of all of the user's items are cleared.
LearnerClearsAllFlags ==
    /\ learner.at = "clear"
    /\ news' = Unflagged({i \in Items : Owner[i] = learner.user})
    /\ learner' = [learner EXCEPT !.at = "forget"]
    /\ UNCHANGED <<rows, signals, stored, config, request, gc, born, budget, history>>

LearnerClearsFlags ==
    /\ learner.at = "clear"
    /\ news' = Unflagged(learner.items)
    /\ learner' = [learner EXCEPT !.at = "forget"]
    /\ UNCHANGED <<rows, signals, stored, config, request, gc, born, budget, history>>

\* Mutant: the user's signals are deleted, not those that were read.
LearnerForgetsAllSignals ==
    /\ learner.at = "forget"
    /\ signals' = {s \in signals : s.user # learner.user}
    /\ learner' = NextUser(learner)
    /\ UNCHANGED <<rows, news, stored, config, request, gc, born, budget, history>>

LearnerForgetsSignals ==
    /\ learner.at = "forget"
    /\ signals' = signals \ learner.signals
    /\ learner' = NextUser(learner)
    /\ UNCHANGED <<rows, news, stored, config, request, gc, born, budget, history>>

-----------------------------------------------------------------------------
(* Failures                                                                *)

Fault == faults > 0 /\ faults' = faults - 1

\* Of one user's learning the next user hears nothing.
LearnerFails ==
    /\ Fault /\ learner.at \in {"signals", "think", "clear", "forget"}
    /\ learner' = NextUser(learner)
    /\ late' = late \ Held
    /\ UNCHANGED <<today, rows, news, signals, stored, config, request, gc, born, acts,
                   pending, taught, full>>

\* An exception in the collector ends the job for all the users left.
CollectorFails ==
    /\ Fault /\ gc # Idle
    /\ gc' = Idle
    /\ UNCHANGED <<today, rows, news, signals, stored, config, request, learner, born,
                   acts, history>>

RequestFails(r) ==
    /\ Fault /\ request[r] # NoRequest
    /\ request' = [request EXCEPT ![r] = NoRequest]
    /\ UNCHANGED <<today, rows, news, signals, stored, config, gc, learner, born, acts,
                   history>>

\* The process dies; what is not committed is rolled back.
Crash ==
    /\ Fault
    /\ gc' = Idle /\ learner' = Idle
    /\ request' = [r \in Requests |-> NoRequest]
    /\ late' = late \ Held
    /\ UNCHANGED <<today, rows, news, signals, stored, config, born, acts, pending,
                   taught, full>>

-----------------------------------------------------------------------------

Opinions ==
    \/ \E i \in Items : React(i) \/ Feedback(i) \/ Describe(i)
    \/ \E r \in Requests, i \in Items :
          BookmarkReads(r, i) \/ \E u \in Users : DeleteReads(r, i, u)
    \/ \E r \in Requests : BookmarkWrites(r) \/ DeleteWrites(r)
    \/ \E u \in Users : Configure(u)

Collect == CollectorStarts \/ (\E u \in Users : CollectorReads(u)) \/ CollectorDeletes

Learn ==
    \/ LearnerStarts \/ \E u \in Users : LearnerReadsNews(u)
    \/ LearnerReadsSignals \/ LearnerSaves \/ LearnerClearsFlags
    \/ LearnerForgetsSignals

Fail == LearnerFails \/ CollectorFails \/ Crash \/ \E r \in Requests : RequestFails(r)

Next ==
    NextDay \/ (\E i \in Items : Arrive(i)) \/ Opinions \/ Collect \/ Learn \/ Fail

Spec == Init /\ [][Next]_vars

\* The kernel jobs are trampolines that never end: the learner runs again and
\* again, and a run comes to its end.
FairSpec == Spec /\ WF_vars(Learn)

-----------------------------------------------------------------------------
(* Properties                                                              *)

\* An opinion that no profile has taken in still has its row's flag, so that
\* the next run reads it - unless it came while the learner was between
\* reading the item and clearing its flag, or with the item in its hands.
OpinionIsKept == \A i \in pending : i \in rows /\ (news[i].flag \/ i \in late)

\* "Bookmarked and reacted articles are kept", and those with feedback: only a
\* user's request takes such an item away, however the opinion and the
\* collector's two statements interleave.
NothingLikedIsCollected ==
    [][\A i \in rows \ rows' :
          news[i].marks # {} =>
              \E r \in Requests : request[r].op = "delete" /\ request[r].item = i
                                  /\ request'[r] = NoRequest]_vars

\* With a negative retention, the articles of the day of the collector's read,
\* and later ones.
SinceRead ==
    {i \in rows : /\ gc.config[gc.user].retention < 0
                  /\ news[i].created >= gc.cutoff + gc.config[gc.user].retention}

\* What the collector may remove without a signal: anything if there were more
\* stale items than the limit of its read, those of which an opinion came or went
\* between the read and the delete, and, if the retention is negative, those that
\* arrived between them.
Unnoticed ==
    IF gc.at # "delete" THEN {}
    ELSE gc.touched \cup (IF gc.cut THEN Items ELSE SinceRead)

\* An item leaves together with a signal for the learner, and the collector
\* stores a signal for what leaves, as far as its read could see it.
DeletionLeavesSignal ==
    [][LET new == {s.item : s \in signals' \ signals}
       IN  /\ rows \ rows' \subseteq new \cup Unnoticed
           /\ new \cap rows' \subseteq IF gc.at = "delete" THEN gc.touched ELSE {}]_vars

\* A deletion's signal is there until it has been made part of a profile,
\* across failures, crashes and signals that come while the agent thinks.
Lesson == INSTANCE Lessons WITH Deletions <- Signal, waiting <- signals

ImplementsLessons == Lesson!LessonsSpec

\* Every signal is learned from in the end, as long as its user lets the
\* preferences be analysed and the profile has room for it.
SignalsAreLearned ==
    \A i \in Items, u \in Users :
        (\E s \in signals : s.item = i /\ s.user = u)
            ~> \/ ~(\E s \in signals : s.item = i /\ s.user = u)
               \/ ~config[u].analyze \/ full[u]

=============================================================================
