----------------------------- MODULE FeedProofs -----------------------------
(***************************************************************************)
(* Proofs about Feed, for any household, articles and limits.              *)
(*                                                                         *)
(* What the learner holds until it clears the flags was flagged when it    *)
(* read it, and stays so: an opinion on it that comes later is in late.    *)
(* What it throws away was made part of a profile first.  What the         *)
(* collector deletes it has read, within its limit, or it was touched in   *)
(* between; and the signal of a deletion has an id no other one has.       *)
(***************************************************************************)
EXTENDS Feed, TLAPS

-----------------------------------------------------------------------------
(* Types                                                                   *)

Deleting == [at : {"delete"}, left : SUBSET Users, config : [Users -> Config],
             user : Users, cutoff : Int, read : SUBSET Items, cut : BOOLEAN,
             touched : SUBSET Items]

Reading == [at : {"signals"}, left : SUBSET Users, config : [Users -> Config],
            user : Users, items : SUBSET Items]

Learning == [at : {"think", "clear", "forget"}, left : SUBSET Users,
             config : [Users -> Config], user : Users, items : SUBSET Items,
             signals : SUBSET Signal, deleted : SUBSET Entries]

Waiting == [at : {"users"}, left : SUBSET Users, config : [Users -> Config]]

LEMMA Stages ==
    /\ GC = {Idle} \cup Waiting \cup Deleting
    /\ Learner = {Idle} \cup Waiting \cup Reading \cup Learning
BY DEF GC, Learner, Job, Waiting, Deleting, Reading, Learning

LEMMA StageByName ==
    /\ \A g \in GC : /\ g.at = "delete" => g \in Deleting
                     /\ g.at = "users" => g \in Waiting
    /\ \A l \in Learner : /\ l.at = "signals" => l \in Reading
                          /\ l.at = "users" => l \in Waiting
                          /\ l.at \in {"think", "clear", "forget"} => l \in Learning
<1>1. Idle.at = "idle"
    BY DEF Idle
<1>2. /\ \A g \in Waiting : g.at = "users"
      /\ \A g \in Deleting : g.at = "delete"
      /\ \A g \in Reading : g.at = "signals"
      /\ \A g \in Learning : g.at \in {"think", "clear", "forget"}
    BY DEF Waiting, Deleting, Reading, Learning
<1> QED
    BY <1>1, <1>2, Stages

LEMMA NextUserType ==
    ASSUME NEW job, job.left \in SUBSET Users, job.config \in [Users -> Config]
    PROVE  NextUser(job) \in {Idle} \cup Waiting
BY DEF NextUser, Waiting

LEMMA NextUserOf ==
    ASSUME TypeOK
    PROVE  /\ gc.at \in {"delete", "users"} => NextUser(gc) \in {Idle} \cup Waiting
           /\ learner.at \in {"signals", "think", "clear", "forget", "users"} =>
                 NextUser(learner) \in {Idle} \cup Waiting
<1>1. ASSUME NEW job \in Waiting \cup Deleting \cup Reading \cup Learning
      PROVE  job.left \in SUBSET Users /\ job.config \in [Users -> Config]
    BY DEF Waiting, Deleting, Reading, Learning
<1>2. ASSUME NEW job \in Waiting \cup Deleting \cup Reading \cup Learning
      PROVE  NextUser(job) \in {Idle} \cup Waiting
    BY <1>1, NextUserType
<1> QED
    BY <1>2, StageByName DEF TypeOK

LEMMA TouchedType ==
    ASSUME TypeOK, NEW i \in Items
    PROVE  Touched(i) \in GC /\ Touched(i).at = gc.at
<1>1. CASE gc.at = "delete"
    <2>1. gc \in Deleting
        BY <1>1, StageByName DEF TypeOK
    <2>2. [gc EXCEPT !.touched = @ \cup {i}] \in Deleting
        BY <2>1 DEF Deleting
    <2>3. [gc EXCEPT !.touched = @ \cup {i}].at = gc.at
        BY <2>1 DEF Deleting
    <2> QED
        BY <1>1, <2>2, <2>3, Stages DEF Touched
<1>2. CASE gc.at # "delete"
    BY <1>2 DEF Touched, TypeOK
<1> QED
    BY <1>1, <1>2

LEMMA MarkType ==
    ASSUME TypeOK, NEW i \in rows, NEW marks \in SUBSET Marks, Mark(i, marks),
           request' \in [Requests -> Request], acts' \in Nat
    PROVE  TypeOK'
<1>1. i \in Items /\ gc' \in GC
    BY TouchedType DEF Mark, TypeOK
<1>2. news' \in [Items -> Row]
    BY <1>1 DEF Mark, TypeOK, Row
<1>3. pending' \subseteq Items /\ late' \subseteq Items
    BY <1>1 DEF Mark, TypeOK
<1> QED
    BY <1>1, <1>2, <1>3 DEF Mark, TypeOK

LEMMA RowsType ==
    ASSUME TypeOK, NEW I \in SUBSET Items, RemoveRows(I), UNCHANGED born
    PROVE  /\ rows' \subseteq born' /\ news' \in [Items -> Row]
           /\ pending' \subseteq Items /\ late' \subseteq Items
BY DEF TypeOK, RemoveRows, NewRow, Row

LEMMA StoreType ==
    ASSUME TypeOK, NEW u \in Users, NEW I \in SUBSET Items, StoreSignals(u, I)
    PROVE  /\ signals' \in SUBSET Signal /\ signals \subseteq signals'
           /\ stored' \in [Items -> Nat]
<1>1. NewSignals(u, I) \subseteq Signal
    BY DEF NewSignals, Signal, TypeOK
<1>2. stored' \in [Items -> Nat]
    BY DEF StoreSignals, TypeOK
<1> QED
    BY <1>1, <1>2 DEF StoreSignals, TypeOK

LEMMA InitType == Init => TypeOK
<1> SUFFICES ASSUME Init PROVE TypeOK
    OBVIOUS
<1>1. config \in [Users -> Config]
    <2>1. [rules |-> {}, deleted |-> {}] \in Profile
        BY DEF Profile
    <2>2. [retention : Retentions, analyze : {TRUE}, profile : {[rules |-> {}, deleted |-> {}]}]
            \subseteq Config
        BY <2>1 DEF Config
    <2> QED
        BY <2>2 DEF Init
<1>2. gc \in GC /\ learner \in Learner
    BY Stages DEF Init
<1>3. news \in [Items -> Row]
    BY DEF Init, NewRow, Row
<1>4. request \in [Requests -> Request]
    BY DEF Init, Request
<1> QED
    BY <1>1, <1>2, <1>3, <1>4, FeedAssumption DEF Init, TypeOK

LEMMA OpinionTypes ==
    ASSUME TypeOK, Opinions
    PROVE  TypeOK'
<1>1. ASSUME NEW i \in Items, React(i) PROVE TypeOK'
    <2>1. PICK m \in {news[i].marks \ {"reaction"}, news[i].marks \cup {"reaction"}} :
              Mark(i, m)
        BY <1>1 DEF React
    <2>2. m \in SUBSET Marks
        BY DEF TypeOK, Row, Marks
    <2> QED
        BY <1>1, <2>1, <2>2, MarkType DEF React, Act, TypeOK
<1>2. ASSUME NEW i \in Items, Feedback(i) PROVE TypeOK'
    <2>1. PICK m \in {news[i].marks \ {"feedback"}, news[i].marks \cup {"feedback"}} :
              Mark(i, m)
        BY <1>2 DEF Feedback
    <2>2. m \in SUBSET Marks
        BY DEF TypeOK, Row, Marks
    <2> QED
        BY <1>2, <2>1, <2>2, MarkType DEF Feedback, Act, TypeOK
<1>3. ASSUME NEW i \in Items, Describe(i) PROVE TypeOK'
    <2>1. news' \in [Items -> Row]
        BY <1>3 DEF Describe, TypeOK, Row
    <2> QED
        BY <1>3, <2>1 DEF Describe, Act, TypeOK, history
<1>4. ASSUME NEW r \in Requests, NEW i \in Items, BookmarkReads(r, i) PROVE TypeOK'
    <2>1. request' \in [Requests -> Request]
        BY <1>4 DEF BookmarkReads, TypeOK, Request
    <2> QED
        BY <1>4, <2>1 DEF BookmarkReads, Act, TypeOK, history
<1>5. ASSUME NEW r \in Requests, NEW i \in Items, NEW u \in Users, DeleteReads(r, i, u)
      PROVE  TypeOK'
    <2>1. request' \in [Requests -> Request]
        BY <1>5 DEF DeleteReads, TypeOK, Request
    <2> QED
        BY <1>5, <2>1 DEF DeleteReads, Act, TypeOK, history
<1>6. ASSUME NEW r \in Requests, BookmarkWrites(r) PROVE TypeOK'
    <2> DEFINE i == request[r].item
               m == IF request[r].was THEN news[i].marks \ {"bookmark"}
                    ELSE news[i].marks \cup {"bookmark"}
    <2>1. request' \in [Requests -> Request] /\ acts' \in Nat
        BY <1>6 DEF BookmarkWrites, TypeOK, Request
    <2>2. CASE i \in rows
        <3>1. m \in SUBSET Marks
            BY <2>2 DEF TypeOK, Row, Marks
        <3> QED
            BY <1>6, <2>1, <2>2, <3>1, MarkType DEF BookmarkWrites
    <2>3. CASE i \notin rows
        BY <1>6, <2>1, <2>3 DEF BookmarkWrites, TypeOK, history
    <2> QED
        BY <2>2, <2>3
<1>7. ASSUME NEW r \in Requests, DeleteWrites(r) PROVE TypeOK'
    <2> DEFINE i == request[r].item
    <2>1. request' \in [Requests -> Request]
        BY <1>7 DEF DeleteWrites, TypeOK, Request
    <2>2. request[r].user \in Users
        BY <1>7 DEF DeleteWrites, TypeOK, Request, NoRequest
    <2>3. CASE i \in rows
        <3>1. {i} \in SUBSET Items
            BY <2>3 DEF TypeOK
        <3>2. StoreSignals(request[r].user, {i}) /\ RemoveRows({i}) /\ UNCHANGED born
            BY <1>7, <2>3 DEF DeleteWrites
        <3> QED
            BY <1>7, <2>1, <2>2, <3>1, <3>2, StoreType, RowsType
               DEF DeleteWrites, TypeOK, budget
    <2>4. CASE i \notin rows
        BY <1>7, <2>1, <2>4 DEF DeleteWrites, TypeOK, budget
    <2> QED
        BY <2>3, <2>4
<1>8. ASSUME NEW u \in Users, Configure(u) PROVE TypeOK'
    <2>1. config' \in [Users -> Config]
        <3>1. config[u] \in Config
            BY DEF TypeOK
        <3>2. \A n \in Retentions : [config[u] EXCEPT !.retention = n] \in Config
            BY <3>1 DEF Config
        <3>3. [config[u] EXCEPT !.analyze = ~config[u].analyze] \in Config
            BY <3>1 DEF Config
        <3>4. \A R \in SUBSET Rules :
                 [config[u] EXCEPT !.profile = [rules |-> R, deleted |-> {}]] \in Config
            BY <3>1 DEF Config, Profile
        <3>5. \/ \E n \in Retentions : config' = [config EXCEPT ![u].retention = n]
              \/ config' = [config EXCEPT ![u].analyze = ~@]
              \/ \E R \in SUBSET Rules :
                    config' = [config EXCEPT ![u].profile = [rules |-> R, deleted |-> {}]]
            BY <1>8 DEF Configure
        <3>6. \E c \in Config : config' = [config EXCEPT ![u] = c]
            BY <3>2, <3>3, <3>4, <3>5
        <3> QED
            BY <3>6 DEF TypeOK
    <2> QED
        BY <1>8, <2>1 DEF Configure, Act, TypeOK, history
<1> QED
    BY <1>1, <1>2, <1>3, <1>4, <1>5, <1>6, <1>7, <1>8 DEF Opinions

LEMMA CollectorTypes ==
    ASSUME TypeOK, Collect
    PROVE  TypeOK'
<1>1. CASE CollectorStarts
    <2>1. gc' \in GC
        BY <1>1, NextUserType, Stages DEF CollectorStarts, TypeOK
    <2> QED
        BY <1>1, <2>1 DEF CollectorStarts, TypeOK, budget, history
<1>2. ASSUME NEW u \in Users, CollectorReads(u) PROVE TypeOK'
    <2>1. PICK cutoff, S, cut :
              /\ cutoff = today - gc.config[u].retention
              /\ S \in Newest(Stale(u, cutoff), Limit) /\ cut \in BOOLEAN
              /\ gc' = [at |-> "delete", left |-> gc.left \ {u}, config |-> gc.config,
                        user |-> u, cutoff |-> cutoff, read |-> S, cut |-> cut,
                        touched |-> {}]
        BY <1>2 DEF CollectorReads
    <2>2. gc \in Waiting
        BY <1>2, StageByName DEF CollectorReads, TypeOK
    <2>3. gc.left \in SUBSET Users /\ gc.config \in [Users -> Config]
        BY <2>2 DEF Waiting
    <2>4. cutoff \in Int
        BY <2>1, <2>3, FeedAssumption DEF Config, TypeOK
    <2>5. S \in SUBSET Items
        BY <2>1 DEF Newest, Stale, TypeOK
    <2>6. gc' \in GC
        BY <2>1, <2>3, <2>4, <2>5, Stages DEF Deleting
    <2> QED
        BY <1>2, <2>6 DEF CollectorReads, TypeOK, budget, history
<1>3. CASE CollectorDeletes
    <2>1. gc \in Deleting
        BY <1>3, StageByName DEF CollectorDeletes, TypeOK
    <2>2. gc.user \in Users /\ gc.read \in SUBSET Items
        BY <2>1 DEF Deleting
    <2>3. Stale(gc.user, gc.cutoff) \in SUBSET Items
        BY DEF Stale, TypeOK
    <2>4. gc' \in GC
        BY <1>3, NextUserOf, Stages DEF CollectorDeletes
    <2>5. /\ StoreSignals(gc.user, gc.read) /\ UNCHANGED born
          /\ RemoveRows(Stale(gc.user, gc.cutoff))
        BY <1>3 DEF CollectorDeletes
    <2> QED
        BY <1>3, <2>2, <2>3, <2>4, <2>5, StoreType, RowsType
           DEF CollectorDeletes, TypeOK, budget
<1> QED
    BY <1>1, <1>2, <1>3 DEF Collect

LEMMA LearnerTypes ==
    ASSUME TypeOK, Learn
    PROVE  TypeOK'
<1>1. CASE LearnerStarts
    <2>1. learner' \in Learner
        BY <1>1, NextUserType, Stages DEF LearnerStarts, TypeOK
    <2> QED
        BY <1>1, <2>1 DEF LearnerStarts, TypeOK, budget, history
<1>2. ASSUME NEW u \in Users, LearnerReadsNews(u) PROVE TypeOK'
    <2>1. learner \in Waiting
        BY <1>2, StageByName DEF LearnerReadsNews, TypeOK
    <2>2. learner.left \in SUBSET Users /\ learner.config \in [Users -> Config]
        BY <2>1 DEF Waiting
    <2>3. CASE learner.config[u].analyze
        <3>1. Flagged(u) \in SUBSET Items
            BY DEF Flagged, TypeOK
        <3>2. learner' \in Reading
            BY <1>2, <2>2, <2>3, <3>1 DEF LearnerReadsNews, Reading
        <3> QED
            BY <1>2, <3>2, Stages DEF LearnerReadsNews, TypeOK, budget, history
    <2>4. CASE ~learner.config[u].analyze
        <3>1. [learner EXCEPT !.left = @ \ {u}] \in Waiting
            BY <2>1 DEF Waiting
        <3>2. learner' \in {Idle} \cup Waiting
            BY <1>2, <2>4, <3>1, NextUserType DEF LearnerReadsNews, Waiting
        <3> QED
            BY <1>2, <3>2, Stages DEF LearnerReadsNews, TypeOK, budget, history
    <2> QED
        BY <2>3, <2>4
<1>3. CASE LearnerReadsSignals
    <2> DEFINE S == SignalsOf(learner.user)
               D == RecentlyDeleted(learner.config[learner.user].profile.deleted, S)
    <2>1. learner \in Reading
        BY <1>3, StageByName DEF LearnerReadsSignals, TypeOK
    <2>2. /\ learner.left \in SUBSET Users /\ learner.config \in [Users -> Config]
          /\ learner.user \in Users /\ learner.items \in SUBSET Items
        BY <2>1 DEF Reading
    <2>3. S \in SUBSET Signal
        BY DEF SignalsOf, TypeOK
    <2>4. D \in SUBSET Entries
        <3>1. learner.config[learner.user].profile.deleted \in SUBSET Entries
            BY <2>2 DEF Config, Profile
        <3>2. \A s \in S : <<s.item, s.date>> \in Entries
            BY <2>3 DEF Signal, Entries
        <3> HIDE DEF S
        <3> QED
            BY <3>1, <3>2 DEF RecentlyDeleted
    <2> HIDE DEF S, D
    <2>5. CASE learner.items = {} /\ SignalsOf(learner.user) = {}
        BY <1>3, <2>5, NextUserOf, Stages DEF LearnerReadsSignals, TypeOK, budget, history
    <2>6. CASE ~(learner.items = {} /\ SignalsOf(learner.user) = {})
        <3>1. learner' = [at |-> "think", left |-> learner.left,
                          config |-> learner.config, user |-> learner.user,
                          items |-> learner.items, signals |-> S, deleted |-> D]
            BY <1>3, <2>6 DEF LearnerReadsSignals, S, D
        <3>2. learner' \in Learning
            BY <2>2, <2>3, <2>4, <3>1 DEF Learning
        <3> QED
            BY <1>3, <3>2, Stages DEF LearnerReadsSignals, TypeOK, budget, history
    <2> QED
        BY <2>5, <2>6
<1>4. CASE LearnerSaves
    <2>1. learner \in Learning
        BY <1>4, StageByName DEF LearnerSaves, TypeOK
    <2>2. /\ learner.config \in [Users -> Config] /\ learner.user \in Users
          /\ learner.signals \in SUBSET Signal /\ learner.deleted \in SUBSET Entries
        BY <2>1 DEF Learning
    <2>3. PICK R \in SUBSET Rules :
          IF Fits(Merged(R))
          THEN /\ config' = [config EXCEPT ![learner.user].profile = Merged(R)]
               /\ learner' = [learner EXCEPT !.at = "clear"]
               /\ pending' = pending \ (learner.items \ late)
               /\ taught' = taught \cup learner.signals
               /\ full' = [full EXCEPT ![learner.user] = FALSE]
               /\ UNCHANGED late
          ELSE /\ learner' = NextUser(learner)
               /\ late' = late \ learner.items
               /\ full' = [full EXCEPT ![learner.user] = TRUE]
               /\ UNCHANGED <<config, pending, taught>>
        BY <1>4 DEF LearnerSaves
    <2>4. UNCHANGED <<rows, news, signals, stored, request, gc, born, today, acts, faults>>
        BY <1>4 DEF LearnerSaves, budget
    <2>5. CASE Fits(Merged(R))
        <3>1. Merged(R) \in Profile
            BY <2>2 DEF Merged, Config, Profile
        <3>2. [config[learner.user] EXCEPT !.profile = Merged(R)] \in Config
            BY <2>2, <3>1 DEF TypeOK, Config
        <3>3. config' \in [Users -> Config]
            BY <2>3, <2>5, <3>2 DEF TypeOK
        <3>4. learner' \in Learner
            BY <2>1, <2>3, <2>5, Stages DEF Learning
        <3> QED
            BY <2>2, <2>3, <2>4, <2>5, <3>3, <3>4 DEF TypeOK
    <2>6. CASE ~Fits(Merged(R))
        <3>1. learner' \in Learner
            BY <1>4, <2>3, <2>6, NextUserOf, Stages DEF LearnerSaves
        <3> QED
            BY <2>2, <2>3, <2>4, <2>6, <3>1 DEF TypeOK
    <2> QED
        BY <2>5, <2>6
<1>5. CASE LearnerClearsFlags
    <2>1. learner \in Learning
        BY <1>5, StageByName DEF LearnerClearsFlags, TypeOK
    <2>2. learner' \in Learner
        BY <1>5, <2>1, Stages DEF LearnerClearsFlags, Learning
    <2>3. news' \in [Items -> Row]
        BY <1>5 DEF LearnerClearsFlags, Unflagged, TypeOK, Row
    <2> QED
        BY <1>5, <2>2, <2>3 DEF LearnerClearsFlags, TypeOK, budget, history
<1>6. CASE LearnerForgetsSignals
    <2>1. learner' \in Learner
        BY <1>6, NextUserOf, Stages DEF LearnerForgetsSignals
    <2> QED
        BY <1>6, <2>1 DEF LearnerForgetsSignals, TypeOK, budget, history
<1> QED
    BY <1>1, <1>2, <1>3, <1>4, <1>5, <1>6 DEF Learn

LEMMA FailureTypes ==
    ASSUME TypeOK, Fail
    PROVE  TypeOK'
<1>1. CASE LearnerFails
    <2>1. learner' \in Learner
        BY <1>1, NextUserOf, Stages DEF LearnerFails
    <2> QED
        BY <1>1, <2>1 DEF LearnerFails, Fault, TypeOK
<1>2. CASE CollectorFails
    BY <1>2, Stages DEF CollectorFails, Fault, TypeOK, history
<1>3. CASE Crash
    <2>1. request' \in [Requests -> Request] /\ learner' \in Learner /\ gc' \in GC
        BY <1>3, Stages DEF Crash, Request
    <2> QED
        BY <1>3, <2>1 DEF Crash, Fault, TypeOK
<1>4. ASSUME NEW r \in Requests, RequestFails(r) PROVE TypeOK'
    <2>1. request' \in [Requests -> Request]
        BY <1>4 DEF RequestFails, TypeOK, Request
    <2> QED
        BY <1>4, <2>1 DEF RequestFails, Fault, TypeOK, history
<1> QED
    BY <1>1, <1>2, <1>3, <1>4 DEF Fail

LEMMA NextType == TypeOK /\ [Next]_vars => TypeOK'
<1> SUFFICES ASSUME TypeOK, [Next]_vars PROVE TypeOK'
    OBVIOUS
<1>1. CASE UNCHANGED vars
    BY <1>1 DEF vars, TypeOK
<1>2. CASE NextDay
    BY <1>2 DEF NextDay, TypeOK, history
<1>3. ASSUME NEW i \in Items, Arrive(i) PROVE TypeOK'
    <2>1. news' \in [Items -> Row]
        BY <1>3 DEF Arrive, TypeOK, NewRow, Row
    <2> QED
        BY <1>3, <2>1 DEF Arrive, TypeOK, budget, history
<1> QED
    BY <1>1, <1>2, <1>3, OpinionTypes, CollectorTypes, LearnerTypes, FailureTypes DEF Next

\* Rows, signals, requests and what both jobs carry from one statement to the
\* next are what the code declares, in every state.
THEOREM FeedTypes == Spec => []TypeOK
<1>1. Init => TypeOK
    BY InitType
<1>2. TypeOK /\ [Next]_vars => TypeOK'
    BY NextType
<1> QED
    BY <1>1, <1>2, PTL DEF Spec

-----------------------------------------------------------------------------
(* Opinions and deletions                                                  *)

\* An opinion that is in no profile is still flagged, or came late; with the
\* learner at its item the flag is still there, and once the profile is saved
\* every opinion left on an item in its hands is late.
OpinionInv ==
    /\ pending \subseteq rows
    /\ \A i \in pending : news[i].flag \/ (i \in late /\ i \notin Held)
    /\ learner.at = "clear" => pending \cap learner.items \subseteq late

\* The signals the learner holds are there until they are taught.
LessonInv ==
    /\ learner.at = "think" => learner.signals \subseteq signals
    /\ learner.at \in {"clear", "forget"} => learner.signals \subseteq taught

FInv == TypeOK /\ OpinionInv /\ LessonInv

\* Between two users the learner holds nothing.
LEMMA HoldsNothing ==
    ASSUME learner' \in {Idle} \cup Waiting
    PROVE  Held' = {} /\ learner'.at \notin {"signals", "think", "clear", "forget"}
BY DEF Held, Idle, Waiting

LEMMA InitFInv == Init => FInv
<1> SUFFICES ASSUME Init PROVE FInv
    OBVIOUS
<1>1. learner.at = "idle" /\ pending = {}
    BY DEF Init, Idle
<1> QED
    BY <1>1, InitType DEF FInv, OpinionInv, LessonInv

LEMMA MarkKeeps ==
    ASSUME FInv, NEW i \in rows, NEW marks \in SUBSET Marks, Mark(i, marks)
    PROVE  OpinionInv' /\ LessonInv'
<1>1. Held' = Held /\ learner' = learner /\ rows' = rows
    BY DEF Mark, Held
<1>2. /\ news'[i].flag
      /\ \A j \in Items \ {i} : news'[j] = news[j]
    BY DEF Mark, FInv, TypeOK, Row
<1>3. OpinionInv'
    BY <1>1, <1>2 DEF Mark, FInv, OpinionInv, TypeOK, Held
<1>4. LessonInv'
    BY <1>1 DEF Mark, FInv, LessonInv
<1> QED
    BY <1>3, <1>4

LEMMA RemoveKeeps ==
    ASSUME FInv, NEW u \in Users, NEW I \in SUBSET Items, NEW J \in SUBSET Items,
           StoreSignals(u, J), RemoveRows(I), UNCHANGED <<learner, taught>>
    PROVE  OpinionInv' /\ LessonInv'
<1>1. Held' = Held
    BY DEF Held
<1>2. \A j \in Items \ I : news'[j] = news[j]
    BY DEF RemoveRows
<1>3. OpinionInv'
    BY <1>1, <1>2 DEF RemoveRows, FInv, OpinionInv, TypeOK
<1>4. LessonInv'
    BY StoreType DEF FInv, LessonInv
<1> QED
    BY <1>3, <1>4

\* Of opinions and deletions nothing happens, and the learner stays.
LEMMA NothingSaid ==
    ASSUME FInv, UNCHANGED <<rows, signals, pending, late, taught, learner>>,
           \A i \in pending : news'[i].flag = news[i].flag \/ news'[i].flag
    PROVE  OpinionInv' /\ LessonInv'
<1>1. Held' = Held
    BY DEF Held
<1> QED
    BY <1>1 DEF FInv, OpinionInv, LessonInv

\* The learner lets go of a user.
LEMMA LetGo ==
    ASSUME FInv, UNCHANGED <<rows, news, pending>>, learner' \in {Idle} \cup Waiting,
           late \ Held \subseteq late'
    PROVE  OpinionInv' /\ LessonInv'
<1>1. Held' = {} /\ learner'.at \notin {"signals", "think", "clear", "forget"}
    BY HoldsNothing
<1> QED
    BY <1>1 DEF FInv, OpinionInv, LessonInv

LEMMA OpinionKeeps ==
    ASSUME FInv, Opinions
    PROVE  OpinionInv' /\ LessonInv'
<1>1. ASSUME NEW i \in Items, React(i) PROVE OpinionInv' /\ LessonInv'
    <2>1. PICK m \in {news[i].marks \ {"reaction"}, news[i].marks \cup {"reaction"}} :
              Mark(i, m)
        BY <1>1 DEF React
    <2>2. m \in SUBSET Marks
        BY DEF FInv, TypeOK, Row, Marks
    <2> QED
        BY <1>1, <2>1, <2>2, MarkKeeps DEF React
<1>2. ASSUME NEW i \in Items, Feedback(i) PROVE OpinionInv' /\ LessonInv'
    <2>1. PICK m \in {news[i].marks \ {"feedback"}, news[i].marks \cup {"feedback"}} :
              Mark(i, m)
        BY <1>2 DEF Feedback
    <2>2. m \in SUBSET Marks
        BY DEF FInv, TypeOK, Row, Marks
    <2> QED
        BY <1>2, <2>1, <2>2, MarkKeeps DEF Feedback
<1>3. ASSUME NEW i \in Items, Describe(i) PROVE OpinionInv' /\ LessonInv'
    <2>1. \A j \in Items : news'[j].flag = news[j].flag \/ news'[j].flag
        BY <1>3 DEF Describe, FInv, TypeOK, Row
    <2> QED
        BY <1>3, <2>1, NothingSaid DEF Describe, history, FInv, TypeOK
<1>4. ASSUME NEW r \in Requests, NEW i \in Items,
             BookmarkReads(r, i) \/ \E u \in Users : DeleteReads(r, i, u)
      PROVE  OpinionInv' /\ LessonInv'
    BY <1>4, NothingSaid DEF BookmarkReads, DeleteReads, history
<1>5. ASSUME NEW r \in Requests, BookmarkWrites(r) PROVE OpinionInv' /\ LessonInv'
    <2> DEFINE i == request[r].item
               m == IF request[r].was THEN news[i].marks \ {"bookmark"}
                    ELSE news[i].marks \cup {"bookmark"}
    <2>1. CASE i \in rows
        <3>1. m \in SUBSET Marks
            BY <2>1 DEF FInv, TypeOK, Row, Marks
        <3> QED
            BY <1>5, <2>1, <3>1, MarkKeeps DEF BookmarkWrites
    <2>2. CASE i \notin rows
        BY <1>5, <2>2, NothingSaid DEF BookmarkWrites, history
    <2> QED
        BY <2>1, <2>2
<1>6. ASSUME NEW r \in Requests, DeleteWrites(r) PROVE OpinionInv' /\ LessonInv'
    <2> DEFINE i == request[r].item
    <2>1. CASE i \in rows
        <3>1. {i} \in SUBSET Items /\ request[r].user \in Users
            BY <1>6, <2>1 DEF DeleteWrites, FInv, TypeOK, Request, NoRequest
        <3> QED
            BY <1>6, <2>1, <3>1, RemoveKeeps DEF DeleteWrites
    <2>2. CASE i \notin rows
        BY <1>6, <2>2, NothingSaid DEF DeleteWrites, history
    <2> QED
        BY <2>1, <2>2
<1>7. ASSUME NEW u \in Users, Configure(u) PROVE OpinionInv' /\ LessonInv'
    BY <1>7, NothingSaid DEF Configure, history
<1> QED
    BY <1>1, <1>2, <1>3, <1>4, <1>5, <1>6, <1>7 DEF Opinions

LEMMA CollectKeeps ==
    ASSUME FInv, Collect
    PROVE  OpinionInv' /\ LessonInv'
<1>1. CASE CollectorStarts \/ \E u \in Users : CollectorReads(u)
    BY <1>1, NothingSaid DEF CollectorStarts, CollectorReads, history
<1>2. CASE CollectorDeletes
    <2>1. gc.user \in Users /\ gc.read \in SUBSET Items
        BY <1>2, StageByName DEF CollectorDeletes, FInv, TypeOK, Deleting
    <2>2. Stale(gc.user, gc.cutoff) \in SUBSET Items
        BY DEF Stale, FInv, TypeOK
    <2> QED
        BY <1>2, <2>1, <2>2, RemoveKeeps DEF CollectorDeletes
<1> QED
    BY <1>1, <1>2 DEF Collect

LEMMA LearnKeeps ==
    ASSUME FInv, Learn
    PROVE  OpinionInv' /\ LessonInv'
<1>1. CASE LearnerStarts
    <2>1. learner' \in {Idle} \cup Waiting
        BY <1>1, NextUserType DEF LearnerStarts, FInv, TypeOK
    <2> QED
        BY <1>1, <2>1, LetGo DEF LearnerStarts, history
<1>2. ASSUME NEW u \in Users, LearnerReadsNews(u) PROVE OpinionInv' /\ LessonInv'
    <2>1. learner \in Waiting
        BY <1>2, StageByName DEF LearnerReadsNews, FInv, TypeOK
    <2>2. UNCHANGED <<rows, news, signals, pending, late, taught>>
        BY <1>2 DEF LearnerReadsNews, history
    <2>3. CASE learner.config[u].analyze
        <3>1. learner'.at = "signals" /\ learner'.items = Flagged(u)
            BY <1>2, <2>3 DEF LearnerReadsNews
        <3>2. Held' = Flagged(u)
            BY <3>1 DEF Held
        <3>3. \A i \in Flagged(u) : news[i].flag
            BY DEF Flagged
        <3> QED
            BY <2>2, <3>1, <3>2, <3>3 DEF FInv, OpinionInv, LessonInv
    <2>4. CASE ~learner.config[u].analyze
        <3>1. [learner EXCEPT !.left = @ \ {u}] \in Waiting
            BY <2>1 DEF Waiting
        <3>2. learner' \in {Idle} \cup Waiting
            BY <1>2, <2>4, <3>1, NextUserType DEF LearnerReadsNews, Waiting
        <3> QED
            BY <2>2, <3>2, LetGo
    <2> QED
        BY <2>3, <2>4
<1>3. CASE LearnerReadsSignals
    <2> DEFINE S == SignalsOf(learner.user)
    <2>1. UNCHANGED <<rows, news, signals, pending, late, taught>>
        BY <1>3 DEF LearnerReadsSignals, history
    <2>2. CASE learner.items = {} /\ S = {}
        <3>1. learner' \in {Idle} \cup Waiting
            BY <1>3, <2>2, NextUserOf DEF LearnerReadsSignals, FInv
        <3> QED
            BY <2>1, <3>1, LetGo
    <2>3. CASE ~(learner.items = {} /\ S = {})
        <3>1. /\ learner'.at = "think" /\ learner'.items = learner.items
              /\ learner'.signals = S
            BY <1>3, <2>3 DEF LearnerReadsSignals
        <3>2. Held' = Held /\ S \subseteq signals
            BY <1>3, <3>1 DEF Held, SignalsOf, LearnerReadsSignals
        <3> QED
            BY <2>1, <3>1, <3>2 DEF FInv, OpinionInv, LessonInv
    <2> QED
        BY <2>2, <2>3
<1>4. CASE LearnerSaves
    <2>1. learner \in Learning /\ learner.at = "think" /\ UNCHANGED <<rows, news, signals>>
        BY <1>4, StageByName DEF LearnerSaves, FInv, TypeOK
    <2>2. Held = learner.items
        BY <2>1 DEF Held
    <2>3. CASE /\ learner' = [learner EXCEPT !.at = "clear"]
               /\ pending' = pending \ (learner.items \ late)
               /\ taught' = taught \cup learner.signals
               /\ UNCHANGED late
        <3>1. /\ learner'.at = "clear" /\ learner'.items = learner.items
              /\ learner'.signals = learner.signals
            BY <2>1, <2>3 DEF Learning
        <3>2. Held' = Held
            BY <2>2, <3>1 DEF Held
        <3> QED
            BY <2>1, <2>3, <3>1, <3>2 DEF FInv, OpinionInv, LessonInv
    <2>4. CASE /\ learner' = NextUser(learner)
               /\ late' = late \ learner.items
               /\ UNCHANGED pending
        <3>1. learner' \in {Idle} \cup Waiting
            BY <2>1, <2>4, NextUserOf DEF FInv
        <3> QED
            BY <2>1, <2>2, <2>4, <3>1, LetGo
    <2> QED
        BY <1>4, <2>3, <2>4 DEF LearnerSaves
<1>5. CASE LearnerClearsFlags
    <2>1. learner \in Learning /\ learner.at = "clear"
        BY <1>5, StageByName DEF LearnerClearsFlags, FInv, TypeOK
    <2>2. learner'.at = "forget" /\ learner'.signals = learner.signals
        BY <1>5, <2>1 DEF LearnerClearsFlags, Learning
    <2>3. UNCHANGED <<rows, signals, pending, late, taught>>
        BY <1>5 DEF LearnerClearsFlags, history
    <2>4. \A i \in Items \ learner.items : news'[i] = news[i]
        BY <1>5 DEF LearnerClearsFlags, Unflagged
    <2>5. Held' = {}
        BY <2>2 DEF Held
    <2> QED
        BY <2>1, <2>2, <2>3, <2>4, <2>5 DEF FInv, OpinionInv, LessonInv, TypeOK
<1>6. CASE LearnerForgetsSignals
    <2>1. learner' \in {Idle} \cup Waiting
        BY <1>6, NextUserOf DEF LearnerForgetsSignals, FInv
    <2> QED
        BY <1>6, <2>1, LetGo DEF LearnerForgetsSignals, history
<1> QED
    BY <1>1, <1>2, <1>3, <1>4, <1>5, <1>6 DEF Learn

LEMMA FailKeeps ==
    ASSUME FInv, Fail
    PROVE  OpinionInv' /\ LessonInv'
<1>1. CASE LearnerFails
    <2>1. learner' \in {Idle} \cup Waiting
        BY <1>1, NextUserOf DEF LearnerFails, FInv
    <2> QED
        BY <1>1, <2>1, LetGo DEF LearnerFails
<1>2. CASE Crash
    BY <1>2, LetGo DEF Crash
<1>3. CASE CollectorFails \/ \E r \in Requests : RequestFails(r)
    BY <1>3, NothingSaid DEF CollectorFails, RequestFails, history
<1> QED
    BY <1>1, <1>2, <1>3 DEF Fail

LEMMA NextKeeps == FInv /\ [Next]_vars => FInv'
<1> SUFFICES ASSUME FInv, [Next]_vars PROVE OpinionInv' /\ LessonInv'
    BY NextType DEF FInv
<1>1. CASE UNCHANGED vars
    BY <1>1, NothingSaid DEF vars
<1>2. CASE NextDay
    BY <1>2, NothingSaid DEF NextDay, history
<1>3. ASSUME NEW i \in Items, Arrive(i) PROVE OpinionInv' /\ LessonInv'
    <2>1. i \notin pending /\ \A j \in Items \ {i} : news'[j] = news[j]
        BY <1>3 DEF Arrive, FInv, OpinionInv, TypeOK
    <2>2. UNCHANGED <<signals, pending, late, taught, learner>> /\ rows \subseteq rows'
        BY <1>3 DEF Arrive, history
    <2>3. Held' = Held
        BY <2>2 DEF Held
    <2> QED
        BY <2>1, <2>2, <2>3 DEF FInv, OpinionInv, LessonInv, TypeOK
<1> QED
    BY <1>1, <1>2, <1>3, OpinionKeeps, CollectKeeps, LearnKeeps, FailKeeps DEF Next

LEMMA FInvAlways == Spec => []FInv
<1>1. Init => FInv
    BY InitFInv
<1>2. FInv /\ [Next]_vars => FInv'
    BY NextKeeps
<1> QED
    BY <1>1, <1>2, PTL DEF Spec

\* No opinion is overlooked, for any number of articles, users and requests
\* (set_reaction, set_feedback and toggle_bookmark beside learn_user_preferences).
THEOREM OpinionsAreKept == Spec => []OpinionIsKept
<1>1. FInv => OpinionIsKept
    BY DEF FInv, OpinionInv, OpinionIsKept
<1> QED
    BY <1>1, FInvAlways, PTL

\* Each step of the feed is a step of the lessons or changes nothing of them.
LEMMA StepIsLesson == FInv /\ FInv' /\ [Next]_vars => [Lesson!LessonsNext]_(Lesson!lessonVars)
<1> SUFFICES ASSUME FInv, FInv', [Next]_vars
             PROVE  Lesson!LessonsNext \/ UNCHANGED <<signals, taught>>
    BY DEF Lesson!lessonVars
<1>1. CASE UNCHANGED vars
    BY <1>1 DEF vars
<1>2. CASE NextDay \/ \E i \in Items : Arrive(i)
    BY <1>2 DEF NextDay, Arrive, history
<1>3. ASSUME signals \subseteq signals', UNCHANGED taught PROVE Lesson!LessonsNext
    BY <1>3 DEF Lesson!LessonsNext, Lesson!Record, FInv, TypeOK
<1>4. CASE Opinions
    <2>1. UNCHANGED taught
        BY <1>4 DEF Opinions, React, Feedback, Describe, BookmarkReads, DeleteReads,
                    BookmarkWrites, DeleteWrites, Configure, Mark, history
    <2>2. signals \subseteq signals'
        BY <1>4 DEF Opinions, React, Feedback, Describe, BookmarkReads, DeleteReads,
                    BookmarkWrites, DeleteWrites, StoreSignals, Configure, Mark, history
    <2> QED
        BY <1>3, <2>1, <2>2
<1>5. CASE Collect
    <2>1. UNCHANGED taught /\ signals \subseteq signals'
        BY <1>5 DEF Collect, CollectorStarts, CollectorReads, CollectorDeletes,
                    StoreSignals, history
    <2> QED
        BY <1>3, <2>1
<1>6. CASE LearnerSaves
    <2>1. UNCHANGED signals /\ learner.signals \subseteq signals
        BY <1>6 DEF LearnerSaves, FInv, LessonInv
    <2>2. taught' = taught \cup learner.signals \/ UNCHANGED taught
        BY <1>6 DEF LearnerSaves
    <2> QED
        BY <2>1, <2>2 DEF Lesson!LessonsNext, Lesson!Teach
<1>7. CASE LearnerForgetsSignals
    <2>1. signals' = signals \ learner.signals /\ learner.signals \subseteq taught
        BY <1>7 DEF LearnerForgetsSignals, FInv, LessonInv
    <2>2. UNCHANGED taught
        BY <1>7 DEF LearnerForgetsSignals, history
    <2> QED
        BY <2>1, <2>2 DEF Lesson!LessonsNext, Lesson!Forget
<1>8. CASE LearnerStarts \/ (\E u \in Users : LearnerReadsNews(u)) \/ LearnerReadsSignals
           \/ LearnerClearsFlags
    BY <1>8 DEF LearnerStarts, LearnerReadsNews, LearnerReadsSignals, LearnerClearsFlags,
                history
<1>9. CASE Fail
    BY <1>9 DEF Fail, LearnerFails, CollectorFails, Crash, RequestFails, history
<1> QED
    BY <1>1, <1>2, <1>4, <1>5, <1>6, <1>7, <1>8, <1>9 DEF Next, Learn

\* A recorded deletion stays until a profile has it, whatever fails in between:
\* the three commits of learn_user_preferences come in the right order.
THEOREM FeedImplementsLessons == Spec => ImplementsLessons
<1>1. Init => Lesson!LessonsInit
    BY DEF Init, Lesson!LessonsInit
<1> QED
    BY <1>1, StepIsLesson, FInvAlways, PTL DEF Spec, ImplementsLessons, Lesson!LessonsSpec

\* What the household likes, only a request of the household takes away
\* (collect_stale_news: the DELETE looks at the opinions again).
THEOREM LikedAreKept == Spec => NothingLikedIsCollected
<1> DEFINE Taken == \A i \in rows \ rows' :
                       news[i].marks # {} =>
                          \E r \in Requests : request[r].op = "delete" /\ request[r].item = i
                                              /\ request'[r] = NoRequest
<1>1. TypeOK /\ [Next]_vars => [Taken]_vars
    <2> SUFFICES ASSUME TypeOK, Next, NEW i \in rows \ rows', news[i].marks # {}
                 PROVE  \E r \in Requests : request[r].op = "delete" /\ request[r].item = i
                                            /\ request'[r] = NoRequest
        OBVIOUS
    <2>1. ASSUME NEW r \in Requests, DeleteWrites(r)
          PROVE  request[r].op = "delete" /\ request[r].item = i /\ request'[r] = NoRequest
        BY <2>1 DEF DeleteWrites, RemoveRows, TypeOK
    <2>2. CASE CollectorDeletes
        BY <2>2 DEF CollectorDeletes, RemoveRows, Stale
    <2>3. CASE Opinions
        BY <2>1, <2>3 DEF Opinions, React, Feedback, Describe, BookmarkReads, DeleteReads,
                    BookmarkWrites, Configure, Mark
    <2>4. CASE NextDay \/ (\E j \in Items : Arrive(j)) \/ Learn \/ Fail \/ CollectorStarts
               \/ \E u \in Users : CollectorReads(u)
        BY <2>4 DEF NextDay, Arrive, Learn, LearnerStarts, LearnerReadsNews,
                    LearnerReadsSignals, LearnerSaves, LearnerClearsFlags,
                    LearnerForgetsSignals, Fail, LearnerFails, CollectorFails, Crash,
                    RequestFails, CollectorStarts, CollectorReads
    <2> QED
        BY <2>2, <2>3, <2>4 DEF Next, Collect
<1> QED
    BY <1>1, FeedTypes, PTL DEF Spec, NothingLikedIsCollected

-----------------------------------------------------------------------------
(* Deletions and their signals                                             *)

\* A signal that will be stored is a new one.
SignalIds == \A s \in signals : s.id < stored[s.item]

\* Between its two statements the collector knows what it will delete, except
\* for what its limit cut off, what was touched, and what has arrived since.
ReadInv ==
    gc.at = "delete" =>
        /\ gc.read \subseteq born
        /\ gc.cutoff + gc.config[gc.user].retention <= today
        /\ ~gc.cut => Stale(gc.user, gc.cutoff) \subseteq gc.read \cup gc.touched \cup SinceRead
        /\ gc.read \cap rows \subseteq Stale(gc.user, gc.cutoff) \cup gc.touched

SignalInv == TypeOK /\ SignalIds /\ ReadInv

\* The collector stays where it is, or ends.
SameRead ==
    gc'.at = "delete" =>
        /\ gc.at = "delete" /\ gc'.user = gc.user /\ gc'.cutoff = gc.cutoff
        /\ gc'.config = gc.config /\ gc'.read = gc.read /\ gc'.cut = gc.cut
        /\ gc.touched \subseteq gc'.touched

\* A row that was there has its marks, or was touched; another one is new.
Lasting(i) ==
    \/ /\ i \in rows /\ news'[i].created = news[i].created
       /\ gc'.at = "delete" => news'[i].marks = news[i].marks \/ i \in gc'.touched
    \/ i \notin born /\ news'[i].created = today

\* A step that neither takes a row away nor stores a signal.
Mild ==
    /\ rows \subseteq rows' /\ signals' \subseteq signals /\ UNCHANGED stored
    /\ born \subseteq born' /\ today' >= today
    /\ SameRead
    /\ \A i \in rows' : Lasting(i)

LEMMA CutoffType ==
    ASSUME TypeOK, gc.at = "delete"
    PROVE  /\ gc.cutoff \in Int /\ gc.config[gc.user].retention \in Int
           /\ gc.user \in Users /\ gc.read \in SUBSET Items /\ gc.touched \in SUBSET Items
<1>1. gc \in Deleting
    BY StageByName DEF TypeOK
<1>2. gc.cutoff \in Int /\ gc.user \in Users /\ gc.config \in [Users -> Config]
    BY <1>1 DEF Deleting
<1>3. gc.config[gc.user] \in Config
    BY <1>2
<1>4. gc.config[gc.user].retention \in Int
    BY <1>3, FeedAssumption DEF Config
<1> QED
    BY <1>1, <1>2, <1>4 DEF Deleting

\* What lasts keeps the collector right about what it has read.
LEMMA LastingKeeps ==
    ASSUME SignalInv, TypeOK', born \subseteq born', today' >= today, SameRead,
           \A i \in rows' : Lasting(i)
    PROVE  ReadInv'
<1> SUFFICES ASSUME gc'.at = "delete" PROVE ReadInv'
    BY DEF ReadInv
<1> DEFINE day == gc.cutoff + gc.config[gc.user].retention
<1>1. /\ gc.at = "delete" /\ gc'.user = gc.user /\ gc'.cutoff = gc.cutoff
      /\ gc'.config = gc.config /\ gc'.read = gc.read /\ gc'.cut = gc.cut
      /\ gc.touched \subseteq gc'.touched
    BY DEF SameRead
<1>2. day \in Int /\ today \in Int /\ today' \in Int
    BY <1>1, CutoffType DEF SignalInv, TypeOK
<1>3. gc.read \subseteq born /\ day <= today
    BY <1>1 DEF SignalInv, ReadInv
<1>4. gc'.read \subseteq born'
    BY <1>1, <1>3
<1>5. gc'.cutoff + gc'.config[gc'.user].retention <= today'
    <2>1. gc'.cutoff + gc'.config[gc'.user].retention = day
        BY <1>1
    <2> HIDE DEF day
    <2> QED
        BY <1>2, <1>3, <2>1
<1>6. ASSUME NEW i \in rows', i \in rows, news'[i].created = news[i].created,
             news'[i].marks = news[i].marks \/ i \in gc'.touched
      PROVE  /\ i \in Stale(gc.user, gc.cutoff) => i \in Stale(gc.user, gc.cutoff)' \cup gc'.touched
             /\ i \in Stale(gc.user, gc.cutoff)' => i \in Stale(gc.user, gc.cutoff) \cup gc'.touched
             /\ i \in SinceRead => i \in SinceRead'
    BY <1>1, <1>6 DEF Stale, SinceRead
<1>7. ASSUME ~gc'.cut, NEW i \in rows', i \in Stale(gc.user, gc.cutoff)'
      PROVE  i \in gc'.read \cup gc'.touched \cup SinceRead'
    <2>1. CASE i \in rows /\ news'[i].created = news[i].created
               /\ (news'[i].marks = news[i].marks \/ i \in gc'.touched)
        <3>1. i \in Stale(gc.user, gc.cutoff) \cup gc'.touched
            BY <1>1, <1>6, <1>7, <2>1
        <3>2. i \in Stale(gc.user, gc.cutoff) => i \in gc.read \cup gc.touched \cup SinceRead
            BY <1>1, <1>7 DEF SignalInv, ReadInv
        <3> QED
            BY <1>1, <1>6, <2>1, <3>1, <3>2
    <2>2. CASE news'[i].created = today
        <3>1. gc'.cutoff + gc'.config[gc'.user].retention = day
            BY <1>1
        <3> HIDE DEF day
        <3>2. news'[i].created >= day
            BY <1>2, <1>3, <2>2
        <3>3. news'[i].created < gc'.cutoff
            BY <1>1, <1>7 DEF Stale
        <3>4. gc'.config[gc'.user].retention < 0
            <4>1. gc'.cutoff \in Int /\ gc'.config[gc'.user].retention \in Int
                BY <1>1, CutoffType DEF SignalInv
            <4>2. news'[i].created \in Int
                BY <1>2, <2>2
            <4> QED
                BY <3>1, <3>2, <3>3, <4>1, <4>2
        <3> QED
            BY <1>7, <3>1, <3>2, <3>4 DEF SinceRead
    <2> QED
        BY <2>1, <2>2 DEF Lasting
<1>8. ASSUME NEW i \in rows', i \in gc'.read
      PROVE  i \in Stale(gc.user, gc.cutoff)' \cup gc'.touched
    <2>1. i \in born
        BY <1>1, <1>3, <1>8
    <2>2. i \in rows /\ news'[i].created = news[i].created
          /\ (news'[i].marks = news[i].marks \/ i \in gc'.touched)
        BY <2>1 DEF Lasting
    <2>3. i \in Stale(gc.user, gc.cutoff) \cup gc.touched
        BY <1>1, <1>8, <2>2 DEF SignalInv, ReadInv
    <2> QED
        BY <1>1, <1>6, <2>2, <2>3
<1>9. Stale(gc.user, gc.cutoff)' \subseteq rows'
    BY DEF Stale
<1> QED
    BY <1>4, <1>5, <1>7, <1>8, <1>9 DEF ReadInv

\* What a step may be.
LEMMA MarkIsMild ==
    ASSUME TypeOK, NEW i \in rows, NEW marks, Mark(i, marks)
    PROVE  Mild
<1>1. UNCHANGED <<today, rows, signals, stored, born>> /\ today' >= today
    BY DEF Mark, TypeOK
<1>2. SameRead /\ (gc'.at = "delete" => i \in gc'.touched)
    <2>1. CASE gc.at = "delete"
        <3>1. gc \in Deleting /\ gc' = [gc EXCEPT !.touched = @ \cup {i}]
            BY <2>1, StageByName DEF Mark, Touched, TypeOK
        <3> QED
            BY <3>1 DEF SameRead, Deleting
    <2>2. CASE gc.at # "delete"
        BY <2>2 DEF Mark, Touched, SameRead
    <2> QED
        BY <2>1, <2>2
<1>3. ASSUME NEW j \in rows' PROVE Lasting(j)
    <2>1. j \in rows /\ j \in Items
        BY <1>1 DEF TypeOK
    <2>2. CASE j = i
        <3>1. news'[i].created = news[i].created
            BY <2>1, <2>2 DEF Mark, TypeOK, Row
        <3> QED
            BY <1>2, <2>1, <2>2, <3>1 DEF Lasting
    <2>3. CASE j # i
        <3>1. news'[j] = news[j]
            BY <2>1, <2>3 DEF Mark, TypeOK
        <3> QED
            BY <2>1, <3>1 DEF Lasting
    <2> QED
        BY <2>2, <2>3
<1> QED
    BY <1>1, <1>2, <1>3 DEF Mild

LEMMA QuietIsMild ==
    ASSUME TypeOK, UNCHANGED <<rows, stored, born>>, today' >= today,
           signals' \subseteq signals, SameRead,
           \A i \in rows : news'[i].created = news[i].created /\ news'[i].marks = news[i].marks
    PROVE  Mild
BY DEF Mild, Lasting

LEMMA OpinionsAreMild ==
    ASSUME TypeOK, Opinions
    PROVE  Mild \/ \E r \in Requests : DeleteWrites(r) /\ request[r].item \in rows
<1>0. gc' = gc => SameRead
    BY DEF SameRead
<1>t. today \in Nat
    BY DEF TypeOK
<1>1. ASSUME NEW i \in Items, React(i) \/ Feedback(i) PROVE Mild
    BY <1>1, MarkIsMild DEF React, Feedback
<1>2. ASSUME NEW i \in Items, Describe(i) PROVE Mild
    <2>1. \A j \in rows : news'[j].created = news[j].created /\ news'[j].marks = news[j].marks
        BY <1>2 DEF Describe, TypeOK, Row
    <2> QED
        BY <1>0, <1>t, <1>2, <2>1, QuietIsMild DEF Describe
<1>3. ASSUME NEW r \in Requests, NEW i \in Items,
             BookmarkReads(r, i) \/ \E u \in Users : DeleteReads(r, i, u)
      PROVE  Mild
    BY <1>0, <1>t, <1>3, QuietIsMild DEF BookmarkReads, DeleteReads
<1>4. ASSUME NEW r \in Requests, BookmarkWrites(r) PROVE Mild
    <2>1. CASE request[r].item \in rows
        BY <1>4, <2>1, MarkIsMild DEF BookmarkWrites
    <2>2. CASE request[r].item \notin rows
        BY <1>0, <1>t, <1>4, <2>2, QuietIsMild DEF BookmarkWrites
    <2> QED
        BY <2>1, <2>2
<1>5. ASSUME NEW r \in Requests, DeleteWrites(r), request[r].item \notin rows PROVE Mild
    BY <1>0, <1>t, <1>5, QuietIsMild DEF DeleteWrites, budget
<1>6. ASSUME NEW u \in Users, Configure(u) PROVE Mild
    BY <1>0, <1>t, <1>6, QuietIsMild DEF Configure
<1> QED
    BY <1>1, <1>2, <1>3, <1>4, <1>5, <1>6 DEF Opinions

LEMMA LearningIsMild ==
    ASSUME TypeOK, Learn
    PROVE  Mild
<1>1. UNCHANGED <<rows, stored, born, today, gc>> /\ today \in Nat
    BY DEF Learn, LearnerStarts, LearnerReadsNews, LearnerReadsSignals, LearnerSaves,
           LearnerClearsFlags, LearnerForgetsSignals, budget, TypeOK
<1>2. signals' \subseteq signals
    BY DEF Learn, LearnerStarts, LearnerReadsNews, LearnerReadsSignals, LearnerSaves,
           LearnerClearsFlags, LearnerForgetsSignals
<1>3. \A i \in rows : news'[i].created = news[i].created /\ news'[i].marks = news[i].marks
    <2>1. CASE LearnerClearsFlags
        BY <2>1 DEF LearnerClearsFlags, Unflagged, TypeOK, Row
    <2>2. CASE ~LearnerClearsFlags
        BY <2>2 DEF Learn, LearnerStarts, LearnerReadsNews, LearnerReadsSignals,
                    LearnerSaves, LearnerForgetsSignals
    <2> QED
        BY <2>1, <2>2
<1>4. SameRead
    BY <1>1 DEF SameRead
<1> QED
    BY <1>1, <1>2, <1>3, <1>4, QuietIsMild

LEMMA StepsOfDeletion ==
    ASSUME TypeOK, [Next]_vars
    PROVE  \/ Mild
           \/ \E u \in Users : CollectorReads(u)
           \/ CollectorDeletes
           \/ \E r \in Requests : DeleteWrites(r) /\ request[r].item \in rows
<1>0. today \in Nat /\ (gc' = gc => SameRead) /\ (gc'.at # "delete" => SameRead)
    BY DEF TypeOK, SameRead
<1>1. CASE NextDay
    BY <1>0, <1>1, QuietIsMild DEF NextDay
<1>2. ASSUME NEW i \in Items, Arrive(i) PROVE Mild
    <2>1. news'[i].created = today /\ \A j \in Items \ {i} : news'[j] = news[j]
        BY <1>2 DEF Arrive, TypeOK, NewRow
    <2>2. \A j \in rows' : Lasting(j)
        BY <1>2, <2>1 DEF Arrive, Lasting, TypeOK
    <2> QED
        BY <1>0, <1>2, <2>2 DEF Arrive, Mild, budget
<1>3. CASE CollectorStarts
    <2>1. gc' \in {Idle} \cup Waiting
        BY <1>3, NextUserType DEF CollectorStarts, TypeOK
    <2>2. gc'.at # "delete"
        BY <2>1 DEF Idle, Waiting
    <2> QED
        BY <1>0, <1>3, <2>2, QuietIsMild DEF CollectorStarts, budget
<1>4. CASE Fail
    <2>1. gc' = gc \/ gc' = Idle
        BY <1>4 DEF Fail, LearnerFails, CollectorFails, Crash, RequestFails
    <2>2. SameRead
        BY <1>0, <2>1 DEF Idle
    <2> QED
        BY <1>0, <1>4, <2>2, QuietIsMild
           DEF Fail, LearnerFails, CollectorFails, Crash, RequestFails
<1>5. CASE UNCHANGED vars
    BY <1>0, <1>5, QuietIsMild DEF vars
<1> QED
    BY <1>1, <1>2, <1>3, <1>4, <1>5, OpinionsAreMild, LearningIsMild DEF Next, Collect

LEMMA StoreKeeps ==
    ASSUME TypeOK, SignalIds, NEW u \in Users, NEW I \in SUBSET Items, StoreSignals(u, I)
    PROVE  /\ SignalIds'
           /\ {s.item : s \in signals' \ signals} = I
<1>1. \A i \in Items : stored[i] \in Nat /\ stored'[i] = IF i \in I THEN stored[i] + 1 ELSE stored[i]
    BY DEF StoreSignals, TypeOK
<1>2. \A s \in signals : s.item \in Items /\ s.id \in Nat /\ s.id < stored[s.item]
    BY DEF SignalIds, TypeOK, Signal
<1>3. \A s \in NewSignals(u, I) : s.item \in I /\ s.id = stored[s.item]
    BY DEF NewSignals
<1>4. signals' = signals \cup NewSignals(u, I)
    BY DEF StoreSignals
<1>5. SignalIds'
    <2>1. ASSUME NEW s \in signals PROVE s.id < stored'[s.item]
        BY <1>1, <1>2
    <2>2. ASSUME NEW s \in NewSignals(u, I) PROVE s.id < stored'[s.item]
        BY <1>1, <1>3
    <2> QED
        BY <1>4, <2>1, <2>2 DEF SignalIds
<1>6. NewSignals(u, I) \cap signals = {}
    <2> SUFFICES ASSUME NEW s \in NewSignals(u, I), s \in signals PROVE FALSE
        OBVIOUS
    <2>1. s.id = stored[s.item] /\ s.id < stored[s.item] /\ s.id \in Nat
        BY <1>2, <1>3
    <2> QED
        BY <2>1
<1>7. signals' \ signals = NewSignals(u, I)
    BY <1>4, <1>6
<1>8. {s.item : s \in NewSignals(u, I)} = I
    <2>1. ASSUME NEW i \in I PROVE \E s \in NewSignals(u, I) : s.item = i
        <3> DEFINE s == [user |-> u, item |-> i, id |-> stored[i], date |-> today]
        <3>1. s \in NewSignals(u, I) /\ s.item = i
            BY DEF NewSignals
        <3> QED
            BY <3>1, Zenon
    <2> QED
        BY <1>3, <2>1
<1> QED
    BY <1>5, <1>7, <1>8

LEMMA ReadingKnows ==
    ASSUME TypeOK, NEW u \in Users, CollectorReads(u)
    PROVE  ReadInv'
<1>1. PICK cutoff, S :
          /\ cutoff = today - gc.config[u].retention
          /\ S \in Newest(Stale(u, cutoff), Limit)
          /\ gc' = [at |-> "delete", left |-> gc.left \ {u}, config |-> gc.config,
                    user |-> u, cutoff |-> cutoff, read |-> S, cut |-> S # Stale(u, cutoff),
                    touched |-> {}]
    BY DEF CollectorReads
<1>2. UNCHANGED <<rows, news, born, today>>
    BY DEF CollectorReads, budget
<1>3. /\ gc'.config = gc.config /\ gc'.user = u /\ gc'.cutoff = cutoff /\ gc'.read = S
      /\ gc'.cut = (S # Stale(u, cutoff))
    BY <1>1
<1>4. S \subseteq Stale(u, cutoff) /\ Stale(u, cutoff) \subseteq rows /\ rows \subseteq born
    BY <1>1 DEF Newest, Stale, TypeOK
<1>5. cutoff + gc.config[u].retention = today
    <2>1. gc \in Waiting
        BY StageByName DEF CollectorReads, TypeOK
    <2>2. gc.config[u] \in Config
        BY <2>1 DEF Waiting
    <2>3. gc.config[u].retention \in Int /\ today \in Nat
        BY <2>2, FeedAssumption DEF Config, TypeOK
    <2> QED
        BY <1>1, <2>3
<1>6. Stale(gc.user, gc.cutoff)' = Stale(u, cutoff)
    BY <1>2, <1>3 DEF Stale
<1>7. today' <= today'
    BY <1>2 DEF TypeOK
<1>8. ~gc'.cut => Stale(u, cutoff) \subseteq S
    BY <1>3
<1> HIDE DEF ReadInv
<1>9. gc'.cutoff + gc'.config[gc'.user].retention <= today'
    BY <1>2, <1>3, <1>5, <1>7
<1> QED
    BY <1>2, <1>3, <1>4, <1>6, <1>8, <1>9 DEF ReadInv

LEMMA SignalInvStep == SignalInv /\ [Next]_vars => SignalInv'
<1> SUFFICES ASSUME SignalInv, [Next]_vars PROVE SignalIds' /\ ReadInv'
    BY NextType DEF SignalInv
<1>0. TypeOK /\ TypeOK' /\ SignalIds
    BY NextType DEF SignalInv
<1>1. CASE Mild
    <2>1. ReadInv'
        BY <1>0, <1>1, LastingKeeps DEF Mild
    <2> QED
        BY <1>0, <1>1, <2>1 DEF Mild, SignalIds
<1>2. ASSUME NEW u \in Users, CollectorReads(u) PROVE SignalIds' /\ ReadInv'
    BY <1>0, <1>2, ReadingKnows DEF CollectorReads, SignalIds
<1>3. CASE CollectorDeletes
    <2>1. SignalIds'
        BY <1>0, <1>3, StoreKeeps, CutoffType DEF CollectorDeletes
    <2>2. gc' \in {Idle} \cup Waiting
        BY <1>0, <1>3, NextUserOf DEF CollectorDeletes
    <2>3. gc'.at # "delete"
        BY <2>2 DEF Idle, Waiting
    <2> QED
        BY <2>1, <2>3 DEF ReadInv
<1>4. ASSUME NEW r \in Requests, DeleteWrites(r), request[r].item \in rows
      PROVE  SignalIds' /\ ReadInv'
    <2> DEFINE i == request[r].item
    <2>1. i \in Items /\ request[r].user \in Users
        BY <1>0, <1>4 DEF DeleteWrites, TypeOK, Request, NoRequest
    <2>2. StoreSignals(request[r].user, {i}) /\ RemoveRows({i})
          /\ UNCHANGED <<gc, born, today>>
        BY <1>4 DEF DeleteWrites, budget
    <2>3. SignalIds'
        BY <1>0, <2>1, <2>2, StoreKeeps
    <2>4. \A j \in rows' : j \in rows /\ news'[j] = news[j]
        BY <1>0, <2>2 DEF RemoveRows, TypeOK
    <2>5. \A j \in rows' : Lasting(j)
        BY <2>4 DEF Lasting
    <2>6. SameRead /\ today' >= today /\ born \subseteq born'
        BY <1>0, <2>2 DEF SameRead, TypeOK
    <2> QED
        BY <1>0, <2>3, <2>5, <2>6, LastingKeeps
<1> QED
    BY <1>0, <1>1, <1>2, <1>3, <1>4, StepsOfDeletion

LEMMA SignalInvAlways == Spec => []SignalInv
<1>1. Init => SignalInv
    <2> SUFFICES ASSUME Init PROVE SignalInv
        OBVIOUS
    <2>1. gc.at = "idle" /\ signals = {}
        BY DEF Init, Idle
    <2> QED
        BY <2>1, InitType DEF SignalInv, SignalIds, ReadInv
<1> QED
    BY <1>1, SignalInvStep, PTL DEF Spec

\* Whoever removes an article - the household or collect_stale_news, in which
\* order ever their statements come - leaves a signal of it for the learner, as
\* far as the collector's read could see it; and no article that stays has one,
\* unless an opinion on it came between the collector's two statements.
THEOREM DeletionsAreNoticed == Spec => DeletionLeavesSignal
<1> DEFINE New == {s.item : s \in signals' \ signals}
           Noticed == /\ rows \ rows' \subseteq New \cup Unnoticed
                      /\ New \cap rows' \subseteq IF gc.at = "delete" THEN gc.touched ELSE {}
<1>1. SignalInv /\ [Next]_vars => [Noticed]_vars
    <2> SUFFICES ASSUME SignalInv, [Next]_vars PROVE Noticed
        OBVIOUS
    <2>0. TypeOK /\ SignalIds
        BY DEF SignalInv
    <2>1. CASE Mild \/ \E u \in Users : CollectorReads(u)
        <3>1. rows \ rows' = {} /\ signals' \ signals = {}
            BY <2>1 DEF Mild, CollectorReads
        <3> QED
            BY <3>1
    <2>2. CASE CollectorDeletes
        <3> DEFINE S == Stale(gc.user, gc.cutoff)
        <3>1. New = gc.read
            BY <2>0, <2>2, StoreKeeps, CutoffType DEF CollectorDeletes
        <3>2. rows' = rows \ S /\ S \subseteq rows /\ rows \subseteq Items
            BY <2>0, <2>2 DEF CollectorDeletes, RemoveRows, Stale, TypeOK
        <3>3. /\ ~gc.cut => S \subseteq gc.read \cup gc.touched \cup SinceRead
              /\ gc.read \cap rows \subseteq S \cup gc.touched
            BY <2>2 DEF CollectorDeletes, SignalInv, ReadInv
        <3> HIDE DEF S, New
        <3>4. rows \ rows' \subseteq New \cup Unnoticed
            BY <2>2, <3>1, <3>2, <3>3 DEF Unnoticed, CollectorDeletes
        <3> QED
            BY <2>2, <3>1, <3>2, <3>3, <3>4 DEF CollectorDeletes
    <2>3. ASSUME NEW r \in Requests, DeleteWrites(r), request[r].item \in rows
          PROVE  Noticed
        <3> DEFINE i == request[r].item
        <3>1. i \in Items /\ request[r].user \in Users
            BY <2>0, <2>3 DEF DeleteWrites, TypeOK, Request, NoRequest
        <3>2. StoreSignals(request[r].user, {i}) /\ rows' = rows \ {i}
            BY <2>3 DEF DeleteWrites, RemoveRows
        <3>3. New = {i}
            BY <2>0, <3>1, <3>2, StoreKeeps
        <3> QED
            BY <3>2, <3>3
    <2> QED
        BY <2>0, <2>1, <2>2, <2>3, StepsOfDeletion
<1> QED
    BY <1>1, SignalInvAlways, PTL DEF Spec, DeletionLeavesSignal

=============================================================================
