------------------------ MODULE NotificationsProofs ------------------------
(***************************************************************************)
(* Proofs about Notifications, for any users, events and requests.         *)
(*                                                                         *)
(* While no two operations on a user's key have overlapped, at most one is *)
(* between its two commands, and what it has got is still the value; so a  *)
(* set only adds its note, and a delete only takes away what is shown.     *)
(***************************************************************************)
EXTENDS Notifications, TLAPS

\* Operation o is between its two commands, on the key of user u.
Under(o, u) ==
  \/ o \in Deliveries /\ task[o] = "set" /\ o[2] = u
  \/ o \in Clients /\ client[o] = "delete" /\ asker[o] = u

AloneInv ==
  \A u \in Users \ raced : \A o, p \in Operations :
    Under(o, u) /\ Under(p, u) => o = p

CopyInv ==
  \A u \in Users \ raced : \A o \in Operations : Under(o, u) => copy[o] = store[u]

AskerInv == \A r \in Clients : client[r] = "delete" => asker[r] \in Users

\* A note that was not set yet is nowhere.
FreshInv ==
  \A d \in Deliveries :
    d[2] \notin raced /\ task[d] \in {"idle", "none", "get", "set"} =>
      d[1] \notin store[d[2]] \cup shown[d[2]]

UnseenInv == \A u \in Users \ raced : store[u] \cap shown[u] = {}

NInv == /\ TypeOK
        /\ AloneInv
        /\ CopyInv
        /\ AskerInv
        /\ FreshInv
        /\ UnseenInv
        /\ NoNoteIsLost
        /\ ShownOnce

-----------------------------------------------------------------------------
LEMMA Pairs ==
  /\ \A d \in Deliveries : d[1] \in Events /\ d[2] \in Users /\ d = <<d[1], d[2]>>
                           /\ d \in Operations
  /\ \A d, f \in Deliveries : d[1] = f[1] /\ d[2] = f[2] => d = f
  /\ \A e \in Events, u \in Users : /\ <<e, u>> \in Deliveries
                                    /\ <<e, u>>[1] = e /\ <<e, u>>[2] = u
  /\ \A r \in Clients : r \in Operations /\ r \notin Deliveries
BY ClientsAssumption DEF Deliveries, Operations

LEMMA BusyIsUnder ==
  \A u \in Users : Busy(u) <=> \E o \in Operations : Under(o, u)
BY Pairs DEF Busy, Under, Operations

LEMMA InitNInv == Init => NInv
<1> SUFFICES ASSUME Init PROVE NInv
  OBVIOUS
<1>1. TypeOK
  BY DEF Init, TypeOK
<1>2. \A o, u : ~Under(o, u)
  BY DEF Init, Under
<1>3. AloneInv /\ CopyInv
  BY <1>2 DEF AloneInv, CopyInv
<1>4. AskerInv /\ FreshInv /\ UnseenInv /\ NoNoteIsLost /\ ShownOnce
  BY Pairs DEF Init, AskerInv, FreshInv, UnseenInv, NoNoteIsLost, ShownOnce
<1> QED
  BY <1>1, <1>3, <1>4 DEF NInv

-----------------------------------------------------------------------------
(* Events.                                                                 *)

LEMMA TellStep ==
  ASSUME NInv, NEW e \in Events, NEW audience, Tell(e, audience)
  PROVE  NInv'
<1> USE DEF NInv
<1>0. UNCHANGED <<members, store, client, asker, copy, shown, again, raced, cut>>
  BY DEF Tell, history
<1>1. \A d \in Deliveries :
        IF d[1] = e THEN task[d] = "idle" /\ task'[d] \in {"get", "none"}
                    ELSE task'[d] = task[d]
  BY Pairs DEF Tell
<1>2. TypeOK'
  <2>1. task' \in [Deliveries ->
                     {"idle", "none", "get", "set", "stored", "failed"}]
    BY DEF Tell, TypeOK
  <2> QED
    BY <1>0, <2>1 DEF TypeOK
<1>3. \A o, u : Under(o, u)' <=> Under(o, u)
  BY <1>0, <1>1 DEF Under
<1>4. AloneInv' /\ CopyInv'
  BY <1>0, <1>3 DEF AloneInv, CopyInv
<1>5. AskerInv' /\ UnseenInv' /\ ShownOnce'
  BY <1>0 DEF AskerInv, UnseenInv, ShownOnce
<1>6. FreshInv' /\ NoNoteIsLost'
  BY <1>0, <1>1 DEF FreshInv, NoNoteIsLost
<1> QED
  BY <1>2, <1>4, <1>5, <1>6

-----------------------------------------------------------------------------
(* An operation begins: its get.                                           *)

LEMMA BeginStep ==
  ASSUME TypeOK, AloneInv, CopyInv, NEW x \in Operations, NEW u \in Users,
         Overlap(u), UNCHANGED store,
         copy' = [copy EXCEPT ![x] = store[u]],
         ~ \E v \in Users : Under(x, v), Under(x, u)',
         \A o \in Operations, v \in Users :
           (o # x \/ v # u) => (Under(o, v)' <=> Under(o, v))
  PROVE  AloneInv' /\ CopyInv'
<1>1. raced' = IF \E o \in Operations : Under(o, u) THEN raced \cup {u} ELSE raced
  BY BusyIsUnder DEF Overlap
<1>2. \A o \in Operations : copy'[o] = IF o = x THEN store[u] ELSE copy[o]
  BY DEF TypeOK
<1>3. AloneInv'
  BY <1>1 DEF AloneInv
<1>4. CopyInv'
  BY <1>1, <1>2 DEF CopyInv
<1> QED
  BY <1>3, <1>4

LEMMA NotifyGetStep ==
  ASSUME NInv, NEW d \in Deliveries, NotifyGet(d)
  PROVE  NInv'
<1> USE DEF NInv
<1>0. /\ UNCHANGED <<members, store, client, asker, shown, again, cut>>
      /\ task[d] = "get" /\ task' = [task EXCEPT ![d] = "set"]
      /\ copy' = [copy EXCEPT ![d] = store[d[2]]]
      /\ Overlap(d[2]) /\ d[2] \in Users /\ d \in Operations /\ d \notin Clients
  BY Pairs DEF NotifyGet
<1>1. raced \subseteq raced' /\ raced' \subseteq Users
  BY <1>0 DEF Overlap, TypeOK
<1>2. \A f \in Deliveries : task'[f] = IF f = d THEN "set" ELSE task[f]
  BY <1>0 DEF TypeOK
<1>3. TypeOK'
  <2>1. copy' \in [Operations -> SUBSET Events]
    BY <1>0 DEF TypeOK
  <2>2. task' \in [Deliveries ->
                     {"idle", "none", "get", "set", "stored", "failed"}]
    BY <1>0 DEF TypeOK
  <2> QED
    BY <1>0, <1>1, <2>1, <2>2 DEF TypeOK
<1>4. AloneInv' /\ CopyInv'
  <2>1. ~ \E v \in Users : Under(d, v)
    BY <1>0 DEF Under
  <2>2. Under(d, d[2])'
    BY <1>2 DEF Under
  <2>3. \A o \in Operations, v \in Users :
          (o # d \/ v # d[2]) => (Under(o, v)' <=> Under(o, v))
    BY <1>0, <1>2 DEF Under
  <2> QED
    BY <1>0, <2>1, <2>2, <2>3, BeginStep
<1>5. AskerInv' /\ UnseenInv' /\ ShownOnce'
  BY <1>0, <1>1 DEF AskerInv, UnseenInv, ShownOnce
<1>6. FreshInv' /\ NoNoteIsLost'
  BY <1>0, <1>1, <1>2 DEF FreshInv, NoNoteIsLost
<1> QED
  BY <1>3, <1>4, <1>5, <1>6

LEMMA ClientGetStep ==
  ASSUME NInv, NEW r \in Clients, ClientGet(r)
  PROVE  NInv'
<1> USE DEF NInv
<1>0. PICK u \in members :
        /\ client[r] = "idle" /\ asker' = [asker EXCEPT ![r] = u]
        /\ \/ /\ client' = [client EXCEPT ![r] = "answered"]
              /\ UNCHANGED <<copy, raced>>
           \/ /\ client' = [client EXCEPT ![r] = "delete"]
              /\ copy' = [copy EXCEPT ![r] = store[u]]
              /\ Overlap(u)
        /\ UNCHANGED <<members, store, task, shown, again, cut>>
  BY DEF ClientGet
<1>1. u \in Users /\ r \in Operations /\ r \notin Deliveries
  BY Pairs DEF TypeOK
<1>2. raced \subseteq raced' /\ raced' \subseteq Users
  BY <1>0, <1>1 DEF Overlap, TypeOK
<1>3. \A q \in Clients : /\ asker'[q] = IF q = r THEN u ELSE asker[q]
                         /\ q # r => client'[q] = client[q]
  BY <1>0 DEF TypeOK
<1>4. TypeOK'
  <2>1. copy' \in [Operations -> SUBSET Events]
    BY <1>0, <1>1 DEF TypeOK
  <2>2. client' \in [Clients -> {"idle", "delete", "answered", "failed"}]
    BY <1>0 DEF TypeOK
  <2>3. asker' \in [Clients -> Users \cup {None}]
    BY <1>0, <1>1 DEF TypeOK
  <2> QED
    BY <1>0, <1>2, <2>1, <2>2, <2>3 DEF TypeOK
<1>5. AloneInv' /\ CopyInv'
  <2>1. \A o \in Operations, v \in Users :
          (o # r \/ v # u) => (Under(o, v)' <=> Under(o, v))
    BY <1>0, <1>1, <1>3 DEF Under
  <2>2. ~ \E v \in Users : Under(r, v)
    BY <1>0, <1>1 DEF Under
  <2>3. CASE client' = [client EXCEPT ![r] = "answered"] /\ UNCHANGED <<copy, raced>>
    <3>1. \A o \in Operations, v \in Users : Under(o, v)' => Under(o, v)
      BY <1>1, <2>1, <2>3 DEF Under, TypeOK
    <3> QED
      BY <1>0, <2>3, <3>1 DEF AloneInv, CopyInv
  <2>4. CASE /\ client' = [client EXCEPT ![r] = "delete"]
             /\ copy' = [copy EXCEPT ![r] = store[u]]
             /\ Overlap(u)
    <3>1. Under(r, u)'
      BY <1>3, <2>4 DEF Under, TypeOK
    <3> QED
      BY <1>0, <1>1, <2>1, <2>2, <2>4, <3>1, BeginStep
  <2> QED
    BY <1>0, <2>3, <2>4
<1>6. AskerInv'
  BY <1>0, <1>1, <1>3 DEF AskerInv
<1>7. UnseenInv' /\ ShownOnce' /\ FreshInv' /\ NoNoteIsLost'
  BY <1>0, <1>2 DEF UnseenInv, ShownOnce, FreshInv, NoNoteIsLost
<1> QED
  BY <1>4, <1>5, <1>6, <1>7

-----------------------------------------------------------------------------
(* An operation ends: its set or delete, or a failure.                     *)

LEMMA EndStep ==
  ASSUME TypeOK, AloneInv, CopyInv, NEW x \in Operations, NEW u \in Users,
         Under(x, u) \/ UNCHANGED store,
         UNCHANGED raced,
         \A v \in Users \ {u} : store'[v] = store[v],
         \A o \in Operations \ {x} : copy'[o] = copy[o],
         \A o \in Operations, v \in Users :
           Under(o, v)' <=> o # x /\ Under(o, v)
  PROVE  AloneInv' /\ CopyInv'
<1>1. AloneInv'
  BY DEF AloneInv
<1>2. CopyInv'
  BY DEF AloneInv, CopyInv
<1> QED
  BY <1>1, <1>2

LEMMA TaskEnds ==
  ASSUME TypeOK, NEW d \in Deliveries, task[d] \in {"get", "set"},
         NEW at \in {"stored", "failed"}, task' = [task EXCEPT ![d] = at],
         UNCHANGED <<client, asker>>
  PROVE  /\ \A f \in Deliveries : task'[f] = IF f = d THEN at ELSE task[f]
         /\ \A o \in Operations, v \in Users :
              Under(o, v)' <=> o # d /\ Under(o, v)
<1>1. \A f \in Deliveries : task'[f] = IF f = d THEN at ELSE task[f]
  BY DEF TypeOK
<1>2. d \notin Clients
  BY Pairs
<1> QED
  BY <1>1, <1>2 DEF Under

\* The set of a task: also when its answer is lost.
LEMMA StoreStep ==
  ASSUME NInv, NEW d \in Deliveries, task[d] = "set",
         NEW at \in {"stored", "failed"}, task' = [task EXCEPT ![d] = at],
         store' = Stored(d), copy' = [copy EXCEPT ![d] = {}],
         UNCHANGED <<members, client, asker, history>>
  PROVE  NInv'
<1> USE DEF NInv
<1>0. /\ d[1] \in Events /\ d[2] \in Users /\ d \in Operations
      /\ UNCHANGED <<members, client, asker, shown, again, raced, cut>>
  BY Pairs DEF history
<1>1. /\ \A f \in Deliveries : task'[f] = IF f = d THEN at ELSE task[f]
      /\ \A o \in Operations, v \in Users : Under(o, v)' <=> o # d /\ Under(o, v)
  BY <1>0, TaskEnds
<1>2. /\ store'[d[2]] = copy[d] \cup {d[1]}
      /\ \A v \in Users \ {d[2]} : store'[v] = store[v]
  BY <1>0 DEF Stored, TypeOK
<1>3. Under(d, d[2])
  BY DEF Under
<1>4. d[2] \notin raced => store'[d[2]] = store[d[2]] \cup {d[1]}
  BY <1>0, <1>2, <1>3 DEF CopyInv
<1>5. TypeOK'
  <2>1. store' \in [Users -> SUBSET Events]
    BY <1>0 DEF Stored, TypeOK
  <2>2. task' \in [Deliveries ->
                     {"idle", "none", "get", "set", "stored", "failed"}]
    BY DEF TypeOK
  <2>3. copy' \in [Operations -> SUBSET Events]
    BY DEF TypeOK
  <2> QED
    BY <1>0, <2>1, <2>2, <2>3 DEF TypeOK
<1>6. AloneInv' /\ CopyInv'
  <2>1. \A o \in Operations \ {d} : copy'[o] = copy[o]
    BY DEF TypeOK
  <2> QED
    BY <1>0, <1>1, <1>2, <1>3, <2>1, EndStep
<1>7. AskerInv' /\ ShownOnce'
  BY <1>0 DEF AskerInv, ShownOnce
<1>8. FreshInv'
  <2> SUFFICES ASSUME NEW f \in Deliveries, f[2] \notin raced,
                      task'[f] \in {"idle", "none", "get", "set"}
               PROVE  f[1] \notin store'[f[2]] \cup shown[f[2]]
    BY <1>0 DEF FreshInv
  <2>1. f # d /\ task[f] = task'[f] /\ f[2] \in Users
    BY <1>1, Pairs
  <2>2. f[1] \notin store[f[2]] \cup shown[f[2]]
    BY <2>1 DEF FreshInv
  <2>3. f[2] = d[2] => f[1] # d[1]
    BY <2>1, Pairs
  <2> QED
    BY <1>2, <1>4, <2>1, <2>2, <2>3
<1>9. UnseenInv'
  <2>1. d[2] \notin raced => d[1] \notin shown[d[2]]
    BY DEF FreshInv
  <2> QED
    BY <1>0, <1>2, <1>4, <2>1 DEF UnseenInv
<1>10. NoNoteIsLost'
  <2> SUFFICES ASSUME NEW f \in Deliveries, task'[f] = "stored",
                      f[2] \notin raced \cup cut
               PROVE  f[1] \in store'[f[2]] \cup shown[f[2]]
    BY <1>0 DEF NoNoteIsLost
  <2>1. f[2] \in Users
    BY Pairs
  <2> QED
    BY <1>1, <1>2, <1>4, <2>1 DEF NoNoteIsLost
<1> QED
  BY <1>5, <1>6, <1>7, <1>8, <1>9, <1>10

LEMMA NotifyFailsStep ==
  ASSUME NInv, NEW d \in Deliveries, NotifyFails(d)
  PROVE  NInv'
<1> USE DEF NInv
<1>1. CASE task[d] = "set" /\ store' = Stored(d)
  BY <1>1, StoreStep DEF NotifyFails
<1>2. CASE UNCHANGED store
  <2>0. /\ UNCHANGED <<members, client, asker, store, shown, again, raced, cut>>
        /\ task[d] \in {"get", "set"} /\ task' = [task EXCEPT ![d] = "failed"]
        /\ copy' = [copy EXCEPT ![d] = {}]
        /\ d[2] \in Users /\ d \in Operations
    BY <1>2, Pairs DEF NotifyFails, history
  <2>1. /\ \A f \in Deliveries : task'[f] = IF f = d THEN "failed" ELSE task[f]
        /\ \A o \in Operations, v \in Users : Under(o, v)' <=> o # d /\ Under(o, v)
    BY <2>0, TaskEnds
  <2>2. TypeOK'
    <3>1. /\ task' \in [Deliveries ->
                          {"idle", "none", "get", "set", "stored", "failed"}]
          /\ copy' \in [Operations -> SUBSET Events]
      BY <2>0 DEF TypeOK
    <3> QED
      BY <2>0, <3>1 DEF TypeOK
  <2>3. AloneInv' /\ CopyInv'
    <3>1. \A o \in Operations \ {d} : copy'[o] = copy[o]
      BY <2>0 DEF TypeOK
    <3> QED
      BY <2>0, <2>1, <3>1, EndStep
  <2>4. AskerInv' /\ ShownOnce' /\ UnseenInv'
    BY <2>0 DEF AskerInv, ShownOnce, UnseenInv
  <2>5. FreshInv' /\ NoNoteIsLost'
    BY <2>0, <2>1 DEF FreshInv, NoNoteIsLost
  <2> QED
    BY <2>2, <2>3, <2>4, <2>5
<1> QED
  BY <1>1, <1>2 DEF NotifyFails

LEMMA ClientEnds ==
  ASSUME TypeOK, AskerInv, NEW r \in Clients, client[r] = "delete",
         NEW at \in {"answered", "failed"}, client' = [client EXCEPT ![r] = at],
         UNCHANGED <<task, asker>>
  PROVE  /\ asker[r] \in Users /\ r \in Operations /\ Under(r, asker[r])
         /\ \A q \in Clients : client'[q] = "delete" => client[q] = "delete"
         /\ \A o \in Operations, v \in Users :
              Under(o, v)' <=> o # r /\ Under(o, v)
<1>1. \A q \in Clients : client'[q] = IF q = r THEN at ELSE client[q]
  BY DEF TypeOK
<1>2. r \notin Deliveries /\ r \in Operations
  BY Pairs
<1> QED
  BY <1>1, <1>2 DEF Under, AskerInv

LEMMA ClientStep ==
  ASSUME NInv, NEW r \in Clients, ClientDelete(r) \/ ClientFails(r)
  PROVE  NInv'
<1> USE DEF NInv
<1> DEFINE u == asker[r]
<1>0. /\ client[r] = "delete"
      /\ \E at \in {"answered", "failed"} : client' = [client EXCEPT ![r] = at]
      /\ copy' = [copy EXCEPT ![r] = {}]
      /\ UNCHANGED <<members, task, asker, raced>>
  BY DEF ClientDelete, ClientFails
<1>1. /\ u \in Users /\ r \in Operations /\ Under(r, u)
      /\ \A q \in Clients : client'[q] = "delete" => client[q] = "delete"
      /\ \A o \in Operations, v \in Users : Under(o, v)' <=> o # r /\ Under(o, v)
  BY <1>0, ClientEnds
<1>2. u \notin raced => copy[r] = store[u]
  BY <1>1 DEF CopyInv
<1>3. /\ \A v \in Users \ {u} : /\ store'[v] = store[v] /\ shown'[v] = shown[v]
                                /\ again'[v] = again[v]
      /\ cut \subseteq cut'
      /\ \/ UNCHANGED <<store, shown, again>>
         \/ store'[u] = {} /\ UNCHANGED <<shown, again>> /\ u \in cut'
         \/ /\ store'[u] = {}
            /\ shown'[u] = shown[u] \cup copy[r]
            /\ again'[u] = again[u] \cup (shown[u] \cap copy[r])
  BY <1>1 DEF ClientDelete, ClientFails, Erased, TypeOK
<1>4. TypeOK'
  <2>1. store' \in [Users -> SUBSET Events]
    BY <1>1 DEF ClientDelete, ClientFails, Erased, TypeOK
  <2>2. shown' \in [Users -> SUBSET Events] /\ again' \in [Users -> SUBSET Events]
    <3>1. copy[r] \in SUBSET Events
      BY <1>1 DEF TypeOK
    <3> QED
      BY <1>1, <3>1 DEF ClientDelete, ClientFails, TypeOK
  <2>3. cut' \subseteq Users
    BY <1>1 DEF ClientDelete, ClientFails, TypeOK
  <2>4. /\ client' \in [Clients -> {"idle", "delete", "answered", "failed"}]
        /\ copy' \in [Operations -> SUBSET Events]
    BY <1>0 DEF TypeOK
  <2> QED
    BY <1>0, <2>1, <2>2, <2>3, <2>4 DEF TypeOK
<1>5. AloneInv' /\ CopyInv'
  <2>1. \A o \in Operations \ {r} : copy'[o] = copy[o]
    BY <1>0 DEF TypeOK
  <2> HIDE DEF u
  <2> QED
    BY <1>0, <1>1, <1>3, <2>1, EndStep
<1> HIDE DEF u
<1>6. AskerInv'
  BY <1>0, <1>1 DEF AskerInv
<1>7. ShownOnce'
  BY <1>0, <1>1, <1>2, <1>3 DEF ShownOnce, UnseenInv
<1>8. UnseenInv'
  BY <1>0, <1>1, <1>3 DEF UnseenInv
<1>9. FreshInv' /\ NoNoteIsLost'
  <2>1. \A v \in Users \ raced :
          /\ store'[v] \cup shown'[v] \subseteq store[v] \cup shown[v]
          /\ v \in cut' \/ store[v] \cup shown[v] \subseteq store'[v] \cup shown'[v]
    BY <1>1, <1>2, <1>3
  <2>2. \A d \in Deliveries : d[2] \in Users
    BY Pairs
  <2> QED
    BY <1>0, <1>3, <2>1, <2>2 DEF FreshInv, NoNoteIsLost
<1> QED
  BY <1>4, <1>5, <1>6, <1>7, <1>8, <1>9

-----------------------------------------------------------------------------
LEMMA StepNInv == NInv /\ [Next]_vars => NInv'
<1> SUFFICES ASSUME NInv, [Next]_vars PROVE NInv'
  OBVIOUS
<1>1. ASSUME NEW e \in Events, NotifyAboutBigCost(e) \/ NotifyAboutIncome(e)
      PROVE  NInv'
  BY <1>1, TellStep DEF NotifyAboutBigCost, NotifyAboutIncome
<1>2. ASSUME NEW d \in Deliveries, NotifyGet(d) PROVE NInv'
  BY <1>2, NotifyGetStep
<1>3. ASSUME NEW d \in Deliveries, NotifySet(d) PROVE NInv'
  BY <1>3, StoreStep DEF NotifySet
<1>4. ASSUME NEW d \in Deliveries, NotifyFails(d) PROVE NInv'
  BY <1>4, NotifyFailsStep
<1>5. ASSUME NEW r \in Clients, ClientGet(r) PROVE NInv'
  BY <1>5, ClientGetStep
<1>6. ASSUME NEW r \in Clients, ClientDelete(r) \/ ClientFails(r) PROVE NInv'
  BY <1>6, ClientStep
<1>7. CASE UNCHANGED vars
  <2>1. \A o, u : Under(o, u)' <=> Under(o, u)
    BY <1>7 DEF vars, Under
  <2> QED
    BY <1>7, <2>1 DEF vars, NInv, TypeOK, AloneInv, CopyInv, AskerInv, FreshInv,
                      UnseenInv, NoNoteIsLost, ShownOnce
<1> QED
  BY <1>1, <1>2, <1>3, <1>4, <1>5, <1>6, <1>7 DEF Next

THEOREM NotificationsInvariance == Spec => []NInv
BY InitNInv, StepNInv, PTL DEF Spec

\* The cache, the tasks and the requests hold what they should, for any
\* users, events and requests.
THEOREM NotificationTypes == Spec => []TypeOK
<1>1. NInv => TypeOK
  BY DEF NInv
<1> QED
  BY <1>1, NotificationsInvariance, PTL

\* A note whose notify() came to its end is kept until its user sees it, as
\* long as no two operations on the user's key overlap and no answer of a
\* delete is lost.
THEOREM NotesAreKept == Spec => []NoNoteIsLost
<1>1. NInv => NoNoteIsLost
  BY DEF NInv
<1> QED
  BY <1>1, NotificationsInvariance, PTL

\* Without overlapping operations nobody is shown a note twice.
THEOREM NotesAreShownOnce == Spec => []ShownOnce
<1>1. NInv => ShownOnce
  BY DEF NInv
<1> QED
  BY <1>1, NotificationsInvariance, PTL

-----------------------------------------------------------------------------
(* Every step is one of Mailbox, or none.                                  *)

Boxed == <<store, shown, again, raced, cut>>

LEMMA BoxSpoil ==
  ASSUME NEW u \in Users, (raced \cup cut)' = raced \cup cut \cup {u},
         \A v \in Users \ {u} :
           store'[v] = store[v] /\ shown'[v] = shown[v] /\ again'[v] = again[v]
  PROVE  Box!Next
BY DEF Box!Next, Box!Spoil

LEMMA BoxStutter ==
  ASSUME UNCHANGED Boxed
  PROVE  UNCHANGED Box!vars
BY DEF Boxed, Box!vars

LEMMA BoxBegin ==
  ASSUME NEW u \in Users, Overlap(u), UNCHANGED <<store, shown, again, cut>>
  PROVE  Box!Next \/ UNCHANGED Box!vars
<1>1. CASE raced' = raced \cup {u}
  BY <1>1, BoxSpoil
<1>2. CASE UNCHANGED raced
  BY <1>2, BoxStutter DEF Boxed
<1> QED
  BY <1>1, <1>2 DEF Overlap

LEMMA BoxPost ==
  ASSUME NInv, NEW d \in Deliveries, task[d] = "set", store' = Stored(d),
         UNCHANGED history
  PROVE  Box!Next
<1> USE DEF NInv
<1>0. /\ d[1] \in Events /\ d[2] \in Users /\ d \in Operations
      /\ UNCHANGED <<shown, again, raced, cut>>
  BY Pairs DEF history
<1>1. CASE d[2] \in raced \cup cut
  <2>1. \A v \in Users \ {d[2]} : store'[v] = store[v]
    BY DEF Stored, TypeOK
  <2> QED
    BY <1>0, <1>1, <2>1, BoxSpoil
<1>2. CASE d[2] \notin raced \cup cut
  <2>1. copy[d] = store[d[2]]
    BY <1>0, <1>2 DEF CopyInv, Under
  <2>2. d[1] \notin store[d[2]] \cup shown[d[2]]
    BY <1>2 DEF FreshInv
  <2>3. Box!Post(d[2], d[1])
    BY <1>0, <2>1, <2>2 DEF Box!Post, Stored
  <2> QED
    BY <1>0, <1>2, <2>3 DEF Box!Next
<1> QED
  BY <1>1, <1>2

LEMMA BoxCollect ==
  ASSUME NInv, NEW r \in Clients, ClientDelete(r)
  PROVE  Box!Next
<1> USE DEF NInv
<1> DEFINE u == asker[r]
<1>0. /\ u \in Users /\ r \in Operations /\ client[r] = "delete"
      /\ store' = [store EXCEPT ![u] = {}]
      /\ shown' = [shown EXCEPT ![u] = @ \cup copy[r]]
      /\ again' = [again EXCEPT ![u] = @ \cup (shown[u] \cap copy[r])]
      /\ UNCHANGED <<raced, cut>>
  BY Pairs DEF ClientDelete, AskerInv, Erased
<1>1. CASE u \in raced \cup cut
  <2>1. \A v \in Users \ {u} :
          store'[v] = store[v] /\ shown'[v] = shown[v] /\ again'[v] = again[v]
    BY <1>0 DEF TypeOK
  <2> QED
    BY <1>0, <1>1, <2>1, BoxSpoil
<1>2. CASE u \notin raced \cup cut
  <2>1. copy[r] = store[u]
    BY <1>0, <1>2 DEF CopyInv, Under
  <2>2. store[u] \cap shown[u] = {}
    BY <1>0, <1>2 DEF UnseenInv
  <2>3. UNCHANGED again
    <3>1. shown[u] \cap copy[r] = {}
      BY <2>1, <2>2
    <3> QED
      BY <1>0, <3>1 DEF TypeOK
  <2>4. Box!Collect(u)
    BY <1>0, <2>1, <2>2, <2>3 DEF Box!Collect
  <2> QED
    BY <1>0, <1>2, <2>4 DEF Box!Next
<1> QED
  BY <1>1, <1>2

LEMMA BoxStep == NInv /\ [Next]_vars => [Box!Next]_(Box!vars)
<1> SUFFICES ASSUME NInv, [Next]_vars PROVE Box!Next \/ UNCHANGED Box!vars
  OBVIOUS
<1>1. ASSUME NEW e \in Events, NotifyAboutBigCost(e) \/ NotifyAboutIncome(e)
      PROVE  UNCHANGED Box!vars
  BY <1>1, BoxStutter DEF NotifyAboutBigCost, NotifyAboutIncome, Tell, history, Boxed
<1>2. ASSUME NEW d \in Deliveries, NotifyGet(d)
      PROVE  Box!Next \/ UNCHANGED Box!vars
  BY <1>2, Pairs, BoxBegin DEF NotifyGet
<1>3. ASSUME NEW d \in Deliveries, NotifySet(d)
      PROVE  Box!Next
  BY <1>3, BoxPost DEF NotifySet
<1>4. ASSUME NEW d \in Deliveries, NotifyFails(d)
      PROVE  Box!Next \/ UNCHANGED Box!vars
  <2>1. CASE UNCHANGED store
    BY <1>4, <2>1, BoxStutter DEF NotifyFails, history, Boxed
  <2>2. CASE task[d] = "set" /\ store' = Stored(d)
    BY <1>4, <2>2, BoxPost DEF NotifyFails
  <2> QED
    BY <1>4, <2>1, <2>2 DEF NotifyFails
<1>5. ASSUME NEW r \in Clients, ClientGet(r)
      PROVE  Box!Next \/ UNCHANGED Box!vars
  <2>1. PICK u \in members : UNCHANGED raced \/ Overlap(u)
    BY <1>5 DEF ClientGet
  <2>2. u \in Users /\ UNCHANGED <<store, shown, again, cut>>
    BY <1>5 DEF ClientGet, NInv, TypeOK
  <2> QED
    BY <2>1, <2>2, BoxBegin, BoxStutter DEF Boxed
<1>6. ASSUME NEW r \in Clients, ClientDelete(r)
      PROVE  Box!Next
  BY <1>6, BoxCollect
<1>7. ASSUME NEW r \in Clients, ClientFails(r)
      PROVE  Box!Next \/ UNCHANGED Box!vars
  <2>1. CASE UNCHANGED <<store, cut>>
    BY <1>7, <2>1, BoxStutter DEF ClientFails, Boxed
  <2>2. CASE store' = Erased(r) /\ cut' = cut \cup {asker[r]}
    <3>1. asker[r] \in Users /\ UNCHANGED <<shown, again, raced>>
      BY <1>7 DEF ClientFails, NInv, AskerInv
    <3>2. \A v \in Users \ {asker[r]} : store'[v] = store[v]
      BY <2>2 DEF Erased, NInv, TypeOK
    <3> QED
      BY <2>2, <3>1, <3>2, BoxSpoil
  <2> QED
    BY <1>7, <2>1, <2>2 DEF ClientFails
<1>8. CASE UNCHANGED vars
  BY <1>8, BoxStutter DEF vars, Boxed
<1> QED
  BY <1>1, <1>2, <1>3, <1>4, <1>5, <1>6, <1>7, <1>8 DEF Next

\* The cache under get, set and delete implements Mailbox: each note is put
\* once and taken once; operations that overlap spoil the box of their own
\* user only.
THEOREM NotificationsImplementMailbox == Spec => ImplementsMailbox
<1>1. Init => Box!Init
  BY DEF Init, Box!Init
<1> QED
  BY <1>1, NotificationsInvariance, BoxStep, PTL
  DEF Spec, ImplementsMailbox, Box!Spec

=============================================================================
