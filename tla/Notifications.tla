--------------------------- MODULE Notifications ---------------------------
(***************************************************************************)
(* Notifications about costs and incomes of the others, kept per user      *)
(* under one key of memcached until the user asks for them.                *)
(*                                                                         *)
(* An event (a cost added or changed, an income added) starts, after the   *)
(* response, one task per user to notify.  The task gets the value of the  *)
(* key, appends its note and sets the value; the request that shows the    *)
(* notes gets the value and deletes the key.  memcached executes single    *)
(* commands: between the two of one operation any other may come, and a    *)
(* command whose answer is lost may have been executed.                    *)
(***************************************************************************)
EXTENDS FiniteSets, Integers

CONSTANTS
  Users,      \* who may be a member of the household
  Events,     \* costs and incomes to tell of; each happens once
  Clients,    \* requests for the notes; each is served once
  Values,     \* values of costs, in cents
  Threshold,  \* notify_cost_threshold of each user, or None (NULL)
  None

ASSUME ValueAssumption == Values \subseteq Nat /\ None \notin Nat \cup Users
ASSUME ThresholdAssumption == Threshold \in [Users -> Nat \cup {None}]

\* One task per event and user: notify().
Deliveries == Events \X Users

ASSUME ClientsAssumption == Clients \cap Deliveries = {}

VARIABLES
  members,  \* the users in the database
  store,    \* the notes under each user's key; {} when there is no key
  task,     \* where each delivery is
  client,   \* where each request for notes is
  asker,    \* the user behind each request that has begun, or None
  copy,     \* what each delivery and request has got from the cache
  shown,    \* history: notes each user was shown
  again,    \* history: notes each user was shown more than once
  raced,    \* history: users for whom two operations overlapped
  cut       \* history: users whose notes were deleted without being shown

history == <<shown, again, raced, cut>>
vars == <<members, store, task, client, asker, copy, shown, again, raced, cut>>

Operations == Deliveries \cup Clients

-----------------------------------------------------------------------------
Init ==
  /\ members \in SUBSET Users
  /\ store  = [u \in Users |-> {}]
  /\ task   = [d \in Deliveries |-> "idle"]
  /\ client = [r \in Clients |-> "idle"]
  /\ asker  = [r \in Clients |-> None]
  /\ copy   = [o \in Operations |-> {}]
  /\ shown  = [u \in Users |-> {}]
  /\ again  = [u \in Users |-> {}]
  /\ raced  = {}
  /\ cut    = {}

\* Between its get and its set or delete, for user u.
Busy(u) ==
  \/ \E d \in Deliveries : task[d] = "set" /\ d[2] = u
  \/ \E r \in Clients : client[r] = "delete" /\ asker[r] = u

\* History only: user u's value is read while another operation is under way.
Overlap(u) == raced' = IF Busy(u) THEN raced \cup {u} ELSE raced

\* Everybody else whose threshold the cost reaches; NULL reaches nothing.
CostAudience(owner, v) ==
  {u \in members \ {owner} : Threshold[u] # None /\ v >= Threshold[u]}

\* The other user; with none or several the query raises, in a task that
\* nobody waits for.
IncomeAudience(owner) ==
  IF Cardinality(members \ {owner}) = 1 THEN members \ {owner} ELSE {}

\* An event that has not happened yet is told to an audience.
Tell(e, audience) ==
  /\ \A u \in Users : task[<<e, u>>] = "idle"
  /\ task' = [d \in Deliveries |->
                IF d[1] = e THEN IF d[2] \in audience THEN "get" ELSE "none"
                            ELSE task[d]]
  /\ UNCHANGED <<members, store, client, asker, copy, history>>

NotifyAboutBigCost(e) ==
  \E owner \in members, v \in Values : Tell(e, CostAudience(owner, v))

NotifyAboutIncome(e) == \E owner \in members : Tell(e, IncomeAudience(owner))

-----------------------------------------------------------------------------
(* notify(): get, append, set.                                             *)

NotifyGet(d) ==
  /\ task[d] = "get"
  /\ task' = [task EXCEPT ![d] = "set"]
  /\ copy' = [copy EXCEPT ![d] = store[d[2]]]
  /\ Overlap(d[2])
  /\ UNCHANGED <<members, store, client, asker, shown, again, cut>>

\* Mutant: the user is appended instead of the note.
StoredSwapped(d) == [store EXCEPT ![d[2]] = copy[d] \cup {d[2]}]

\* Mutant: the value that is set holds the new note only.
StoredAlone(d) == [store EXCEPT ![d[2]] = {d[1]}]

\* The copy and the new note become the value.
Stored(d) == [store EXCEPT ![d[2]] = copy[d] \cup {d[1]}]

NotifySet(d) ==
  /\ task[d] = "set"
  /\ task'  = [task EXCEPT ![d] = "stored"]
  /\ store' = Stored(d)
  /\ copy'  = [copy EXCEPT ![d] = {}]
  /\ UNCHANGED <<members, client, asker, history>>

\* The cache cannot be reached, or the process dies; a set that was sent may
\* have been executed.
NotifyFails(d) ==
  /\ task[d] \in {"get", "set"}
  /\ task' = [task EXCEPT ![d] = "failed"]
  /\ copy' = [copy EXCEPT ![d] = {}]
  /\ \/ UNCHANGED store
     \/ task[d] = "set" /\ store' = Stored(d)
  /\ UNCHANGED <<members, client, asker, history>>

-----------------------------------------------------------------------------
(* user_notifications(): get, delete.                                      *)

\* Without a key the request is answered with nothing.
ClientGet(r) ==
  \E u \in members :
    /\ client[r] = "idle"
    /\ asker' = [asker EXCEPT ![r] = u]
    /\ \/ /\ store[u] = {}
          /\ client' = [client EXCEPT ![r] = "answered"]
          /\ UNCHANGED <<copy, raced>>
       \/ /\ store[u] # {}
          /\ client' = [client EXCEPT ![r] = "delete"]
          /\ copy'   = [copy EXCEPT ![r] = store[u]]
          /\ Overlap(u)
    /\ UNCHANGED <<members, store, task, shown, again, cut>>

\* Mutant: the whole namespace is flushed.
ErasedForAll(r) == [u \in Users |-> {}]

\* Mutant: the key is left to be overwritten by the next notification.
ErasedLater(r) == store

Erased(r) == [store EXCEPT ![asker[r]] = {}]

ClientDelete(r) ==
  LET u == asker[r]
  IN  /\ client[r] = "delete"
      /\ client' = [client EXCEPT ![r] = "answered"]
      /\ store'  = Erased(r)
      /\ shown'  = [shown EXCEPT ![u] = @ \cup copy[r]]
      /\ again'  = [again EXCEPT ![u] = @ \cup (shown[u] \cap copy[r])]
      /\ copy'   = [copy EXCEPT ![r] = {}]
      /\ UNCHANGED <<members, task, asker, raced, cut>>

\* As above: nothing is shown, and a delete that was sent may have been
\* executed.
ClientFails(r) ==
  /\ client[r] = "delete"
  /\ client' = [client EXCEPT ![r] = "failed"]
  /\ copy'   = [copy EXCEPT ![r] = {}]
  /\ \/ UNCHANGED <<store, cut>>
     \/ store' = Erased(r) /\ cut' = cut \cup {asker[r]}
  /\ UNCHANGED <<members, task, asker, shown, again, raced>>

-----------------------------------------------------------------------------
Next ==
  \/ \E e \in Events : NotifyAboutBigCost(e) \/ NotifyAboutIncome(e)
  \/ \E d \in Deliveries : NotifyGet(d) \/ NotifySet(d) \/ NotifyFails(d)
  \/ \E r \in Clients : ClientGet(r) \/ ClientDelete(r) \/ ClientFails(r)

Spec == Init /\ [][Next]_vars

-----------------------------------------------------------------------------
\* Every variable has its type.
TypeOK ==
  /\ members \subseteq Users
  /\ store \in [Users -> SUBSET Events]
  /\ task \in [Deliveries -> {"idle", "none", "get", "set", "stored", "failed"}]
  /\ client \in [Clients -> {"idle", "delete", "answered", "failed"}]
  /\ asker \in [Clients -> Users \cup {None}]
  /\ copy \in [Operations -> SUBSET Events]
  /\ shown \in [Users -> SUBSET Events]
  /\ again \in [Users -> SUBSET Events]
  /\ raced \subseteq Users
  /\ cut \subseteq Users

\* A note that was stored waits in the cache or has been shown, unless two
\* operations on its user's key overlapped or a delete took it away unseen.
NoNoteIsLost ==
  \A d \in Deliveries :
    task[d] = "stored" =>
      \/ d[1] \in store[d[2]] \cup shown[d[2]]
      \/ d[2] \in raced \cup cut

\* Nobody is shown a note twice unless operations on the key overlapped: what
\* a task writes back was not shown since it was read.
ShownOnce == \A u \in Users \ raced : again[u] = {}

Box == INSTANCE Mailbox WITH box <- store, spoiled <- raced \cup cut

\* Every set is one note put into the box and every delete is a user taking
\* all of them: the promise of Mailbox, which ends for a user, and for nobody
\* else, when operations on that user's key overlap.
ImplementsMailbox == Box!Spec

=============================================================================
