------------------------------- MODULE Ingest -------------------------------
(***************************************************************************)
(* How articles get into a user's feed: crawls that offer what their site  *)
(* lists, past a cache of what was seen, an agent that filters and an      *)
(* agent that groups; and addresses the user submits by hand.  Crawls of   *)
(* different jobs run beside each other; every command to the cache and    *)
(* every answer of an agent is awaited.                                    *)
(***************************************************************************)
EXTENDS Naturals, Sequences, FiniteSets

CONSTANTS
    Urls,           \* the addresses of articles
    Refused,        \* those memcached takes no key for (over 250 bytes)
    Crawls,         \* crawls that may be under way at a time
    Submissions,    \* manual submissions that may be under way at a time
    MaxBatch,       \* bound: articles a site lists, and calls of the agents
    MaxOffers,      \* bound: crawls altogether
    MaxSubmits,     \* bound: submissions altogether
    MaxByHand       \* bound: rows they save altogether

ASSUME IngestAssumption ==
    /\ Refused \subseteq Urls
    /\ MaxBatch \in Nat /\ MaxOffers \in Nat /\ MaxSubmits \in Nat /\ MaxByHand \in Nat

VARIABLES
    seen,           \* the addresses with a key in memcached
    rows,           \* of news_items: how many there are with which article_urls
    crawl,          \* the crawls
    submitted,      \* the address of a submission that is queued or being read
    offers, submits,\* how many there have been
    byHand,         \* how many rows submissions have saved
    saves,          \* history: in how many rows an article was saved
    turnedDown,     \* history: articles an agent left out
    lost,           \* history: articles whose crawl died or could not save
    repeatable      \* history: articles with a reason to come up again

history == <<saves, turnedDown, lost, repeatable>>
vars == <<seen, rows, crawl, submitted, offers, submits, byHand, saves, turnedDown, lost,
          repeatable>>

-----------------------------------------------------------------------------
(* Batches: sequences of addresses, in which one may occur twice           *)

Batches == UNION {[1..n -> Urls] : n \in 0..MaxBatch}

In(batch) == {batch[k] : k \in DOMAIN batch}

Twice(batch) == {u \in In(batch) : \E j, k \in DOMAIN batch :
                                     j # k /\ batch[j] = u /\ batch[k] = u}

\* The stages of a crawl: the cache is asked for the articles in todo, then
\* told of those that are new, then the agents answer, then groups are saved.
NoCrawl == [at |-> "idle"]

AtGet(todo, new) == [at |-> "get", todo |-> todo, new |-> new]
AtSet(todo, new) == [at |-> "set", todo |-> todo, new |-> new]
AtFilter(new)    == [at |-> "filter", new |-> new]
AtGroup(new)     == [at |-> "group", new |-> new]
AtSave(groups)   == [at |-> "save", groups |-> groups]

\* The articles a crawl has taken and not settled yet.
Taken(c) ==
    CASE crawl[c].at \in {"get", "set", "filter", "group"} -> In(crawl[c].new)
      [] crawl[c].at = "save" -> UNION In(crawl[c].groups)
      [] OTHER -> {}

\* Those of them the cache has not been told of.
Untold(c) ==
    CASE crawl[c].at = "get" -> In(crawl[c].new)
      [] crawl[c].at = "set" -> In(crawl[c].todo)
      [] OTHER -> {}

Listed == UNION {U \in SUBSET Urls : rows[U] > 0}

TypeOK ==
    /\ seen \subseteq Urls
    /\ rows \in [SUBSET Urls -> Nat]
    /\ \A c \in Crawls : Taken(c) \subseteq Urls
    /\ submitted \in [Submissions -> Urls \cup {"none"}]
    /\ offers \in 0..MaxOffers /\ submits \in 0..MaxSubmits /\ byHand \in 0..MaxByHand
    /\ saves \in [Urls -> Nat]
    /\ turnedDown \cup lost \cup repeatable \subseteq Urls

Init ==
    /\ seen = {} /\ rows = [U \in SUBSET Urls |-> 0]
    /\ crawl = [c \in Crawls |-> NoCrawl]
    /\ submitted = [s \in Submissions |-> "none"]
    /\ offers = 0 /\ submits = 0 /\ byHand = 0
    /\ saves = [u \in Urls |-> 0] /\ turnedDown = {} /\ lost = {} /\ repeatable = {}

-----------------------------------------------------------------------------
(* Level 1: the cache                                                      *)

\* Whatever the site lists, in whatever order, perhaps once in each widget.
Offer(c) ==
    /\ crawl[c].at = "idle" /\ offers < MaxOffers
    /\ \E batch \in Batches \ {<<>>} : crawl' = [crawl EXCEPT ![c] = AtGet(batch, <<>>)]
    /\ offers' = offers + 1
    /\ UNCHANGED <<seen, rows, submitted, submits, byHand, history>>

Pending(c, stage) == crawl[c].at = stage /\ crawl[c].todo # <<>>

Hit(c) ==
    /\ Pending(c, "get") /\ Head(crawl[c].todo) \in seen
    /\ crawl' = [crawl EXCEPT ![c] = AtGet(Tail(@.todo), @.new)]
    /\ UNCHANGED <<seen, rows, submitted, offers, submits, byHand, history>>

\* A miss, or any exception, which counts as one.
Miss(c) ==
    /\ Pending(c, "get")
    /\ LET u == Head(crawl[c].todo)
       IN  /\ crawl' = [crawl EXCEPT ![c] = AtGet(Tail(@.todo), Append(@.new, u))]
           /\ repeatable' =
                IF u \in seen \/ \E d \in Crawls : u \in Untold(d)
                THEN repeatable \cup {u} ELSE repeatable
    /\ UNCHANGED <<seen, rows, submitted, offers, submits, byHand, saves, turnedDown, lost>>

AllAsked(c) ==
    /\ crawl[c].at = "get" /\ crawl[c].todo = <<>>
    /\ crawl' = [crawl EXCEPT ![c] = AtSet(@.new, @.new)]
    /\ UNCHANGED <<seen, rows, submitted, offers, submits, byHand, history>>

\* A set may fail: it is logged, and the article goes on.
Tell(c) ==
    /\ Pending(c, "set")
    /\ LET u == Head(crawl[c].todo)
       IN  \/ u \notin Refused /\ seen' = seen \cup {u} /\ UNCHANGED repeatable
           \/ UNCHANGED seen /\ repeatable' = repeatable \cup {u}
    /\ crawl' = [crawl EXCEPT ![c] = AtSet(Tail(@.todo), @.new)]
    /\ UNCHANGED <<rows, submitted, offers, submits, byHand, saves, turnedDown, lost>>

AllTold(c) ==
    /\ crawl[c].at = "set" /\ crawl[c].todo = <<>>
    /\ crawl' = [crawl EXCEPT ![c] = IF @.new = <<>> THEN NoCrawl ELSE AtFilter(@.new)]
    /\ UNCHANGED <<seen, rows, submitted, offers, submits, byHand, history>>

\* After a week, or when memcached needs the room.
Expire(u) ==
    /\ u \in seen
    /\ seen' = seen \ {u} /\ repeatable' = repeatable \cup {u}
    /\ UNCHANGED <<rows, crawl, submitted, offers, submits, byHand, saves, turnedDown, lost>>

-----------------------------------------------------------------------------
(* Levels 2 and 3: the agents                                              *)

Sequences(S) == UNION {[1..n -> S] : n \in 0..MaxBatch}

\* The articles of keep_indices; an index may come twice.
Kept(batch, indices) == [n \in DOMAIN indices |-> batch[indices[n]]]

AfterFilter(c, batch) ==
    /\ crawl' = [crawl EXCEPT ![c] = IF batch = <<>> THEN NoCrawl ELSE AtGroup(batch)]
    /\ UNCHANGED <<seen, rows, submitted, offers, submits, byHand, saves, lost>>

Filter(c) ==
    /\ crawl[c].at = "filter"
    \* An index out of range is skipped, as if the agent had not named it.
    /\ \E indices \in Sequences(DOMAIN crawl[c].new) :
          LET batch == Kept(crawl[c].new, indices)
          IN  /\ AfterFilter(c, batch)
              /\ turnedDown' = turnedDown \cup (In(crawl[c].new) \ In(batch))
              /\ repeatable' = repeatable \cup Twice(batch)

\* An exception of the agent, or of what is read for it: all go on.
FilterFails(c) ==
    /\ crawl[c].at = "filter"
    /\ AfterFilter(c, crawl[c].new)
    /\ UNCHANGED <<turnedDown, repeatable>>

\* One call of the agent's tool: article a opens a group (g = 0) or joins group
\* g; a wrong index changes nothing.
Classified(batch, groups, call) ==
    LET a == call[1]  g == call[2]
    IN  CASE a \notin DOMAIN batch -> groups
          [] a \in DOMAIN batch /\ g = 0 -> Append(groups, {batch[a]})
          [] a \in DOMAIN batch /\ g \in DOMAIN groups ->
                [groups EXCEPT ![g] = @ \cup {batch[a]}]
          [] OTHER -> groups

Grouped(batch, calls) ==
    LET after[n \in 0..Len(calls)] ==
            IF n = 0 THEN <<>> ELSE Classified(batch, after[n - 1], calls[n])
    IN  after[Len(calls)]

Alone(batch) == [n \in DOMAIN batch |-> {batch[n]}]

InTwo(groups) ==
    {u \in Urls : \E j, k \in DOMAIN groups : j # k /\ u \in groups[j] \cap groups[k]}

AfterGrouping(c, groups) ==
    /\ crawl' = [crawl EXCEPT ![c] = IF groups = <<>> THEN NoCrawl ELSE AtSave(groups)]
    /\ UNCHANGED <<seen, rows, submitted, offers, submits, byHand, saves, lost>>

Group(c) ==
    /\ crawl[c].at = "group"
    /\ \E calls \in Sequences((0..MaxBatch) \X (0..MaxBatch)) :
          LET groups == Grouped(crawl[c].new, calls)
          IN  /\ AfterGrouping(c, groups)
              /\ turnedDown' = turnedDown \cup (In(crawl[c].new) \ UNION In(groups))
              /\ repeatable' = repeatable \cup InTwo(groups)

\* Mutant: the groups that were there when the agent failed are kept, too.
GroupFailsHalfway(c) ==
    /\ crawl[c].at = "group"
    /\ \E calls \in Sequences((0..MaxBatch) \X (0..MaxBatch)) :
          AfterGrouping(c, Grouped(crawl[c].new, calls) \o Alone(crawl[c].new))
    /\ UNCHANGED <<turnedDown, repeatable>>

\* Mutant: without an answer there is nothing to save.
GroupFailsEmpty(c) ==
    /\ crawl[c].at = "group"
    /\ AfterGrouping(c, <<>>)
    /\ UNCHANGED <<turnedDown, repeatable>>

\* The agent fails, perhaps after some calls: every article is a group.
GroupFails(c) ==
    /\ crawl[c].at = "group"
    /\ AfterGrouping(c, Alone(crawl[c].new))
    /\ UNCHANGED <<turnedDown, repeatable>>

-----------------------------------------------------------------------------
(* Saving                                                                  *)

\* All groups in one transaction.
Save(c) ==
    /\ crawl[c].at = "save"
    /\ LET groups == crawl[c].groups
       IN  /\ rows' = [U \in SUBSET Urls |->
                 rows[U] + Cardinality({n \in DOMAIN groups : groups[n] = U})]
           /\ saves' = [u \in Urls |->
                 saves[u] + Cardinality({n \in DOMAIN groups : u \in groups[n]})]
    /\ crawl' = [crawl EXCEPT ![c] = NoCrawl]
    /\ UNCHANGED <<seen, submitted, offers, submits, byHand, turnedDown, lost, repeatable>>

\* One text too long for its column, a lost connection, the death of the
\* process: none of them is saved, and the cache still says that they were seen.
CrawlFails(c) ==
    /\ crawl[c].at # "idle"
    /\ lost' = lost \cup Taken(c)
    /\ crawl' = [crawl EXCEPT ![c] = NoCrawl]
    /\ UNCHANGED <<seen, rows, submitted, offers, submits, byHand, saves, turnedDown, repeatable>>

\* Somebody, or the garbage collector, deletes an item.
Remove(U) ==
    /\ rows[U] > 0
    /\ rows' = [rows EXCEPT ![U] = @ - 1]
    /\ UNCHANGED <<seen, crawl, submitted, offers, submits, byHand, history>>

-----------------------------------------------------------------------------
(* Submissions by hand                                                     *)

\* "Article already exists" is asked of the rows, not of the cache.
Submit(s, u) ==
    /\ submitted[s] = "none" /\ submits < MaxSubmits
    /\ u \notin Listed
    /\ submitted' = [submitted EXCEPT ![s] = u]
    /\ submits' = submits + 1
    /\ repeatable' = repeatable \cup {u}
    /\ UNCHANGED <<seen, rows, crawl, offers, byHand, saves, turnedDown, lost>>

\* One call of the agent's tool: it saves the article under the addresses it has
\* found, and may call it again.
SaveManually(s) ==
    /\ submitted[s] # "none" /\ byHand < MaxByHand
    /\ \E U \in SUBSET Urls :
          /\ rows' = [rows EXCEPT ![U] = @ + 1]
          /\ saves' = [u \in Urls |-> IF u \in U THEN saves[u] + 1 ELSE saves[u]]
          /\ repeatable' = repeatable \cup U
    /\ byHand' = byHand + 1
    /\ UNCHANGED <<seen, crawl, submitted, offers, submits, turnedDown, lost>>

\* It answers, having called the tool or not, or raises.
SubmissionEnds(s) ==
    /\ submitted[s] # "none"
    /\ submitted' = [submitted EXCEPT ![s] = "none"]
    /\ UNCHANGED <<seen, rows, crawl, offers, submits, byHand, history>>

-----------------------------------------------------------------------------

Next ==
    \/ \E c \in Crawls :
          \/ Offer(c) \/ Hit(c) \/ Miss(c) \/ AllAsked(c) \/ Tell(c) \/ AllTold(c)
          \/ Filter(c) \/ FilterFails(c) \/ Group(c) \/ GroupFails(c)
          \/ Save(c) \/ CrawlFails(c)
    \/ \E u \in Urls : Expire(u)
    \/ \E U \in SUBSET Urls : Remove(U)
    \/ \E s \in Submissions :
          (\E u \in Urls : Submit(s, u)) \/ SaveManually(s) \/ SubmissionEnds(s)

Spec == Init /\ [][Next]_vars

-----------------------------------------------------------------------------
(* Properties                                                              *)

\* An article whose address the cache has is in no feed only because an agent
\* turned it down or its crawl came to a bad end: neither a failing filter nor a
\* failing grouping costs an article, and none is marked without being taken.
NoArticleVanishes ==
    \A u \in seen :
        \/ saves[u] > 0 \/ u \in turnedDown \/ u \in lost
        \/ \E c \in Crawls : u \in Taken(c)

\* An article is saved a second time only with a reason: its key was refused,
\* not stored or has expired; the cache was asked for it twice before it was
\* told; an agent named it twice; or it was submitted by hand.
SavedOnce == \A u \in Urls : saves[u] > 1 => u \in repeatable

=============================================================================
