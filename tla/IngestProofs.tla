---------------------------- MODULE IngestProofs ----------------------------
(***************************************************************************)
(* Proofs about Ingest, for any number of addresses, crawls and            *)
(* submissions, and batches of any length.                                 *)
(*                                                                         *)
(* An article without a reason to come up again is with one crawl at most, *)
(* once, and in the cache as soon as that crawl has told it; once it is    *)
(* saved, it is with no crawl any more.                                    *)
(***************************************************************************)
EXTENDS Ingest, FiniteSetTheorems, WellFoundedInduction, TLAPS

\* What a crawl at stage v has taken, and what of it the cache does not have.
Content(v) ==
  CASE v.at \in {"get", "set", "filter", "group"} -> In(v.new)
    [] v.at = "save" -> UNION In(v.groups)
    [] OTHER -> {}

Open(v) ==
  CASE v.at = "get" -> In(v.new)
    [] v.at = "set" -> In(v.todo)
    [] OTHER -> {}

\* A crawl at stage v has the article at one place only.
SinglyIn(batch, u)  == \A j, k \in DOMAIN batch : batch[j] = u /\ batch[k] = u => j = k
InOneOf(groups, u)  == \A j, k \in DOMAIN groups : u \in groups[j] /\ u \in groups[k] => j = k

Once(v, u) ==
  CASE v.at \in {"get", "set", "filter", "group"} -> SinglyIn(v.new, u)
    [] v.at = "save" -> InOneOf(v.groups, u)
    [] OTHER -> TRUE

\* The stages.  The cache is told of articles the crawl has taken.
Shaped(v) ==
  \/ v = NoCrawl
  \/ \E todo, new \in Seq(Urls) : v = AtGet(todo, new)
  \/ \E todo, new \in Seq(Urls) : v = AtSet(todo, new) /\ In(todo) \subseteq In(new)
  \/ \E new \in Seq(Urls) : v = AtFilter(new) \/ v = AtGroup(new)
  \/ \E groups \in Seq(SUBSET Urls) : v = AtSave(groups)

StagesInv == /\ seen \subseteq Urls /\ saves \in [Urls -> Nat]
             /\ DOMAIN crawl = Crawls /\ \A c \in Crawls : Shaped(crawl[c])

\* Where an article is that has no reason to come up again.
Settled(u)   == saves[u] = 1 => u \in seen /\ \A c \in Crawls : u \notin Content(crawl[c])
Held(u)      == \A c \in Crawls : u \in Content(crawl[c]) =>
                  (u \in Open(crawl[c]) \/ u \in seen) /\ Once(crawl[c], u)
Exclusive(u) == \A c, d \in Crawls : c # d =>
                  u \notin Content(crawl[c]) \/ u \notin Content(crawl[d])

Tracked(u) == saves[u] <= 1 /\ Settled(u) /\ Held(u) /\ Exclusive(u)

IInv == /\ StagesInv
        /\ \A u \in Urls : u \notin repeatable => Tracked(u)
        /\ NoArticleVanishes

-----------------------------------------------------------------------------
(* Stages.                                                                 *)

LEMMA IdleFacts ==
  /\ Shaped(NoCrawl) /\ Content(NoCrawl) = {} /\ Open(NoCrawl) = {}
  /\ \A u : Once(NoCrawl, u)
BY DEF Shaped, Content, Open, Once, NoCrawl

LEMMA GetFacts ==
  ASSUME NEW todo \in Seq(Urls), NEW new \in Seq(Urls)
  PROVE  LET v == AtGet(todo, new)
         IN  /\ Shaped(v) /\ Content(v) = In(new) /\ Open(v) = In(new)
             /\ v.at = "get" /\ v.todo = todo /\ v.new = new
             /\ \A u : Once(v, u) = SinglyIn(new, u)
BY DEF Shaped, Content, Open, Once, AtGet

LEMMA SetFacts ==
  ASSUME NEW todo \in Seq(Urls), NEW new \in Seq(Urls), In(todo) \subseteq In(new)
  PROVE  LET v == AtSet(todo, new)
         IN  /\ Shaped(v) /\ Content(v) = In(new) /\ Open(v) = In(todo)
             /\ v.at = "set" /\ v.todo = todo /\ v.new = new
             /\ \A u : Once(v, u) = SinglyIn(new, u)
BY DEF Shaped, Content, Open, Once, AtSet

LEMMA FilterFacts ==
  ASSUME NEW new \in Seq(Urls)
  PROVE  LET v == AtFilter(new)
         IN  /\ Shaped(v) /\ Content(v) = In(new) /\ Open(v) = {}
             /\ v.at = "filter" /\ v.new = new
             /\ \A u : Once(v, u) = SinglyIn(new, u)
BY DEF Shaped, Content, Open, Once, AtFilter

LEMMA GroupFacts ==
  ASSUME NEW new \in Seq(Urls)
  PROVE  LET v == AtGroup(new)
         IN  /\ Shaped(v) /\ Content(v) = In(new) /\ Open(v) = {}
             /\ v.at = "group" /\ v.new = new
             /\ \A u : Once(v, u) = SinglyIn(new, u)
BY DEF Shaped, Content, Open, Once, AtGroup

LEMMA SaveFacts ==
  ASSUME NEW groups \in Seq(SUBSET Urls)
  PROVE  LET v == AtSave(groups)
         IN  /\ Shaped(v) /\ Content(v) = UNION In(groups) /\ Open(v) = {}
             /\ v.at = "save" /\ v.groups = groups
             /\ \A u : Once(v, u) = InOneOf(groups, u)
BY DEF Shaped, Content, Open, Once, AtSave

\* A stage tells what it consists of.
LEMMA StageOf ==
  ASSUME NEW v, Shaped(v)
  PROVE  /\ v.at = "idle" => v = NoCrawl
         /\ v.at = "get" => \E todo, new \in Seq(Urls) : v = AtGet(todo, new)
         /\ v.at = "set" => \E todo, new \in Seq(Urls) :
                              v = AtSet(todo, new) /\ In(todo) \subseteq In(new)
         /\ v.at = "filter" => \E new \in Seq(Urls) : v = AtFilter(new)
         /\ v.at = "group" => \E new \in Seq(Urls) : v = AtGroup(new)
         /\ v.at = "save" => \E groups \in Seq(SUBSET Urls) : v = AtSave(groups)
BY DEF Shaped, NoCrawl, AtGet, AtSet, AtFilter, AtGroup, AtSave

LEMMA ContentIsTaken ==
  ASSUME NEW c \in Crawls
  PROVE  Taken(c) = Content(crawl[c]) /\ Untold(c) = Open(crawl[c])
BY DEF Taken, Untold, Content, Open

\* What is open has been taken.
LEMMA OpenIsTaken ==
  ASSUME NEW v, Shaped(v)
  PROVE  Open(v) \subseteq Content(v) /\ Content(v) \subseteq Urls
<1>1. CASE v = NoCrawl
  BY <1>1, IdleFacts
<1>2. ASSUME NEW todo \in Seq(Urls), NEW new \in Seq(Urls), v = AtGet(todo, new)
      PROVE  Open(v) \subseteq Content(v) /\ Content(v) \subseteq Urls
  BY <1>2, GetFacts DEF In
<1>3. ASSUME NEW todo \in Seq(Urls), NEW new \in Seq(Urls), v = AtSet(todo, new),
             In(todo) \subseteq In(new)
      PROVE  Open(v) \subseteq Content(v) /\ Content(v) \subseteq Urls
  <2>1. Open(v) = In(todo) /\ Content(v) = In(new)
    BY <1>3, SetFacts
  <2> QED
    BY <1>3, <2>1 DEF In
<1>4. ASSUME NEW new \in Seq(Urls), v = AtFilter(new) \/ v = AtGroup(new)
      PROVE  Open(v) \subseteq Content(v) /\ Content(v) \subseteq Urls
  BY <1>4, FilterFacts, GroupFacts DEF In
<1>5. ASSUME NEW groups \in Seq(SUBSET Urls), v = AtSave(groups)
      PROVE  Open(v) \subseteq Content(v) /\ Content(v) \subseteq Urls
  <2>1. Open(v) = {} /\ Content(v) = UNION In(groups)
    BY <1>5, SaveFacts
  <2> QED
    BY <2>1 DEF In
<1> QED
  BY <1>1, <1>2, <1>3, <1>4, <1>5 DEF Shaped

-----------------------------------------------------------------------------
(* Batches.                                                                *)

LEMMA BatchesAreSequences ==
  ASSUME NEW batch \in Batches
  PROVE  batch \in Seq(Urls)
BY IngestAssumption DEF Batches

LEMMA HeadAndTail ==
  ASSUME NEW S, NEW s \in Seq(S), s # <<>>
  PROVE  /\ Tail(s) \in Seq(S) /\ In(Tail(s)) \subseteq In(s)
         /\ Head(s) \in In(s) /\ In(s) \subseteq In(Tail(s)) \cup {Head(s)}
<1>1. Len(s) \in Nat /\ Len(s) > 0 /\ DOMAIN s = 1..Len(s) /\ Head(s) = s[1]
  OBVIOUS
<1>2. /\ Tail(s) \in Seq(S) /\ Len(Tail(s)) = Len(s) - 1 /\ DOMAIN Tail(s) = 1..(Len(s) - 1)
      /\ \A k \in 1..(Len(s) - 1) : Tail(s)[k] = s[k + 1]
  BY <1>1
<1>3. In(Tail(s)) \subseteq In(s)
  <2>1. ASSUME NEW k \in DOMAIN Tail(s)
        PROVE  k + 1 \in DOMAIN s /\ Tail(s)[k] = s[k + 1]
    BY <1>1, <1>2
  <2> QED
    BY <2>1 DEF In
<1>4. In(s) \subseteq In(Tail(s)) \cup {Head(s)}
  <2>1. ASSUME NEW k \in DOMAIN s, k # 1
        PROVE  k - 1 \in DOMAIN Tail(s) /\ Tail(s)[k - 1] = s[k]
    <3>1. k - 1 \in 1..(Len(s) - 1) /\ (k - 1) + 1 = k
      BY <1>1, <2>1
    <3> QED
      BY <1>2, <3>1
  <2> QED
    BY <1>1, <2>1 DEF In
<1> QED
  BY <1>1, <1>2, <1>3, <1>4 DEF In

LEMMA Appended ==
  ASSUME NEW S, NEW s \in Seq(S), NEW x \in S
  PROVE  /\ Append(s, x) \in Seq(S)
         /\ In(Append(s, x)) = In(s) \cup {x}
         /\ \A u : SinglyIn(s, u) /\ u # x => SinglyIn(Append(s, x), u)
         /\ x \notin In(s) => SinglyIn(Append(s, x), x)
<1>1. Len(s) \in Nat /\ DOMAIN s = 1..Len(s)
  OBVIOUS
<1>2. /\ Append(s, x) \in Seq(S) /\ DOMAIN Append(s, x) = 1..(Len(s) + 1)
      /\ Append(s, x)[Len(s) + 1] = x
      /\ \A k \in 1..Len(s) : Append(s, x)[k] = s[k]
  BY <1>1
<1>3. DOMAIN Append(s, x) = DOMAIN s \cup {Len(s) + 1}
  BY <1>1, <1>2
<1>4. \A k \in DOMAIN s : Append(s, x)[k] = s[k]
  BY <1>1, <1>2
<1>5. Len(s) + 1 \notin DOMAIN s
  BY <1>1
<1>6. In(Append(s, x)) = In(s) \cup {x}
  <2>1. ASSUME NEW y \in In(Append(s, x)) PROVE y \in In(s) \cup {x}
    BY <1>2, <1>3, <1>4, <2>1 DEF In
  <2>2. ASSUME NEW y \in In(s) \cup {x} PROVE y \in In(Append(s, x))
    BY <1>2, <1>3, <1>4, <2>2 DEF In
  <2> QED
    BY <2>1, <2>2
<1>7. ASSUME NEW u, SinglyIn(s, u), u # x PROVE SinglyIn(Append(s, x), u)
  BY <1>2, <1>3, <1>4, <1>7 DEF SinglyIn
<1>8. ASSUME x \notin In(s) PROVE SinglyIn(Append(s, x), x)
  BY <1>2, <1>3, <1>4, <1>8 DEF SinglyIn, In
<1> QED
  BY <1>2, <1>6, <1>7, <1>8

LEMMA Empty ==
  ASSUME NEW S, NEW s \in Seq(S)
  PROVE  s = <<>> <=> In(s) = {}
<1>1. DOMAIN s = 1..Len(s) /\ Len(s) \in Nat
  OBVIOUS
<1>2. ASSUME s # <<>> PROVE 1 \in DOMAIN s
  BY <1>1, <1>2
<1>3. ASSUME s = <<>> PROVE DOMAIN s = {}
  BY <1>1, <1>3
<1> QED
  BY <1>2, <1>3 DEF In

\* A selection by indices has articles of the batch only.
LEMMA KeptIsPart ==
  ASSUME NEW batch \in Seq(Urls), NEW indices \in Sequences(DOMAIN batch)
  PROVE  Kept(batch, indices) \in Seq(Urls) /\ In(Kept(batch, indices)) \subseteq In(batch)
<1>1. PICK n \in 0..MaxBatch : indices \in [1..n -> DOMAIN batch]
  BY DEF Sequences
<1>2. n \in Nat
  BY IngestAssumption
<1>3. \A k \in 1..n : batch[indices[k]] \in Urls
  BY <1>1
<1>4. Kept(batch, indices) = [k \in 1..n |-> batch[indices[k]]]
  BY <1>1 DEF Kept
<1>5. Kept(batch, indices) \in Seq(Urls)
  BY <1>2, <1>3, <1>4
<1>6. In(Kept(batch, indices)) = {batch[indices[k]] : k \in 1..n}
  BY <1>4 DEF In
<1> QED
  BY <1>1, <1>5, <1>6 DEF In

\* As groups of one, a batch keeps its articles.
LEMMA AloneIsAll ==
  ASSUME NEW batch \in Seq(Urls)
  PROVE  /\ Alone(batch) \in Seq(SUBSET Urls) /\ UNION In(Alone(batch)) = In(batch)
         /\ \A u : SinglyIn(batch, u) => InOneOf(Alone(batch), u)
<1>1. DOMAIN batch = 1..Len(batch) /\ Len(batch) \in Nat /\ \A k \in DOMAIN batch : batch[k] \in Urls
  OBVIOUS
<1>2. Alone(batch) = [k \in 1..Len(batch) |-> {batch[k]}]
  BY <1>1 DEF Alone
<1>3. Alone(batch) \in Seq(SUBSET Urls)
  BY <1>1, <1>2
<1>4. DOMAIN Alone(batch) = DOMAIN batch /\ \A k \in DOMAIN batch : Alone(batch)[k] = {batch[k]}
  BY DEF Alone
<1>5. UNION In(Alone(batch)) = In(batch)
  <2>1. In(Alone(batch)) = {{batch[k]} : k \in DOMAIN batch}
    BY <1>4, Zenon DEF In
  <2> QED
    BY <2>1 DEF In
<1>6. \A u : SinglyIn(batch, u) => InOneOf(Alone(batch), u)
  BY <1>4 DEF SinglyIn, InOneOf
<1> QED
  BY <1>3, <1>5, <1>6

-----------------------------------------------------------------------------
(* The groups an agent's calls make up.                                    *)

\* What holds of 0 and is passed on holds up to N: there is no smallest number
\* of which it does not.
LEMMA UpTo ==
  ASSUME NEW N \in Nat, NEW G, 0 \in G, \A n \in 0..(N - 1) : n \in G => n + 1 \in G
  PROVE  \A n \in 0..N : n \in G
<1> DEFINE T == {n \in 0..N : n \notin G}
<1> SUFFICES ASSUME T # {} PROVE FALSE
  OBVIOUS
<1>1. PICK n \in T : \A m \in T : ~(m < n)
  <2>1. T \subseteq Nat
    OBVIOUS
  <2> HIDE DEF T
  <2>2. PICK n \in T : \A m \in T : <<m, n>> \notin OpToRel(<, Nat)
    BY <2>1, NatLessThanWellFounded, WFMin
  <2> QED
    BY <2>1, <2>2 DEF OpToRel
<1>2. n # 0 /\ n - 1 \in 0..(N - 1) /\ n - 1 \notin T
  BY <1>1
<1> QED
  BY <1>1, <1>2

\* The groups after each of the calls.
Steps(f, batch, calls, n) ==
  f = [k \in 0..n |-> IF k = 0 THEN <<>> ELSE Classified(batch, f[k - 1], calls[k])]

LEMMA StepsExist ==
  ASSUME NEW batch, NEW calls, NEW N \in Nat
  PROVE  \E f : Steps(f, batch, calls, N)
<1> DEFINE G == {n \in 0..N : \E f : Steps(f, batch, calls, n)}
<1>1. 0 \in G
  <2>1. Steps([k \in 0..0 |-> <<>>], batch, calls, 0)
    BY DEF Steps
  <2> QED
    BY <2>1
<1>2. ASSUME NEW n \in 0..(N - 1), n \in G PROVE n + 1 \in G
  <2>1. PICK f : Steps(f, batch, calls, n)
    BY <1>2
  <2> DEFINE h == [k \in 0..(n + 1) |->
                     IF k = 0 THEN <<>> ELSE Classified(batch, f[k - 1], calls[k])]
  <2>2. \A k \in 0..n : f[k] = IF k = 0 THEN <<>> ELSE Classified(batch, f[k - 1], calls[k])
    BY <2>1 DEF Steps
  <2>3. \A k \in 0..n : h[k] = f[k]
    BY <2>2
  <2>4. \A k \in 0..(n + 1) : k # 0 => k - 1 \in 0..n
    OBVIOUS
  <2>5. h = [k \in 0..(n + 1) |->
               IF k = 0 THEN <<>> ELSE Classified(batch, h[k - 1], calls[k])]
    <3>1. \A k \in 0..(n + 1) :
            (IF k = 0 THEN <<>> ELSE Classified(batch, f[k - 1], calls[k]))
             = (IF k = 0 THEN <<>> ELSE Classified(batch, h[k - 1], calls[k]))
      <4> HIDE DEF h
      <4> QED
        BY <2>3, <2>4
    <3> QED
      BY <3>1
  <2>6. Steps(h, batch, calls, n + 1)
    <3> HIDE DEF h
    <3> QED
      BY <2>5 DEF Steps
  <2> QED
    BY <2>6
<1> HIDE DEF G
<1>3. N \in G
  BY <1>1, <1>2, UpTo
<1> QED
  BY <1>3 DEF G

LEMMA GroupedSteps ==
  ASSUME NEW batch, NEW calls, Len(calls) \in Nat
  PROVE  \E f : Steps(f, batch, calls, Len(calls)) /\ Grouped(batch, calls) = f[Len(calls)]
<1> DEFINE f == CHOOSE g : g = [k \in 0..Len(calls) |->
                    IF k = 0 THEN <<>> ELSE Classified(batch, g[k - 1], calls[k])]
<1>1. \E g : g = [k \in 0..Len(calls) |->
                    IF k = 0 THEN <<>> ELSE Classified(batch, g[k - 1], calls[k])]
  <2>1. PICK g : Steps(g, batch, calls, Len(calls))
    BY StepsExist
  <2>2. g = [k \in 0..Len(calls) |->
               IF k = 0 THEN <<>> ELSE Classified(batch, g[k - 1], calls[k])]
    BY <2>1, Zenon DEF Steps
  <2> QED
    BY <2>2, Zenon
<1>2. f = [k \in 0..Len(calls) |->
             IF k = 0 THEN <<>> ELSE Classified(batch, f[k - 1], calls[k])]
  BY <1>1, Zenon
<1>3. Grouped(batch, calls) = f[Len(calls)]
  BY Zenon DEF Grouped
<1> HIDE DEF f
<1> QED
  BY <1>2, <1>3, Zenon DEF Steps

LEMMA ClassifiedIsPart ==
  ASSUME NEW batch \in Seq(Urls), NEW groups \in Seq(SUBSET In(batch)), NEW call
  PROVE  Classified(batch, groups, call) \in Seq(SUBSET In(batch))
<1>1. \A k \in DOMAIN batch : {batch[k]} \in SUBSET In(batch)
  BY DEF In
<1>2. CASE call[1] \notin DOMAIN batch
  BY <1>2 DEF Classified
<1>3. CASE call[1] \in DOMAIN batch /\ call[2] = 0
  BY <1>1, <1>3 DEF Classified
<1>4. CASE call[1] \in DOMAIN batch /\ call[2] # 0 /\ call[2] \in DOMAIN groups
  <2> DEFINE g == call[2]  S == groups[g] \cup {batch[call[1]]}
  <2>1. S \in SUBSET In(batch)
    BY <1>1, <1>4
  <2>2. Classified(batch, groups, call) = [groups EXCEPT ![g] = S]
    BY <1>4 DEF Classified
  <2> HIDE DEF S
  <2> QED
    BY <1>4, <2>1, <2>2
<1>5. CASE call[1] \in DOMAIN batch /\ call[2] # 0 /\ call[2] \notin DOMAIN groups
  BY <1>5 DEF Classified
<1> QED
  BY <1>2, <1>3, <1>4, <1>5

\* Whatever the agent calls, the groups have articles of the batch only.
LEMMA GroupedIsPart ==
  ASSUME NEW batch \in Seq(Urls), NEW calls, Len(calls) \in Nat
  PROVE  Grouped(batch, calls) \in Seq(SUBSET In(batch))
<1>1. PICK f : Steps(f, batch, calls, Len(calls)) /\ Grouped(batch, calls) = f[Len(calls)]
  BY GroupedSteps
<1> DEFINE N == Len(calls)
           G == {n \in 0..N : f[n] \in Seq(SUBSET In(batch))}
<1>2. \A n \in 0..N : f[n] = IF n = 0 THEN <<>> ELSE Classified(batch, f[n - 1], calls[n])
  BY <1>1 DEF Steps
<1>3. 0 \in G
  <2>1. 0 \in 0..N
    OBVIOUS
  <2>2. f[0] = <<>>
    BY <1>2, <2>1
  <2>3. <<>> \in Seq(SUBSET In(batch))
    OBVIOUS
  <2> QED
    BY <2>1, <2>2, <2>3
<1>4. ASSUME NEW n \in 0..(N - 1), n \in G PROVE n + 1 \in G
  <2>1. n + 1 \in 0..N /\ n + 1 # 0 /\ (n + 1) - 1 = n
    OBVIOUS
  <2>2. f[n + 1] = Classified(batch, f[n], calls[n + 1])
    BY <1>2, <2>1
  <2>3. f[n] \in Seq(SUBSET In(batch))
    BY <1>4
  <2>4. f[n + 1] \in Seq(SUBSET In(batch))
    BY <2>2, <2>3, ClassifiedIsPart
  <2> QED
    BY <2>1, <2>4
<1>5. N \in Nat /\ N \in 0..N
  OBVIOUS
<1> HIDE DEF G, N
<1>6. N \in G
  BY <1>3, <1>4, <1>5, UpTo
<1> QED
  BY <1>1, <1>6 DEF G, N

-----------------------------------------------------------------------------
(* Steps that settle some of the articles of one crawl.                    *)

\* Crawl c moves on with some of its articles.  Those it leaves behind an agent
\* has turned down, or they are lost; those it goes on with are at one place,
\* and the cache has been told of them unless they are open.
Settles(c) ==
  /\ DOMAIN crawl' = Crawls /\ \A d \in Crawls : d # c => crawl'[d] = crawl[d]
  /\ Shaped(crawl'[c]) /\ Content(crawl'[c]) \subseteq Content(crawl[c])
  /\ \A u \in Content(crawl[c]) :
       u \in Content(crawl'[c]) \/ u \in turnedDown' \/ u \in lost'
  /\ \A u \in Content(crawl'[c]) : u \notin repeatable' =>
       (u \in Open(crawl'[c]) \/ u \in seen') /\ Once(crawl'[c], u)
  /\ saves' = saves
  /\ seen \subseteq seen' /\ seen' \subseteq seen \cup Content(crawl[c])
  /\ repeatable \subseteq repeatable' /\ turnedDown \subseteq turnedDown' /\ lost \subseteq lost'

LEMMA SettlesKeeps ==
  ASSUME IInv, NEW c \in Crawls, Settles(c)
  PROVE  IInv'
<1>1. StagesInv'
  <2>1. Content(crawl[c]) \subseteq Urls
    BY OpenIsTaken DEF IInv, StagesInv
  <2>2. \A d \in Crawls : Shaped(crawl'[d])
    BY DEF Settles, IInv, StagesInv
  <2> QED
    BY <2>1, <2>2 DEF Settles, IInv, StagesInv
<1>2. ASSUME NEW u \in Urls, u \notin repeatable' PROVE Tracked(u)'
  <2>1. Tracked(u)
    BY <1>2 DEF Settles, IInv
  <2>2. \A d \in Crawls : Content(crawl'[d]) \subseteq Content(crawl[d])
    BY DEF Settles
  <2>3. Settled(u)'
    BY <2>1, <2>2 DEF Tracked, Settled, Settles
  <2>4. Held(u)'
    <3> SUFFICES ASSUME NEW d \in Crawls, u \in Content(crawl'[d])
                 PROVE  (u \in Open(crawl'[d]) \/ u \in seen') /\ Once(crawl'[d], u)
      BY DEF Held
    <3>1. CASE d = c
      BY <1>2, <3>1 DEF Settles
    <3>2. CASE d # c
      BY <2>1, <3>2 DEF Tracked, Held, Settles
    <3> QED
      BY <3>1, <3>2
  <2>5. Exclusive(u)'
    BY <2>1, <2>2 DEF Tracked, Exclusive
  <2>6. saves'[u] <= 1
    BY <2>1 DEF Tracked, Settles
  <2> QED
    BY <2>3, <2>4, <2>5, <2>6 DEF Tracked
<1>3. NoArticleVanishes'
  <2> SUFFICES ASSUME NEW u \in seen'
               PROVE  \/ saves'[u] > 0 \/ u \in turnedDown' \/ u \in lost'
                      \/ \E d \in Crawls : u \in Content(crawl'[d])
    BY ContentIsTaken DEF NoArticleVanishes, Taken, Content
  <2>1. CASE u \in Content(crawl[c])
    BY <2>1 DEF Settles
  <2>2. CASE u \notin Content(crawl[c])
    <3>1. u \in seen
      BY <2>2 DEF Settles
    <3>2. \/ saves[u] > 0 \/ u \in turnedDown \/ u \in lost
          \/ \E d \in Crawls : u \in Content(crawl[d])
      BY <3>1, ContentIsTaken DEF IInv, NoArticleVanishes
    <3>3. \A d \in Crawls : u \in Content(crawl[d]) => u \in Content(crawl'[d])
      BY <2>2 DEF Settles
    <3> QED
      BY <3>2, <3>3 DEF Settles
  <2> QED
    BY <2>1, <2>2
<1> QED
  BY <1>1, <1>2, <1>3 DEF IInv

\* A new stage for one crawl leaves the others where they are.
LEMMA NewStage ==
  ASSUME IInv, NEW c \in Crawls, NEW v, crawl' = [crawl EXCEPT ![c] = v]
  PROVE  /\ DOMAIN crawl' = Crawls /\ crawl'[c] = v
         /\ \A d \in Crawls : d # c => crawl'[d] = crawl[d]
BY DEF IInv, StagesInv

\* What is known of the articles of a crawl.
LEMMA Known ==
  ASSUME IInv, NEW c \in Crawls, NEW u \in Content(crawl[c]), u \notin repeatable
  PROVE  /\ u \in Urls /\ (u \in Open(crawl[c]) \/ u \in seen)
         /\ Once(crawl[c], u) /\ saves[u] = 0
<1>1. u \in Urls /\ saves[u] \in Nat
  BY OpenIsTaken DEF IInv, StagesInv
<1>2. Tracked(u)
  BY <1>1 DEF IInv
<1> QED
  BY <1>1, <1>2 DEF Tracked, Held, Settled

LEMMA OfferStep ==
  ASSUME IInv, NEW c \in Crawls, Offer(c)
  PROVE  Settles(c)
<1>1. PICK batch \in Batches : crawl' = [crawl EXCEPT ![c] = AtGet(batch, <<>>)]
  BY DEF Offer
<1>2. crawl[c] = NoCrawl
  BY StageOf DEF Offer, IInv, StagesInv
<1>3. batch \in Seq(Urls) /\ <<>> \in Seq(Urls) /\ In(<<>>) = {}
  <2>1. <<>> \in Seq(Urls)
    OBVIOUS
  <2> QED
    BY <2>1, BatchesAreSequences, Empty
<1> DEFINE v == AtGet(batch, <<>>)
<1>4. Shaped(v) /\ Content(v) = {}
  BY <1>3, GetFacts
<1>5. Content(crawl[c]) = {}
  BY <1>2, IdleFacts
<1> HIDE DEF v
<1>6. /\ DOMAIN crawl' = Crawls /\ crawl'[c] = v
      /\ \A d \in Crawls : d # c => crawl'[d] = crawl[d]
  BY <1>1, NewStage DEF v
<1> QED
  BY <1>4, <1>5, <1>6 DEF Settles, Offer, history

LEMMA HitStep ==
  ASSUME IInv, NEW c \in Crawls, Hit(c)
  PROVE  Settles(c)
<1>1. PICK todo \in Seq(Urls), new \in Seq(Urls) : crawl[c] = AtGet(todo, new)
  BY StageOf DEF Hit, Pending, IInv, StagesInv
<1>2. /\ Content(crawl[c]) = In(new) /\ \A u : Once(crawl[c], u) = SinglyIn(new, u)
      /\ crawl[c].todo = todo /\ crawl[c].new = new
  BY <1>1, GetFacts
<1> DEFINE v == AtGet(Tail(todo), new)
<1>3. crawl' = [crawl EXCEPT ![c] = v] /\ todo # <<>>
  BY <1>2 DEF Hit, Pending
<1>4. Shaped(v) /\ Content(v) = In(new) /\ Open(v) = In(new) /\ \A u : Once(v, u) = SinglyIn(new, u)
  BY <1>3, HeadAndTail, GetFacts
<1> HIDE DEF v
<1>5. /\ DOMAIN crawl' = Crawls /\ crawl'[c] = v
      /\ \A d \in Crawls : d # c => crawl'[d] = crawl[d]
  BY <1>3, NewStage
<1>6. \A u \in Content(crawl[c]) : u \notin repeatable => Once(crawl[c], u)
  BY Known
<1> QED
  BY <1>2, <1>4, <1>5, <1>6 DEF Settles, Hit, history

LEMMA AllAskedStep ==
  ASSUME IInv, NEW c \in Crawls, AllAsked(c)
  PROVE  Settles(c)
<1>1. PICK todo \in Seq(Urls), new \in Seq(Urls) : crawl[c] = AtGet(todo, new)
  BY StageOf DEF AllAsked, IInv, StagesInv
<1>2. /\ Content(crawl[c]) = In(new) /\ \A u : Once(crawl[c], u) = SinglyIn(new, u)
      /\ crawl[c].new = new
  BY <1>1, GetFacts
<1> DEFINE v == AtSet(new, new)
<1>3. crawl' = [crawl EXCEPT ![c] = v]
  BY <1>2 DEF AllAsked
<1>4. Shaped(v) /\ Content(v) = In(new) /\ Open(v) = In(new) /\ \A u : Once(v, u) = SinglyIn(new, u)
  BY SetFacts
<1> HIDE DEF v
<1>5. /\ DOMAIN crawl' = Crawls /\ crawl'[c] = v
      /\ \A d \in Crawls : d # c => crawl'[d] = crawl[d]
  BY <1>3, NewStage
<1>6. \A u \in Content(crawl[c]) : u \notin repeatable => Once(crawl[c], u)
  BY Known
<1> QED
  BY <1>2, <1>4, <1>5, <1>6 DEF Settles, AllAsked, history

\* An article told successfully is in the cache; one whose set failed may come
\* up again.
LEMMA TellStep ==
  ASSUME IInv, NEW c \in Crawls, Tell(c)
  PROVE  Settles(c)
<1>1. PICK todo \in Seq(Urls), new \in Seq(Urls) :
        crawl[c] = AtSet(todo, new) /\ In(todo) \subseteq In(new)
  BY StageOf DEF Tell, Pending, IInv, StagesInv
<1>2. /\ Content(crawl[c]) = In(new) /\ Open(crawl[c]) = In(todo)
      /\ \A u : Once(crawl[c], u) = SinglyIn(new, u)
      /\ crawl[c].todo = todo /\ crawl[c].new = new
  BY <1>1, SetFacts
<1> DEFINE v == AtSet(Tail(todo), new)
           x == Head(todo)
<1>3. crawl' = [crawl EXCEPT ![c] = v] /\ todo # <<>>
  BY <1>2 DEF Tell, Pending
<1>4. /\ Tail(todo) \in Seq(Urls) /\ In(Tail(todo)) \subseteq In(todo)
      /\ x \in In(todo) /\ In(todo) \subseteq In(Tail(todo)) \cup {x}
  BY <1>3, HeadAndTail
<1>5. \/ seen' = seen \cup {x} /\ repeatable' = repeatable
      \/ seen' = seen /\ repeatable' = repeatable \cup {x}
  BY <1>2 DEF Tell
<1>6. /\ Shaped(v) /\ Content(v) = In(new) /\ Open(v) = In(Tail(todo))
      /\ \A u : Once(v, u) = SinglyIn(new, u)
  <2>1. In(Tail(todo)) \subseteq In(new)
    BY <1>1, <1>4
  <2> QED
    BY <1>4, <2>1, SetFacts
<1> HIDE DEF v, x
<1>7. /\ DOMAIN crawl' = Crawls /\ crawl'[c] = v
      /\ \A d \in Crawls : d # c => crawl'[d] = crawl[d]
  BY <1>3, NewStage
<1>8. \A u \in Content(crawl[c]) : u \notin repeatable =>
        Once(crawl[c], u) /\ (u \in Open(crawl[c]) \/ u \in seen)
  BY Known
<1>9. \A u \in Content(v) : u \notin repeatable' => (u \in Open(v) \/ u \in seen') /\ Once(v, u)
  BY <1>2, <1>4, <1>5, <1>6, <1>8
<1>10. seen \subseteq seen' /\ seen' \subseteq seen \cup Content(crawl[c])
  BY <1>1, <1>2, <1>4, <1>5
<1> QED
  BY <1>2, <1>5, <1>6, <1>7, <1>9, <1>10 DEF Settles, Tell

LEMMA AllToldStep ==
  ASSUME IInv, NEW c \in Crawls, AllTold(c)
  PROVE  Settles(c)
<1>1. PICK todo \in Seq(Urls), new \in Seq(Urls) :
        crawl[c] = AtSet(todo, new) /\ In(todo) \subseteq In(new)
  BY StageOf DEF AllTold, IInv, StagesInv
<1>2. /\ Content(crawl[c]) = In(new) /\ Open(crawl[c]) = In(todo)
      /\ \A u : Once(crawl[c], u) = SinglyIn(new, u)
      /\ crawl[c].todo = todo /\ crawl[c].new = new
  BY <1>1, SetFacts
<1>3. In(todo) = {}
  BY <1>2, Empty DEF AllTold
<1> DEFINE v == IF new = <<>> THEN NoCrawl ELSE AtFilter(new)
<1>4. crawl' = [crawl EXCEPT ![c] = v]
  BY <1>2 DEF AllTold
<1>5. /\ Shaped(v) /\ Content(v) = In(new)
      /\ \A u \in Content(v) : Once(v, u) = SinglyIn(new, u)
  <2>1. CASE new = <<>>
    BY <2>1, Empty, IdleFacts
  <2>2. CASE new # <<>>
    BY <2>2, FilterFacts
  <2> QED
    BY <2>1, <2>2
<1> HIDE DEF v
<1>6. /\ DOMAIN crawl' = Crawls /\ crawl'[c] = v
      /\ \A d \in Crawls : d # c => crawl'[d] = crawl[d]
  BY <1>4, NewStage
<1>7. \A u \in Content(crawl[c]) : u \notin repeatable =>
        Once(crawl[c], u) /\ (u \in Open(crawl[c]) \/ u \in seen)
  BY Known
<1> QED
  BY <1>2, <1>3, <1>5, <1>6, <1>7 DEF Settles, AllTold, history

\* The crawl at one of the agents: everything has been told.
LEMMA AtAgents ==
  ASSUME IInv, NEW c \in Crawls, crawl[c].at \in {"filter", "group"}
  PROVE  /\ crawl[c].new \in Seq(Urls) /\ Content(crawl[c]) = In(crawl[c].new)
         /\ \A u \in In(crawl[c].new) : u \notin repeatable =>
              u \in seen /\ SinglyIn(crawl[c].new, u)
<1>1. PICK new \in Seq(Urls) : crawl[c] = AtFilter(new) \/ crawl[c] = AtGroup(new)
  BY StageOf DEF IInv, StagesInv
<1>2. /\ Content(crawl[c]) = In(new) /\ Open(crawl[c]) = {} /\ crawl[c].new = new
      /\ \A u : Once(crawl[c], u) = SinglyIn(new, u)
  BY <1>1, FilterFacts, GroupFacts
<1> QED
  BY <1>2, Known

\* What the filter, or its failure, leaves of the batch.
LEMMA AfterFilterStep ==
  ASSUME IInv, NEW c \in Crawls, crawl[c].at = "filter", NEW batch \in Seq(Urls),
         In(batch) \subseteq In(crawl[c].new), AfterFilter(c, batch),
         \A u \in In(crawl[c].new) : u \in In(batch) \/ u \in turnedDown',
         \A u \in In(batch) : u \notin repeatable' => SinglyIn(batch, u),
         repeatable \subseteq repeatable', turnedDown \subseteq turnedDown'
  PROVE  Settles(c)
<1> DEFINE v == IF batch = <<>> THEN NoCrawl ELSE AtGroup(batch)
<1>1. crawl' = [crawl EXCEPT ![c] = v]
  BY DEF AfterFilter
<1>2. /\ Shaped(v) /\ Content(v) = In(batch)
      /\ \A u \in Content(v) : Once(v, u) = SinglyIn(batch, u)
  <2>1. CASE batch = <<>>
    BY <2>1, Empty, IdleFacts
  <2>2. CASE batch # <<>>
    BY <2>2, GroupFacts
  <2> QED
    BY <2>1, <2>2
<1> HIDE DEF v
<1>3. /\ DOMAIN crawl' = Crawls /\ crawl'[c] = v
      /\ \A d \in Crawls : d # c => crawl'[d] = crawl[d]
  BY <1>1, NewStage
<1> QED
  BY <1>2, <1>3, AtAgents DEF Settles, AfterFilter

LEMMA FilterStep ==
  ASSUME IInv, NEW c \in Crawls, Filter(c)
  PROVE  Settles(c)
<1>1. crawl[c].at = "filter" /\ crawl[c].new \in Seq(Urls)
  BY AtAgents DEF Filter
<1>2. PICK indices \in Sequences(DOMAIN crawl[c].new) :
        LET batch == Kept(crawl[c].new, indices)
        IN  /\ AfterFilter(c, batch)
            /\ turnedDown' = turnedDown \cup (In(crawl[c].new) \ In(batch))
            /\ repeatable' = repeatable \cup Twice(batch)
  BY DEF Filter
<1> DEFINE batch == Kept(crawl[c].new, indices)
<1>3. batch \in Seq(Urls) /\ In(batch) \subseteq In(crawl[c].new)
  BY <1>1, KeptIsPart
<1>4. /\ AfterFilter(c, batch)
      /\ turnedDown' = turnedDown \cup (In(crawl[c].new) \ In(batch))
      /\ repeatable' = repeatable \cup Twice(batch)
  BY <1>2
<1> HIDE DEF batch
<1>5. \A u \in In(batch) : u \notin repeatable' => SinglyIn(batch, u)
  BY <1>4 DEF Twice, SinglyIn
<1> QED
  BY <1>1, <1>3, <1>4, <1>5, AfterFilterStep

LEMMA FilterFailsStep ==
  ASSUME IInv, NEW c \in Crawls, FilterFails(c)
  PROVE  Settles(c)
<1>1. /\ crawl[c].at = "filter" /\ AfterFilter(c, crawl[c].new)
      /\ repeatable' = repeatable /\ turnedDown' = turnedDown
  BY DEF FilterFails
<1> QED
  BY <1>1, AtAgents, AfterFilterStep

\* What the grouping, or its failure, makes of the batch.
LEMMA AfterGroupingStep ==
  ASSUME IInv, NEW c \in Crawls, crawl[c].at = "group", NEW groups \in Seq(SUBSET Urls),
         UNION In(groups) \subseteq In(crawl[c].new), AfterGrouping(c, groups),
         \A u \in In(crawl[c].new) : u \in UNION In(groups) \/ u \in turnedDown',
         \A u \in UNION In(groups) : u \notin repeatable' => InOneOf(groups, u),
         repeatable \subseteq repeatable', turnedDown \subseteq turnedDown'
  PROVE  Settles(c)
<1> DEFINE v == IF groups = <<>> THEN NoCrawl ELSE AtSave(groups)
<1>1. crawl' = [crawl EXCEPT ![c] = v]
  BY DEF AfterGrouping
<1>2. /\ Shaped(v) /\ Content(v) = UNION In(groups)
      /\ \A u \in Content(v) : Once(v, u) = InOneOf(groups, u)
  <2>1. CASE groups = <<>>
    <3>1. In(groups) = {}
      BY <2>1, Empty
    <3>2. Content(v) = UNION In(groups) /\ Content(v) = {} /\ Shaped(v)
      BY <2>1, <3>1, IdleFacts
    <3> QED
      BY <3>2
  <2>2. CASE groups # <<>>
    BY <2>2, SaveFacts
  <2> QED
    BY <2>1, <2>2
<1> HIDE DEF v
<1>3. /\ DOMAIN crawl' = Crawls /\ crawl'[c] = v
      /\ \A d \in Crawls : d # c => crawl'[d] = crawl[d]
  BY <1>1, NewStage
<1> QED
  BY <1>2, <1>3, AtAgents DEF Settles, AfterGrouping

LEMMA GroupStep ==
  ASSUME IInv, NEW c \in Crawls, Group(c)
  PROVE  Settles(c)
<1>1. crawl[c].at = "group" /\ crawl[c].new \in Seq(Urls) /\ In(crawl[c].new) \subseteq Urls
  BY AtAgents, OpenIsTaken DEF Group, IInv, StagesInv
<1>2. PICK calls \in Sequences((0..MaxBatch) \X (0..MaxBatch)) :
        LET groups == Grouped(crawl[c].new, calls)
        IN  /\ AfterGrouping(c, groups)
            /\ turnedDown' = turnedDown \cup (In(crawl[c].new) \ UNION In(groups))
            /\ repeatable' = repeatable \cup InTwo(groups)
  BY DEF Group
<1> DEFINE groups == Grouped(crawl[c].new, calls)
<1>3. Len(calls) \in Nat
  BY IngestAssumption DEF Sequences
<1>4. groups \in Seq(SUBSET In(crawl[c].new))
  BY <1>1, <1>3, GroupedIsPart
<1>5. /\ AfterGrouping(c, groups)
      /\ turnedDown' = turnedDown \cup (In(crawl[c].new) \ UNION In(groups))
      /\ repeatable' = repeatable \cup InTwo(groups)
  BY <1>2
<1> HIDE DEF groups
<1>6. groups \in Seq(SUBSET Urls) /\ UNION In(groups) \subseteq In(crawl[c].new)
  <2>1. \A k \in DOMAIN groups : groups[k] \subseteq In(crawl[c].new)
    BY <1>4
  <2>2. groups \in Seq(SUBSET Urls)
    BY <1>1, <1>4
  <2> QED
    BY <2>1, <2>2 DEF In
<1>7. \A u \in UNION In(groups) : u \notin repeatable' => InOneOf(groups, u)
  <2> SUFFICES ASSUME NEW u \in Urls, u \notin InTwo(groups) PROVE InOneOf(groups, u)
    BY <1>1, <1>5, <1>6
  <2> QED
    BY DEF InTwo, InOneOf
<1> QED
  BY <1>1, <1>5, <1>6, <1>7, AfterGroupingStep

LEMMA GroupFailsStep ==
  ASSUME IInv, NEW c \in Crawls, GroupFails(c)
  PROVE  Settles(c)
<1> DEFINE groups == Alone(crawl[c].new)
<1>1. /\ crawl[c].at = "group" /\ AfterGrouping(c, groups)
      /\ repeatable' = repeatable /\ turnedDown' = turnedDown
  BY DEF GroupFails
<1>2. /\ groups \in Seq(SUBSET Urls) /\ UNION In(groups) = In(crawl[c].new)
      /\ \A u : SinglyIn(crawl[c].new, u) => InOneOf(groups, u)
  BY <1>1, AtAgents, AloneIsAll
<1> HIDE DEF groups
<1>3. \A u \in UNION In(groups) : u \notin repeatable' => InOneOf(groups, u)
  BY <1>1, <1>2, AtAgents
<1> QED
  BY <1>1, <1>2, <1>3, AfterGroupingStep

LEMMA CrawlFailsStep ==
  ASSUME IInv, NEW c \in Crawls, CrawlFails(c)
  PROVE  Settles(c)
<1>1. /\ DOMAIN crawl' = Crawls /\ crawl'[c] = NoCrawl
      /\ \A d \in Crawls : d # c => crawl'[d] = crawl[d]
  BY NewStage DEF CrawlFails
<1>2. lost' = lost \cup Content(crawl[c])
  BY ContentIsTaken DEF CrawlFails
<1> QED
  BY <1>1, <1>2, IdleFacts DEF Settles, CrawlFails

-----------------------------------------------------------------------------
(* The other steps.                                                        *)

\* An article nobody has told the cache of is with no crawl that will; if it
\* has no reason to come up again, it was not saved either.
LEMMA MissStep ==
  ASSUME IInv, NEW c \in Crawls, Miss(c)
  PROVE  IInv'
<1>1. PICK todo \in Seq(Urls), new \in Seq(Urls) : crawl[c] = AtGet(todo, new)
  BY StageOf DEF Miss, Pending, IInv, StagesInv
<1>2. /\ Content(crawl[c]) = In(new) /\ Open(crawl[c]) = In(new)
      /\ \A u : Once(crawl[c], u) = SinglyIn(new, u)
      /\ crawl[c].todo = todo /\ crawl[c].new = new
  BY <1>1, GetFacts
<1> DEFINE x == Head(todo)
           v == AtGet(Tail(todo), Append(new, x))
<1>3. crawl' = [crawl EXCEPT ![c] = v] /\ todo # <<>>
  BY <1>2 DEF Miss, Pending
<1>4. Tail(todo) \in Seq(Urls) /\ x \in Urls
  BY <1>3, HeadAndTail DEF In
<1>5. /\ Append(new, x) \in Seq(Urls) /\ In(Append(new, x)) = In(new) \cup {x}
      /\ \A u : SinglyIn(new, u) /\ u # x => SinglyIn(Append(new, x), u)
      /\ x \notin In(new) => SinglyIn(Append(new, x), x)
  BY <1>4, Appended
<1>6. /\ Shaped(v) /\ Content(v) = In(new) \cup {x} /\ Open(v) = In(new) \cup {x}
      /\ \A u : Once(v, u) = SinglyIn(Append(new, x), u)
  BY <1>4, <1>5, GetFacts
<1>7. /\ repeatable \subseteq repeatable'
      /\ x \notin repeatable' => x \notin seen /\ \A d \in Crawls : x \notin Open(crawl[d])
  BY <1>2, ContentIsTaken DEF Miss
<1> HIDE DEF v, x
<1>8. /\ DOMAIN crawl' = Crawls /\ crawl'[c] = v
      /\ \A d \in Crawls : d # c => crawl'[d] = crawl[d]
  BY <1>3, NewStage
<1>9. UNCHANGED <<seen, saves, turnedDown, lost>>
  BY DEF Miss
<1>10. StagesInv'
  <2>1. \A d \in Crawls : Shaped(crawl'[d])
    BY <1>6, <1>8 DEF IInv, StagesInv
  <2> QED
    BY <1>8, <1>9, <2>1 DEF IInv, StagesInv
<1>11. \A d \in Crawls : /\ Content(crawl[d]) \subseteq Content(crawl'[d])
                         /\ Content(crawl'[d]) \subseteq Content(crawl[d]) \cup {x}
                         /\ d # c => Content(crawl'[d]) = Content(crawl[d])
  BY <1>2, <1>6, <1>8
<1>12. ASSUME NEW u \in Urls, u \notin repeatable', u # x PROVE Tracked(u)'
  <2>1. Tracked(u)
    BY <1>7, <1>12 DEF IInv
  <2>2. \A d \in Crawls : u \in Content(crawl'[d]) <=> u \in Content(crawl[d])
    BY <1>11, <1>12
  <2>3. Settled(u)' /\ saves'[u] <= 1
    BY <1>9, <2>1, <2>2 DEF Tracked, Settled
  <2>4. Exclusive(u)'
    BY <2>1, <2>2 DEF Tracked, Exclusive
  <2>5. Held(u)'
    <3> SUFFICES ASSUME NEW d \in Crawls, u \in Content(crawl'[d])
                 PROVE  (u \in Open(crawl'[d]) \/ u \in seen') /\ Once(crawl'[d], u)
      BY DEF Held
    <3>1. (u \in Open(crawl[d]) \/ u \in seen) /\ Once(crawl[d], u)
      BY <2>1, <2>2 DEF Tracked, Held
    <3>2. CASE d = c
      BY <1>2, <1>5, <1>6, <1>8, <1>9, <1>12, <3>1, <3>2
    <3>3. CASE d # c
      BY <1>8, <1>9, <3>1, <3>3
    <3> QED
      BY <3>2, <3>3
  <2> QED
    BY <2>3, <2>4, <2>5 DEF Tracked
<1>13. ASSUME x \notin repeatable' PROVE Tracked(x)'
  <2>1. Tracked(x)
    BY <1>4, <1>7, <1>13 DEF IInv
  <2>2. \A d \in Crawls : x \notin Content(crawl[d])
    BY <1>7, <1>13, <2>1 DEF Tracked, Held
  <2>3. saves[x] # 1
    BY <1>7, <1>13, <2>1 DEF Tracked, Settled
  <2>4. \A d \in Crawls : x \in Content(crawl'[d]) => d = c
    BY <1>11, <2>2
  <2>5. Settled(x)' /\ saves'[x] <= 1
    BY <1>9, <2>1, <2>3 DEF Tracked, Settled
  <2>6. Exclusive(x)'
    BY <2>4 DEF Exclusive
  <2>7. x \notin In(new)
    BY <1>2, <2>2
  <2>8. x \in Open(crawl'[c]) /\ Once(crawl'[c], x)
    BY <1>5, <1>6, <1>8, <2>7
  <2>9. Held(x)'
    BY <2>4, <2>8 DEF Held
  <2> QED
    BY <2>5, <2>6, <2>9 DEF Tracked
<1>14. NoArticleVanishes'
  <2> SUFFICES ASSUME NEW u \in seen'
               PROVE  \/ saves'[u] > 0 \/ u \in turnedDown' \/ u \in lost'
                      \/ \E d \in Crawls : u \in Content(crawl'[d])
    BY ContentIsTaken DEF NoArticleVanishes, Taken, Content
  <2>1. \/ saves[u] > 0 \/ u \in turnedDown \/ u \in lost
        \/ \E d \in Crawls : u \in Content(crawl[d])
    BY <1>9, ContentIsTaken DEF IInv, NoArticleVanishes
  <2> QED
    BY <1>9, <1>11, <2>1
<1> QED
  BY <1>10, <1>12, <1>13, <1>14 DEF IInv

\* In how many groups an article is.
LEMMA Occurrences ==
  ASSUME NEW groups \in Seq(SUBSET Urls), NEW u
  PROVE  LET N == Cardinality({n \in DOMAIN groups : u \in groups[n]})
         IN  /\ N \in Nat
             /\ u \in UNION In(groups) => N > 0
             /\ u \notin UNION In(groups) => N = 0
             /\ InOneOf(groups, u) => N <= 1
<1> DEFINE S == {n \in DOMAIN groups : u \in groups[n]}
<1>1. IsFiniteSet(S)
  <2>1. DOMAIN groups = 1..Len(groups) /\ Len(groups) \in Nat
    OBVIOUS
  <2>2. IsFiniteSet(DOMAIN groups)
    BY <2>1, FS_Interval
  <2>3. S \subseteq DOMAIN groups
    OBVIOUS
  <2> HIDE DEF S
  <2> QED
    BY <2>2, <2>3, FS_Subset
<1>2. u \in UNION In(groups) <=> S # {}
  BY DEF In
<1>3. ASSUME InOneOf(groups, u), S # {} PROVE \E n : S = {n}
  BY <1>3 DEF InOneOf
<1> HIDE DEF S
<1>4. Cardinality(S) \in Nat /\ (Cardinality(S) = 0 <=> S = {})
  BY <1>1, FS_CardinalityType, FS_EmptySet
<1>5. ASSUME NEW n, S = {n} PROVE Cardinality(S) = 1
  BY <1>5, FS_Singleton
<1>6. InOneOf(groups, u) => Cardinality(S) <= 1
  <2>1. CASE S = {}
    BY <1>4, <2>1
  <2>2. ASSUME InOneOf(groups, u), S # {} PROVE Cardinality(S) = 1
    <3>1. PICK n : S = {n}
      BY <1>3, <2>2
    <3> QED
      BY <1>5, <3>1
  <2> QED
    BY <2>1, <2>2
<1>7. /\ Cardinality(S) \in Nat
      /\ u \in UNION In(groups) => Cardinality(S) > 0
      /\ u \notin UNION In(groups) => Cardinality(S) = 0
      /\ InOneOf(groups, u) => Cardinality(S) <= 1
  BY <1>2, <1>4, <1>6
<1> QED
  BY <1>7 DEF S

\* What is saved was told, is in one group, and was not saved before.
LEMMA SaveStep ==
  ASSUME IInv, NEW c \in Crawls, Save(c)
  PROVE  IInv'
<1>1. PICK groups \in Seq(SUBSET Urls) : crawl[c] = AtSave(groups)
  BY StageOf DEF Save, IInv, StagesInv
<1>2. /\ Content(crawl[c]) = UNION In(groups) /\ Open(crawl[c]) = {}
      /\ crawl[c].groups = groups /\ \A u : Once(crawl[c], u) = InOneOf(groups, u)
  BY <1>1, SaveFacts
<1> DEFINE N(u) == Cardinality({n \in DOMAIN groups : u \in groups[n]})
<1>3. saves' = [u \in Urls |-> saves[u] + N(u)]
  BY <1>2 DEF Save
<1>4. \A u : /\ N(u) \in Nat
             /\ u \in Content(crawl[c]) => N(u) > 0
             /\ u \notin Content(crawl[c]) => N(u) = 0
             /\ Once(crawl[c], u) => N(u) <= 1
  BY <1>2, Occurrences
<1> HIDE DEF N
<1>5. /\ DOMAIN crawl' = Crawls /\ crawl'[c] = NoCrawl
      /\ \A d \in Crawls : d # c => crawl'[d] = crawl[d]
  BY NewStage DEF Save
<1>6. Content(crawl'[c]) = {}
  BY <1>5, IdleFacts
<1>7. UNCHANGED <<seen, turnedDown, lost, repeatable>>
  BY DEF Save
<1>8. \A u \in Urls : saves[u] \in Nat /\ saves'[u] \in Nat /\ saves'[u] = saves[u] + N(u)
  BY <1>3, <1>4 DEF IInv, StagesInv
<1>9. StagesInv'
  <2>1. \A d \in Crawls : Shaped(crawl'[d])
    BY <1>5, IdleFacts DEF IInv, StagesInv
  <2>2. saves' \in [Urls -> Nat]
    BY <1>3, <1>8
  <2> QED
    BY <1>5, <1>7, <2>1, <2>2 DEF IInv, StagesInv
<1>10. ASSUME NEW u \in Urls, u \notin repeatable' PROVE Tracked(u)'
  <2>1. Tracked(u)
    BY <1>7, <1>10 DEF IInv
  <2>2. Exclusive(u)'
    BY <1>5, <1>6, <2>1 DEF Tracked, Exclusive
  <2>3. Held(u)'
    <3> SUFFICES ASSUME NEW d \in Crawls, u \in Content(crawl'[d])
                 PROVE  (u \in Open(crawl'[d]) \/ u \in seen') /\ Once(crawl'[d], u)
      BY DEF Held
    <3>1. d # c
      BY <1>6
    <3> QED
      BY <1>5, <1>7, <2>1, <3>1 DEF Tracked, Held
  <2>4. CASE u \notin Content(crawl[c])
    <3>1. saves'[u] = saves[u]
      BY <1>4, <1>8, <2>4
    <3>2. Settled(u)'
      BY <1>5, <1>6, <1>7, <2>1, <3>1 DEF Tracked, Settled
    <3> QED
      BY <2>1, <2>2, <2>3, <3>1, <3>2 DEF Tracked
  <2>5. CASE u \in Content(crawl[c])
    <3>1. saves[u] = 0 /\ Once(crawl[c], u) /\ u \in seen
      BY <1>2, <1>7, <1>10, <2>5, Known
    <3>2. saves'[u] <= 1
      BY <1>4, <1>8, <3>1
    <3>3. \A d \in Crawls : u \notin Content(crawl'[d])
      BY <1>5, <1>6, <2>1, <2>5 DEF Tracked, Exclusive
    <3>4. Settled(u)'
      BY <1>7, <3>1, <3>3 DEF Settled
    <3> QED
      BY <2>2, <2>3, <3>2, <3>4 DEF Tracked
  <2> QED
    BY <2>4, <2>5
<1>11. NoArticleVanishes'
  <2> SUFFICES ASSUME NEW u \in seen'
               PROVE  \/ saves'[u] > 0 \/ u \in turnedDown' \/ u \in lost'
                      \/ \E d \in Crawls : u \in Content(crawl'[d])
    BY ContentIsTaken DEF NoArticleVanishes, Taken, Content
  <2>1. u \in Urls
    BY <1>7 DEF IInv, StagesInv
  <2>2. \/ saves[u] > 0 \/ u \in turnedDown \/ u \in lost
        \/ \E d \in Crawls : u \in Content(crawl[d])
    BY <1>7, ContentIsTaken DEF IInv, NoArticleVanishes
  <2>3. CASE u \in Content(crawl[c]) \/ saves[u] > 0
    BY <1>4, <1>8, <2>1, <2>3
  <2>4. CASE u \in turnedDown \/ u \in lost
    BY <1>7, <2>4
  <2>5. CASE \E d \in Crawls : d # c /\ u \in Content(crawl[d])
    BY <1>5, <2>5
  <2> QED
    BY <2>2, <2>3, <2>4, <2>5
<1> QED
  BY <1>9, <1>10, <1>11 DEF IInv

\* Steps of others: a key expires, a row is deleted, somebody submits.  Whatever
\* they do to an article is a reason for it to come up again.
LEMMA OtherStep ==
  ASSUME IInv, UNCHANGED <<crawl, turnedDown, lost>>, seen' \subseteq seen,
         saves' \in [Urls -> Nat], repeatable \subseteq repeatable',
         \A u \in Urls : saves'[u] >= saves[u],
         \A u \in Urls : u \notin repeatable' =>
           saves'[u] = saves[u] /\ (u \in seen => u \in seen')
  PROVE  IInv'
<1>1. StagesInv'
  BY DEF IInv, StagesInv
<1>2. ASSUME NEW u \in Urls, u \notin repeatable' PROVE Tracked(u)'
  <2>1. Tracked(u)
    BY <1>2 DEF IInv
  <2> QED
    BY <1>2, <2>1 DEF Tracked, Settled, Held, Exclusive
<1>3. NoArticleVanishes'
  <2> SUFFICES ASSUME NEW u \in seen'
               PROVE  \/ saves'[u] > 0 \/ u \in turnedDown' \/ u \in lost'
                      \/ \E d \in Crawls : u \in Content(crawl'[d])
    BY ContentIsTaken DEF NoArticleVanishes, Taken, Content
  <2>1. u \in Urls /\ saves[u] \in Nat /\ saves'[u] \in Nat
    BY DEF IInv, StagesInv
  <2>2. \/ saves[u] > 0 \/ u \in turnedDown \/ u \in lost
        \/ \E d \in Crawls : u \in Content(crawl[d])
    BY ContentIsTaken DEF IInv, NoArticleVanishes
  <2> QED
    BY <2>1, <2>2
<1> QED
  BY <1>1, <1>2, <1>3 DEF IInv

LEMMA OthersKeep ==
  ASSUME IInv,
         \/ \E u \in Urls : Expire(u)
         \/ \E U \in SUBSET Urls : Remove(U)
         \/ \E s \in Submissions :
               (\E u \in Urls : Submit(s, u)) \/ SaveManually(s) \/ SubmissionEnds(s)
  PROVE  IInv'
<1>1. saves \in [Urls -> Nat] /\ \A u \in Urls : saves[u] \in Nat
  BY DEF IInv, StagesInv
<1>2. ASSUME NEW u \in Urls, Expire(u) PROVE IInv'
  BY <1>1, <1>2, OtherStep DEF Expire
<1>3. ASSUME NEW U \in SUBSET Urls, Remove(U) PROVE IInv'
  BY <1>1, <1>3, OtherStep DEF Remove, history
<1>4. ASSUME NEW s \in Submissions, NEW u \in Urls, Submit(s, u) PROVE IInv'
  BY <1>1, <1>4, OtherStep DEF Submit
<1>5. ASSUME NEW s \in Submissions, SaveManually(s) PROVE IInv'
  <2>1. PICK U \in SUBSET Urls :
          /\ saves' = [u \in Urls |-> IF u \in U THEN saves[u] + 1 ELSE saves[u]]
          /\ repeatable' = repeatable \cup U
    BY <1>5 DEF SaveManually
  <2>2. saves' \in [Urls -> Nat] /\ \A u \in Urls : saves'[u] >= saves[u]
    BY <1>1, <2>1
  <2>3. \A u \in Urls : u \notin repeatable' => saves'[u] = saves[u]
    BY <2>1
  <2> QED
    BY <1>5, <2>1, <2>2, <2>3, OtherStep DEF SaveManually
<1>6. ASSUME NEW s \in Submissions, SubmissionEnds(s) PROVE IInv'
  BY <1>1, <1>6, OtherStep DEF SubmissionEnds, history
<1> QED
  BY <1>2, <1>3, <1>4, <1>5, <1>6

-----------------------------------------------------------------------------
(* The invariant.                                                          *)

LEMMA IngestInit == Init => IInv
<1> SUFFICES ASSUME Init PROVE IInv
  OBVIOUS
<1>1. /\ DOMAIN crawl = Crawls /\ \A c \in Crawls : crawl[c] = NoCrawl
      /\ saves = [u \in Urls |-> 0] /\ seen = {}
  BY DEF Init
<1>2. StagesInv
  BY <1>1, IdleFacts DEF StagesInv
<1>3. \A u \in Urls : Tracked(u)
  BY <1>1, IdleFacts DEF Tracked, Settled, Held, Exclusive
<1>4. NoArticleVanishes
  BY <1>1 DEF NoArticleVanishes
<1> QED
  BY <1>2, <1>3, <1>4 DEF IInv

LEMMA IngestStep == IInv /\ [Next]_vars => IInv'
<1> SUFFICES ASSUME IInv, [Next]_vars PROVE IInv'
  OBVIOUS
<1>1. ASSUME NEW c \in Crawls,
             \/ Offer(c) \/ Hit(c) \/ AllAsked(c) \/ Tell(c) \/ AllTold(c)
             \/ Filter(c) \/ FilterFails(c) \/ Group(c) \/ GroupFails(c) \/ CrawlFails(c)
      PROVE  IInv'
  <2>1. Settles(c)
    BY <1>1, OfferStep, HitStep, AllAskedStep, TellStep, AllToldStep, FilterStep,
       FilterFailsStep, GroupStep, GroupFailsStep, CrawlFailsStep
  <2> QED
    BY <2>1, SettlesKeeps
<1>2. ASSUME NEW c \in Crawls, Miss(c) \/ Save(c) PROVE IInv'
  BY <1>2, MissStep, SaveStep
<1>3. CASE UNCHANGED vars
  <2>1. UNCHANGED <<crawl, turnedDown, lost, seen, saves, repeatable>>
    BY <1>3 DEF vars
  <2> QED
    BY <2>1, OtherStep DEF IInv, StagesInv
<1> QED
  BY <1>1, <1>2, <1>3, OthersKeep DEF Next

LEMMA IngestHolds == Spec => []IInv
BY IngestInit, IngestStep, PTL DEF Spec

\* However many crawls and submissions run beside each other, and wherever they
\* fail: an article whose address the cache has is saved, turned down, lost with
\* its crawl, or still with a crawl.
THEOREM ArticlesDoNotVanish == Spec => []NoArticleVanishes
<1>1. IInv => NoArticleVanishes
  BY DEF IInv
<1> QED
  BY <1>1, IngestHolds, PTL

\* Two crawls that meet, whatever they list, and agents that repeat an article do
\* not save it twice, unless the cache was not told of it or has forgotten it, two
\* asked before it was told, an agent named it twice, or somebody submitted it.
THEOREM ArticlesAreSavedOnce == Spec => []SavedOnce
<1>1. IInv => SavedOnce
  <2> SUFFICES ASSUME IInv, NEW u \in Urls, saves[u] > 1, u \notin repeatable PROVE FALSE
    BY DEF SavedOnce
  <2>1. saves[u] \in Nat /\ saves[u] <= 1
    BY DEF IInv, StagesInv, Tracked
  <2> QED
    BY <2>1
<1> QED
  BY <1>1, IngestHolds, PTL

=============================================================================
