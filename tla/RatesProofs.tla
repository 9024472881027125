---------------------------- MODULE RatesProofs ----------------------------
(***************************************************************************)
(* Proofs about Rates, for any runs, currencies and days.                  *)
(*                                                                         *)
(* What a run has still to store is, unless another run has stored one of  *)
(* its days, really missing; and what it has not to store any more, of the *)
(* currencies it is through with and of the one it is at, is there.        *)
(***************************************************************************)
EXTENDS Rates, NaturalsInduction, WellFoundedInduction, TLAPS

Begun == [at : {"read", "fetch", "fill", "done", "failed", "gone"},
          first : Days, last : Days, k : Nat \ {0},
          missing : SUBSET Days, fetched : SUBSET Days, left : SUBSET Days,
          from : Days \cup {None}, bare : SUBSET STRING]

Types ==
    /\ run \in [Runs -> {New} \cup Begun]
    /\ DOMAIN task = Runs
    /\ DOMAIN flowing = Runs
    /\ raced \subseteq Runs

Has(code, d) == <<code, d>> \in DOMAIN rates

\* The tasks of a run are for days it misses and has no answer for yet.
TasksFor(r) ==
    run[r].at = "fetch" =>
        /\ DOMAIN task[r] \subseteq run[r].missing \ run[r].fetched
        /\ run[r].missing \subseteq Span(r)

\* What is to be stored is not there.
ReallyMissing(r) ==
    r \notin raced =>
        /\ run[r].at = "fetch" =>
              \A d \in run[r].missing \ run[r].fetched : ~Has(Code(r), d)
        /\ run[r].at = "fill" =>
              \A d \in run[r].left : d \in run[r].missing /\ ~Has(Code(r), d)

\* What is not to be stored any more is there.
Done(r) ==
    run[r].at \in {"read", "fetch", "fill"} =>
        \A j \in 1..(run[r].k - 1), d \in Span(r) :
            j \in DOMAIN Codes => Codes[j] \in run[r].bare \/ Has(Codes[j], d)

DoneHere(r) ==
    /\ run[r].at = "fetch" =>
          /\ \A d \in Span(r) \ run[r].missing : Has(Code(r), d)
          /\ \A d \in run[r].fetched : Has(Code(r), d)
    /\ run[r].at = "fill" =>
          \A d \in Span(r) \ run[r].left : Has(Code(r), d)
    /\ run[r].at \in {"fetch", "fill"} => run[r].k \in DOMAIN Codes

Covered(r) ==
    run[r].at = "done" =>
        \A j \in DOMAIN Codes, d \in Span(r) : Codes[j] \in run[r].bare \/ Has(Codes[j], d)

RunInv(r) ==
    /\ TasksFor(r) /\ ReallyMissing(r) /\ Done(r) /\ DoneHere(r) /\ Covered(r)
    /\ run[r].at = "failed" => r \in raced

RInv == Types /\ \A r \in Runs : RunInv(r)

-----------------------------------------------------------------------------
(* get_closest_rate                                                        *)

\* Where there is a rate of the currency there is a closest one, the earlier of
\* two: the smallest by distance, with what is before the day first.
LEMMA ClosestIsKnown ==
    ASSUME NEW r, NEW target \in Days, Known(r) # {}
    PROVE  /\ Closest(r, target) \in Known(r)
           /\ \A e \in Known(r) : Dist(Closest(r, target), target) <= Dist(e, target)
<1> DEFINE Size(d) == 2 * Dist(d, target) + (IF d <= target THEN 0 ELSE 1)
           Sizes == {Size(d) : d \in Known(r)}
           Best(d) == \A e \in Known(r) :
                         \/ Dist(d, target) < Dist(e, target)
                         \/ Dist(d, target) = Dist(e, target) /\ d <= e
<1>1. target \in Nat /\ Known(r) \subseteq Nat
    BY RatesAssumption DEF Known
<1>2. \A d \in Known(r) : Dist(d, target) \in Nat
    BY <1>1 DEF Dist
<1>3. Sizes \subseteq Nat /\ Sizes # {}
    BY <1>2
<1>4. PICK s \in Sizes : \A n \in Sizes : s <= n
    <2>1. \E s \in Sizes : \A n \in Sizes : ~(<<n, s>> \in OpToRel(<, Nat))
        BY <1>3, NatLessThanWellFounded, WFMin
    <2>2. \A m, n \in Nat : ~(<<n, m>> \in OpToRel(<, Nat)) => m <= n
        BY DEF OpToRel
    <2> HIDE DEF Sizes
    <2> QED
        BY <1>3, <2>1, <2>2
<1>5. PICK d \in Known(r) : s = Size(d)
    BY <1>4
<1>6. \A e \in Known(r) : Size(d) <= Size(e)
    BY <1>4, <1>5
<1>7. Best(d)
    <2> SUFFICES ASSUME NEW e \in Known(r)
                 PROVE  \/ Dist(d, target) < Dist(e, target)
                        \/ Dist(d, target) = Dist(e, target) /\ d <= e
        OBVIOUS
    <2>1. Size(d) <= Size(e)
        BY <1>6
    <2>2. d \in Nat /\ e \in Nat /\ target \in Nat
        BY <1>1
    <2> QED
        BY <2>1, <2>2 DEF Dist
<1>8. PICK c : c = CHOOSE x \in Known(r) : Best(x)
    OBVIOUS
<1>9. c \in Known(r) /\ Best(c)
    <2> HIDE DEF Best
    <2> QED
        BY <1>7, <1>8
<1>10. c = Closest(r, target)
    BY <1>8 DEF Closest
<1> QED
    BY <1>2, <1>9, <1>10

-----------------------------------------------------------------------------
(* What others do to a run                                                 *)

\* Whoever stores a day that q misses makes q raced.
Announced(q) ==
    \A d \in run[q].missing :
        run[q].at \in {"fetch", "fill"} /\ Has(Code(q), d)' /\ ~Has(Code(q), d)
            => q \in raced'

LEMMA OtherRunKeeps ==
    ASSUME Types, NEW q \in Runs, RunInv(q), run'[q] = run[q],
           DOMAIN task'[q] \subseteq DOMAIN task[q],
           DOMAIN rates \subseteq DOMAIN rates', raced \subseteq raced', Announced(q)
    PROVE  RunInv(q)'
<1>1. Code(q)' = Code(q) /\ Span(q)' = Span(q)
    BY DEF Code, Span
<1>2. TasksFor(q)'
    BY <1>1 DEF RunInv, TasksFor
<1>3. ReallyMissing(q)'
    BY <1>1 DEF RunInv, ReallyMissing, TasksFor, Announced, Has
<1>4. Done(q)' /\ DoneHere(q)' /\ Covered(q)'
    BY <1>1 DEF RunInv, Done, DoneHere, Covered, Has
<1>5. run'[q].at = "failed" => q \in raced'
    BY DEF RunInv
<1> QED
    BY <1>2, <1>3, <1>4, <1>5 DEF RunInv

\* The tasks of the clients go on, and nothing is stored.
LEMMA ClientKeeps ==
    ASSUME RInv, UNCHANGED <<rates, run, raced>>,
           DOMAIN task' = Runs, DOMAIN flowing' = Runs,
           \A q \in Runs : DOMAIN task'[q] \subseteq DOMAIN task[q]
    PROVE  RInv'
<1>1. Types'
    BY DEF RInv, Types
<1>2. \A q \in Runs : Announced(q)
    BY DEF Announced, Has, Code
<1>3. \A q \in Runs : RunInv(q)'
    BY <1>2, OtherRunKeeps DEF RInv
<1> QED
    BY <1>1, <1>3 DEF RInv

\* Run r goes on, and the others stay where they are.
LEMMA RunKeeps ==
    ASSUME RInv, NEW r \in Runs, NEW next \in Begun,
           run' = [run EXCEPT ![r] = next],
           DOMAIN task' = Runs, DOMAIN flowing' = Runs,
           \A q \in Runs \ {r} : task'[q] = task[q] /\ Announced(q),
           DOMAIN rates \subseteq DOMAIN rates',
           raced \subseteq raced', raced' \subseteq Runs,
           RunInv(r)'
    PROVE  RInv'
<1>1. Types'
    BY DEF RInv, Types
<1>2. ASSUME NEW q \in Runs \ {r} PROVE RunInv(q)'
    <2>1. run'[q] = run[q]
        BY DEF RInv, Types
    <2> QED
        BY <2>1, OtherRunKeeps DEF RInv
<1> QED
    BY <1>1, <1>2 DEF RInv

LEMMA NothingStored ==
    ASSUME UNCHANGED rates, NEW q, run'[q] = run[q]
    PROVE  Announced(q)
BY DEF Announced, Has, Code

\* What a run stores is announced to all others.
LEMMA StoredIsAnnounced ==
    ASSUME NEW r \in Runs, NEW d, ~Taken(r, d), Overtaken(r, d),
           DOMAIN rates' = DOMAIN rates \cup {<<Code(r), d>>},
           NEW q \in Runs \ {r}, run'[q] = run[q]
    PROVE  Announced(q)
<1> SUFFICES ASSUME NEW e \in run[q].missing, run[q].at \in {"fetch", "fill"},
                    Has(Code(q), e)', ~Has(Code(q), e)
             PROVE  q \in raced'
    BY DEF Announced
<1>1. Code(q)' = Code(q)
    BY DEF Code
<1>2. <<Code(q), e>> = <<Code(r), d>>
    BY <1>1 DEF Has
<1> QED
    BY <1>2 DEF Overtaken

-----------------------------------------------------------------------------
(* The steps                                                               *)

LEMMA InitInv == Init => RInv
BY DEF Init, RInv, Types, RunInv, TasksFor, ReallyMissing, Done, DoneHere, Covered, New,
       Begun, NoTasks

LEMMA ClientSteps ==
    ASSUME RInv, NEW r \in Runs, NEW d \in Days,
           \/ PassEvent(r, d) \/ Send(r, d) \/ WakeUp(r, d) \/ Answered(r, d)
           \/ Refused(r, d) \/ TimedOut(r, d) \/ RateLimited(r, d) \/ TakeNone(r, d)
    PROVE  RInv'
<1>1. DOMAIN task = Runs /\ DOMAIN flowing = Runs
    BY DEF RInv, Types
<1>2. ASSUME NEW stage, Move(r, d, stage)
      PROVE  DOMAIN task' = Runs /\ \A q \in Runs : DOMAIN task'[q] \subseteq DOMAIN task[q]
    BY <1>1, <1>2 DEF Move
<1>3. CASE PassEvent(r, d) \/ Send(r, d) \/ Answered(r, d) \/ Refused(r, d) \/ TimedOut(r, d)
    <2>1. UNCHANGED <<rates, run, flowing, raced>>
        BY <1>3 DEF PassEvent, Send, Answered, Refused, TimedOut
    <2>2. \E stage : Move(r, d, stage)
        BY <1>3 DEF PassEvent, Send, Answered, Refused, TimedOut
    <2> QED
        BY <1>1, <1>2, <2>1, <2>2, ClientKeeps
<1>4. CASE RateLimited(r, d)
    <2>1. UNCHANGED <<rates, run, raced>> /\ DOMAIN flowing' = Runs
        BY <1>1, <1>4 DEF RateLimited
    <2>2. \E stage : Move(r, d, stage)
        BY <1>4 DEF RateLimited
    <2> QED
        BY <1>1, <1>2, <2>1, <2>2, ClientKeeps
<1>5. CASE WakeUp(r, d)
    <2>1. UNCHANGED <<rates, run, raced>> /\ DOMAIN flowing' = Runs
        BY <1>1, <1>5 DEF WakeUp
    <2>2. DOMAIN task' = Runs /\ \A q \in Runs : DOMAIN task'[q] \subseteq DOMAIN task[q]
        BY <1>1, <1>5 DEF WakeUp
    <2> QED
        BY <2>1, <2>2, ClientKeeps
<1>6. CASE TakeNone(r, d)
    <2>1. UNCHANGED <<rates, run, flowing, raced>>
        BY <1>6 DEF TakeNone
    <2>2. DOMAIN task' = Runs /\ \A q \in Runs : DOMAIN task'[q] \subseteq DOMAIN task[q]
        BY <1>1, <1>6 DEF TakeNone, Restrict
    <2> QED
        BY <1>1, <2>1, <2>2, ClientKeeps
<1> QED
    BY <1>3, <1>4, <1>5, <1>6

\* A run that is at none of the stages between reading and filling.
LEMMA Ended ==
    ASSUME RInv, NEW r \in Runs, NEW next \in Begun, run' = [run EXCEPT ![r] = next],
           UNCHANGED <<rates, raced>>, DOMAIN task' = Runs, DOMAIN flowing' = Runs,
           \A q \in Runs \ {r} : task'[q] = task[q],
           next.at \in {"done", "failed", "gone"},
           Covered(r)', next.at = "failed" => r \in raced
    PROVE  RInv'
<1>1. run'[r] = next
    BY DEF RInv, Types
<1>2. RunInv(r)'
    BY <1>1 DEF RunInv, TasksFor, ReallyMissing, Done, DoneHere
<1>3. \A q \in Runs \ {r} : run'[q] = run[q]
    BY DEF RInv, Types
<1>4. \A q \in Runs \ {r} : Announced(q)
    BY <1>3, NothingStored
<1> QED
    BY <1>2, <1>4, RunKeeps DEF RInv, Types

LEMMA PublishKeeps ==
    ASSUME RInv, NEW d, Publish(d)
    PROVE  RInv'
BY ClientKeeps DEF Publish, client, RInv, Types

LEMMA StartKeeps ==
    ASSUME RInv, NEW r \in Runs, Start(r)
    PROVE  RInv'
<1>1. PICK first, last \in Days :
          run' = [run EXCEPT ![r] = [at |-> "read", first |-> first, last |-> last,
                                     k |-> 1, missing |-> {}, fetched |-> {},
                                     left |-> {}, from |-> None, bare |-> {}]]
    BY DEF Start
<1> DEFINE next == [at |-> "read", first |-> first, last |-> last,
                    k |-> 1, missing |-> {}, fetched |-> {},
                    left |-> {}, from |-> None, bare |-> {}]
<1>2. next \in Begun
    BY DEF Begun
<1>3. run'[r] = next /\ \A q \in Runs \ {r} : run'[q] = run[q]
    BY <1>1 DEF RInv, Types
<1>4. UNCHANGED <<rates, raced, task, flowing>>
    BY DEF Start, client
<1>5. RunInv(r)'
    BY <1>3 DEF RunInv, TasksFor, ReallyMissing, Done, DoneHere, Covered
<1>6. \A q \in Runs \ {r} : Announced(q)
    BY <1>3, <1>4, NothingStored
<1> QED
    BY <1>1, <1>2, <1>4, <1>5, <1>6, RunKeeps DEF RInv, Types

LEMMA ReadKeeps ==
    ASSUME RInv, NEW r \in Runs, ReadMissing(r)
    PROVE  RInv'
<1> DEFINE next == [run[r] EXCEPT !.at = "fetch", !.missing = Missing(r), !.fetched = {}]
<1>1. run[r] \in Begun /\ run[r].at = "read" /\ run[r].k \in DOMAIN Codes
    BY RatesAssumption DEF ReadMissing, RInv, Types, New, Begun
<1>2. run' = [run EXCEPT ![r] = next]
    BY <1>1 DEF ReadMissing, RInv, Types
<1>3. next \in Begun
    BY <1>1 DEF Begun, Missing, Span
<1>4. UNCHANGED <<rates, raced>> /\ DOMAIN task' = Runs /\ DOMAIN flowing' = Runs
    BY DEF ReadMissing, RInv, Types
<1>5. /\ DOMAIN task'[r] = Missing(r)
      /\ \A q \in Runs \ {r} : task'[q] = task[q] /\ run'[q] = run[q]
    BY <1>2 DEF ReadMissing, RInv, Types
<1>6. /\ run'[r].at = "fetch" /\ run'[r].missing = Missing(r) /\ run'[r].fetched = {}
      /\ run'[r].k = run[r].k /\ run'[r].bare = run[r].bare
      /\ Code(r)' = Code(r) /\ Span(r)' = Span(r)
    BY <1>1, <1>2 DEF RInv, Types, Begun, Code, Span
<1>7. \A d \in Days : Has(Code(r), d)' <=> Has(Code(r), d)
    BY <1>4, <1>6 DEF Has
<1>8. TasksFor(r)'
    BY <1>5, <1>6 DEF TasksFor, Missing
<1>9. ReallyMissing(r)'
    BY <1>4, <1>6 DEF ReallyMissing, Missing, Has, Span
<1>10. Done(r)'
    BY <1>1, <1>4, <1>6 DEF RInv, RunInv, Done, Has
<1>11. DoneHere(r)'
    BY <1>1, <1>4, <1>6 DEF DoneHere, Missing, Has
<1>12. RunInv(r)'
    BY <1>6, <1>8, <1>9, <1>10, <1>11 DEF RunInv, Covered
<1>13. \A q \in Runs \ {r} : Announced(q)
    BY <1>4, <1>5, NothingStored
<1> QED
    BY <1>2, <1>3, <1>4, <1>5, <1>12, <1>13, RunKeeps DEF RInv, Types

LEMMA EndKeeps ==
    ASSUME RInv, NEW r \in Runs, EndRun(r)
    PROVE  RInv'
<1> DEFINE next == [run[r] EXCEPT !.at = "done"]
<1>1. run[r] \in Begun /\ run[r].at = "read"
    BY DEF EndRun, RInv, Types, New
<1>2. run' = [run EXCEPT ![r] = next] /\ next \in Begun
    BY <1>1 DEF EndRun, RInv, Types, Begun
<1>3. UNCHANGED <<rates, raced, task, flowing>>
    BY DEF EndRun, client
<1>4. run'[r].bare = run[r].bare /\ Span(r)' = Span(r)
    BY <1>1, <1>2 DEF RInv, Types, Begun, Span
<1>5. DOMAIN Codes \subseteq 1..(run[r].k - 1)
    BY <1>1, RatesAssumption DEF EndRun, Begun
<1>6. Covered(r)'
    BY <1>1, <1>3, <1>4, <1>5 DEF RInv, RunInv, Done, Covered, Has
<1>7. next.at = "done"
    BY <1>1 DEF Begun
<1> QED
    BY <1>2, <1>3, <1>6, <1>7, Ended DEF RInv, Types

LEMMA DieKeeps ==
    ASSUME RInv, NEW r \in Runs, Dies(r)
    PROVE  RInv'
<1> DEFINE next == [run[r] EXCEPT !.at = "gone"]
<1>1. run[r] \in Begun
    BY DEF Dies, RInv, Types, New
<1>2. run' = [run EXCEPT ![r] = next] /\ next \in Begun /\ next.at = "gone"
    BY <1>1 DEF Dies, RInv, Types, Begun
<1>3. Covered(r)'
    BY <1>2 DEF RInv, Types, Covered
<1> QED
    BY <1>2, <1>3, Ended DEF Dies, RInv, Types

\* A refused insert ends the run.
LEMMA FailKeeps ==
    ASSUME RInv, NEW r \in Runs, run[r].at \in {"fetch", "fill"}, r \in raced,
           run' = [run EXCEPT ![r].at = "failed"], UNCHANGED <<rates, raced>>,
           DOMAIN task' = Runs, DOMAIN flowing' = Runs,
           \A q \in Runs \ {r} : task'[q] = task[q]
    PROVE  RInv'
<1> DEFINE next == [run[r] EXCEPT !.at = "failed"]
<1>1. run[r] \in Begun
    BY DEF RInv, Types, New
<1>2. run' = [run EXCEPT ![r] = next] /\ next \in Begun /\ next.at = "failed"
    BY <1>1 DEF RInv, Types, Begun
<1>3. Covered(r)'
    BY <1>2 DEF RInv, Types, Covered
<1> QED
    BY <1>2, <1>3, Ended

LEMMA TakeKeeps ==
    ASSUME RInv, NEW r \in Runs, NEW d \in Days, TakeRate(r, d)
    PROVE  RInv'
<1> DEFINE next == [run[r] EXCEPT !.fetched = @ \cup {d}]
<1>1. run[r] \in Begun /\ run[r].at = "fetch" /\ d \in DOMAIN task[r]
    BY DEF TakeRate, At, RInv, Types, New
<1>2. d \in run[r].missing \ run[r].fetched /\ d \in Span(r)
    BY <1>1 DEF RInv, RunInv, TasksFor
<1>3. /\ DOMAIN task' = Runs /\ DOMAIN flowing' = Runs
      /\ \A q \in Runs \ {r} : task'[q] = task[q]
    BY DEF TakeRate, RInv, Types
<1>4. CASE Taken(r, d)
    <2>1. r \in raced
        BY <1>1, <1>2, <1>4 DEF RInv, RunInv, ReallyMissing, Has, Taken
    <2>2. run' = [run EXCEPT ![r].at = "failed"] /\ UNCHANGED <<rates, raced>>
        BY <1>4 DEF TakeRate, Store
    <2> QED
        BY <1>1, <1>3, <2>1, <2>2, FailKeeps
<1>5. CASE ~Taken(r, d)
    <2>1. /\ run' = [run EXCEPT ![r] = next]
          /\ DOMAIN rates' = DOMAIN rates \cup {<<Code(r), d>>}
          /\ Overtaken(r, d)
        BY <1>5 DEF TakeRate, Store
    <2>2. next \in Begun
        BY <1>1 DEF Begun
    <2>3. /\ run'[r].at = "fetch" /\ run'[r].fetched = run[r].fetched \cup {d}
          /\ run'[r].missing = run[r].missing /\ run'[r].bare = run[r].bare
          /\ run'[r].k = run[r].k /\ Code(r)' = Code(r) /\ Span(r)' = Span(r)
        BY <1>1, <2>1 DEF RInv, Types, Begun, Code, Span
    <2>4. DOMAIN task'[r] = DOMAIN task[r] \ {d}
        BY <1>5 DEF TakeRate, RInv, Types, Restrict
    <2>5. raced \subseteq raced' /\ raced' \subseteq Runs /\ (r \in raced' => r \in raced)
        BY <2>1 DEF Overtaken, RInv, Types
    <2>6. TasksFor(r)'
        BY <1>1, <2>3, <2>4 DEF RInv, RunInv, TasksFor
    <2>7. ReallyMissing(r)'
        BY <1>1, <2>1, <2>3, <2>5 DEF RInv, RunInv, ReallyMissing, Has
    <2>8. Done(r)'
        BY <1>1, <2>1, <2>3 DEF RInv, RunInv, Done, Has
    <2>9. DoneHere(r)'
        BY <1>1, <2>1, <2>3 DEF RInv, RunInv, DoneHere, Has
    <2>10. RunInv(r)'
        BY <2>3, <2>6, <2>7, <2>8, <2>9 DEF RunInv, Covered
    <2>11. \A q \in Runs \ {r} : run'[q] = run[q]
        BY <2>1 DEF RInv, Types
    <2>12. \A q \in Runs \ {r} : Announced(q)
        BY <1>5, <2>1, <2>11, StoredIsAnnounced
    <2> QED
        BY <1>3, <2>1, <2>2, <2>5, <2>10, <2>12, RunKeeps
<1> QED
    BY <1>4, <1>5

LEMMA NextCodeShape ==
    ASSUME NEW r, run[r] \in Begun
    PROVE  /\ NextCode(r) \in Begun /\ NextCode(r).at = "read"
           /\ NextCode(r).k = run[r].k + 1 /\ NextCode(r).first = run[r].first
           /\ NextCode(r).last = run[r].last /\ NextCode(r).bare = run[r].bare
<1>1. run[r].k + 1 \in Nat \ {0}
    BY DEF Begun
<1>2. PICK k : k = run[r].k + 1
    OBVIOUS
<1>3. NextCode(r) = [run[r] EXCEPT !.at = "read", !.k = k, !.left = {}, !.from = None]
    BY <1>2 DEF NextCode
<1> QED
    BY <1>1, <1>2, <1>3 DEF Begun

\* On to the next currency, when nothing of this one is left.
LEMMA NextCodeHolds ==
    ASSUME RInv, NEW r \in Runs, run[r].at \in {"fetch", "fill"}, NEW next \in Begun,
           run'[r] = next, next.at = "read", next.k = run[r].k + 1,
           next.first = run[r].first, next.last = run[r].last,
           run[r].bare \subseteq next.bare, DOMAIN rates \subseteq DOMAIN rates',
           \/ Code(r) \in next.bare
           \/ \A d \in Span(r) : <<Code(r), d>> \in DOMAIN rates'
    PROVE  RunInv(r)'
<1>1. run[r] \in Begun
    BY DEF RInv, Types, New
<1>2. Span(r)' = Span(r)
    BY DEF Span
<1>3. Done(r)'
    <2> SUFFICES ASSUME NEW j \in 1..run[r].k, NEW d \in Span(r), j \in DOMAIN Codes
                 PROVE  Codes[j] \in next.bare \/ <<Codes[j], d>> \in DOMAIN rates'
        BY <1>1, <1>2 DEF Done, Has, Begun
    <2>1. CASE j = run[r].k
        BY <2>1 DEF Code
    <2>2. CASE j # run[r].k
        <3>1. j \in 1..(run[r].k - 1)
            BY <1>1, <2>2 DEF Begun
        <3>2. Codes[j] \in run[r].bare \/ <<Codes[j], d>> \in DOMAIN rates
            BY <3>1 DEF RInv, RunInv, Done, Has
        <3> QED
            BY <3>2
    <2> QED
        BY <2>1, <2>2
<1> QED
    BY <1>3 DEF RunInv, TasksFor, ReallyMissing, DoneHere, Covered

LEMMA FallbackKeeps ==
    ASSUME RInv, NEW r \in Runs, Fallback(r)
    PROVE  RInv'
<1>1. run[r] \in Begun /\ run[r].at = "fetch"
    BY DEF Fallback, RInv, Types, New
<1>2. /\ UNCHANGED <<rates, raced, task, flowing>>
      /\ DOMAIN task' = Runs /\ DOMAIN flowing' = Runs
    BY DEF Fallback, client, RInv, Types
<1>3. run[r].k \in DOMAIN Codes /\ Code(r) \in STRING
    BY <1>1, RatesAssumption DEF RInv, RunInv, DoneHere, Code
<1>4. ASSUME NEW next \in Begun, run' = [run EXCEPT ![r] = next], RunInv(r)'
      PROVE  RInv'
    <2>1. \A q \in Runs \ {r} : run'[q] = run[q]
        BY <1>4 DEF RInv, Types
    <2>2. \A q \in Runs \ {r} : Announced(q)
        BY <1>2, <2>1, NothingStored
    <2> QED
        BY <1>2, <1>4, <2>2, RunKeeps DEF RInv, Types
<1>5. CASE MissingStill(r) = {}
    <2>1. run' = [run EXCEPT ![r] = NextCode(r)]
        BY <1>5 DEF Fallback
    <2>2. /\ NextCode(r) \in Begun /\ NextCode(r).at = "read"
          /\ NextCode(r).k = run[r].k + 1 /\ NextCode(r).first = run[r].first
          /\ NextCode(r).last = run[r].last /\ NextCode(r).bare = run[r].bare
        BY <1>1, NextCodeShape
    <2>3. \A d \in Span(r) : <<Code(r), d>> \in DOMAIN rates'
        BY <1>1, <1>2, <1>5 DEF MissingStill, RInv, RunInv, DoneHere, Has
    <2>4. run'[r] = NextCode(r)
        BY <2>1 DEF RInv, Types
    <2>5. RunInv(r)'
        BY <1>1, <1>2, <2>2, <2>3, <2>4, NextCodeHolds
    <2> QED
        BY <1>4, <2>1, <2>2, <2>5
<1>6. CASE MissingStill(r) # {} /\ Known(r) = {}
    <2> DEFINE next == [NextCode(r) EXCEPT !.bare = @ \cup {Code(r)}]
    <2>1. run' = [run EXCEPT ![r] = next]
        BY <1>6 DEF Fallback
    <2>2. /\ next \in Begun /\ next.at = "read" /\ next.k = run[r].k + 1
          /\ next.first = run[r].first /\ next.last = run[r].last
          /\ next.bare = run[r].bare \cup {Code(r)}
        BY <1>1, <1>3, NextCodeShape DEF Begun
    <2>3. run'[r] = next
        BY <2>1 DEF RInv, Types
    <2> HIDE DEF next
    <2>4. RunInv(r)'
        BY <1>1, <1>2, <2>2, <2>3, NextCodeHolds
    <2> QED
        BY <1>4, <2>1, <2>2, <2>4
<1>7. CASE MissingStill(r) # {} /\ Known(r) # {}
    <2> DEFINE next == [run[r] EXCEPT !.at = "fill", !.left = MissingStill(r),
                                      !.from = Closest(r, run[r].first)]
    <2>1. run' = [run EXCEPT ![r] = next]
        BY <1>7 DEF Fallback
    <2>2. Closest(r, run[r].first) \in Days
        BY <1>1, <1>7, ClosestIsKnown DEF Begun, Known
    <2>3. next \in Begun
        BY <1>1, <2>2 DEF Begun, MissingStill
    <2>4. /\ run'[r].at = "fill" /\ run'[r].left = run[r].missing \ run[r].fetched
          /\ run'[r].missing = run[r].missing /\ run'[r].bare = run[r].bare
          /\ run'[r].k = run[r].k /\ Code(r)' = Code(r) /\ Span(r)' = Span(r)
        BY <1>1, <2>1 DEF RInv, Types, Begun, Code, Span, MissingStill
    <2>5. ReallyMissing(r)'
        BY <1>1, <1>2, <2>4 DEF RInv, RunInv, ReallyMissing, Has
    <2>6. Done(r)'
        BY <1>1, <1>2, <2>4 DEF RInv, RunInv, Done, Has
    <2>7. DoneHere(r)'
        BY <1>1, <1>2, <2>4 DEF RInv, RunInv, DoneHere, Has
    <2>8. RunInv(r)'
        BY <2>4, <2>5, <2>6, <2>7 DEF RunInv, TasksFor, Covered
    <2> QED
        BY <1>4, <2>1, <2>3, <2>8
<1> QED
    BY <1>5, <1>6, <1>7

LEMMA FillKeeps ==
    ASSUME RInv, NEW r \in Runs, NEW d \in Days, Fill(r, d)
    PROVE  RInv'
<1> DEFINE last == run[r].left = {d}
           next == IF last THEN NextCode(r) ELSE [run[r] EXCEPT !.left = @ \ {d}]
<1>1. run[r] \in Begun /\ run[r].at = "fill" /\ d \in run[r].left
    BY DEF Fill, RInv, Types, New
<1>2. /\ UNCHANGED <<task, flowing>>
      /\ DOMAIN task' = Runs /\ DOMAIN flowing' = Runs
    BY DEF Fill, client, RInv, Types
<1>3. CASE Taken(r, d)
    <2>1. r \in raced
        BY <1>1, <1>3 DEF RInv, RunInv, ReallyMissing, Has, Taken
    <2>2. run' = [run EXCEPT ![r].at = "failed"] /\ UNCHANGED <<rates, raced>>
        BY <1>3 DEF Fill, Store
    <2> QED
        BY <1>1, <1>2, <2>1, <2>2, FailKeeps
<1>4. CASE ~Taken(r, d)
    <2>1. /\ run' = [run EXCEPT ![r] = next]
          /\ DOMAIN rates' = DOMAIN rates \cup {<<Code(r), d>>}
          /\ Overtaken(r, d)
        BY <1>4 DEF Fill, Store
    <2>2. run'[r] = next /\ \A q \in Runs \ {r} : run'[q] = run[q]
        BY <2>1 DEF RInv, Types
    <2>3. raced \subseteq raced' /\ raced' \subseteq Runs /\ (r \in raced' => r \in raced)
        BY <2>1 DEF Overtaken, RInv, Types
    <2>4. \A q \in Runs \ {r} : Announced(q)
        BY <1>4, <2>1, <2>2, StoredIsAnnounced
    <2>5. next \in Begun /\ RunInv(r)'
        <3>1. CASE last
            <4>1. /\ NextCode(r) \in Begun /\ NextCode(r).at = "read"
                  /\ NextCode(r).k = run[r].k + 1 /\ NextCode(r).first = run[r].first
                  /\ NextCode(r).last = run[r].last /\ NextCode(r).bare = run[r].bare
                BY <1>1, NextCodeShape
            <4>2. \A e \in Span(r) : <<Code(r), e>> \in DOMAIN rates'
                BY <1>1, <2>1, <3>1 DEF RInv, RunInv, DoneHere, Has
            <4>3. run'[r] = NextCode(r)
                BY <2>2, <3>1
            <4>4. RunInv(r)'
                BY <1>1, <2>1, <4>1, <4>2, <4>3, NextCodeHolds
            <4> QED
                BY <3>1, <4>1, <4>4
        <3>2. CASE ~last
            <4>1. next = [run[r] EXCEPT !.left = @ \ {d}]
                BY <3>2
            <4>2. next \in Begun
                BY <1>1, <4>1 DEF Begun
            <4>3. /\ run'[r].at = "fill" /\ run'[r].left = run[r].left \ {d}
                  /\ run'[r].missing = run[r].missing /\ run'[r].bare = run[r].bare
                  /\ run'[r].k = run[r].k /\ Code(r)' = Code(r) /\ Span(r)' = Span(r)
                BY <1>1, <2>2, <4>1 DEF Begun, Code, Span
            <4>4. ReallyMissing(r)'
                BY <1>1, <2>1, <2>3, <4>3 DEF RInv, RunInv, ReallyMissing, Has
            <4>5. Done(r)'
                BY <1>1, <2>1, <4>3 DEF RInv, RunInv, Done, Has
            <4>6. DoneHere(r)'
                BY <1>1, <2>1, <4>3 DEF RInv, RunInv, DoneHere, Has
            <4>7. RunInv(r)'
                BY <4>3, <4>4, <4>5, <4>6 DEF RunInv, TasksFor, Covered
            <4> QED
                BY <4>2, <4>7
        <3> QED
            BY <3>1, <3>2
    <2> HIDE DEF next
    <2> QED
        BY <1>2, <2>1, <2>3, <2>4, <2>5, RunKeeps
<1> QED
    BY <1>3, <1>4

-----------------------------------------------------------------------------
(* The theorems                                                            *)

LEMMA NextKeeps == RInv /\ [Next]_vars => RInv'
<1> SUFFICES ASSUME RInv, [Next]_vars PROVE RInv'
    OBVIOUS
<1>1. CASE UNCHANGED vars
    BY <1>1, ClientKeeps DEF vars, RInv, Types
<1>2. CASE \E d \in Days : Publish(d)
    BY <1>2, PublishKeeps
<1>3. ASSUME NEW r \in Runs, Start(r) \/ Step(r) \/ Dies(r) PROVE RInv'
    <2>1. CASE Start(r)
        BY <2>1, StartKeeps
    <2>2. CASE Dies(r)
        BY <2>2, DieKeeps
    <2>3. CASE ReadMissing(r) \/ Fallback(r) \/ EndRun(r)
        BY <2>3, ReadKeeps, FallbackKeeps, EndKeeps
    <2>4. ASSUME NEW d \in Days, TakeRate(r, d) \/ Fill(r, d) PROVE RInv'
        BY <2>4, TakeKeeps, FillKeeps
    <2>5. ASSUME NEW d \in Days,
                 \/ PassEvent(r, d) \/ Send(r, d) \/ WakeUp(r, d) \/ Answered(r, d)
                 \/ Refused(r, d) \/ TimedOut(r, d) \/ RateLimited(r, d) \/ TakeNone(r, d)
          PROVE  RInv'
        BY <2>5, ClientSteps
    <2> QED
        BY <1>3, <2>1, <2>2, <2>3, <2>4, <2>5 DEF Step
<1> QED
    BY <1>1, <1>2, <1>3 DEF Next

LEMMA RInvAlways == Spec => []RInv
<1>1. Init => RInv
    BY InitInv
<1>2. RInv /\ [Next]_vars => RInv'
    BY NextKeeps
<1> QED
    BY <1>1, <1>2, PTL DEF Spec

\* A run is refused a rate only when another run stored it first, for any number
\* of runs, currencies and days (add_rate and the unique constraint).
THEOREM RefusalsAreRaced == Spec => []RefusedOnlyWhenRaced
<1>1. RInv => RefusedOnlyWhenRaced
    BY DEF RInv, RunInv, RefusedOnlyWhenRaced
<1> QED
    BY <1>1, RInvAlways, PTL

\* A run that ended well has left a rate for every day of its range, but of the
\* currencies that had none at all (ensure_exchange_rates as a whole).
THEOREM RangesAreCovered == Spec => []CoveredAfterRun
<1>1. RInv => CoveredAfterRun
    BY DEF RInv, RunInv, Covered, Has, CoveredAfterRun
<1> QED
    BY <1>1, RInvAlways, PTL

=============================================================================
