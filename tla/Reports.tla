------------------------------ MODULE Reports ------------------------------
(***************************************************************************)
(* What is read of costs, incomes and exchanges together: the list of      *)
(* transactions, page by page, and the analytics of a range of days.       *)
(*                                                                         *)
(* A page is two statements, a count and a select; a report is six.  They  *)
(* run at READ COMMITTED, each on what is committed when it begins, while  *)
(* other requests write: one answer mixes several states of the tables.    *)
(***************************************************************************)
EXTENDS Integers, FiniteSets, Sequences, FiniteSetsExt, SequencesExt

CONSTANTS
    Rows,           \* the costs, incomes and exchanges there may be
    Filters,        \* of a list: see Matches
    Queries,        \* of a report: see Resolved
    ThisMonth, LastMonth,   \* the days of each: [first, last]
    Limit,          \* transactions of a page
    MaxWrites,      \* bound: writes while a client reads
    None

\* op: "cost", "income", "exchange"; an exchange gives value of currency and
\* receives got of to.  named: whether the name contains the pattern.
RowType == [op : {"cost", "income", "exchange"}, id : Nat, day : Nat, user : Nat,
            currency : Nat, value : Nat, to : Nat, got : Nat, cat : Nat,
            named : BOOLEAN]

ASSUME ReportsAssumption ==
    /\ Rows \subseteq RowType /\ IsFiniteSet(Rows)
    /\ \A r, s \in Rows : r.op = s.op /\ r.id = s.id => r = s
    /\ \A r \in Rows : r.op = "cost" => r.value > 0
    /\ Limit \in Nat \ {0} /\ MaxWrites \in Nat

VARIABLES
    table,          \* the rows there are
    currencies,     \* the currencies there are
    reader,         \* a client that reads a list or a report
    writes,         \* writes since it began; beyond 0 its answer may be mixed
    added           \* history: one of them added a row

vars == <<table, currencies, reader, writes, added>>

Currency(r) == IF r.op = "exchange" THEN {r.currency, r.to} ELSE {r.currency}

AllCurrencies == UNION {Currency(r) : r \in Rows}

Init ==
    /\ table \in SUBSET Rows
    /\ currencies = AllCurrencies
    /\ reader = [at |-> "idle"]
    /\ writes = 0
    /\ added = FALSE

\* Other requests: a transaction is added or deleted, a currency is added or,
\* unless something refers to it, deleted.  A changed transaction is one that
\* goes and one that comes.
Write ==
    /\ writes < MaxWrites
    /\ writes' = writes + 1
    /\ \/ \E r \in Rows \ table : /\ Currency(r) \subseteq currencies
                                  /\ table' = table \cup {r}
                                  /\ added' = TRUE
                                  /\ UNCHANGED currencies
       \/ \E r \in table : table' = table \ {r} /\ UNCHANGED <<currencies, added>>
       \/ \E c \in AllCurrencies \ currencies :
             currencies' = currencies \cup {c} /\ UNCHANGED <<table, added>>
       \/ \E c \in currencies : /\ \A r \in table : c \notin Currency(r)
                                /\ currencies' = currencies \ {c}
                                /\ UNCHANGED <<table, added>>
    /\ UNCHANGED reader

\* A client begins to read.
Begin == /\ reader.at \in {"idle", "end", "reported", "broken", "error"}
         /\ writes' = 0
         /\ added' = FALSE
         /\ UNCHANGED <<table, currencies>>

Within(r, range) == range.first <= r.day /\ r.day <= range.last

-----------------------------------------------------------------------------
(* The list.  A filter has the fields of TransactionsFilter, None for what *)
(* is not specified; the pattern is one pattern, given or not.             *)

\* The range of a period, or of both dates; one date alone is ignored.
InPeriod(r, f) ==
    CASE f.period = "current-month"  -> Within(r, ThisMonth)
      [] f.period = "previous-month" -> Within(r, LastMonth)
      [] f.period = None /\ f.first # None /\ f.last # None -> Within(r, f)
      [] OTHER -> TRUE

\* The currency of an exchange is the one received, the value compared with
\* the minimum is the one given; categories leave out costs only, the pattern
\* costs and incomes.
Matches(r, f) ==
    /\ f.mine # None => r.user = f.mine
    /\ f.currency # None => (IF r.op = "exchange" THEN r.to ELSE r.currency) = f.currency
    /\ InPeriod(r, f)
    /\ f.category # None /\ r.op = "cost" => r.cat = f.category
    /\ f.pattern /\ r.op # "exchange" => r.named
    /\ f.min # None => r.value >= f.min
    /\ f.operation # None => r.op = f.operation

\* Mutant: within a day the order is left to the database.
InOrderByDay(r, s) == r.day >= s.day

\* The latest day first, within a day the greatest id.
InOrder(r, s) == r.day > s.day \/ (r.day = s.day /\ r.id >= s.id)

\* The orders the database may return rows in: rows of two tables may have the
\* same day and id.
Orders(rows) ==
    {s \in SetToSeqs(rows) : \A i, j \in 1..Len(s) : i < j => InOrder(s[i], s[j])}

Matching(f) == {r \in table : Matches(r, f)}

ListStart(f) ==
    /\ Begin
    /\ reader' = [at |-> "count", filter |-> f, offset |-> 0, total |-> 0, shown |-> << >>]

ListCount ==
    /\ reader.at = "count"
    /\ reader' = [reader EXCEPT !.at = "page", !.total = Cardinality(Matching(reader.filter))]
    /\ UNCHANGED <<table, currencies, writes, added>>

\* Where the next page begins.
Context(page) == reader.offset + Len(page)

\* The client asks for the next page as long as there is something left; an
\* empty page has nothing left.
ListPage ==
    /\ reader.at = "page"
    /\ \E s \in Orders(Matching(reader.filter)) :
          LET page == SubSeq(s, reader.offset + 1,
                             IF reader.offset + Limit < Len(s)
                             THEN reader.offset + Limit ELSE Len(s))
              left == IF page = << >> THEN 0 ELSE reader.total - Context(page)
          IN reader' = [reader EXCEPT
                          !.at     = IF left > 0 THEN "count" ELSE "end",
                          !.offset = Context(page),
                          !.shown  = @ \o page]
    /\ UNCHANGED <<table, currencies, writes, added>>

-----------------------------------------------------------------------------
(* The report                                                              *)

Rejected == [first |-> 1, last |-> 0]

\* The days of a report, or none for a query that is refused.
Resolved(q) ==
    CASE q.first # None /\ q.last # None ->
            IF q.period # None THEN Rejected ELSE [first |-> q.first, last |-> q.last]
      [] q.pattern /\ q.first = None /\ q.last = None -> ThisMonth
      [] (q.first = None) # (q.last = None) -> Rejected
      [] ~q.pattern /\ q.first = None /\ q.last = None /\ q.period = "current-month" ->
            ThisMonth
      [] ~q.pattern /\ q.first = None /\ q.last = None /\ q.period = "previous-month" ->
            LastMonth
      [] OTHER -> Rejected

\* Mutant: the totals are read after what is divided by them.
TotalsAfter == <<"categories", "costs", "sources", "incomes", "exchanges">>

\* The statements, in the order the connection runs them, and the operation
\* each aggregates.
Statements == <<"costs", "categories", "incomes", "sources", "exchanges">>
Operation  == [costs |-> "cost", categories |-> "cost", incomes |-> "income",
               sources |-> "income", exchanges |-> "exchange"]

\* A pattern leaves out all exchanges.
Selected(statement, q) ==
    {r \in table : /\ r.op = Operation[statement]
                   /\ Within(r, Resolved(q))
                   /\ q.pattern => r.op # "exchange" /\ r.named}

\* The first statement reads the currencies: the blocks of the report.
ReportStart(q) ==
    /\ Begin
    /\ Resolved(q) # Rejected
    /\ reader' = [at |-> "read", query |-> q, blocks |-> currencies, k |-> 1,
                  got |-> [s \in {} |-> {}]]

ReportRead ==
    /\ reader.at = "read"
    /\ reader.k <= Len(Statements)
    /\ LET s == Statements[reader.k]
       IN reader' = [reader EXCEPT !.k = @ + 1,
                       !.got = [t \in DOMAIN @ \cup {s} |->
                                  IF t = s THEN Selected(s, reader.query) ELSE @[t]]]
    /\ UNCHANGED <<table, currencies, writes, added>>

\* DatabaseError.  The six are gathered on one session: if it has to open a
\* connection for the first, the others raise, and any of them may fail.
ReportFails ==
    /\ reader.at = "read"
    /\ reader.k <= Len(Statements)
    /\ reader' = [at |-> "error"]
    /\ UNCHANGED <<table, currencies, writes, added>>

Value == [r \in Rows |-> r.value]
Got   == [r \in Rows |-> r.got]

Values(rows)   == SumFunctionOnSet(Value, rows)
Received(rows) == SumFunctionOnSet(Got, rows)

Of(rows, c) == {r \in rows : r.currency = c}

\* Costs by their category, incomes by their source.
Grouped(rows) == [k \in {r.cat : r \in rows} |-> Values({r \in rows : r.cat = k})]

\* An exchange takes from one currency and adds to another.
FromExchanges(rows, c) == Received({r \in rows : r.to = c}) - Values(Of(rows, c))

\* A row of a currency without a block (KeyError), or costs of a category in a
\* currency of which the total is zero (ZeroDivisionError).
Unassembled(got, blocks) ==
    \/ \E s \in DOMAIN got : \E r \in got[s] : ~(Currency(r) \subseteq blocks)
    \/ \E r \in got["categories"] : Values(Of(got["costs"], r.currency)) = 0

Block(got, c) ==
    [costs      |-> Values(Of(got["costs"], c)),
     categories |-> Grouped(Of(got["categories"], c)),
     incomes    |-> Values(Of(got["incomes"], c)),
     sources    |-> Grouped(Of(got["sources"], c)),
     exchanges  |-> FromExchanges(got["exchanges"], c)]

ReportAssemble ==
    /\ reader.at = "read"
    /\ reader.k > Len(Statements)
    /\ reader' = IF Unassembled(reader.got, reader.blocks) THEN [at |-> "broken"]
                 ELSE [at |-> "reported", query |-> reader.query,
                       blocks |-> [c \in reader.blocks |-> Block(reader.got, c)]]
    /\ UNCHANGED <<table, currencies, writes, added>>

-----------------------------------------------------------------------------
Next ==
    \/ Write
    \/ \E f \in Filters : ListStart(f)
    \/ ListCount \/ ListPage
    \/ \E q \in Queries : ReportStart(q)
    \/ ReportRead \/ ReportFails \/ ReportAssemble

Spec == Init /\ [][Next]_vars

-----------------------------------------------------------------------------
(* Properties                                                              *)

\* A client that follows the pages to the end without a write in between has
\* seen every matching transaction once, the newest first, unless a row of one
\* table has the day and the id of a row of another.
PagesShowEachOnce ==
    LET matching == Matching(reader.filter)
        tied     == \E r, s \in matching : r # s /\ r.day = s.day /\ r.id = s.id
    IN reader.at = "end" /\ writes = 0 /\ ~tied =>
          /\ Len(reader.shown) = Cardinality(matching)
          /\ ToSet(reader.shown) = matching
          /\ \A i, j \in 1..Len(reader.shown) : i < j =>
                LET r == reader.shown[i] s == reader.shown[j]
                IN r.day > s.day \/ (r.day = s.day /\ r.id > s.id)

\* What a row changed the equity of a currency by.
Worth(r, c) ==
    CASE r.op = "cost"   -> -r.value
      [] r.op = "income" -> r.value
      [] r.op = "exchange" -> (IF r.to = c THEN r.got ELSE 0)
                              - (IF r.currency = c THEN r.value ELSE 0)

\* What the rows changed it by, in the days of a query.
Effect(c, q) ==
    SumFunctionOnSet([r \in Rows |-> Worth(r, c)],
                     {r \in table : Within(r, Resolved(q)) /\ c \in Currency(r)})

\* A report whose statements were all answered breaks (KeyError or
\* ZeroDivisionError) only if a transaction was added since the first: whatever
\* was removed, the blocks were read before the rows that need them and the
\* totals before the categories.  If nothing was written, categories add up to
\* the costs, sources to the incomes, and without a pattern incomes, costs and
\* exchanges together are what these days changed the equity by.
ReportIsRight ==
    /\ reader.at = "broken" => added
    /\ reader.at = "reported" /\ writes = 0 =>
          \A c \in DOMAIN reader.blocks :
            LET b == reader.blocks[c]
            IN /\ SumFunction(b.categories) = b.costs
               /\ SumFunction(b.sources) = b.incomes
               /\ ~reader.query.pattern =>
                     b.incomes - b.costs + b.exchanges = Effect(c, reader.query)

=============================================================================
