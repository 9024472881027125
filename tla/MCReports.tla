----------------------------- MODULE MCReports -----------------------------
(* Two costs, two incomes and an exchange in two currencies, on three days; *)
(* a cost and an income share day and id.  Pages of two, and up to two      *)
(* writes while a client reads.                                             *)
EXTENDS Reports

Cost(id, day, currency, value, cat, named) ==
    [op |-> "cost", id |-> id, day |-> day, user |-> 1, currency |-> currency,
     value |-> value, to |-> 0, got |-> 0, cat |-> cat, named |-> named]

Income(id, day, currency, value, cat, named) ==
    [Cost(id, day, currency, value, cat, named) EXCEPT !.op = "income", !.user = 2]

Exchange(id, day, from, given, to, got) ==
    [Cost(id, day, from, given, 0, FALSE) EXCEPT !.op = "exchange", !.to = to, !.got = got]

SomeRows == {
    Cost(1, 1, 1, 2, 1, TRUE), Cost(2, 3, 1, 3, 2, FALSE), Income(1, 1, 1, 4, 1, FALSE),
    Income(2, 2, 2, 1, 2, TRUE), Exchange(1, 3, 1, 2, 2, 5)}

Everything == [mine |-> None, currency |-> None, first |-> None, last |-> None,
               period |-> None, category |-> None, pattern |-> FALSE, min |-> None,
               operation |-> None]

SomeFilters == {
    Everything,
    [Everything EXCEPT !.mine = 1, !.period = "current-month"],
    [Everything EXCEPT !.currency = 1, !.min = 2],
    [Everything EXCEPT !.first = 2, !.last = 3, !.pattern = TRUE],
    [Everything EXCEPT !.first = 2, !.category = 1, !.period = "previous-month"],
    [Everything EXCEPT !.operation = "exchange"]}

Query(first, last, period, pattern) ==
    [first |-> first, last |-> last, period |-> period, pattern |-> pattern]

SomeQueries == {
    Query(1, 3, None, FALSE), Query(2, 3, None, TRUE), Query(None, None, None, TRUE),
    Query(None, None, "current-month", FALSE), Query(None, None, "previous-month", FALSE),
    Query(1, None, None, FALSE), Query(1, 2, "current-month", FALSE)}

FirstMonth  == [first |-> 1, last |-> 1]
SecondMonth == [first |-> 2, last |-> 3]

=============================================================================
