------------------------------ MODULE Records ------------------------------
(***************************************************************************)
(* Costs, incomes and currency exchanges as far as money is concerned.  A  *)
(* record is a kind, a name (standing for every attribute without money:   *)
(* name, date, category, source) and two LEGS, each a currency and the     *)
(* signed amount by which the record moves that currency's equity.  A cost *)
(* and an income use one leg.                                              *)
(***************************************************************************)
EXTENDS Integers

CONSTANTS
  Currencies,   \* identifiers of currency rows
  Names,        \* what the attributes without money may hold
  None          \* no currency, no record, a field a patch leaves out

Leg(c, n) == [cur |-> c, by |-> n]
Blank     == Leg(None, 0)
NoLegs    == <<Blank, Blank>>

LegSet       == [cur : Currencies \cup {None}, by : Int]
LegPairs     == LegSet \X LegSet
LedgerRecord == [kind : {"cost", "income", "exchange"}, name : Names,
                 legs : LegPairs]

ASSUME NoneAssumption == None \notin Currencies \cup Names \cup LedgerRecord

Cost(n, c, v)   == [kind |-> "cost",   name |-> n, legs |-> <<Leg(c, -v), Blank>>]
Income(n, c, v) == [kind |-> "income", name |-> n, legs |-> <<Leg(c, v), Blank>>]
Exchange(n, from, given, to, received) ==
  [kind |-> "exchange", name |-> n,
   legs |-> <<Leg(from, -given), Leg(to, received)>>]

\* The signed amount a cost or an income of this kind and value stands for.
Signed(kind, v) == IF kind = "cost" THEN -v ELSE v

\* What a pair of legs adds to currency c.
Posted(legs, c) == (IF legs[1].cur = c THEN legs[1].by ELSE 0)
                 + (IF legs[2].cur = c THEN legs[2].by ELSE 0)

\* What the record rec, if there is one, contributes to the equity of c.
Effect(rec, c) == IF rec = None THEN 0 ELSE Posted(rec.legs, c)

Reversed(legs) == <<Leg(legs[1].cur, -legs[1].by), Leg(legs[2].cur, -legs[2].by)>>

CurrenciesOf(legs) == {legs[1].cur, legs[2].cur} \ {None}

=============================================================================
